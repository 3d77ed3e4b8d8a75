-------------------------- MODULE Markdown_proofs ---------------------------
(***************************************************************************)
(* Theorems about Markdown: the loop renders what the lines mean, whatever *)
(* the text. In three parts: what Rendered is, which takes induction; what *)
(* one more line changes in the meaning of a text; and the loop, whose     *)
(* invariant says what is rendered while a block or a list is open.        *)
(* Induction and recursion are over sets here, from the library's theorem  *)
(* on minimal elements: a set that holds 0 and, with n, n + 1 holds all    *)
(* numbers; a function that satisfies its equation up to every n exists.   *)
(***************************************************************************)
EXTENDS Markdown, FiniteSetTheorems, SequenceTheorems, WellFoundedInduction, TLAPS

\* Every set of numbers that is not empty has a least one.
LEMMA Least ==
  ASSUME NEW S \in SUBSET Nat, S # {} PROVE \E n \in S : \A m \in S : n <= m
<1> DEFINE R == {ss \in Nat \X Nat : ss[1] < ss[2]}
<1>1. IsWellFoundedOn(R, Nat)
  BY NatLessThanWellFounded DEF OpToRel
<1>2. PICK x \in S : \A y \in S : ~(<<y, x>> \in R)
  BY <1>1, WFMin
<1>3. ASSUME NEW y \in S PROVE x <= y
  <2>1. <<y, x>> \in Nat \X Nat /\ ~(<<y, x>>[1] < <<y, x>>[2])
    BY <1>2, <1>3
  <2> QED BY <2>1
<1> QED BY <1>3

\* Induction, with a set in the place of a predicate.
LEMMA Induction ==
  ASSUME NEW S, 0 \in S, \A n \in Nat : n \in S => n + 1 \in S PROVE \A n \in Nat : n \in S
<1> SUFFICES ASSUME Nat \ S # {} PROVE FALSE
  OBVIOUS
<1>1. PICK n \in Nat \ S : \A m \in Nat \ S : n <= m
  BY Least
<1>2. n # 0 /\ n - 1 \in Nat /\ n - 1 \in S
  BY <1>1
<1> QED BY <1>1, <1>2

Texts == Seq(LineKinds)

LEMMA TokenType ==
  ASSUME NEW tag \in Tags, NEW lines \in Seq(Nat)
  PROVE  Token(tag, lines) \in Tokens /\ <<Token(tag, lines)>> \in Seq(Tokens)
  BY DEF Token, Tokens

LEMMA Grouped ==
  ASSUME NEW r \in Seq(Tokens), NEW p \in Seq(Tokens), NEW q \in Seq(Tokens)
  PROVE  (r \o p) \o q = r \o (p \o q)
  BY ConcatAssociative

LEMMA BlockType ==
  ASSUME NEW text \in Texts, NEW i \in 1..Len(text)
  PROVE  BlockFrom(text, i) \in Seq(Nat)
<1> DEFINE in == {j \in (i + 1)..Len(text) : \A l \in (i + 1)..j : text[l] # "fence"}
<1>1. Len(text) \in Nat /\ i \in Nat
  BY DEF Texts
<1>2. IsFiniteSet((i + 1)..Len(text))
  BY <1>1, FS_Interval
<1>3. IsFiniteSet(in)
  BY <1>2, FS_Subset
<1>4. Cardinality(in) \in Nat
  BY <1>3, FS_CardinalityType
<1>5. PICK c \in Nat : c = Cardinality(in)
  BY <1>4
<1>6. [j \in 1..c |-> i + j] \in Seq(Nat)
  BY <1>1
<1> HIDE DEF in
<1>7. BlockFrom(text, i) = [j \in 1..c |-> i + j]
  BY <1>5 DEF BlockFrom, in
<1> QED BY <1>6, <1>7

LEMMA PieceIs ==
  ASSUME NEW text, NEW i
  PROVE  /\ InCodeAt(text, i) => Piece(text, i) = <<>>
         /\ ~InCodeAt(text, i) /\ text[i] = "fence"
              => Piece(text, i) = <<Token("pre", BlockFrom(text, i))>>
         /\ IsItem(text, i) => Piece(text, i) =
              (IF IsItem(text, i - 1) THEN <<>> ELSE <<Token("ul", <<>>)>>)
                \o <<Token("li", <<i>>)>>
                \o (IF IsItem(text, i + 1) THEN <<>> ELSE <<Token("/ul", <<>>)>>)
         /\ i \in DOMAIN text /\ ~InCodeAt(text, i) /\ text[i] \notin {"fence", "item"}
              => Piece(text, i) = <<Token(BlockTag[text[i]], <<i>>)>>
<1>1. IsItem(text, i) => ~InCodeAt(text, i) /\ text[i] # "fence"
  BY DEF IsItem
<1>2. text[i] \notin {"fence", "item"} => text[i] # "fence" /\ ~IsItem(text, i)
  BY DEF IsItem
<1> QED BY <1>1, <1>2 DEF Piece

LEMMA PieceType ==
  ASSUME NEW text \in Texts, NEW i \in 1..Len(text)
  PROVE  Piece(text, i) \in Seq(Tokens)
<1>1. <<>> \in Seq(Tokens) /\ <<>> \in Seq(Nat) /\ <<i>> \in Seq(Nat) /\ i \in DOMAIN text
      /\ text[i] \in LineKinds
  BY DEF Texts
<1>2. CASE InCodeAt(text, i)
  BY <1>1, <1>2, PieceIs
<1>3. CASE ~InCodeAt(text, i) /\ text[i] = "fence"
  <2>1. BlockFrom(text, i) \in Seq(Nat) /\ "pre" \in Tags
    BY BlockType DEF Tags
  <2>2. Piece(text, i) = <<Token("pre", BlockFrom(text, i))>>
    BY <1>3, PieceIs
  <2> QED BY <2>1, <2>2, TokenType
<1>4. CASE IsItem(text, i)
  <2> DEFINE o == IF IsItem(text, i - 1) THEN <<>> ELSE <<Token("ul", <<>>)>>
             c == IF IsItem(text, i + 1) THEN <<>> ELSE <<Token("/ul", <<>>)>>
  <2>1. o \in Seq(Tokens) /\ c \in Seq(Tokens) /\ <<Token("li", <<i>>)>> \in Seq(Tokens)
    BY <1>1, TokenType DEF Tags
  <2>2. Piece(text, i) = o \o <<Token("li", <<i>>)>> \o c
    BY <1>4, PieceIs
  <2> HIDE DEF o, c
  <2> QED BY <2>1, <2>2, ConcatProperties
<1>5. CASE ~InCodeAt(text, i) /\ text[i] \notin {"fence", "item"}
  <2>1. BlockTag[text[i]] \in Tags
    BY <1>1, <1>5 DEF BlockTag, Tags, LineKinds
  <2>2. Piece(text, i) = <<Token(BlockTag[text[i]], <<i>>)>>
    BY <1>1, <1>5, PieceIs
  <2> QED BY <1>1, <2>1, <2>2, TokenType
<1> QED BY <1>1, <1>2, <1>3, <1>4, <1>5 DEF IsItem

\* The recursive function of Rendered exists, so that it satisfies its equation.
LEMMA RenderedExists ==
  ASSUME NEW text \in Texts
  PROVE  \E f : f = [i \in 0..Len(text) |-> IF i = 0 THEN <<>> ELSE f[i - 1] \o Piece(text, i)]
<1> DEFINE Holds(n, g) == g = [i \in 0..n |-> IF i = 0 THEN <<>> ELSE g[i - 1] \o Piece(text, i)]
           S == {n \in Nat : \E g : Holds(n, g)}
<1>1. 0 \in S
  <2>1. Holds(0, [i \in 0..0 |-> <<>>])
    OBVIOUS
  <2> QED BY <2>1
<1>2. ASSUME NEW n \in Nat, n \in S PROVE n + 1 \in S
  <2>1. PICK g : Holds(n, g)
    BY <1>2
  <2> DEFINE h == [i \in 0..(n + 1) |-> IF i = n + 1 THEN g[n] \o Piece(text, n + 1) ELSE g[i]]
  <2>2. ASSUME NEW i \in 0..(n + 1)
        PROVE  h[i] = IF i = 0 THEN <<>> ELSE h[i - 1] \o Piece(text, i)
    <3>1. CASE i = n + 1
      <4>1. i # 0 /\ i - 1 = n /\ n \in 0..(n + 1) /\ n # n + 1
        BY <3>1
      <4>2. h[i - 1] = g[n]
        BY <4>1
      <4>3. h[i] = g[n] \o Piece(text, n + 1)
        BY <3>1
      <4> HIDE DEF h
      <4> QED BY <3>1, <4>1, <4>2, <4>3
    <3>2. CASE i # n + 1
      <4>1. i \in 0..n /\ h[i] = g[i]
        BY <3>2
      <4>2. i # 0 => i - 1 \in 0..(n + 1) /\ i - 1 # n + 1 /\ h[i - 1] = g[i - 1]
        BY <3>2
      <4>3. g[i] = IF i = 0 THEN <<>> ELSE g[i - 1] \o Piece(text, i)
        BY <2>1, <4>1, Zenon
      <4> HIDE DEF h
      <4> QED BY <4>1, <4>2, <4>3
    <3> QED BY <3>1, <3>2
  <2>3. h = [i \in 0..(n + 1) |-> h[i]]
    OBVIOUS
  <2> HIDE DEF h
  <2>4. Holds(n + 1, h)
    BY <2>2, <2>3, Zenon
  <2>5. \E f : Holds(n + 1, f)
    BY <2>4
  <2>6. n + 1 \in Nat
    OBVIOUS
  <2> HIDE DEF Holds
  <2> QED BY <2>5, <2>6
<1>3. Len(text) \in Nat
  BY DEF Texts
<1> HIDE DEF S
<1>4. Len(text) \in S
  BY <1>1, <1>2, <1>3, Induction
<1> QED BY <1>4 DEF S

LEMMA RenderedIs ==
  ASSUME NEW text \in Texts
  PROVE  Rendered(text) = [i \in 0..Len(text) |->
                             IF i = 0 THEN <<>> ELSE Rendered(text)[i - 1] \o Piece(text, i)]
  BY RenderedExists, Zenon DEF Rendered

LEMMA RenderedAt ==
  ASSUME NEW text \in Texts
  PROVE  /\ Rendered(text)[0] = <<>>
         /\ \A i \in 1..Len(text) : Rendered(text)[i] = Rendered(text)[i - 1] \o Piece(text, i)
         /\ \A i \in 0..Len(text) : Rendered(text)[i] \in Seq(Tokens)
<1> DEFINE f == Rendered(text)
           S == {i \in Nat : i <= Len(text) => f[i] \in Seq(Tokens)}
<1>1. Len(text) \in Nat
  BY DEF Texts
<1>2. f = [i \in 0..Len(text) |-> IF i = 0 THEN <<>> ELSE f[i - 1] \o Piece(text, i)]
  BY RenderedIs
<1> HIDE DEF f
<1>3. f[0] = <<>> /\ \A i \in 1..Len(text) : f[i] = f[i - 1] \o Piece(text, i)
  <2>1. \A i \in 0..Len(text) : f[i] = IF i = 0 THEN <<>> ELSE f[i - 1] \o Piece(text, i)
    BY <1>2, Zenon
  <2>2. 0 \in 0..Len(text) /\ \A i \in 1..Len(text) : i \in 0..Len(text) /\ i # 0
    BY <1>1
  <2> QED BY <2>1, <2>2, Zenon
<1>4. 0 \in S
  <2>1. <<>> \in Seq(Tokens)
    OBVIOUS
  <2> QED BY <1>3, <2>1
<1>5. ASSUME NEW n \in Nat, n \in S PROVE n + 1 \in S
  <2>1. CASE n + 1 <= Len(text)
    <3>1. n + 1 \in 1..Len(text) /\ (n + 1) - 1 = n /\ f[n] \in Seq(Tokens)
      BY <1>1, <1>5, <2>1
    <3>2. Piece(text, n + 1) \in Seq(Tokens)
      BY <3>1, PieceType
    <3>3. f[n + 1] = f[n] \o Piece(text, n + 1)
      BY <1>3, <3>1
    <3>4. f[n + 1] \in Seq(Tokens)
      BY <3>1, <3>2, <3>3, ConcatProperties
    <3> QED BY <3>4
  <2> QED BY <2>1
<1> HIDE DEF S
<1>6. \A n \in Nat : n \in S
  BY <1>4, <1>5, Induction
<1>7. \A i \in 0..Len(text) : f[i] \in Seq(Tokens)
  BY <1>1, <1>6 DEF S
<1> QED BY <1>3, <1>7 DEF f

\* Texts whose first k lines have the same pieces render to the same up to there.
LEMMA RenderedSame ==
  ASSUME NEW a \in Texts, NEW b \in Texts, NEW k \in Nat, k <= Len(a), k <= Len(b),
         \A i \in 1..k : Piece(a, i) = Piece(b, i)
  PROVE  Rendered(a)[k] = Rendered(b)[k]
<1> DEFINE S == {i \in Nat : i <= k => Rendered(a)[i] = Rendered(b)[i]}
<1>1. Len(a) \in Nat /\ Len(b) \in Nat
  BY DEF Texts
<1>2. 0 \in S
  BY RenderedAt
<1>3. ASSUME NEW n \in Nat, n \in S PROVE n + 1 \in S
  <2>1. CASE n + 1 <= k
    <3>1. /\ n + 1 \in 1..Len(a) /\ n + 1 \in 1..Len(b) /\ n + 1 \in 1..k /\ (n + 1) - 1 = n
          /\ Rendered(a)[n] = Rendered(b)[n]
      BY <1>1, <1>3, <2>1
    <3>2. Rendered(a)[n + 1] = Rendered(b)[n + 1]
      BY <3>1, RenderedAt
    <3> QED BY <3>2
  <2> QED BY <2>1
<1> HIDE DEF S
<1>4. k \in S
  BY <1>2, <1>3, Induction
<1> QED BY <1>4 DEF S

\* Lines that have no piece add nothing.
LEMMA RenderedSkips ==
  ASSUME NEW text \in Texts, NEW o \in Nat, o <= Len(text),
         \A i \in (o + 1)..Len(text) : Piece(text, i) = <<>>
  PROVE  Rendered(text)[Len(text)] = Rendered(text)[o]
<1> DEFINE S == {d \in Nat : o + d <= Len(text) => Rendered(text)[o + d] = Rendered(text)[o]}
<1>1. Len(text) \in Nat /\ Len(text) - o \in Nat /\ o + (Len(text) - o) = Len(text)
  BY DEF Texts
<1>2. 0 \in S
  OBVIOUS
<1>3. ASSUME NEW n \in Nat, n \in S PROVE n + 1 \in S
  <2>1. CASE o + (n + 1) <= Len(text)
    <3>1. /\ o + (n + 1) \in 1..Len(text) /\ o + (n + 1) \in (o + 1)..Len(text)
          /\ (o + (n + 1)) - 1 = o + n /\ o + n \in 0..Len(text)
          /\ Rendered(text)[o + n] = Rendered(text)[o]
      BY <1>1, <1>3, <2>1
    <3>2. Rendered(text)[o + (n + 1)] = Rendered(text)[o + n] \o <<>>
      BY <3>1, RenderedAt
    <3>3. Rendered(text)[o + n] \in Seq(Tokens)
      BY <3>1, RenderedAt
    <3>4. Rendered(text)[o + (n + 1)] = Rendered(text)[o + n]
      BY <3>2, <3>3, ConcatEmptySeq
    <3> QED BY <3>1, <3>4
  <2> QED BY <2>1
<1> HIDE DEF S
<1>4. Len(text) - o \in S
  BY <1>1, <1>2, <1>3, Induction
<1> QED BY <1>1, <1>4 DEF S

-----------------------------------------------------------------------------
\* The fences before line i, and what an appended line changes.

LEMMA FencesFinite ==
  ASSUME NEW text, NEW i \in Nat \ {0}
  PROVE  /\ IsFiniteSet({j \in 1..(i - 1) : text[j] = "fence"})
         /\ Cardinality({j \in 1..(i - 1) : text[j] = "fence"}) \in Nat
<1>1. i - 1 \in Int /\ IsFiniteSet(1..(i - 1))
  BY FS_Interval
<1>2. IsFiniteSet({j \in 1..(i - 1) : text[j] = "fence"})
  BY <1>1, FS_Subset
<1> QED BY <1>2, FS_CardinalityType

LEMMA Odd == ASSUME NEW c \in Nat PROVE (c + 1) % 2 = 1 <=> ~(c % 2 = 1)
  OBVIOUS

\* A fence opens or closes a block, other lines do neither.
LEMMA InCodeNext ==
  ASSUME NEW text, NEW i \in Nat \ {0}
  PROVE  InCodeAt(text, i + 1) <=> (InCodeAt(text, i) <=> text[i] # "fence")
<1> DEFINE before == {j \in 1..(i - 1) : text[j] = "fence"}
           upto   == {j \in 1..((i + 1) - 1) : text[j] = "fence"}
<1>1. IsFiniteSet(before) /\ Cardinality(before) \in Nat
  BY FencesFinite
<1>2. i \notin before
  OBVIOUS
<1>3. CASE text[i] = "fence"
  <2>1. upto = before \cup {i}
    BY <1>3
  <2> HIDE DEF before, upto
  <2>2. Cardinality(upto) = Cardinality(before) + 1
    BY <1>1, <1>2, <2>1, FS_AddElement
  <2>3. Cardinality(upto) % 2 = 1 <=> ~(Cardinality(before) % 2 = 1)
    BY <1>1, <2>2, Odd
  <2> QED BY <1>3, <2>3 DEF InCodeAt, before, upto
<1>4. CASE text[i] # "fence"
  <2>1. upto = before
    BY <1>4
  <2> HIDE DEF before, upto
  <2> QED BY <1>4, <2>1 DEF InCodeAt, before, upto
<1> QED BY <1>3, <1>4

\* Without a fence from line a to line b nothing opens or closes in between.
LEMMA InCodeStays ==
  ASSUME NEW text, NEW a \in Nat \ {0}, NEW b \in Nat, a <= b,
         \A j \in a..(b - 1) : text[j] # "fence"
  PROVE  InCodeAt(text, b) <=> InCodeAt(text, a)
<1>1. {j \in 1..(b - 1) : text[j] = "fence"} = {j \in 1..(a - 1) : text[j] = "fence"}
  OBVIOUS
<1> QED BY <1>1 DEF InCodeAt

LEMMA Appended ==
  ASSUME NEW text \in Texts, NEW kind \in LineKinds
  PROVE  LET longer == Append(text, kind) IN
         /\ longer \in Texts /\ Len(longer) = Len(text) + 1 /\ Len(text) \in Nat
         /\ DOMAIN longer = 1..(Len(text) + 1) /\ DOMAIN text = 1..Len(text)
         /\ longer[Len(text) + 1] = kind
         /\ \A i \in 1..Len(text) : longer[i] = text[i]
  BY DEF Texts

LEMMA InCodeAppended ==
  ASSUME NEW text \in Texts, NEW kind \in LineKinds, NEW i \in 1..(Len(text) + 1)
  PROVE  InCodeAt(Append(text, kind), i) <=> InCodeAt(text, i)
<1>1. {j \in 1..(i - 1) : Append(text, kind)[j] = "fence"} = {j \in 1..(i - 1) : text[j] = "fence"}
  BY Appended
<1> QED BY <1>1 DEF InCodeAt

LEMMA BlockOpen ==
  ASSUME NEW text \in Texts, NEW o \in 1..Len(text),
         \A j \in (o + 1)..Len(text) : text[j] # "fence"
  PROVE  BlockFrom(text, o) = [j \in 1..(Len(text) - o) |-> o + j]
<1> DEFINE in == {j \in (o + 1)..Len(text) : \A l \in (o + 1)..j : text[l] # "fence"}
<1>1. Len(text) \in Nat /\ o + 1 <= Len(text) + 1
  BY DEF Texts
<1>2. in = (o + 1)..Len(text)
  BY <1>1
<1>3. Cardinality((o + 1)..Len(text)) = Len(text) - o
  <2>1. o + 1 \in Int /\ Len(text) \in Int
    BY <1>1
  <2>2. CASE o + 1 > Len(text)
    <3>1. (o + 1)..Len(text) = {} /\ Len(text) - o = 0
      BY <1>1, <2>2
    <3> QED BY <3>1, FS_EmptySet
  <2>3. CASE o + 1 <= Len(text)
    BY <1>1, <2>1, <2>3, FS_Interval
  <2> QED BY <1>1, <2>2, <2>3
<1> HIDE DEF in
<1> QED BY <1>2, <1>3 DEF BlockFrom, in

\* A block that was closed, or is being closed, does not grow.
LEMMA BlockAppended ==
  ASSUME NEW text \in Texts, NEW kind \in LineKinds, NEW i \in 1..Len(text),
         kind = "fence" \/ \E c \in (i + 1)..Len(text) : text[c] = "fence"
  PROVE  BlockFrom(Append(text, kind), i) = BlockFrom(text, i)
<1> DEFINE longer == Append(text, kind)
<1>1. /\ Len(longer) = Len(text) + 1 /\ Len(text) \in Nat
      /\ longer[Len(text) + 1] = kind
      /\ \A j \in 1..Len(text) : longer[j] = text[j]
  BY Appended
<1> HIDE DEF longer
<1>2. {j \in (i + 1)..Len(longer) : \A l \in (i + 1)..j : longer[l] # "fence"}
        = {j \in (i + 1)..Len(text) : \A l \in (i + 1)..j : text[l] # "fence"}
  <2>1. ASSUME NEW j \in (i + 1)..Len(text)
        PROVE  \A l \in (i + 1)..j : l \in 1..Len(text) /\ longer[l] = text[l]
    BY <1>1
  <2>2. \E l \in (i + 1)..Len(longer) : longer[l] = "fence"
    BY <1>1
  <2> QED BY <1>1, <2>1, <2>2
<1> QED BY <1>2 DEF BlockFrom, longer

LEMMA ItemAppended ==
  ASSUME NEW text \in Texts, NEW kind \in LineKinds
  PROVE  /\ \A i \in 0..Len(text) : IsItem(Append(text, kind), i) <=> IsItem(text, i)
         /\ IsItem(Append(text, kind), Len(text) + 1)
              <=> kind = "item" /\ ~InCodeAt(text, Len(text) + 1)
         /\ ~IsItem(text, Len(text) + 1) /\ ~IsItem(text, 0)
  BY Appended, InCodeAppended DEF IsItem

\* Only an open list and an open block change when a line is appended.
LEMMA PieceAppended ==
  ASSUME NEW text \in Texts, NEW kind \in LineKinds, NEW i \in 1..Len(text),
         ~(kind = "item" /\ i = Len(text) /\ IsItem(text, i)),
         text[i] = "fence" /\ ~InCodeAt(text, i) =>
           kind = "fence" \/ \E c \in (i + 1)..Len(text) : text[c] = "fence"
  PROVE  Piece(Append(text, kind), i) = Piece(text, i)
<1> DEFINE longer == Append(text, kind)
<1>1. /\ InCodeAt(longer, i) <=> InCodeAt(text, i)
      /\ longer[i] = text[i] /\ i \in DOMAIN longer /\ i \in DOMAIN text
      /\ Len(text) \in Nat
  BY Appended, InCodeAppended
<1>2. IsItem(longer, i) <=> IsItem(text, i)
  BY ItemAppended, <1>1
<1>3. CASE InCodeAt(text, i)
  BY <1>1, <1>3, PieceIs
<1>4. CASE ~InCodeAt(text, i) /\ text[i] = "fence"
  BY <1>1, <1>4, PieceIs, BlockAppended
<1>5. CASE IsItem(text, i)
  <2>1. IsItem(longer, i - 1) <=> IsItem(text, i - 1)
    BY ItemAppended, <1>1
  <2>2. IsItem(longer, i + 1) <=> IsItem(text, i + 1)
    <3>1. CASE i = Len(text)
      BY <1>1, <1>5, <3>1, ItemAppended
    <3>2. CASE i # Len(text)
      BY <1>1, <3>2, ItemAppended
    <3> QED BY <3>1, <3>2
  <2> QED BY <1>2, <1>5, <2>1, <2>2, PieceIs
<1>6. CASE ~InCodeAt(text, i) /\ text[i] \notin {"fence", "item"}
  BY <1>1, <1>6, PieceIs
<1> QED BY <1>1, <1>3, <1>4, <1>5, <1>6 DEF IsItem

\* Where no block is open, each that was opened has been closed.
LEMMA BlockClosed ==
  ASSUME NEW text \in Texts, NEW i \in 1..Len(text), text[i] = "fence", ~InCodeAt(text, i),
         ~InCodeAt(text, Len(text) + 1)
  PROVE  \E c \in (i + 1)..Len(text) : text[c] = "fence"
<1>1. Len(text) \in Nat /\ i \in Nat \ {0} /\ i + 1 \in Nat \ {0} /\ Len(text) + 1 \in Nat
      /\ i + 1 <= Len(text) + 1 /\ (Len(text) + 1) - 1 = Len(text)
  BY DEF Texts
<1>2. InCodeAt(text, i + 1)
  BY <1>1, InCodeNext
<1> QED BY <1>1, <1>2, InCodeStays
-----------------------------------------------------------------------------
\* The loop

\* A block is open since line o: its lines are in mdCode, what was before it is
\* rendered.
OpenBlock(o) ==
  /\ o \in 1..Len(mdLines) /\ mdLines[o] = "fence" /\ ~InCodeAt(mdLines, o)
  /\ \A j \in (o + 1)..Len(mdLines) : mdLines[j] # "fence"
  /\ mdCode = BlockFrom(mdLines, o)
  /\ mdOut = Rendered(mdLines)[o - 1]

\* What the last line of text, an item, adds while its list is open.
OpenItem(text) ==
  (IF IsItem(text, Len(text) - 1) THEN <<>> ELSE <<Token("ul", <<>>)>>)
    \o <<Token("li", <<Len(text)>>)>>

\* The flags say what the lines read so far say; what is rendered is their
\* meaning, but for the block or the end of the list that is still to come.
LoopInv ==
  /\ mdInCode <=> InCodeAt(mdLines, Len(mdLines) + 1)
  /\ mdInList <=> IsItem(mdLines, Len(mdLines))
  /\ mdInCode => \E o \in Nat : OpenBlock(o)
  /\ mdInList => mdOut = Rendered(mdLines)[Len(mdLines) - 1] \o OpenItem(mdLines)
  /\ ~mdInCode /\ ~mdInList => mdOut = Rendered(mdLines)[Len(mdLines)]
MarkdownInv == MarkdownTypeOK /\ (~mdDone => LoopInv) /\ RendersAll

LEMMA MarkdownInitially == MarkdownInit => MarkdownInv
<1> SUFFICES ASSUME MarkdownInit PROVE MarkdownInv
  OBVIOUS
<1> USE DEF MarkdownInit
<1>1. MarkdownTypeOK /\ mdLines \in Texts /\ Len(mdLines) = 0
  <2>1. <<>> \in Seq(LineKinds) /\ <<>> \in Seq(Tokens) /\ <<>> \in Seq(Nat)
    OBVIOUS
  <2> QED BY <2>1 DEF MarkdownTypeOK, Texts
<1>2. ~InCodeAt(mdLines, 1)
  <2>1. {j \in 1..(1 - 1) : mdLines[j] = "fence"} = {}
    OBVIOUS
  <2>2. Cardinality({}) = 0
    BY FS_EmptySet
  <2> QED BY <2>1, <2>2 DEF InCodeAt
<1>3. ~IsItem(mdLines, 0)
  BY <1>1 DEF IsItem
<1>4. mdOut = Rendered(mdLines)[0]
  BY <1>1, RenderedAt
<1> QED BY <1>1, <1>2, <1>3, <1>4 DEF MarkdownInv, LoopInv, RendersAll

\* What is rendered so far, if no block is open, once the list is closed.
LEMMA FlushedIs ==
  ASSUME MarkdownInv, ~mdDone, ~mdInCode
  PROVE  FlushList(mdOut) = Rendered(mdLines)[Len(mdLines)]
<1>1. mdLines \in Texts /\ LoopInv /\ mdInList \in BOOLEAN
  BY DEF MarkdownInv, MarkdownTypeOK, Texts
<1>2. CASE ~mdInList
  BY <1>1, <1>2 DEF LoopInv, FlushList
<1>3. CASE mdInList
  <2> DEFINE n == Len(mdLines)
             r == Rendered(mdLines)[n - 1]
             q == <<Token("/ul", <<>>)>>
  <2>1. IsItem(mdLines, n) /\ n \in 1..Len(mdLines) /\ mdOut = r \o OpenItem(mdLines)
    BY <1>1, <1>3 DEF LoopInv, IsItem, Texts
  <2>2. r \in Seq(Tokens) /\ OpenItem(mdLines) \in Seq(Tokens) /\ q \in Seq(Tokens)
    <3>1. n - 1 \in 0..Len(mdLines)
      BY <1>1, <2>1 DEF Texts
    <3>2. <<>> \in Seq(Tokens) /\ <<Token("ul", <<>>)>> \in Seq(Tokens) /\ q \in Seq(Tokens)
          /\ <<Token("li", <<n>>)>> \in Seq(Tokens)
      <4>1. <<>> \in Seq(Nat) /\ <<n>> \in Seq(Nat) /\ <<>> \in Seq(Tokens)
        BY <2>1
      <4> QED BY <4>1, TokenType DEF Tags
    <3> QED BY <1>1, <3>1, <3>2, RenderedAt, ConcatProperties DEF OpenItem
  <2>3. Piece(mdLines, n) = OpenItem(mdLines) \o q
    <3>1. ~IsItem(mdLines, n + 1)
      BY <1>1, ItemAppended DEF LineKinds
    <3> QED BY <2>1, <3>1, PieceIs DEF OpenItem
  <2>4. Rendered(mdLines)[n] = r \o Piece(mdLines, n)
    BY <1>1, <2>1, RenderedAt
  <2>5. FlushList(mdOut) = (r \o OpenItem(mdLines)) \o q
    <3>1. r \o OpenItem(mdLines) \in Seq(Tokens) /\ Token("/ul", <<>>) \in Tokens
      <4>1. <<>> \in Seq(Nat)
        OBVIOUS
      <4> QED BY <4>1, <2>2, ConcatProperties, TokenType DEF Tags
    <3> HIDE DEF r, q
    <3>2. FlushList(mdOut) = Append(r \o OpenItem(mdLines), Token("/ul", <<>>))
      BY <1>3, <2>1 DEF FlushList
    <3> QED BY <3>1, <3>2, AppendIsConcat DEF q
  <2> HIDE DEF r, q
  <2>6. (r \o OpenItem(mdLines)) \o q = r \o (OpenItem(mdLines) \o q)
    BY <2>2, ConcatAssociative
  <2> QED BY <2>3, <2>4, <2>5, <2>6
<1> QED BY <1>1, <1>2, <1>3

\* Outside blocks a line that continues no list leaves the pieces before it alone.
LEMMA PiecesKept ==
  ASSUME NEW text \in Texts, NEW kind \in LineKinds, ~InCodeAt(text, Len(text) + 1),
         NEW k \in 0..Len(text), k < Len(text) \/ kind # "item" \/ ~IsItem(text, Len(text))
  PROVE  Rendered(Append(text, kind))[k] = Rendered(text)[k]
<1>1. /\ Append(text, kind) \in Texts /\ Len(Append(text, kind)) = Len(text) + 1
      /\ Len(text) \in Nat
  BY Appended
<1>2. ASSUME NEW i \in 1..k PROVE Piece(Append(text, kind), i) = Piece(text, i)
  <2>1. i \in 1..Len(text) /\ ~(kind = "item" /\ i = Len(text) /\ IsItem(text, i))
    BY <1>1
  <2> QED BY <2>1, BlockClosed, PieceAppended
<1>3. k \in Nat /\ k <= Len(text) /\ k <= Len(Append(text, kind))
  BY <1>1
<1> QED BY <1>1, <1>2, <1>3, RenderedSame

LEMMA ReadsType ==
  ASSUME MarkdownInv, NEW kind \in LineKinds, Reads(kind)
  PROVE  /\ mdLines' = Append(mdLines, kind) /\ mdLines \in Texts /\ mdLines' \in Texts
         /\ Len(mdLines) \in Nat /\ Len(mdLines') = Len(mdLines) + 1 /\ Here = Len(mdLines')
         /\ mdLines' \in Seq(LineKinds)
         /\ InCodeAt(mdLines', Len(mdLines'))  <=> InCodeAt(mdLines, Len(mdLines) + 1)
         /\ mdLines'[Len(mdLines')] = kind
         /\ ~mdDone /\ LoopInv
<1>1. mdLines \in Texts /\ mdLines' = Append(mdLines, kind) /\ ~mdDone /\ LoopInv
  BY DEF MarkdownInv, MarkdownTypeOK, Texts, Reads
<1> QED BY <1>1, Appended, InCodeAppended DEF Here, Texts

LEMMA OpenFenceStep == ASSUME MarkdownInv, OpenFence PROVE MarkdownInv'
<1>0. PICK n, m, t : n = Len(mdLines) /\ m = n + 1 /\ t = mdLines'
  OBVIOUS
<1> USE <1>0
<1>1. Reads("fence") /\ "fence" \in LineKinds /\ ~mdInCode
      /\ mdInCode' = TRUE /\ mdCode' = <<>> /\ mdOut' = FlushList(mdOut) /\ mdInList' = FALSE
      /\ mdDone' = mdDone
  BY DEF OpenFence, LineKinds
<1>2. /\ t = Append(mdLines, "fence") /\ mdLines \in Texts /\ t \in Texts
      /\ n \in Nat /\ m \in Nat \ {0} /\ m \in 1..Len(t) /\ n \in 0..Len(t) /\ Len(t) = m
      /\ t \in Seq(LineKinds)
      /\ ~InCodeAt(t, m) /\ ~InCodeAt(mdLines, m)
      /\ t[m] = "fence" /\ ~mdDone
  BY <1>1, ReadsType DEF LoopInv
<1>3. InCodeAt(t, m + 1)
  BY <1>2, InCodeNext
<1>4. ~IsItem(t, m)
  BY <1>2 DEF IsItem
<1>5. mdOut' = Rendered(t)[n]
  BY <1>1, <1>2, FlushedIs, PiecesKept
<1>6. mdCode' = BlockFrom(t, m)
  <2>1. \A j \in (m + 1)..Len(t) : t[j] # "fence"
    BY <1>2
  <2>2. BlockFrom(t, m) = [j \in 1..(Len(t) - m) |-> m + j]
    BY <1>2, <2>1, BlockOpen
  <2>3. Len(t) - m = 0 /\ [j \in 1..0 |-> m + j] = <<>>
    BY <1>2
  <2> QED BY <1>1, <2>2, <2>3
<1>7. OpenBlock(m)'
  BY <1>2, <1>5, <1>6 DEF OpenBlock
<1>8. MarkdownTypeOK'
  <2>1. <<>> \in Seq(Nat)
    OBVIOUS
  <2>2. Rendered(t)[n] \in Seq(Tokens)
    BY <1>2, RenderedAt
  <2> QED BY <1>1, <1>2, <1>5, <2>1, <2>2 DEF MarkdownTypeOK, MarkdownInv
<1>9. LoopInv'
  BY <1>1, <1>2, <1>3, <1>4, <1>7 DEF LoopInv
<1> QED BY <1>1, <1>2, <1>8, <1>9 DEF MarkdownInv, RendersAll

\* In a block only its own piece grows.
LEMMA BlockKept ==
  ASSUME NEW text \in Texts, NEW kind \in LineKinds, NEW o \in 1..Len(text),
         text[o] = "fence", ~InCodeAt(text, o), NEW k \in 0..Len(text),
         k < o \/ kind = "fence", IsItem(text, Len(text)) => kind # "item"
  PROVE  Rendered(Append(text, kind))[k] = Rendered(text)[k]
<1>1. /\ Append(text, kind) \in Texts /\ Len(Append(text, kind)) = Len(text) + 1
      /\ Len(text) \in Nat
  BY Appended
<1>2. ASSUME NEW i \in 1..k PROVE Piece(Append(text, kind), i) = Piece(text, i)
  <2>1. i \in 1..Len(text)
    BY <1>1
  <2>2. ~(kind = "item" /\ i = Len(text) /\ IsItem(text, i))
    OBVIOUS
  <2>3. kind = "fence" \/ o \in (i + 1)..Len(text)
    BY <1>1
  <2> QED BY <2>1, <2>2, <2>3, PieceAppended
<1>3. k \in Nat /\ k <= Len(text) /\ k <= Len(Append(text, kind))
  BY <1>1
<1> QED BY <1>1, <1>2, <1>3, RenderedSame

\* With its block closed, what is rendered is all of the text.
LEMMA BlockPushed ==
  ASSUME MarkdownInv, ~mdDone, mdInCode
  PROVE  /\ Append(mdOut, Token("pre", mdCode)) = Rendered(mdLines)[Len(mdLines)]
         /\ ~mdInList
<1>1. mdLines \in Texts /\ LoopInv /\ mdOut \in Seq(Tokens) /\ mdCode \in Seq(Nat)
  BY DEF MarkdownInv, MarkdownTypeOK, Texts
<1>2. PICK o \in Nat : OpenBlock(o)
  BY <1>1 DEF LoopInv
<1>3. Len(mdLines) \in Nat /\ o \in 1..Len(mdLines) /\ o \in Nat \ {0}
  BY <1>1, <1>2 DEF OpenBlock, Texts
<1>4. InCodeAt(mdLines, o + 1)
  BY <1>2, <1>3, InCodeNext DEF OpenBlock
<1>5. ASSUME NEW i \in (o + 1)..Len(mdLines) PROVE Piece(mdLines, i) = <<>> /\ InCodeAt(mdLines, i)
  <2>1. i \in Nat /\ o + 1 \in Nat \ {0} /\ o + 1 <= i
        /\ \A j \in (o + 1)..(i - 1) : mdLines[j] # "fence"
    BY <1>2, <1>3 DEF OpenBlock
  <2>2. InCodeAt(mdLines, i)
    BY <1>4, <2>1, InCodeStays
  <2> QED BY <2>2, PieceIs
<1>6. Rendered(mdLines)[Len(mdLines)] = Rendered(mdLines)[o]
  BY <1>1, <1>3, <1>5, RenderedSkips
<1>7. Rendered(mdLines)[o] = Rendered(mdLines)[o - 1] \o <<Token("pre", BlockFrom(mdLines, o))>>
  BY <1>1, <1>2, <1>3, RenderedAt, PieceIs DEF OpenBlock
<1>8. Append(mdOut, Token("pre", mdCode)) = mdOut \o <<Token("pre", mdCode)>>
  <2>1. Token("pre", mdCode) \in Tokens
    BY <1>1, TokenType DEF Tags
  <2> QED BY <1>1, <2>1, AppendIsConcat
<1>9. ~IsItem(mdLines, Len(mdLines))
  <2>1. CASE o = Len(mdLines)
    BY <1>2, <2>1 DEF OpenBlock, IsItem
  <2>2. CASE o # Len(mdLines)
    BY <1>3, <1>5, <2>2 DEF IsItem
  <2> QED BY <2>1, <2>2
<1> QED BY <1>1, <1>2, <1>6, <1>7, <1>8, <1>9 DEF OpenBlock, LoopInv

LEMMA CloseFenceStep == ASSUME MarkdownInv, CloseFence PROVE MarkdownInv'
<1>0. PICK n, m, t : n = Len(mdLines) /\ m = n + 1 /\ t = mdLines'
  OBVIOUS
<1> USE <1>0
<1>1. Reads("fence") /\ "fence" \in LineKinds /\ mdInCode
      /\ mdInCode' = FALSE /\ mdCode' = <<>> /\ mdOut' = Append(mdOut, Token("pre", mdCode))
      /\ mdInList' = mdInList /\ mdDone' = mdDone
  BY DEF CloseFence, LineKinds
<1>2. /\ t = Append(mdLines, "fence") /\ mdLines \in Texts /\ t \in Texts
      /\ n \in Nat /\ m \in Nat \ {0} /\ m \in 1..Len(t) /\ n \in 0..Len(t) /\ Len(t) = m
      /\ t \in Seq(LineKinds)
      /\ InCodeAt(t, m) /\ InCodeAt(mdLines, m)
      /\ t[m] = "fence" /\ ~mdDone /\ LoopInv
  BY <1>1, ReadsType DEF LoopInv
<1>3. mdOut' = Rendered(mdLines)[n] /\ ~mdInList
  BY <1>1, <1>2, BlockPushed
<1>4. PICK o \in Nat : OpenBlock(o)
  BY <1>1, <1>2 DEF LoopInv
<1>5. Rendered(t)[n] = Rendered(mdLines)[n]
  <2>1. n \in 0..Len(mdLines) /\ "fence" # "item"
    BY <1>2
  <2> QED BY <1>1, <1>2, <1>4, <2>1, BlockKept DEF OpenBlock
<1>6. Rendered(t)[m] = Rendered(t)[n] \o <<>>
  <2>1. m \in 1..Len(t) /\ m - 1 = n
    BY <1>2
  <2>2. Piece(t, m) = <<>>
    BY <1>2, PieceIs
  <2>3. Rendered(t)[m] = Rendered(t)[m - 1] \o Piece(t, m)
    BY <1>2, RenderedAt
  <2> QED BY <2>1, <2>2, <2>3
<1>7. Rendered(t)[n] \in Seq(Tokens)
  BY <1>2, RenderedAt
<1>8. mdOut' = Rendered(t)[m]
  BY <1>3, <1>5, <1>6, <1>7, ConcatEmptySeq
<1>9. ~InCodeAt(t, m + 1) /\ ~IsItem(t, m)
  BY <1>2, InCodeNext DEF IsItem
<1>10. LoopInv'
  BY <1>1, <1>2, <1>3, <1>8, <1>9 DEF LoopInv
<1>11. MarkdownTypeOK'
  <2>1. <<>> \in Seq(Nat)
    OBVIOUS
  <2> QED BY <1>1, <1>2, <1>3, <1>5, <1>7, <2>1 DEF MarkdownTypeOK, MarkdownInv
<1> QED BY <1>1, <1>2, <1>10, <1>11 DEF MarkdownInv, RendersAll

LEMMA CodeLineStep == ASSUME MarkdownInv, CodeLine PROVE MarkdownInv'
<1>0. PICK n, m, t : n = Len(mdLines) /\ m = n + 1 /\ t = mdLines'
  OBVIOUS
<1> USE <1>0
<1>1. PICK kind \in LineKinds \ {"fence"} : Reads(kind)
  BY DEF CodeLine
<1>2. /\ mdInCode /\ mdCode' = Append(mdCode, Here) /\ mdOut' = mdOut /\ mdInCode' = mdInCode
      /\ mdInList' = mdInList /\ mdDone' = mdDone
  BY DEF CodeLine
<1>3. /\ t = Append(mdLines, kind) /\ mdLines \in Texts /\ t \in Texts
      /\ n \in Nat /\ m \in Nat \ {0} /\ Len(t) = m /\ Here = m /\ t \in Seq(LineKinds)
      /\ InCodeAt(t, m) /\ InCodeAt(mdLines, m)
      /\ t[m] = kind /\ ~mdDone /\ LoopInv
  BY <1>1, <1>2, ReadsType DEF LoopInv
<1>4. ~mdInList
  BY <1>2, <1>3, BlockPushed
<1>5. PICK o \in Nat : OpenBlock(o)
  BY <1>2, <1>3 DEF LoopInv
<1>6. o \in 1..n /\ o \in 1..Len(t) /\ o \in Nat \ {0} /\ o - 1 \in 0..n /\ o - 1 < o
  BY <1>3, <1>5 DEF OpenBlock
<1>7. /\ t[o] = "fence" /\ ~InCodeAt(t, o)
      /\ \A j \in (o + 1)..Len(t) : t[j] # "fence"
  <2>1. \A j \in 1..n : t[j] = mdLines[j]
    BY <1>1, <1>3, Appended
  <2>2. ~InCodeAt(t, o)
    BY <1>1, <1>3, <1>5, <1>6, InCodeAppended DEF OpenBlock
  <2>3. ASSUME NEW j \in (o + 1)..Len(t) PROVE t[j] # "fence"
    <3>1. CASE j = m
      BY <1>1, <1>3, <3>1
    <3>2. CASE j # m
      BY <1>3, <1>5, <1>6, <2>1, <3>2 DEF OpenBlock
    <3> QED BY <3>1, <3>2
  <2> QED BY <1>5, <1>6, <2>1, <2>2, <2>3 DEF OpenBlock
<1>8. mdCode' = BlockFrom(t, o)
  <2>1. mdCode = [j \in 1..(n - o) |-> o + j]
    BY <1>3, <1>5, <1>6, BlockOpen DEF OpenBlock
  <2>2. BlockFrom(t, o) = [j \in 1..(m - o) |-> o + j]
    BY <1>3, <1>6, <1>7, BlockOpen
  <2>3. n - o \in Nat /\ m - o = (n - o) + 1 /\ o + ((n - o) + 1) = m
    BY <1>3, <1>6
  <2>4. PICK d \in Nat : d = n - o
    BY <2>3
  <2>5. Append([j \in 1..d |-> o + j], o + (d + 1)) = [j \in 1..(d + 1) |-> o + j]
    BY <1>6
  <2> QED BY <1>2, <1>3, <2>1, <2>2, <2>3, <2>4, <2>5
<1>9. mdOut' = Rendered(t)[o - 1]
  <2>1. ~IsItem(mdLines, Len(mdLines))
    BY <1>3, <1>4 DEF LoopInv
  <2>2. Rendered(t)[o - 1] = Rendered(mdLines)[o - 1]
    BY <1>1, <1>3, <1>5, <1>6, <2>1, BlockKept DEF OpenBlock
  <2> QED BY <1>2, <1>5, <2>2 DEF OpenBlock
<1>10. OpenBlock(o)'
  BY <1>6, <1>7, <1>8, <1>9 DEF OpenBlock
<1>11. InCodeAt(t, m + 1) /\ ~IsItem(t, m)
  BY <1>1, <1>3, InCodeNext DEF IsItem
<1>12. LoopInv'
  BY <1>2, <1>3, <1>4, <1>10, <1>11 DEF LoopInv
<1>13. MarkdownTypeOK'
  BY <1>2, <1>3 DEF MarkdownTypeOK, MarkdownInv
<1> QED BY <1>2, <1>3, <1>12, <1>13 DEF MarkdownInv, RendersAll

LEMMA ItemStep == ASSUME MarkdownInv, Item PROVE MarkdownInv'
<1>0. PICK n, m, t : n = Len(mdLines) /\ m = n + 1 /\ t = mdLines'
  OBVIOUS
<1> USE <1>0
<1> DEFINE li == <<Token("li", <<m>>)>>
           ul == <<Token("ul", <<>>)>>
<1>1. /\ Reads("item") /\ "item" \in LineKinds /\ ~mdInCode
      /\ mdOut' = (IF mdInList THEN mdOut ELSE Append(mdOut, Token("ul", <<>>)))
                    \o <<Token("li", <<Here>>)>>
      /\ mdInList' = TRUE /\ mdInCode' = mdInCode /\ mdCode' = mdCode /\ mdDone' = mdDone
  BY DEF Item, LineKinds
<1>2. /\ t = Append(mdLines, "item") /\ mdLines \in Texts /\ t \in Texts
      /\ n \in Nat /\ m \in Nat \ {0} /\ m \in 1..Len(t) /\ n \in 0..Len(t) /\ n \in 0..Len(mdLines)
      /\ Len(t) = m /\ Here = m /\ t \in Seq(LineKinds)
      /\ ~InCodeAt(t, m) /\ ~InCodeAt(mdLines, m)
      /\ t[m] = "item" /\ ~mdDone /\ LoopInv
  BY <1>1, ReadsType DEF LoopInv
<1>3. ~InCodeAt(t, m + 1)
  BY <1>2, InCodeNext
<1>4. /\ IsItem(t, m)
      /\ IsItem(t, n) <=> mdInList
      /\ mdInList <=> IsItem(mdLines, n)
  BY <1>1, <1>2, ItemAppended DEF LoopInv
<1>5. /\ Token("ul", <<>>) \in Tokens /\ ul \in Seq(Tokens) /\ li \in Seq(Tokens)
      /\ mdOut \in Seq(Tokens) /\ Rendered(t)[n] \in Seq(Tokens)
  <2>1. <<>> \in Seq(Nat) /\ <<m>> \in Seq(Nat)
    BY <1>2
  <2>2. Rendered(t)[n] \in Seq(Tokens)
    BY <1>2, RenderedAt
  <2>3. mdOut \in Seq(Tokens)
    BY DEF MarkdownInv, MarkdownTypeOK
  <2>4. ul \in Seq(Tokens) /\ li \in Seq(Tokens) /\ Token("ul", <<>>) \in Tokens
    BY <2>1, TokenType DEF Tags
  <2> QED BY <2>2, <2>3, <2>4
<1> HIDE DEF li, ul
<1>6. ASSUME ~mdInList PROVE mdOut' = Rendered(t)[n] \o OpenItem(t)
  <2>1. mdOut = Rendered(t)[n]
    BY <1>1, <1>2, <1>4, <1>6, PiecesKept DEF LoopInv
  <2>2. mdOut' = (mdOut \o ul) \o li
    <3>1. Append(mdOut, Token("ul", <<>>)) = mdOut \o ul
      BY <1>5, AppendIsConcat DEF ul
    <3> QED BY <1>1, <1>2, <1>6, <3>1 DEF li
  <2>3. OpenItem(t) = ul \o li
    <3>1. ~IsItem(t, Len(t) - 1)
      BY <1>2, <1>4, <1>6
    <3> QED BY <1>2, <3>1 DEF OpenItem, ul, li
  <2>4. (mdOut \o ul) \o li = mdOut \o (ul \o li)
    <3>1. mdOut \in Seq(Tokens) /\ ul \in Seq(Tokens) /\ li \in Seq(Tokens)
      BY <1>5
    <3> QED BY <3>1, Grouped
  <2> QED BY <2>1, <2>2, <2>3, <2>4
<1>7. ASSUME mdInList PROVE mdOut' = Rendered(t)[n] \o OpenItem(t)
  <2>1. /\ n \in 1..Len(mdLines) /\ n \in 1..Len(t) /\ n - 1 \in 0..Len(mdLines)
        /\ n - 1 < Len(mdLines) /\ mdOut = Rendered(mdLines)[n - 1] \o OpenItem(mdLines)
    BY <1>2, <1>4, <1>7 DEF IsItem, LoopInv, Texts
  <2>2. Rendered(t)[n - 1] = Rendered(mdLines)[n - 1]
    BY <1>1, <1>2, <2>1, PiecesKept
  <2>3. Piece(t, n) = OpenItem(mdLines)
    <3>1. IsItem(t, n - 1) <=> IsItem(mdLines, n - 1)
      BY <1>1, <1>2, <2>1, ItemAppended
    <3>2. Piece(t, n) = OpenItem(mdLines) \o <<>>
      <4>1. IsItem(t, n) /\ IsItem(t, n + 1)
        BY <1>4, <1>7
      <4> QED BY <3>1, <4>1, PieceIs DEF OpenItem
    <3>3. OpenItem(mdLines) \in Seq(Tokens)
      <4>1. <<>> \in Seq(Nat) /\ <<n>> \in Seq(Nat) /\ <<>> \in Seq(Tokens)
        BY <1>2
      <4>2. <<Token("li", <<n>>)>> \in Seq(Tokens) /\ <<Token("ul", <<>>)>> \in Seq(Tokens)
        BY <4>1, TokenType DEF Tags
      <4> QED BY <4>1, <4>2, ConcatProperties DEF OpenItem
    <3> QED BY <3>2, <3>3, ConcatEmptySeq
  <2>4. Rendered(t)[n] = Rendered(t)[n - 1] \o Piece(t, n)
    BY <1>2, <2>1, RenderedAt
  <2>5. mdOut = Rendered(t)[n]
    BY <2>1, <2>2, <2>3, <2>4
  <2>6. OpenItem(t) = <<>> \o li
    <3>1. IsItem(t, Len(t) - 1)
      BY <1>2, <1>4, <1>7
    <3> QED BY <1>2, <3>1 DEF OpenItem, li
  <2>7. OpenItem(t) = li
    BY <1>5, <2>6, ConcatEmptySeq
  <2> QED BY <1>1, <1>2, <1>7, <2>5, <2>7 DEF li
<1>8. mdOut' = Rendered(t)[n] \o OpenItem(t)
  BY <1>6, <1>7
<1>9. mdOut' \in Seq(Tokens)
  <2>1. (IF mdInList THEN mdOut ELSE Append(mdOut, Token("ul", <<>>))) \in Seq(Tokens)
    BY <1>5
  <2> QED BY <1>1, <1>2, <1>5, <2>1, ConcatProperties DEF li
<1>10. LoopInv'
  <2>1. Len(t) - 1 = n
    BY <1>2
  <2> QED BY <1>1, <1>2, <1>3, <1>4, <1>8, <2>1 DEF LoopInv
<1>11. MarkdownTypeOK'
  BY <1>1, <1>2, <1>9 DEF MarkdownTypeOK, MarkdownInv
<1> QED BY <1>1, <1>2, <1>10, <1>11 DEF MarkdownInv, RendersAll

LEMMA BlockStep == ASSUME MarkdownInv, Block PROVE MarkdownInv'
<1>0. PICK n, m, t : n = Len(mdLines) /\ m = n + 1 /\ t = mdLines'
  OBVIOUS
<1> USE <1>0
<1>1. PICK kind \in DOMAIN BlockTag :
        Reads(kind) /\ mdOut' = Append(FlushList(mdOut), Token(BlockTag[kind], <<Here>>))
  BY DEF Block
<1>2. kind \in LineKinds \ {"fence", "item"} /\ BlockTag[kind] \in Tags
  BY <1>1 DEF BlockTag, LineKinds, Tags
<1>3. ~mdInCode /\ mdInList' = FALSE /\ mdInCode' = mdInCode /\ mdCode' = mdCode /\ mdDone' = mdDone
  BY DEF Block
<1>4. /\ t = Append(mdLines, kind) /\ mdLines \in Texts /\ t \in Texts
      /\ n \in Nat /\ m \in Nat \ {0} /\ m \in 1..Len(t) /\ n \in 0..Len(t) /\ n \in 0..Len(mdLines)
      /\ Len(t) = m /\ Here = m /\ t \in Seq(LineKinds) /\ m - 1 = n
      /\ ~InCodeAt(t, m) /\ ~InCodeAt(mdLines, m)
      /\ t[m] = kind /\ ~mdDone /\ LoopInv
  BY <1>1, <1>2, <1>3, ReadsType DEF LoopInv
<1>5. FlushList(mdOut) = Rendered(t)[n]
  BY <1>2, <1>3, <1>4, FlushedIs, PiecesKept
<1>6. Rendered(t)[n] \in Seq(Tokens) /\ Token(BlockTag[kind], <<m>>) \in Tokens
  <2>1. <<m>> \in Seq(Nat)
    BY <1>4
  <2>2. Rendered(t)[n] \in Seq(Tokens)
    BY <1>4, RenderedAt
  <2> QED BY <1>2, <2>1, <2>2, TokenType
<1>7. mdOut' = Rendered(t)[m]
  <2>1. Piece(t, m) = <<Token(BlockTag[kind], <<m>>)>>
    <3>1. m \in DOMAIN t
      BY <1>4
    <3> QED BY <1>2, <1>4, <3>1, PieceIs
  <2>2. Rendered(t)[m] = Rendered(t)[m - 1] \o Piece(t, m)
    BY <1>4, RenderedAt
  <2>3. mdOut' = Rendered(t)[n] \o <<Token(BlockTag[kind], <<m>>)>>
    BY <1>1, <1>4, <1>5, <1>6, AppendIsConcat
  <2> QED BY <1>4, <2>1, <2>2, <2>3
<1>8. ~InCodeAt(t, m + 1) /\ ~IsItem(t, m)
  BY <1>2, <1>4, InCodeNext DEF IsItem
<1>9. LoopInv'
  BY <1>3, <1>4, <1>7, <1>8 DEF LoopInv
<1>10. MarkdownTypeOK'
  <2>1. mdOut' \in Seq(Tokens)
    BY <1>1, <1>4, <1>5, <1>6
  <2> QED BY <1>3, <1>4, <2>1 DEF MarkdownTypeOK, MarkdownInv
<1> QED BY <1>3, <1>4, <1>9, <1>10 DEF MarkdownInv, RendersAll

LEMMA EndOfTextStep == ASSUME MarkdownInv, EndOfText PROVE MarkdownInv'
<1>1. /\ ~mdDone /\ mdDone' = TRUE /\ mdInList' = FALSE /\ mdLines' = mdLines
      /\ mdInCode' = mdInCode /\ mdCode' = mdCode
      /\ mdOut' = FlushList(IF mdInCode THEN Append(mdOut, Token("pre", mdCode)) ELSE mdOut)
  BY DEF EndOfText
<1>2. mdOut' = Meaning(mdLines)
  <2>1. CASE mdInCode
    BY <1>1, <2>1, BlockPushed DEF FlushList, Meaning
  <2>2. CASE ~mdInCode
    BY <1>1, <2>2, FlushedIs DEF Meaning
  <2> QED BY <2>1, <2>2
<1>3. Meaning(mdLines) \in Seq(Tokens)
  <2>1. mdLines \in Texts /\ Len(mdLines) \in 0..Len(mdLines)
    BY DEF MarkdownInv, MarkdownTypeOK, Texts
  <2> QED BY <2>1, RenderedAt DEF Meaning
<1> QED BY <1>1, <1>2, <1>3 DEF MarkdownInv, MarkdownTypeOK, RendersAll

LEMMA MarkdownStep == MarkdownInv /\ [MarkdownNext]_mdVars => MarkdownInv'
<1> SUFFICES ASSUME MarkdownInv, [MarkdownNext]_mdVars PROVE MarkdownInv'
  OBVIOUS
<1>1. CASE UNCHANGED mdVars
  BY <1>1 DEF mdVars, MarkdownInv, MarkdownTypeOK, LoopInv, OpenBlock, RendersAll
<1> QED BY <1>1, OpenFenceStep, CloseFenceStep, CodeLineStep, ItemStep, BlockStep,
           EndOfTextStep DEF MarkdownNext

\* renderMarkdown, as it goes through the lines with its two flags and its block
\* of code, renders what each line means by where it stands: for every text, of
\* any length, code blocks that are never closed and lists before them included.
THEOREM RendersEveryLine == MarkdownSpec => []RendersAll
<1>1. MarkdownInv => RendersAll
  BY DEF MarkdownInv
<1> QED BY MarkdownInitially, MarkdownStep, <1>1, PTL DEF MarkdownSpec

\* The page is given tokens and nothing else, and the flags stay flags.
THEOREM MarkdownTypes == MarkdownSpec => []MarkdownTypeOK
<1>1. MarkdownInv => MarkdownTypeOK
  BY DEF MarkdownInv
<1> QED BY MarkdownInitially, MarkdownStep, <1>1, PTL DEF MarkdownSpec
=============================================================================
