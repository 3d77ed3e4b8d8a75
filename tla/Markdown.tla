------------------------------ MODULE Markdown ------------------------------
(* renderMarkdown of components/Markdown.tsx, one step per line of the       *)
(* source. A line is what the tests of the loop make of it: a fence, a       *)
(* heading, an item, a blank or a text; what stands in it (inline and        *)
(* escapeHtml) is a function of the line alone, and an output token names    *)
(* the lines it shows instead.                                               *)
EXTENDS Naturals, Sequences, FiniteSets

CONSTANT MaxLines   \* bound of TLC's runs on the lines of a text
ASSUME MaxLinesAssumption == MaxLines \in Nat

LineKinds == {"fence", "heading", "item", "blank", "text"}

VARIABLES
    mdLines,     \* the lines read so far
    mdOut,       \* the tokens pushed
    mdInCode, mdCode, mdInList,
    mdDone

mdVars == <<mdLines, mdOut, mdInCode, mdCode, mdInList, mdDone>>

Tags == {"h", "p", "li", "br", "pre", "ul", "/ul"}
Tokens == [tag : Tags, lines : Seq(Nat)]
Token(tag, lines) == [tag |-> tag, lines |-> lines]

MarkdownTypeOK ==
    /\ mdLines \in Seq(LineKinds)
    /\ mdOut \in Seq(Tokens)
    /\ mdCode \in Seq(Nat)
    /\ mdInCode \in BOOLEAN /\ mdInList \in BOOLEAN /\ mdDone \in BOOLEAN

MarkdownInit ==
    /\ mdLines = <<>> /\ mdOut = <<>> /\ mdCode = <<>>
    /\ mdInCode = FALSE /\ mdInList = FALSE /\ mdDone = FALSE

FlushList(out) == IF mdInList THEN Append(out, Token("/ul", <<>>)) ELSE out

Here == Len(mdLines) + 1
Reads(kind) ==
    /\ ~mdDone /\ Here <= MaxLines
    /\ mdLines' = Append(mdLines, kind)

\* A bug: the list before the block is not closed.
OpenFenceInList ==
    /\ Reads("fence") /\ ~mdInCode
    /\ mdInCode' = TRUE /\ mdCode' = <<>>
    /\ UNCHANGED <<mdOut, mdInList, mdDone>>

OpenFence ==
    /\ Reads("fence") /\ ~mdInCode
    /\ mdOut' = FlushList(mdOut) /\ mdInList' = FALSE
    /\ mdInCode' = TRUE /\ mdCode' = <<>>
    /\ UNCHANGED mdDone

CloseFence ==
    /\ Reads("fence") /\ mdInCode
    /\ mdOut' = Append(mdOut, Token("pre", mdCode))
    /\ mdInCode' = FALSE /\ mdCode' = <<>>
    /\ UNCHANGED <<mdInList, mdDone>>

CodeLine ==
    /\ mdInCode
    /\ \E kind \in LineKinds \ {"fence"} : Reads(kind)
    /\ mdCode' = Append(mdCode, Here)
    /\ UNCHANGED <<mdOut, mdInCode, mdInList, mdDone>>

Item ==
    /\ Reads("item") /\ ~mdInCode
    /\ mdOut' = (IF mdInList THEN mdOut ELSE Append(mdOut, Token("ul", <<>>)))
                  \o <<Token("li", <<Here>>)>>
    /\ mdInList' = TRUE
    /\ UNCHANGED <<mdInCode, mdCode, mdDone>>

BlockTag == [heading |-> "h", blank |-> "br", text |-> "p"]
Block ==
    /\ ~mdInCode
    /\ \E kind \in DOMAIN BlockTag :
          /\ Reads(kind)
          /\ mdOut' = Append(FlushList(mdOut), Token(BlockTag[kind], <<Here>>))
    /\ mdInList' = FALSE
    /\ UNCHANGED <<mdInCode, mdCode, mdDone>>

\* After the loop: a block without a closing fence, then an open list.
EndOfText ==
    /\ ~mdDone /\ mdDone' = TRUE
    /\ mdOut' = FlushList(IF mdInCode THEN Append(mdOut, Token("pre", mdCode)) ELSE mdOut)
    /\ mdInList' = FALSE
    /\ UNCHANGED <<mdLines, mdInCode, mdCode>>

MarkdownNext ==
    OpenFence \/ CloseFence \/ CodeLine \/ Item \/ Block \/ EndOfText

MarkdownSpec == MarkdownInit /\ [][MarkdownNext]_mdVars

-----------------------------------------------------------------------------
\* What a text means, line by line and without the memory of the loop.
InCodeAt(text, i) == Cardinality({j \in 1..(i - 1) : text[j] = "fence"}) % 2 = 1
IsItem(text, i) == i \in DOMAIN text /\ text[i] = "item" /\ ~InCodeAt(text, i)
BlockFrom(text, i) ==   \* the lines after the opening fence i, up to the next fence
    LET in == {j \in (i + 1)..Len(text) : \A l \in (i + 1)..j : text[l] # "fence"}
    IN  [j \in 1..Cardinality(in) |-> i + j]
Piece(text, i) ==
    CASE InCodeAt(text, i)   -> <<>>
      [] ~InCodeAt(text, i) /\ text[i] = "fence" -> <<Token("pre", BlockFrom(text, i))>>
      [] IsItem(text, i)     -> (IF IsItem(text, i - 1) THEN <<>> ELSE <<Token("ul", <<>>)>>)
                                  \o <<Token("li", <<i>>)>>
                                  \o (IF IsItem(text, i + 1) THEN <<>> ELSE <<Token("/ul", <<>>)>>)
      [] OTHER               -> <<Token(BlockTag[text[i]], <<i>>)>>
Rendered(text) ==       \* what the first i lines render to
    LET rendered[i \in 0..Len(text)] == IF i = 0 THEN <<>> ELSE rendered[i - 1] \o Piece(text, i)
    IN  rendered
Meaning(text) == Rendered(text)[Len(text)]

(* The rendered page shows every line of the text once and in its place:     *)
(* each fenced block, closed or not, as one block of exactly its lines, each *)
(* run of items as one list that ends where the run ends, whatever follows   *)
(* it. (renderMarkdown: the flags inList and inCode against the reading of   *)
(* the text without them.)                                                   *)
RendersAll == mdDone => mdOut = Meaning(mdLines)
=============================================================================
