----------------------------- MODULE ParseTree -----------------------------
(***************************************************************************)
(* api/parse/block_parser.py: a configuration file becomes a tree, one     *)
(* line after the other.  Three shapes are read: indentation (Cisco,       *)
(* Arista), braces and flat set commands (the two exports of JunOS); which *)
(* one is decided from the text (api/parse/service.py).                    *)
(*                                                                         *)
(* A line is a record of what the parser looks at: its indent, how its     *)
(* stripped text begins (form), its words without punctuation (text),      *)
(* whether it ends in "{" (brace), whether it ends a comment (ends), and   *)
(* the word that closes the literal it opens (until, if it opens one).     *)
(* Fields the parser does not look at belong to the modules above.         *)
(***************************************************************************)
EXTENDS Naturals, Sequences, FiniteSets, SequencesExt

CONSTANT Files    \* what may be uploaded: platform and lines

\* What until is of a line that opens no literal.
NoWord == ""

VARIABLES
    file,       \* the file being read
    at,         \* number of lines read
    nodes,      \* number of the line -> node
    unplaced,   \* number of the line -> why it is no node
    stack,      \* the blocks that are open, outermost first
    literal,    \* the word that ends the open literal block, or NoWord
    comment,    \* inside a comment of several lines
    phase       \* "reading", "tree" or "refused"

treeVars == <<file, at, nodes, unplaced, stack, literal, comment, phase>>

line == file.lines[at + 1]
more == phase = "reading" /\ at < Len(file.lines)

\* syntax_mode_for: one brace at column zero makes a JunOS file braced, unless
\* it is all there is on its line.
Mode(f) ==
    IF f.os # "junos" THEN "indent"
    ELSE IF \E i \in DOMAIN f.lines :
                /\ f.lines[i].indent = 0 /\ f.lines[i].brace
                /\ f.lines[i].text \notin {<<>>, <<"{">>}
         THEN "brace"
         ELSE "set"
mode == Mode(file)

\* Braces and comments of several lines are looked for in brace mode only.
\* There a statement can be without words ("{"); elsewhere what is left of a
\* line that is not blank is its text.
ASSUME FilesAssumption ==
    \A f \in Files :
        /\ Len(f.lines) \in Nat /\ DOMAIN f.lines = 1..Len(f.lines)
        /\ \A n \in DOMAIN f.lines :
              /\ f.lines[n].indent \in Nat
              /\ f.lines[n].text \in Seq(ToSet(f.lines[n].text))
              /\ {f.lines[n].brace, f.lines[n].ends} \subseteq BOOLEAN
              /\ f.lines[n].form \in {"blank", "comment", "statement"} \cup
                     (IF Mode(f) = "brace" THEN {"block_comment", "close"} ELSE {})
              /\ f.lines[n].form = "statement" /\ f.lines[n].text = <<>> => Mode(f) = "brace"

TreeInit ==
    /\ file \in Files
    /\ at = 0
    /\ nodes = <<>> /\ unplaced = <<>> /\ stack = <<>>
    /\ literal = NoWord /\ comment = FALSE
    /\ phase = "reading"

-----------------------------------------------------------------------------
(* What one line does to the tree.                                         *)

With(f, n, v) == [i \in DOMAIN f \cup {n} |-> IF i = n THEN v ELSE f[i]]

\* The line becomes a node under the innermost block of `open'.
Place(open) ==
    nodes' = With(nodes, at + 1,
                  [text |-> line.text,
                   parent |-> IF open = <<>> THEN 0 ELSE Last(open),
                   path |-> [i \in DOMAIN open |-> nodes[open[i]].text]])

\* The line is no node, and the tree records why.
Leave(reason) == unplaced' = With(unplaced, at + 1, reason)

Read == more /\ at' = at + 1 /\ UNCHANGED <<file, phase>>

\* Everything after an opener is prose, up to and with the closing word.
LiteralBody ==
    /\ Read /\ literal # NoWord
    /\ Leave("literal block body")
    /\ literal' = IF line.text = <<literal>> THEN NoWord ELSE literal
    /\ UNCHANGED <<nodes, stack, comment>>

BlockComment ==
    /\ Read /\ comment
    /\ Leave("block comment")
    /\ comment' = ~line.ends
    /\ UNCHANGED <<nodes, stack, literal>>

Ordinary == literal = NoWord /\ ~comment

BlankOrComment ==
    /\ Read /\ Ordinary
    /\ \/ line.form = "blank" /\ Leave("blank line")
       \/ line.form = "comment" /\ Leave("comment")
    /\ UNCHANGED <<nodes, stack, literal, comment>>

OpenComment ==
    /\ Read /\ Ordinary /\ mode = "brace" /\ line.form = "block_comment"
    /\ Leave("block comment")
    /\ comment' = ~line.ends
    /\ UNCHANGED <<nodes, stack, literal>>

\* A brace that closes nothing is recorded, and the file is read on.
ClosingBrace ==
    /\ Read /\ Ordinary /\ mode = "brace" /\ line.form = "close"
    /\ Leave(IF stack = <<>> THEN "unmatched closing brace" ELSE "block terminator")
    /\ stack' = IF stack = <<>> THEN stack ELSE Front(stack)
    /\ UNCHANGED <<nodes, literal, comment>>

Statement == Read /\ Ordinary /\ line.form = "statement"

\* Mutant: only the innermost block can end at a line.
PopOnce ==
    IF stack # <<>> /\ file.lines[Last(stack)].indent >= line.indent
    THEN Front(stack) ELSE stack

\* Blocks end from the inside out, up to one that is narrower than the line.
Pop ==
    SubSeq(stack, 1, Max({0} \cup {i \in DOMAIN stack :
                                      file.lines[stack[i]].indent < line.indent}))

IndentedStatement ==
    /\ Statement /\ mode = "indent"
    /\ Place(Pop)
    /\ stack' = Append(Pop, at + 1)
    /\ literal' = line.until
    /\ UNCHANGED <<unplaced, comment>>

BracedStatement ==
    /\ Statement /\ mode = "brace"
    /\ IF line.text = <<>> THEN Leave("blank line") /\ UNCHANGED <<nodes, stack>>
       ELSE /\ Place(stack)
            /\ stack' = IF line.brace THEN Append(stack, at + 1) ELSE stack
            /\ UNCHANGED unplaced
    /\ UNCHANGED <<literal, comment>>

FlatStatement ==
    /\ Statement /\ mode = "set"
    /\ Place(<<>>)
    /\ UNCHANGED <<unplaced, stack, literal, comment>>

\* What ConfigNode and ConfigTree ask of themselves: a node has a parent where
\* it has a path, and every line is accounted for exactly once.
Coherent ==
    /\ \A n \in DOMAIN nodes :
          IF nodes[n].path = <<>> THEN nodes[n].parent = 0
          ELSE nodes[n].parent \in DOMAIN nodes \ {n}
    /\ DOMAIN nodes \cap DOMAIN unplaced = {}
    /\ DOMAIN nodes \cup DOMAIN unplaced = DOMAIN file.lines

\* A literal that never ends swallowed the rest of the file: the file is
\* refused, as is a tree that is not coherent.
EndOfFile ==
    /\ phase = "reading" /\ at = Len(file.lines)
    /\ phase' = IF literal = NoWord /\ Coherent THEN "tree" ELSE "refused"
    /\ UNCHANGED <<file, at, nodes, unplaced, stack, literal, comment>>

ReadLine ==
    \/ LiteralBody \/ BlockComment \/ BlankOrComment
    \/ OpenComment \/ ClosingBrace
    \/ IndentedStatement \/ BracedStatement \/ FlatStatement
    \/ EndOfFile

=============================================================================
