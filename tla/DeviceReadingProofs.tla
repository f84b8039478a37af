------------------------ MODULE DeviceReadingProofs ------------------------
(***************************************************************************)
(* Theorems about the reading of a file, for any files, patterns and       *)
(* lessons: the tree the parser builds line by line is the one the file    *)
(* says, a value is of the block it was written in, what is reported of an *)
(* access list is true of its entries and packets, and what is taught of a *)
(* line is read.                                                           *)
(***************************************************************************)
EXTENDS Teaching, FiniteSetTheorems, SequenceTheorems, WellFoundedInduction, TLAPS

-----------------------------------------------------------------------------
(* The inductive invariant.  Enclosing and InLiteral look at a file from   *)
(* one of its lines upwards; the parser has a stack and a word instead.    *)

\* What has been read is accounted for, and a file is refused for its literal.
ShapeOK ==
    /\ file \in Files
    /\ at \in 0 .. Len(file.lines)
    /\ DOMAIN nodes \cup DOMAIN unplaced = 1 .. at
    /\ DOMAIN nodes \cap DOMAIN unplaced = {}
    /\ phase \in {"reading", "tree", "refused", "extracted", "analysed", "taught"}
    /\ phase # "reading" => at = Len(file.lines)
    /\ phase = "refused" => literal # NoWord
    /\ phase \notin {"reading", "refused"} => literal = NoWord

\* The literal opened at line k goes on before line n.
Pending(k, n) ==
    /\ k \in DOMAIN nodes /\ k < n /\ file.lines[k].until # NoWord
    /\ \A j \in (k + 1) .. (n - 1) : file.lines[j].text # <<file.lines[k].until>>

\* The word the parser waits for is the one of every literal that goes on.
ProseOK ==
    /\ mode # "indent" => literal = NoWord
    /\ \A k \in DOMAIN nodes :
          mode = "indent" /\ Pending(k, at + 1) => literal = file.lines[k].until
    /\ literal # NoWord => \E k \in DOMAIN nodes : Pending(k, at + 1)

CommentOK ==
    /\ comment \in BOOLEAN
    /\ mode # "brace" => ~comment
    /\ mode = "brace" => (comment <=> InComment(at + 1))

\* A line read is a node when it is a statement outside prose and comments.
NodesOK ==
    /\ \A n \in 1 .. at :
          n \in DOMAIN nodes <=>
              /\ file.lines[n].form = "statement" /\ ~InLiteral(n) /\ ~InComment(n)
              /\ file.lines[n].text # <<>>
    /\ \A n \in DOMAIN nodes : nodes[n].text = file.lines[n].text

Texts == {file.lines[n].text : n \in DOMAIN file.lines}

TreeOK ==
    \A n \in DOMAIN nodes :
        /\ nodes[n].path \in Seq(Texts)
        /\ nodes[n].parent = Enclosing(n)
        /\ Enclosing(n) \in {0} \cup {k \in DOMAIN nodes : k < n}
        /\ nodes[n].path = IF Enclosing(n) = 0 THEN <<>>
                           ELSE Append(nodes[Enclosing(n)].path, nodes[Enclosing(n)].text)

\* The blocks that are open: each lies in the one before.
StackOK ==
    /\ stack \in Seq(DOMAIN nodes)
    /\ \A i, j \in DOMAIN stack : i < j => stack[i] < stack[j]
    /\ \A i \in DOMAIN stack :
          nodes[stack[i]].path = [j \in 1 .. (i - 1) |-> nodes[stack[j]].text]
    /\ mode = "set" => stack = <<>>

\* By indent, a block that is no longer open was ended by a line that is not
\* deeper; no line after that one can be in it.
IndentOK ==
    mode = "indent" =>
        \A k \in DOMAIN nodes :
            \/ \E i \in DOMAIN stack : stack[i] = k
            \/ \E j \in DOMAIN nodes :
                  j > k /\ file.lines[j].indent <= file.lines[k].indent

\* By brace, what was opened and closed since line k.
OpensIn(k, n) == {j \in (k + 1) .. (n - 1) : Opens(j)}
ClosesIn(k, n) == {j \in (k + 1) .. (n - 1) : Closes(j)}
Balance(k, n) == Cardinality(OpensIn(k, n)) - Cardinality(ClosesIn(k, n))
Depth(k) == Len(nodes[k].path)

\* The balance of an open block is the number of blocks open in it.  That of a
\* closed one is negative until a block is opened that encloses what follows.
BraceOK ==
    mode = "brace" =>
        /\ \A i \in DOMAIN stack :
              /\ Opens(stack[i])
              /\ Balance(stack[i], at + 1) = Len(stack) - i
        /\ \A i \in DOMAIN stack : \A k \in DOMAIN nodes :
              Opens(k) /\ k > stack[i] => Depth(k) >= i
        /\ \A k \in DOMAIN nodes :
              Opens(k) => Balance(k, at + 1) < Len(stack) - Depth(k)

IInv ==
    /\ ShapeOK /\ ProseOK /\ CommentOK /\ NodesOK /\ TreeOK /\ StackOK
    /\ IndentOK /\ BraceOK

-----------------------------------------------------------------------------
(* What a step that reads a line leaves as it was.                         *)

\* The lines of a file, as FilesAssumption has them.
LEMMA LineFacts ==
    ASSUME ShapeOK
    PROVE  /\ Len(file.lines) \in Nat /\ Lines = 1 .. Len(file.lines)
           /\ \A n \in Lines :
                 /\ file.lines[n].indent \in Nat
                 /\ file.lines[n].brace \in BOOLEAN
                 /\ file.lines[n].ends \in BOOLEAN
                 /\ mode # "brace" =>
                       file.lines[n].form \in {"blank", "comment", "statement"}
                 /\ file.lines[n].form = "statement" /\ file.lines[n].text = <<>> =>
                       mode = "brace"
    BY FilesAssumption DEF ShapeOK, Lines, mode

\* What is a node above the next line stays one, and nothing else becomes one.
Above ==
    /\ file' = file /\ at \in Nat /\ DOMAIN nodes \subseteq 1 .. at
    /\ DOMAIN nodes' \subseteq 1 .. (at + 1)
    /\ \A j \in 1 .. at : j \in DOMAIN nodes' <=> j \in DOMAIN nodes

LEMMA SameMode ==
    ASSUME file' = file
    PROVE  mode' = mode
    BY DEF mode

LEMMA SameComment ==
    ASSUME file' = file, NEW n
    PROVE  InComment(n)' <=> InComment(n)
    BY SameMode DEF InComment, Lines

LEMMA SameLiteral ==
    ASSUME Above, NEW n \in 1 .. (at + 1)
    PROVE  InLiteral(n)' <=> InLiteral(n)
<1>1. \A k : k \in DOMAIN nodes' /\ k < n <=> k \in DOMAIN nodes /\ k < n
    BY DEF Above
<1> QED BY <1>1, SameMode DEF Above, InLiteral

LEMMA SameOpens ==
    ASSUME Above, NEW j \in 1 .. at
    PROVE  /\ Opens(j)' <=> Opens(j)
           /\ Closes(j)' <=> Closes(j)
    BY SameComment DEF Above, Opens, Closes

\* Encloses, without the operator it counts with.
LEMMA EnclosesIs ==
    ASSUME NEW k, NEW n
    PROVE  Encloses(k, n) <=>
              \/ mode = "indent" /\ k \in DOMAIN nodes
                 /\ file.lines[k].indent < file.lines[n].indent
              \/ mode = "brace" /\ Opens(k)
                 /\ Cardinality(OpensIn(k, n)) = Cardinality(ClosesIn(k, n))
    BY DEF Encloses, Count, OpensIn, ClosesIn

LEMMA SameCounts ==
    ASSUME Above, NEW k \in 1 .. at, NEW n \in 1 .. (at + 1)
    PROVE  /\ OpensIn(k, n)' = OpensIn(k, n)
           /\ ClosesIn(k, n)' = ClosesIn(k, n)
<1>1. \A j \in (k + 1) .. (n - 1) : j \in 1 .. at
    BY DEF Above
<1> QED BY <1>1, SameOpens DEF OpensIn, ClosesIn

LEMMA SameEncloses ==
    ASSUME Above, NEW n \in 1 .. (at + 1), NEW k \in 1 .. (n - 1)
    PROVE  Encloses(k, n)' <=> Encloses(k, n)
<1>1. k \in 1 .. at
    BY DEF Above
<1>2. k \in DOMAIN nodes' <=> k \in DOMAIN nodes
    BY <1>1 DEF Above
<1>3. file' = file /\ mode' = mode
    BY SameMode DEF Above
<1>4. /\ Cardinality(OpensIn(k, n))' = Cardinality(OpensIn(k, n))
      /\ Cardinality(ClosesIn(k, n))' = Cardinality(ClosesIn(k, n))
    BY <1>1, SameCounts
<1>5. Encloses(k, n)' <=>
              \/ mode' = "indent" /\ k \in DOMAIN nodes'
                 /\ file'.lines[k].indent < file'.lines[n].indent
              \/ mode' = "brace" /\ Opens(k)'
                 /\ Cardinality(OpensIn(k, n))' = Cardinality(ClosesIn(k, n))'
    BY DEF Encloses, Count, OpensIn, ClosesIn
<1> QED BY <1>1, <1>2, <1>3, <1>4, <1>5, EnclosesIs, SameOpens

Latest(S) == IF S = {} THEN 0 ELSE CHOOSE k \in S : \A j \in S : j <= k

LEMMA SameEnclosing ==
    ASSUME Above, NEW n \in 1 .. (at + 1)
    PROVE  Enclosing(n)' = Enclosing(n)
<1>1. {k \in 1 .. (n - 1) : Encloses(k, n)'} = {k \in 1 .. (n - 1) : Encloses(k, n)}
    BY SameEncloses
<1>2. Enclosing(n) = Latest({k \in 1 .. (n - 1) : Encloses(k, n)})
    BY DEF Enclosing, Latest
<1>3. Enclosing(n)' = Latest({k \in 1 .. (n - 1) : Encloses(k, n)'})
    BY DEF Enclosing, Latest
<1> QED BY <1>1, <1>2, <1>3

\* The block of a line is the last one that encloses it.
LEMMA EnclosingIs ==
    ASSUME NEW n \in Nat, NEW k \in 1 .. (n - 1), Encloses(k, n),
           \A j \in (k + 1) .. (n - 1) : ~Encloses(j, n)
    PROVE  Enclosing(n) = k
<1> DEFINE around == {j \in 1 .. (n - 1) : Encloses(j, n)}
<1>1. k \in around /\ \A j \in around : j <= k
    OBVIOUS
<1>2. \A i \in around : (\A j \in around : j <= i) => i = k
    BY <1>1
<1> QED BY <1>1, <1>2 DEF Enclosing

LEMMA EnclosingNone ==
    ASSUME NEW n \in Nat, \A j \in 1 .. (n - 1) : ~Encloses(j, n)
    PROVE  Enclosing(n) = 0
    BY DEF Enclosing

-----------------------------------------------------------------------------
(* What the next line adds to the counts, and to prose and comments.       *)

LEMMA CountsOK ==
    ASSUME NEW k \in Nat, NEW n \in Nat
    PROVE  /\ IsFiniteSet(OpensIn(k, n)) /\ Cardinality(OpensIn(k, n)) \in Nat
           /\ IsFiniteSet(ClosesIn(k, n)) /\ Cardinality(ClosesIn(k, n)) \in Nat
<1>1. IsFiniteSet((k + 1) .. (n - 1))
    BY FS_Interval
<1>2. OpensIn(k, n) \subseteq (k + 1) .. (n - 1) /\ ClosesIn(k, n) \subseteq (k + 1) .. (n - 1)
    BY DEF OpensIn, ClosesIn
<1> QED BY <1>1, <1>2, FS_Subset, FS_CardinalityType

LEMMA OneMore ==
    ASSUME NEW S, IsFiniteSet(S), NEW x, x \notin S, NEW b \in BOOLEAN, NEW T,
           T = S \cup (IF b THEN {x} ELSE {})
    PROVE  Cardinality(T) = Cardinality(S) + (IF b THEN 1 ELSE 0)
<1>1. CASE b
  <2>1. T = S \cup {x}
      BY <1>1
  <2>2. Cardinality(T) = Cardinality(S) + 1
      BY <2>1, FS_AddElement
  <2> QED BY <1>1, <2>2
<1>2. CASE ~b
  <2>1. T = S
      BY <1>2
  <2>2. Cardinality(S) \in Nat
      BY FS_CardinalityType
  <2> QED BY <1>2, <2>1, <2>2
<1> QED BY <1>1, <1>2

LEMMA BalanceStep ==
    ASSUME Above, at' = at + 1, NEW k \in 1 .. at
    PROVE  /\ Balance(k, at + 1) \in Int
           /\ Balance(k, at + 1)' =
                 Balance(k, at + 1) + (IF Opens(at)' THEN 1 ELSE 0)
                                    - (IF Closes(at)' THEN 1 ELSE 0)
<1> DEFINE n == at + 1
           opens == OpensIn(k, n)
           closes == ClosesIn(k, n)
<1>1. /\ IsFiniteSet(opens) /\ Cardinality(opens) \in Nat
      /\ IsFiniteSet(closes) /\ Cardinality(closes) \in Nat
    BY CountsOK DEF Above
<1>a. n \in Nat /\ n \notin opens /\ n \notin closes
    BY DEF Above, OpensIn, ClosesIn
<1>2. OpensIn(k, at + 1)' = opens \cup (IF Opens(at)' THEN {n} ELSE {})
  <2>1. OpensIn(k, at + 1)' = {j \in (k + 1) .. n : Opens(j)'}
      BY DEF Above, OpensIn
  <2>2. \A j \in (k + 1) .. (n - 1) : Opens(j)' <=> Opens(j)
      BY SameOpens DEF Above
  <2> QED BY <2>1, <2>2 DEF Above, OpensIn
<1>3. ClosesIn(k, at + 1)' = closes \cup (IF Closes(at)' THEN {n} ELSE {})
  <2>1. ClosesIn(k, at + 1)' = {j \in (k + 1) .. n : Closes(j)'}
      BY DEF Above, ClosesIn
  <2>2. \A j \in (k + 1) .. (n - 1) : Closes(j)' <=> Closes(j)
      BY SameOpens DEF Above
  <2> QED BY <2>1, <2>2 DEF Above, ClosesIn
<1>b. Opens(at)' \in BOOLEAN /\ Closes(at)' \in BOOLEAN
    BY DEF Opens, Closes
<1> HIDE DEF opens, closes
<1>4. Cardinality(OpensIn(k, at + 1)') = Cardinality(opens) + (IF Opens(at)' THEN 1 ELSE 0)
    BY <1>1, <1>a, <1>2, <1>b, OneMore
<1>5. Cardinality(ClosesIn(k, at + 1)') = Cardinality(closes) + (IF Closes(at)' THEN 1 ELSE 0)
    BY <1>1, <1>a, <1>3, <1>b, OneMore
<1>6. Balance(k, at + 1) = Cardinality(opens) - Cardinality(closes)
    BY DEF Balance, opens, closes
<1>7. Balance(k, at + 1)' = Cardinality(OpensIn(k, at + 1)') - Cardinality(ClosesIn(k, at + 1)')
    BY DEF Balance
<1> QED BY <1>1, <1>4, <1>5, <1>6, <1>7

LEMMA BalanceNew ==
    ASSUME at \in Nat, at' = at + 1
    PROVE  Balance(at, at + 1)' = 0
<1>1. OpensIn(at, at + 1)' = {} /\ ClosesIn(at, at + 1)' = {}
    BY DEF OpensIn, ClosesIn
<1>2. Cardinality({}) = 0
    BY FS_EmptySet
<1> QED BY <1>1, <1>2 DEF Balance

\* A comment goes on after a line that is in one or begins one, unless it ends it.
LEMMA CommentStep ==
    ASSUME ShapeOK, at < Len(file.lines), file' = file, at' = at + 1, mode = "brace"
    PROVE  InComment(at + 1)' <=>
              /\ ~file.lines[at + 1].ends
              /\ InComment(at + 1) \/ file.lines[at + 1].form = "block_comment"
<1>1. at \in Nat /\ at + 1 \in Lines /\ Lines = 1 .. Len(file.lines) /\ Len(file.lines) \in Nat
    BY LineFacts DEF ShapeOK
<1>2. InComment(at + 1)' <=>
         \E k \in Lines : /\ k < at + 2 /\ file.lines[k].form = "block_comment"
                          /\ \A j \in k .. (at + 1) : ~file.lines[j].ends
    BY <1>1, SameMode DEF InComment, Lines
<1>3. InComment(at + 1) <=>
         \E k \in Lines : /\ k < at + 1 /\ file.lines[k].form = "block_comment"
                          /\ \A j \in k .. at : ~file.lines[j].ends
    BY <1>1 DEF InComment
<1>4. \A k \in 1 .. at : k .. (at + 1) = (k .. at) \cup {at + 1}
    BY <1>1
<1> DEFINE now == file.lines[at + 1]
           begun(k) == file.lines[k].form = "block_comment"
           open(k) == \A j \in k .. at : ~file.lines[j].ends
<1>5. \A k \in 1 .. at : (\A j \in k .. (at + 1) : ~file.lines[j].ends) <=> open(k) /\ ~now.ends
    BY <1>4
<1>6. (\A j \in (at + 1) .. (at + 1) : ~file.lines[j].ends) <=> ~now.ends
    BY <1>1
<1>7. InComment(at + 1) <=> \E k \in 1 .. at : begun(k) /\ open(k)
    BY <1>1, <1>3
<1>8. InComment(at + 1)' <=>
         \/ \E k \in 1 .. at : begun(k) /\ open(k) /\ ~now.ends
         \/ begun(at + 1) /\ ~now.ends
  <2>1. \A k \in Lines : k < at + 2 <=> k \in 1 .. at \/ k = at + 1
      BY <1>1
  <2>2. 1 .. at \subseteq Lines
      BY <1>1
  <2> HIDE DEF now, begun, open
  <2>3. InComment(at + 1)' <=>
           \E k \in Lines : /\ k < at + 2 /\ begun(k)
                            /\ \A j \in k .. (at + 1) : ~file.lines[j].ends
      BY <1>2 DEF begun
  <2> QED BY <1>1, <1>5, <1>6, <2>1, <2>2, <2>3
<1> QED BY <1>7, <1>8

-----------------------------------------------------------------------------
(* A line is left out of the tree, or becomes a node.                      *)

Leaves == Read /\ (\E reason : Leave(reason)) /\ UNCHANGED nodes

LEMMA LeavesShape ==
    ASSUME ShapeOK, Leaves
    PROVE  ShapeOK' /\ Above /\ at + 1 \in Lines
<1>1. at \in Nat /\ at + 1 \in Lines /\ Len(file.lines) \in Nat
    BY LineFacts DEF ShapeOK, Leaves, Read, more
<1>2. DOMAIN unplaced' = DOMAIN unplaced \cup {at + 1}
    BY DEF Leaves, Leave, With
<1>3. 1 .. at' = (1 .. at) \cup {at + 1}
    BY <1>1 DEF Leaves, Read
<1>4. ShapeOK'
    BY <1>1, <1>2, <1>3 DEF ShapeOK, Leaves, Read, more
<1> QED BY <1>1, <1>4 DEF ShapeOK, Above, Leaves, Read

\* The node made of the next line, under the first m blocks of the stack.
Node(m) ==
    [text |-> line.text,
     parent |-> IF m = 0 THEN 0 ELSE stack[m],
     path |-> [i \in 1 .. m |-> nodes[stack[i]].text]]

Places(m) == Read /\ nodes' = With(nodes, at + 1, Node(m)) /\ UNCHANGED unplaced

LEMMA PlacesShape ==
    ASSUME ShapeOK, NEW m, Places(m)
    PROVE  /\ ShapeOK' /\ Above /\ at + 1 \in Lines
           /\ at + 1 \notin DOMAIN nodes
           /\ DOMAIN nodes' = DOMAIN nodes \cup {at + 1}
           /\ \A k \in DOMAIN nodes : nodes'[k] = nodes[k]
           /\ nodes'[at + 1] = Node(m)
<1>1. at \in Nat /\ at + 1 \in Lines /\ Len(file.lines) \in Nat
    BY LineFacts DEF ShapeOK, Places, Read, more
<1>2. at + 1 \notin DOMAIN nodes
    BY <1>1 DEF ShapeOK
<1>3. /\ DOMAIN nodes' = DOMAIN nodes \cup {at + 1}
      /\ \A k \in DOMAIN nodes : nodes'[k] = nodes[k]
      /\ nodes'[at + 1] = Node(m)
    BY <1>2 DEF Places, With
<1>4. 1 .. at' = (1 .. at) \cup {at + 1}
    BY <1>1 DEF Places, Read
<1>5. ShapeOK'
  <2>1. at + 1 \notin DOMAIN unplaced
      BY <1>1 DEF ShapeOK
  <2> QED BY <1>1, <1>3, <1>4, <2>1 DEF ShapeOK, Places, Read, more
<1>6. Above
    BY <1>1, <1>3 DEF ShapeOK, Above, Places, Read
<1> QED BY <1>1, <1>2, <1>3, <1>5, <1>6

LEMMA ProseIs ==
    ASSUME ShapeOK, ProseOK
    PROVE  InLiteral(at + 1) <=> literal # NoWord
<1>1. DOMAIN nodes \subseteq 1 .. at /\ at \in Nat
    BY LineFacts DEF ShapeOK
<1>2. InLiteral(at + 1) <=> mode = "indent" /\ \E k \in DOMAIN nodes : Pending(k, at + 1)
    BY DEF InLiteral, Pending
<1> QED BY <1>1, <1>2 DEF ProseOK, Pending

LEMMA CommentIs ==
    ASSUME CommentOK
    PROVE  InComment(at + 1) <=> comment
    BY DEF CommentOK, InComment

LEMMA LeavesNodes ==
    ASSUME ShapeOK, ProseOK, CommentOK, NodesOK, Leaves,
           \/ file.lines[at + 1].form # "statement" \/ literal # NoWord \/ comment
           \/ file.lines[at + 1].text = <<>>
    PROVE  NodesOK'
<1>1. Above /\ at \in Nat /\ at' = at + 1 /\ file' = file /\ nodes' = nodes
    BY LeavesShape DEF Leaves, Read, ShapeOK, Above
<1>2. ~ /\ file.lines[at + 1].form = "statement" /\ ~InLiteral(at + 1) /\ ~InComment(at + 1)
        /\ file.lines[at + 1].text # <<>>
    BY ProseIs, CommentIs
<1>3. at + 1 \notin DOMAIN nodes
    BY <1>1 DEF Above
<1>4. \A n \in 1 .. (at + 1) : (InLiteral(n)' <=> InLiteral(n)) /\ (InComment(n)' <=> InComment(n))
    BY <1>1, SameLiteral, SameComment
<1>5. \A n \in 1 .. at' :
          n \in DOMAIN nodes' <=>
              /\ file'.lines[n].form = "statement" /\ ~InLiteral(n)' /\ ~InComment(n)'
              /\ file'.lines[n].text # <<>>
    BY <1>1, <1>2, <1>3, <1>4 DEF NodesOK
<1>6. \A n \in DOMAIN nodes' : nodes'[n].text = file'.lines[n].text
    BY <1>1 DEF NodesOK
<1> QED BY <1>5, <1>6 DEF NodesOK

LEMMA PlacesNodes ==
    ASSUME ShapeOK, ProseOK, CommentOK, NodesOK, NEW m, Places(m),
           file.lines[at + 1].form = "statement", literal = NoWord, ~comment,
           file.lines[at + 1].text # <<>>
    PROVE  NodesOK'
<1>1. /\ Above /\ at \in Nat /\ at' = at + 1 /\ file' = file
      /\ DOMAIN nodes' = DOMAIN nodes \cup {at + 1}
      /\ \A k \in DOMAIN nodes : nodes'[k] = nodes[k]
      /\ nodes'[at + 1].text = file.lines[at + 1].text
  <2>1. Node(m).text = file.lines[at + 1].text
      BY DEF Node, line
  <2> QED BY <2>1, PlacesShape DEF Places, Read, Above
<1>2. ~InLiteral(at + 1) /\ ~InComment(at + 1)
    BY ProseIs, CommentIs
<1>4. \A n \in 1 .. (at + 1) : (InLiteral(n)' <=> InLiteral(n)) /\ (InComment(n)' <=> InComment(n))
    BY <1>1, SameLiteral, SameComment
<1>5. \A n \in 1 .. at' :
          n \in DOMAIN nodes' <=>
              /\ file'.lines[n].form = "statement" /\ ~InLiteral(n)' /\ ~InComment(n)'
              /\ file'.lines[n].text # <<>>
    BY <1>1, <1>2, <1>4 DEF NodesOK
<1>6. \A n \in DOMAIN nodes' : nodes'[n].text = file'.lines[n].text
    BY <1>1 DEF NodesOK
<1> QED BY <1>5, <1>6 DEF NodesOK

-----------------------------------------------------------------------------
(* The tree: what was placed stays in its block, a new node is in its own. *)

LEMMA OldTree ==
    ASSUME ShapeOK, TreeOK, Above, \A k \in DOMAIN nodes : k \in DOMAIN nodes' /\ nodes'[k] = nodes[k],
           NEW n \in DOMAIN nodes
    PROVE  /\ nodes'[n].path \in Seq(Texts')
           /\ nodes'[n].parent = Enclosing(n)'
           /\ Enclosing(n)' \in {0} \cup {k \in DOMAIN nodes' : k < n}
           /\ nodes'[n].path = IF Enclosing(n)' = 0 THEN <<>>
                               ELSE Append(nodes'[Enclosing(n)'].path, nodes'[Enclosing(n)'].text)
<1>1. n \in 1 .. (at + 1)
    BY DEF Above
<1>2. Enclosing(n)' = Enclosing(n)
    BY <1>1, SameEnclosing
<1>3. Texts' = Texts
    BY DEF Above, Texts
<1> QED BY <1>2, <1>3 DEF TreeOK

LEMMA LeavesTree ==
    ASSUME ShapeOK, TreeOK, Leaves
    PROVE  TreeOK'
<1>1. Above /\ nodes' = nodes
    BY LeavesShape DEF Leaves
<1> QED BY <1>1, OldTree DEF TreeOK

LEMMA SeqWhenFunction ==
    ASSUME NEW S, NEW m \in Nat, NEW f \in [1 .. m -> S]
    PROVE  f \in Seq(S) /\ Len(f) = m
    OBVIOUS

\* The path to a node under the first m blocks of the stack.
Path(m) == [i \in 1 .. m |-> nodes[stack[i]].text]

LEMMA PathIs ==
    ASSUME ShapeOK, NodesOK, StackOK, NEW m \in 0 .. Len(stack)
    PROVE  /\ Path(m) \in Seq(Texts) /\ Len(Path(m)) = m
           /\ m = 0 => Path(m) = <<>>
           /\ m # 0 => /\ stack[m] \in DOMAIN nodes
                       /\ nodes[stack[m]].path = Path(m - 1)
                       /\ Path(m) = Append(nodes[stack[m]].path, nodes[stack[m]].text)
<1>1. /\ Len(stack) \in Nat /\ DOMAIN stack = 1 .. Len(stack)
      /\ \A i \in DOMAIN stack : stack[i] \in DOMAIN nodes
    BY DEF StackOK
<1>2. \A k \in DOMAIN nodes : nodes[k].text \in Texts
    BY LineFacts DEF ShapeOK, NodesOK, Texts, Lines
<1>3. \A l \in 0 .. Len(stack) : Path(l) \in Seq(Texts) /\ Len(Path(l)) = l
  <2> SUFFICES ASSUME NEW l \in 0 .. Len(stack) PROVE Path(l) \in Seq(Texts) /\ Len(Path(l)) = l
      OBVIOUS
  <2>1. l \in Nat /\ Path(l) \in [1 .. l -> Texts]
      BY <1>1, <1>2 DEF Path
  <2> QED BY <2>1, SeqWhenFunction
<1>4. m = 0 => Path(m) = <<>>
    BY DEF Path
<1>5. ASSUME m # 0
      PROVE  /\ stack[m] \in DOMAIN nodes
             /\ nodes[stack[m]].path = Path(m - 1)
             /\ Path(m) = Append(nodes[stack[m]].path, nodes[stack[m]].text)
  <2>1. m \in DOMAIN stack /\ m - 1 \in 0 .. Len(stack)
      BY <1>1, <1>5
  <2>2. nodes[stack[m]].path = Path(m - 1)
      BY <2>1 DEF StackOK, Path
  <2>3. Path(m - 1) \in Seq(Texts) /\ Len(Path(m - 1)) = m - 1
      BY <1>3, <2>1
  <2>4. Path(m) = Append(Path(m - 1), nodes[stack[m]].text)
    <3> DEFINE q == Append(Path(m - 1), nodes[stack[m]].text)
    <3>1. nodes[stack[m]].text \in Texts
        BY <1>1, <1>2, <2>1
    <3>2. /\ q \in Seq(Texts) /\ Len(q) = m
          /\ \A i \in 1 .. (m - 1) : q[i] = Path(m - 1)[i]
          /\ q[m] = nodes[stack[m]].text
        BY <2>1, <2>3, <3>1, AppendProperties
    <3>3. \A i \in 1 .. (m - 1) : Path(m - 1)[i] = Path(m)[i]
        BY <1>1 DEF Path
    <3>4. Path(m)[m] = nodes[stack[m]].text
        BY <1>1, <2>1 DEF Path
    <3>5. \A i \in 1 .. m : Path(m)[i] = q[i]
        BY <3>2, <3>3, <3>4
    <3> HIDE DEF q
    <3>6. Path(m) = q
        BY <1>3, <3>2, <3>5, SeqEqual
    <3> QED BY <3>6 DEF q
  <2> QED BY <1>1, <2>1, <2>2, <2>4
<1> QED BY <1>3, <1>4, <1>5

LEMMA PlacesTree ==
    ASSUME ShapeOK, NodesOK, TreeOK, StackOK, NEW m \in 0 .. Len(stack), Places(m),
           Enclosing(at + 1) = IF m = 0 THEN 0 ELSE stack[m]
    PROVE  TreeOK'
<1> SUFFICES ASSUME NEW n, n = at + 1 PROVE TreeOK'
    OBVIOUS
<1>1. /\ Above /\ DOMAIN nodes' = DOMAIN nodes \cup {n} /\ nodes'[n] = Node(m)
      /\ \A k \in DOMAIN nodes : nodes'[k] = nodes[k]
    BY PlacesShape
<1>2. Node(m).path = Path(m) /\ Node(m).parent = IF m = 0 THEN 0 ELSE stack[m]
    BY DEF Node, Path
<1>3. at \in Nat /\ n \in 1 .. (at + 1) /\ \A k \in DOMAIN nodes : k < n
    BY <1>1 DEF Above
<1>4. Enclosing(n)' = IF m = 0 THEN 0 ELSE stack[m]
    BY <1>1, <1>3, SameEnclosing
<1>5. Texts' = Texts
    BY <1>1 DEF Above, Texts
<1>6. /\ nodes'[n].path \in Seq(Texts')
      /\ nodes'[n].parent = Enclosing(n)'
      /\ Enclosing(n)' \in {0} \cup {k \in DOMAIN nodes' : k < n}
      /\ nodes'[n].path = IF Enclosing(n)' = 0 THEN <<>>
                          ELSE Append(nodes'[Enclosing(n)'].path, nodes'[Enclosing(n)'].text)
  <2>1. CASE m = 0
      BY <1>1, <1>2, <1>4, <1>5, <2>1, PathIs
  <2>2. CASE m # 0
    <3>1. stack[m] \in DOMAIN nodes /\ stack[m] < n /\ stack[m] # 0
        BY <1>1, <1>3, <2>2, PathIs DEF Above
    <3>2. nodes'[stack[m]] = nodes[stack[m]]
        BY <1>1, <3>1
    <3> QED BY <1>1, <1>2, <1>4, <1>5, <2>2, <3>1, <3>2, PathIs
  <2> QED BY <2>1, <2>2
<1>7. \A k \in DOMAIN nodes :
          /\ nodes'[k].path \in Seq(Texts')
          /\ nodes'[k].parent = Enclosing(k)'
          /\ Enclosing(k)' \in {0} \cup {j \in DOMAIN nodes' : j < k}
          /\ nodes'[k].path = IF Enclosing(k)' = 0 THEN <<>>
                              ELSE Append(nodes'[Enclosing(k)'].path, nodes'[Enclosing(k)'].text)
    BY <1>1, OldTree
<1> QED BY <1>1, <1>6, <1>7 DEF TreeOK

-----------------------------------------------------------------------------
(* Prose and comments.                                                     *)

LEMMA PendingStep ==
    ASSUME Above, at' = at + 1, NEW k \in 1 .. at
    PROVE  Pending(k, at + 1)' <=>
              Pending(k, at + 1) /\ file.lines[at + 1].text # <<file.lines[k].until>>
<1>1. (k + 1) .. at' = ((k + 1) .. at) \cup {at + 1}
    BY DEF Above
<1>2. Pending(k, at + 1) <=>
         /\ k \in DOMAIN nodes /\ file.lines[k].until # NoWord
         /\ \A j \in (k + 1) .. at : file.lines[j].text # <<file.lines[k].until>>
    BY DEF Above, Pending
<1>3. Pending(k, at + 1)' <=>
         /\ k \in DOMAIN nodes' /\ file'.lines[k].until # NoWord
         /\ \A j \in (k + 1) .. at' : file'.lines[j].text # <<file'.lines[k].until>>
    BY DEF Above, Pending
<1> QED BY <1>1, <1>2, <1>3 DEF Above

LEMMA LiteralBodyProse ==
    ASSUME ShapeOK, ProseOK, LiteralBody
    PROVE  ProseOK'
<1>1. Leaves /\ literal # NoWord
    BY DEF LiteralBody, Leaves
<1>2. Above /\ at' = at + 1 /\ nodes' = nodes /\ file' = file /\ mode' = mode
    BY <1>1, LeavesShape, SameMode DEF Leaves, Read, Above
<1>3. literal' = IF file.lines[at + 1].text = <<literal>> THEN NoWord ELSE literal
    BY DEF LiteralBody, line
<1>4. \A k \in DOMAIN nodes :
         Pending(k, at + 1)' <=>
              Pending(k, at + 1) /\ file.lines[at + 1].text # <<file.lines[k].until>>
    BY <1>2, PendingStep DEF Above
<1>5. mode = "indent"
    BY <1>1 DEF ProseOK
<1>6. \A k \in DOMAIN nodes' : Pending(k, at + 1)' => literal' = file'.lines[k].until
    BY <1>2, <1>3, <1>4, <1>5 DEF ProseOK
<1>7. literal' # NoWord => \E k \in DOMAIN nodes' : Pending(k, at + 1)'
    BY <1>1, <1>2, <1>3, <1>4, <1>5 DEF ProseOK
<1> QED BY <1>2, <1>5, <1>6, <1>7 DEF ProseOK

\* A line read outside prose, unless it opens some.
LEMMA OrdinaryProse ==
    ASSUME ShapeOK, ProseOK, Above, at' = at + 1, literal = NoWord,
           DOMAIN nodes' \subseteq DOMAIN nodes \cup {at + 1},
           \/ literal' = NoWord /\ (mode # "indent" \/ DOMAIN nodes' = DOMAIN nodes)
           \/ literal' = line.until /\ mode = "indent" /\ at + 1 \in DOMAIN nodes'
    PROVE  ProseOK'
<1>2. file' = file /\ mode' = mode /\ at \in Nat /\ DOMAIN nodes \subseteq 1 .. at
    BY SameMode DEF Above
<1>3. mode = "indent" => \A k \in DOMAIN nodes : ~Pending(k, at + 1)
    BY <1>2 DEF ProseOK, Pending
<1>4. mode = "indent" => \A k \in DOMAIN nodes : ~Pending(k, at + 1)'
    BY <1>2, <1>3, PendingStep
<1>5. \A k \in DOMAIN nodes' : mode' = "indent" /\ Pending(k, at + 1)' => literal' = file'.lines[k].until
  <2> SUFFICES ASSUME NEW k \in DOMAIN nodes', mode = "indent", Pending(k, at + 1)'
               PROVE  literal' = file'.lines[k].until
      BY <1>2
  <2>1. k = at + 1 /\ k \notin DOMAIN nodes
      BY <1>2, <1>4
  <2> QED BY <1>2, <2>1 DEF line
<1>6. ASSUME literal' # NoWord
      PROVE  \E k \in DOMAIN nodes' : Pending(k, at + 1)'
  <2> SUFFICES ASSUME NEW n, n = at + 1 PROVE Pending(n, at + 1)'
      BY <1>6 DEF Pending
  <2>1. n \in DOMAIN nodes' /\ file'.lines[n].until # NoWord /\ n < at' + 1
      BY <1>2, <1>6 DEF line
  <2>2. (n + 1) .. (at' + 1 - 1) = {}
      BY <1>2
  <2> QED BY <2>1, <2>2 DEF Pending
<1>7. mode' # "indent" => literal' = NoWord
    BY <1>2
<1> QED BY <1>5, <1>6, <1>7 DEF ProseOK

LEMMA CommentKept ==
    ASSUME ShapeOK, CommentOK, at < Len(file.lines), file' = file, at' = at + 1,
           comment \in BOOLEAN, comment' \in BOOLEAN,
           mode # "brace" => ~comment',
           mode = "brace" =>
              (comment' <=> /\ ~file.lines[at + 1].ends
                            /\ comment \/ file.lines[at + 1].form = "block_comment")
    PROVE  CommentOK'
<1>1. mode' = mode
    BY SameMode
<1>2. mode = "brace" => (comment' <=> InComment(at + 1)')
    BY CommentStep, CommentIs
<1> QED BY <1>1, <1>2 DEF CommentOK

-----------------------------------------------------------------------------
(* The blocks that are open.                                               *)

LEMMA MaxOf ==
    ASSUME NEW n \in Nat, NEW S, S \subseteq 0 .. n, S # {}
    PROVE  Max(S) \in S /\ \A i \in S : i <= Max(S)
<1> DEFINE T == {n - i : i \in S}
           R == OpToRel(<, Nat)
<1>1. T \subseteq Nat /\ T # {}
  <2>1. \A i \in S : i \in Int /\ n - i \in Nat
      OBVIOUS
  <2>2. \A t \in T : \E i \in S : t = n - i
      OBVIOUS
  <2>3. T \subseteq Nat
      BY <2>1, <2>2
  <2>4. \A i \in S : n - i \in T
      OBVIOUS
  <2> QED BY <2>3, <2>4
<1>2. PICK t \in T : \A j \in T : t <= j
  <2>1. PICK t \in T : \A j \in T : ~(<<j, t>> \in R)
    <3> HIDE DEF R, T
    <3>1. IsWellFoundedOn(R, Nat)
        BY NatLessThanWellFounded DEF R
    <3> QED BY <1>1, <3>1, WFMin
  <2>2. \A j \in T : t <= j
    <3> SUFFICES ASSUME NEW j \in T, ~(t <= j) PROVE <<j, t>> \in R
        BY <2>1
    <3> QED BY <1>1 DEF OpToRel
  <2> QED BY <2>2
<1>3. PICK m \in S : t = n - m
    BY <1>2
<1>4. \A i \in S : m >= i
  <2> SUFFICES ASSUME NEW i \in S PROVE m >= i
      OBVIOUS
  <2>1. n - i \in T
      OBVIOUS
  <2>2. n - m <= n - i
      BY <1>2, <1>3, <2>1
  <2>3. m \in Int /\ i \in Int
      OBVIOUS
  <2> HIDE DEF T
  <2> QED BY <2>2, <2>3
<1> QED BY <1>3, <1>4 DEF Max

\* How many of them the next line is in, by indent.
Width ==
    Max({0} \cup {i \in DOMAIN stack : file.lines[stack[i]].indent < line.indent})

LEMMA WidthIs ==
    ASSUME StackOK
    PROVE  /\ Width \in 0 .. Len(stack) /\ Pop = SubSeq(stack, 1, Width)
           /\ Width # 0 => file.lines[stack[Width]].indent < line.indent
           /\ \A i \in DOMAIN stack : i > Width => ~(file.lines[stack[i]].indent < line.indent)
<1> DEFINE S == {0} \cup {i \in DOMAIN stack : file.lines[stack[i]].indent < line.indent}
<1>1. Len(stack) \in Nat /\ DOMAIN stack = 1 .. Len(stack)
    BY DEF StackOK
<1>2. S \subseteq 0 .. Len(stack) /\ S # {}
    BY <1>1
<1>3. Max(S) \in S /\ \A i \in S : i <= Max(S)
    BY <1>1, <1>2, MaxOf
<1>4. Width = Max(S)
    BY DEF Width
<1>5. Pop = SubSeq(stack, 1, Width)
    BY DEF Pop, Width
<1> HIDE DEF S
<1>6. Width \in S /\ \A i \in S : i <= Width
    BY <1>3, <1>4
<1> QED BY <1>1, <1>5, <1>6 DEF S

\* The first m blocks.
LEMMA PrefixIs ==
    ASSUME StackOK, NEW m \in 0 .. Len(stack)
    PROVE  /\ SubSeq(stack, 1, m) \in Seq(DOMAIN nodes) /\ Len(SubSeq(stack, 1, m)) = m
           /\ DOMAIN SubSeq(stack, 1, m) = 1 .. m
           /\ \A i \in 1 .. m : SubSeq(stack, 1, m)[i] = stack[i]
<1>1. Len(stack) \in Nat /\ \A i \in 1 .. Len(stack) : stack[i] \in DOMAIN nodes
    BY DEF StackOK
<1>2. \A i \in 1 .. m : stack[i] \in DOMAIN nodes
    BY <1>1
<1>3. /\ SubSeq(stack, 1, m) \in Seq(DOMAIN nodes)
      /\ Len(SubSeq(stack, 1, m)) = IF 1 <= m THEN m - 1 + 1 ELSE 0
      /\ \A i \in 1 .. (m - 1 + 1) : SubSeq(stack, 1, m)[i] = stack[1 + i - 1]
    BY <1>1, <1>2, SubSeqProperties
<1>4. \A i \in 1 .. m : 1 + i - 1 = i /\ i \in 1 .. (m - 1 + 1)
    BY <1>1
<1>5. \A i \in 1 .. m : SubSeq(stack, 1, m)[i] = stack[i]
    BY <1>3, <1>4
<1>6. Len(SubSeq(stack, 1, m)) = m
    BY <1>1, <1>3
<1>7. DOMAIN SubSeq(stack, 1, m) = 1 .. m
    BY <1>3, <1>6
<1> QED BY <1>3, <1>5, <1>6, <1>7

\* A line is in the innermost block that is open and narrower.
LEMMA EnclosingByIndent ==
    ASSUME ShapeOK, StackOK, IndentOK, mode = "indent", at < Len(file.lines)
    PROVE  Enclosing(at + 1) = IF Width = 0 THEN 0 ELSE stack[Width]
<1> DEFINE K == {k \in DOMAIN nodes : file.lines[k].indent < line.indent}
<1>1. /\ at \in Nat /\ DOMAIN nodes \subseteq 1 .. at /\ DOMAIN stack = 1 .. Len(stack)
      /\ Len(stack) \in Nat /\ Width \in 0 .. Len(stack)
      /\ \A i \in DOMAIN stack : stack[i] \in DOMAIN nodes
    BY LineFacts, WidthIs DEF ShapeOK, StackOK
<1>2. /\ line.indent \in Nat
      /\ \A k \in DOMAIN nodes : file.lines[k].indent \in Nat
    BY <1>1, LineFacts DEF ShapeOK, line
<1>3. \A k : Encloses(k, at + 1) <=> k \in K
    BY EnclosesIs DEF line
<1>4. CASE K = {}
  <2>1. Width = 0
      BY <1>1, <1>4, WidthIs
  <2> QED BY <1>1, <1>3, <1>4, <2>1, EnclosingNone
<1>5. CASE K # {}
  <2>1. K \subseteq 0 .. at
      BY <1>1
  <2>2. PICK k \in K : \A j \in K : j <= k
      BY <1>1, <1>5, <2>1, MaxOf
  <2>3. \A j \in DOMAIN nodes : ~(j > k /\ file.lines[j].indent <= file.lines[k].indent)
    <3> SUFFICES ASSUME NEW j \in DOMAIN nodes, j > k, file.lines[j].indent <= file.lines[k].indent
                 PROVE  FALSE
        OBVIOUS
    <3>1. j \in K
        BY <1>2
    <3> QED BY <1>1, <2>2, <3>1
  <2>4. PICK i \in DOMAIN stack : stack[i] = k
      BY <2>2, <2>3 DEF IndentOK
  <2>5. i <= Width
      BY <1>1, <2>2, <2>4, WidthIs
  <2>6. Width # 0 /\ Width \in DOMAIN stack /\ stack[Width] \in K
      BY <1>1, <2>5, WidthIs
  <2>7. i = Width
      BY <1>1, <2>2, <2>4, <2>5, <2>6 DEF StackOK
  <2>8. k \in 1 .. (at + 1 - 1) /\ Encloses(k, at + 1)
      BY <1>1, <1>3, <2>2
  <2>9. \A j \in (k + 1) .. (at + 1 - 1) : ~Encloses(j, at + 1)
      BY <1>1, <1>3, <2>2
  <2> HIDE DEF K
  <2> QED BY <1>1, <2>4, <2>6, <2>7, <2>8, <2>9, EnclosingIs
<1> QED BY <1>4, <1>5

\* A line is in the innermost block that is open.
LEMMA EnclosingByBrace ==
    ASSUME ShapeOK, TreeOK, StackOK, BraceOK, mode = "brace"
    PROVE  Enclosing(at + 1) = IF Len(stack) = 0 THEN 0 ELSE stack[Len(stack)]
<1>1. /\ at \in Nat /\ DOMAIN nodes \subseteq 1 .. at /\ DOMAIN stack = 1 .. Len(stack)
      /\ Len(stack) \in Nat
      /\ \A i \in DOMAIN stack : stack[i] \in DOMAIN nodes
      /\ \A k \in DOMAIN nodes : Depth(k) \in Nat
    BY LineFacts DEF ShapeOK, StackOK, TreeOK, Depth
<1>2. \A k \in 1 .. at : /\ Balance(k, at + 1) \in Int
                         /\ Encloses(k, at + 1) <=> Opens(k) /\ Balance(k, at + 1) = 0
  <2> SUFFICES ASSUME NEW k \in 1 .. at
               PROVE  /\ Balance(k, at + 1) \in Int
                      /\ Encloses(k, at + 1) <=> Opens(k) /\ Balance(k, at + 1) = 0
      OBVIOUS
  <2>1. Encloses(k, at + 1) <=>
           Opens(k) /\ Cardinality(OpensIn(k, at + 1)) = Cardinality(ClosesIn(k, at + 1))
      BY EnclosesIs
  <2>a. k \in Nat /\ at + 1 \in Nat
      BY <1>1
  <2>2. Cardinality(OpensIn(k, at + 1)) \in Nat /\ Cardinality(ClosesIn(k, at + 1)) \in Nat
      BY <2>a, CountsOK
  <2> QED BY <2>1, <2>2 DEF Balance
<1>3. \A k \in 1 .. at : Opens(k) => k \in DOMAIN nodes
    BY DEF Opens
<1>4. CASE Len(stack) = 0
  <2>1. \A k \in 1 .. at : ~Encloses(k, at + 1)
      BY <1>1, <1>2, <1>3, <1>4 DEF BraceOK
  <2> QED BY <1>1, <1>4, <2>1, EnclosingNone
<1>5. CASE Len(stack) # 0
  <2> DEFINE top == stack[Len(stack)]
  <2>1. top \in 1 .. at /\ Len(stack) \in DOMAIN stack
      BY <1>1, <1>5
  <2>2. Encloses(top, at + 1)
      BY <1>1, <1>2, <2>1 DEF BraceOK
  <2>3. \A k \in (top + 1) .. at : ~Encloses(k, at + 1)
    <3> SUFFICES ASSUME NEW k \in (top + 1) .. at, Opens(k), Balance(k, at + 1) = 0
                 PROVE  FALSE
        BY <1>1, <1>2, <2>1
    <3>1. k \in DOMAIN nodes /\ k > top
        BY <1>1, <1>3, <2>1
    <3>2. Depth(k) >= Len(stack)
        BY <2>1, <3>1 DEF BraceOK
    <3>3. Balance(k, at + 1) < Len(stack) - Depth(k)
        BY <3>1 DEF BraceOK
    <3> QED BY <1>1, <3>1, <3>2, <3>3
  <2> HIDE DEF top
  <2>4. top \in 1 .. (at + 1 - 1) /\ \A k \in (top + 1) .. (at + 1 - 1) : ~Encloses(k, at + 1)
      BY <1>1, <2>1, <2>3
  <2>5. Enclosing(at + 1) = top
      BY <1>1, <2>2, <2>4, EnclosingIs
  <2> QED BY <1>5, <2>5 DEF top
<1> QED BY <1>4, <1>5

LEMMA EnclosingFlat ==
    ASSUME ShapeOK, mode = "set"
    PROVE  Enclosing(at + 1) = 0
<1>1. at + 1 \in Nat
    BY LineFacts DEF ShapeOK
<1>2. \A k : ~Encloses(k, at + 1)
    BY EnclosesIs
<1> QED BY <1>1, <1>2, EnclosingNone

-----------------------------------------------------------------------------
(* What a line does to the blocks that are open.                           *)

\* A line that is no node and closes nothing.
LEMMA LeavesStack ==
    ASSUME ShapeOK, TreeOK, StackOK, IndentOK, BraceOK, Leaves, stack' = stack,
           mode = "brace" => ~Closes(at + 1)
    PROVE  StackOK' /\ IndentOK' /\ BraceOK'
<1>1. /\ Above /\ nodes' = nodes /\ file' = file /\ mode' = mode /\ at' = at + 1 /\ at \in Nat
      /\ DOMAIN nodes \subseteq 1 .. at
    BY LeavesShape, SameMode DEF Leaves, Read, Above
<1>2. StackOK'
    BY <1>1 DEF StackOK
<1>3. IndentOK'
    BY <1>1 DEF IndentOK
<1>4. ASSUME mode = "brace" PROVE \A k \in DOMAIN nodes :
           /\ Balance(k, at + 1)' = Balance(k, at + 1)
           /\ Opens(k)' <=> Opens(k)
           /\ Depth(k)' = Depth(k)
  <2>1. ~Opens(at)'
      BY <1>1 DEF Opens
  <2>2. ~Closes(at)'
    <3> SUFFICES ASSUME NEW n, n = at + 1 PROVE ~Closes(n)'
        BY <1>1
    <3> QED BY <1>1, <1>4, SameComment DEF Closes
  <2>3. \A k \in DOMAIN nodes : Balance(k, at + 1)' = Balance(k, at + 1)
      BY <1>1, <2>1, <2>2, BalanceStep
  <2>4. \A k \in DOMAIN nodes : Opens(k)' <=> Opens(k)
      BY <1>1, SameOpens
  <2> QED BY <1>1, <2>3, <2>4 DEF Depth
<1>5. BraceOK'
    BY <1>1, <1>4 DEF BraceOK, StackOK
<1> QED BY <1>2, <1>3, <1>5

LEMMA ClosingStack ==
    ASSUME ShapeOK, CommentOK, TreeOK, StackOK, IndentOK, BraceOK, ClosingBrace
    PROVE  StackOK' /\ IndentOK' /\ BraceOK'
<1>1. Leaves
    BY DEF ClosingBrace, Leaves
<1>2. /\ Above /\ nodes' = nodes /\ file' = file /\ mode' = mode /\ at' = at + 1 /\ at \in Nat
      /\ DOMAIN nodes \subseteq 1 .. at /\ mode = "brace"
    BY <1>1, LeavesShape, SameMode DEF Leaves, Read, Above, ClosingBrace
<1> DEFINE m == IF Len(stack) = 0 THEN 0 ELSE Len(stack) - 1
<1>3. /\ DOMAIN stack = 1 .. Len(stack) /\ Len(stack) \in Nat /\ m \in 0 .. Len(stack)
      /\ \A i \in DOMAIN stack : stack[i] \in DOMAIN nodes
      /\ \A k \in DOMAIN nodes : Depth(k) \in Nat
    BY DEF StackOK, TreeOK, Depth
<1>4. stack' = SubSeq(stack, 1, m)
  <2>1. CASE Len(stack) = 0
    <3>1. stack = <<>>
        BY <2>1, <1>3 DEF StackOK
    <3>2. SubSeq(stack, 1, m) = <<>>
        BY <1>3, <2>1, PrefixIs, EmptySeq
    <3> QED BY <3>1, <3>2 DEF ClosingBrace
  <2>2. CASE Len(stack) # 0
    <3>1. stack # <<>>
        BY <2>2
    <3>2. stack' = Front(stack)
        BY <3>1 DEF ClosingBrace
    <3> QED BY <2>2, <3>2 DEF Front
  <2> QED BY <2>1, <2>2
<1>5. /\ stack' \in Seq(DOMAIN nodes) /\ Len(stack') = m /\ DOMAIN stack' = 1 .. m
      /\ \A i \in 1 .. m : stack'[i] = stack[i]
    BY <1>3, <1>4, PrefixIs
<1>6. /\ ~Opens(at)' /\ Closes(at)'
  <2>1. ~Opens(at)'
      BY <1>2 DEF Opens
  <2>2. Closes(at)'
    <3> SUFFICES ASSUME NEW n, n = at + 1 PROVE Closes(n)'
        BY <1>2
    <3>1. ~InComment(n)
        BY CommentIs DEF ClosingBrace, Ordinary
    <3> QED BY <1>2, <3>1, SameComment DEF Closes, ClosingBrace, line
  <2> QED BY <2>1, <2>2
<1>7. \A k \in DOMAIN nodes :
           /\ Balance(k, at + 1) \in Int
           /\ Balance(k, at + 1)' = Balance(k, at + 1) - 1
           /\ Opens(k)' <=> Opens(k)
           /\ Depth(k)' = Depth(k)
  <2>1. \A k \in DOMAIN nodes :
           /\ Balance(k, at + 1) \in Int
           /\ Balance(k, at + 1)' = Balance(k, at + 1) - 1
      BY <1>2, <1>6, BalanceStep
  <2>2. \A k \in DOMAIN nodes : Opens(k)' <=> Opens(k)
      BY <1>2, SameOpens
  <2> QED BY <1>2, <2>1, <2>2 DEF Depth
<1> HIDE DEF m
<1>a. m = IF Len(stack) = 0 THEN 0 ELSE Len(stack) - 1
    BY DEF m
<1>8. StackOK'
  <2>1. \A i, j \in DOMAIN stack' : i < j => stack'[i] < stack'[j]
      BY <1>3, <1>5 DEF StackOK
  <2>2. \A i \in DOMAIN stack' :
          nodes'[stack'[i]].path = [j \in 1 .. (i - 1) |-> nodes'[stack'[j]].text]
    <3> SUFFICES ASSUME NEW i \in 1 .. m
                 PROVE  nodes'[stack'[i]].path = [j \in 1 .. (i - 1) |-> nodes'[stack'[j]].text]
        BY <1>5
    <3>1. nodes[stack[i]].path = [j \in 1 .. (i - 1) |-> nodes[stack[j]].text]
        BY <1>3 DEF StackOK
    <3>2. stack'[i] = stack[i] /\ \A j \in 1 .. (i - 1) : stack'[j] = stack[j]
        BY <1>3, <1>5
    <3> QED BY <1>2, <3>1, <3>2
  <2> QED BY <1>2, <1>5, <2>1, <2>2 DEF StackOK
<1>9. IndentOK'
    BY <1>2 DEF IndentOK
<1>10. BraceOK'
  <2>1. \A i \in 1 .. m : \A k : k = stack[i] => Opens(k)' /\ Balance(k, at + 1)' = m - i
    <3> SUFFICES ASSUME NEW i \in 1 .. m, NEW k, k = stack[i]
                 PROVE  Opens(k)' /\ Balance(k, at + 1)' = m - i
        OBVIOUS
    <3>1. i \in DOMAIN stack /\ k \in DOMAIN nodes /\ m = Len(stack) - 1
        BY <1>3, <1>a
    <3>2. Opens(k) /\ Balance(k, at + 1) = Len(stack) - i
        BY <1>2, <3>1 DEF BraceOK
    <3> QED BY <1>3, <1>7, <3>1, <3>2
  <2>a. \A i \in 1 .. m : i \in DOMAIN stack
      BY <1>3
  <2>2. \A i \in 1 .. m : \A k \in DOMAIN nodes : Opens(k) /\ k > stack[i] => Depth(k) >= i
      BY <1>2, <2>a DEF BraceOK
  <2>b. \A k \in DOMAIN nodes : Opens(k) => Balance(k, at + 1) < Len(stack) - Depth(k)
      BY <1>2 DEF BraceOK
  <2>3. ASSUME NEW k \in DOMAIN nodes, Opens(k) PROVE Balance(k, at + 1) - 1 < m - Depth(k)
    <3>1. /\ Balance(k, at + 1) < Len(stack) - Depth(k)
          /\ Balance(k, at + 1) \in Int /\ Depth(k) \in Nat
        BY <1>3, <1>7, <2>3, <2>b
    <3>2. \A b \in Int, d, l \in Nat :
              b < l - d => b - 1 < (IF l = 0 THEN 0 ELSE l - 1) - d
        OBVIOUS
    <3> QED BY <1>3, <1>a, <3>1, <3>2
  <2>4. \A k \in DOMAIN nodes : Opens(k)' => Balance(k, at + 1)' < m - Depth(k)'
      BY <1>7, <2>3
  <2>5. \A i \in 1 .. m : \A k \in DOMAIN nodes : Opens(k)' /\ k > stack'[i] => Depth(k)' >= i
      BY <1>5, <1>7, <2>2
  <2>6. \A i \in 1 .. m : \A k : k = stack'[i] => Opens(k)' /\ Balance(k, at + 1)' = m - i
      BY <1>5, <2>1
  <2> QED BY <1>2, <1>5, <2>4, <2>5, <2>6 DEF BraceOK
<1> QED BY <1>8, <1>9, <1>10

\* The next line is a node under the first m blocks, and opens one in them.
Pushes(m) ==
    /\ stack' \in Seq(DOMAIN nodes') /\ Len(stack') = m + 1 /\ DOMAIN stack' = 1 .. (m + 1)
    /\ \A i \in 1 .. m : stack'[i] = stack[i]
    /\ stack'[m + 1] = at + 1

LEMMA PushesIs ==
    ASSUME ShapeOK, StackOK, NEW m \in 0 .. Len(stack), Places(m), NEW s,
           s \in Seq(DOMAIN nodes), Len(s) = m, \A i \in 1 .. m : s[i] = stack[i],
           stack' = Append(s, at + 1)
    PROVE  Pushes(m)
<1>1. DOMAIN nodes' = DOMAIN nodes \cup {at + 1}
    BY PlacesShape
<1>2. s \in Seq(DOMAIN nodes') /\ at + 1 \in DOMAIN nodes'
    BY <1>1, SeqMonotonic
<1>3. /\ stack' \in Seq(DOMAIN nodes') /\ Len(stack') = m + 1
      /\ \A i \in 1 .. m : stack'[i] = s[i]
      /\ stack'[m + 1] = at + 1
    BY <1>2, AppendProperties
<1>4. DOMAIN stack' = 1 .. (m + 1)
    BY <1>3
<1> QED BY <1>3, <1>4 DEF Pushes

LEMMA PushedStack ==
    ASSUME ShapeOK, NodesOK, StackOK, NEW m \in 0 .. Len(stack), Places(m), Pushes(m),
           mode # "set"
    PROVE  StackOK'
<1> SUFFICES ASSUME NEW n, n = at + 1 PROVE StackOK'
    OBVIOUS
<1>1. /\ Above /\ DOMAIN nodes' = DOMAIN nodes \cup {n} /\ nodes'[n] = Node(m) /\ mode' = mode
      /\ \A k \in DOMAIN nodes : nodes'[k] = nodes[k] /\ k < n
  <2>1. /\ Above /\ DOMAIN nodes' = DOMAIN nodes \cup {n} /\ nodes'[n] = Node(m)
        /\ \A k \in DOMAIN nodes : nodes'[k] = nodes[k]
      BY PlacesShape
  <2>2. file' = file /\ \A k \in DOMAIN nodes : k < n
      BY <2>1 DEF Above
  <2> QED BY <2>1, <2>2, SameMode
<1>2. /\ DOMAIN stack = 1 .. Len(stack) /\ Len(stack) \in Nat
      /\ \A i \in DOMAIN stack : stack[i] \in DOMAIN nodes
    BY DEF StackOK
<1>3. /\ stack' \in Seq(DOMAIN nodes') /\ DOMAIN stack' = 1 .. (m + 1)
      /\ stack'[m + 1] = n
      /\ \A i \in 1 .. m : /\ stack'[i] = stack[i] /\ i \in DOMAIN stack
                           /\ stack[i] \in DOMAIN nodes
    BY <1>2 DEF Pushes
<1>4. \A i, j \in DOMAIN stack' : i < j => stack'[i] < stack'[j]
  <2> SUFFICES ASSUME NEW i \in 1 .. (m + 1), NEW j \in 1 .. (m + 1), i < j
               PROVE  stack'[i] < stack'[j]
      BY <1>3
  <2>1. i \in 1 .. m /\ (j \in 1 .. m \/ j = m + 1)
      BY <1>2
  <2> QED BY <1>1, <1>3, <2>1 DEF StackOK
<1>5. \A i \in DOMAIN stack' :
          nodes'[stack'[i]].path = [j \in 1 .. (i - 1) |-> nodes'[stack'[j]].text]
  <2> SUFFICES ASSUME NEW i \in 1 .. (m + 1)
               PROVE  nodes'[stack'[i]].path = [j \in 1 .. (i - 1) |-> nodes'[stack'[j]].text]
      BY <1>3
  <2>1. \A j \in 1 .. (i - 1) : nodes'[stack'[j]] = nodes[stack[j]]
      BY <1>1, <1>2, <1>3
  <2>2. CASE i \in 1 .. m
    <3>1. nodes'[stack'[i]].path = [j \in 1 .. (i - 1) |-> nodes[stack[j]].text]
        BY <1>1, <1>3, <2>2 DEF StackOK
    <3> QED BY <2>1, <3>1
  <2>3. CASE i = m + 1
    <3>1. i - 1 = m
        BY <1>2, <2>3
    <3>2. Node(m).path = [j \in 1 .. m |-> nodes[stack[j]].text]
        BY DEF Node
    <3>3. nodes'[stack'[i]] = Node(m)
        BY <1>1, <1>3, <2>3
    <3> QED BY <2>1, <3>1, <3>2, <3>3
  <2> QED BY <1>2, <2>2, <2>3
<1>6. mode' # "set"
    BY <1>1
<1> QED BY <1>3, <1>4, <1>5, <1>6 DEF StackOK

LEMMA KeptStack ==
    ASSUME ShapeOK, StackOK, NEW m, Places(m), stack' = stack
    PROVE  StackOK'
<1>1. /\ Above /\ DOMAIN nodes' = DOMAIN nodes \cup {at + 1}
      /\ \A k \in DOMAIN nodes : nodes'[k] = nodes[k]
    BY PlacesShape
<1>2. mode' = mode
    BY <1>1, SameMode DEF Above
<1>3. stack \in Seq(DOMAIN nodes')
    BY <1>1, SeqMonotonic DEF StackOK
<1>4. DOMAIN stack = 1 .. Len(stack) /\ \A i \in DOMAIN stack : stack[i] \in DOMAIN nodes
    BY DEF StackOK
<1>5. ASSUME NEW i \in DOMAIN stack
      PROVE  nodes'[stack[i]].path = [j \in 1 .. (i - 1) |-> nodes'[stack[j]].text]
  <2>1. \A j \in 1 .. (i - 1) : nodes'[stack[j]] = nodes[stack[j]]
      BY <1>1, <1>4
  <2>2. nodes'[stack[i]].path = [j \in 1 .. (i - 1) |-> nodes[stack[j]].text]
      BY <1>1, <1>4 DEF StackOK
  <2> QED BY <2>1, <2>2
<1> QED BY <1>2, <1>3, <1>5 DEF StackOK

\* By indent, what is popped is followed by a line that is not deeper.
LEMMA PushedIndent ==
    ASSUME ShapeOK, StackOK, IndentOK, mode = "indent", at < Len(file.lines),
           Places(Width), Pushes(Width)
    PROVE  IndentOK'
<1> SUFFICES ASSUME NEW n, n = at + 1 PROVE IndentOK'
    OBVIOUS
<1>1. /\ Above /\ DOMAIN nodes' = DOMAIN nodes \cup {n} /\ file' = file /\ at \in Nat
      /\ \A k \in DOMAIN nodes : k < n /\ k \in Lines
      /\ n \in Lines
  <2>1. Above /\ DOMAIN nodes' = DOMAIN nodes \cup {n} /\ n \in Lines
      BY PlacesShape
  <2>2. /\ file' = file /\ at \in Nat
        /\ \A k \in DOMAIN nodes : k \in 1 .. at /\ k < n
      BY <2>1 DEF Above
  <2>3. 1 .. at \subseteq Lines
      BY <2>2, LineFacts DEF ShapeOK
  <2> QED BY <2>1, <2>2, <2>3
<1>2. /\ DOMAIN stack = 1 .. Len(stack) /\ Len(stack) \in Nat
      /\ Width \in 0 .. Len(stack)
      /\ DOMAIN stack' = 1 .. (Width + 1) /\ stack'[Width + 1] = n
      /\ \A i \in 1 .. Width : stack'[i] = stack[i]
      /\ \A i \in DOMAIN stack : i > Width => ~(file.lines[stack[i]].indent < file.lines[n].indent)
    BY WidthIs DEF StackOK, Pushes, line
<1>3. ASSUME NEW k \in DOMAIN nodes'
      PROVE  \/ \E i \in DOMAIN stack' : stack'[i] = k
             \/ \E j \in DOMAIN nodes' :
                   j > k /\ file'.lines[j].indent <= file'.lines[k].indent
  <2>1. CASE k = n
      BY <1>2, <2>1
  <2>2. CASE k \in DOMAIN nodes /\ \A i \in DOMAIN stack : stack[i] # k
      BY <1>1, <2>2 DEF IndentOK
  <2>3. ASSUME k \in DOMAIN nodes, NEW i \in DOMAIN stack, stack[i] = k
        PROVE  \/ \E l \in DOMAIN stack' : stack'[l] = k
               \/ \E j \in DOMAIN nodes' :
                     j > k /\ file'.lines[j].indent <= file'.lines[k].indent
    <3>1. CASE i <= Width
        BY <1>2, <2>3, <3>1
    <3>2. CASE i > Width
      <4>1. ~(file.lines[k].indent < file.lines[n].indent)
          BY <1>2, <2>3, <3>2
      <4>2. file.lines[k].indent \in Nat /\ file.lines[n].indent \in Nat
          BY <1>1, <2>3, LineFacts
      <4> QED BY <1>1, <2>3, <4>1, <4>2
    <3> QED BY <1>2, <3>1, <3>2
  <2> QED BY <1>1, <2>1, <2>2, <2>3
<1> QED BY <1>3 DEF IndentOK

\* By brace, a statement changes the balances when it opens a block.
LEMMA PlacedBrace ==
    ASSUME ShapeOK, NodesOK, TreeOK, StackOK, BraceOK, mode = "brace",
           Places(Len(stack)), line.form = "statement",
           \/ line.brace /\ Pushes(Len(stack))
           \/ ~line.brace /\ stack' = stack
    PROVE  BraceOK'
<1> SUFFICES ASSUME NEW n, n = at + 1, NEW m, m = Len(stack) PROVE BraceOK'
    OBVIOUS
<1>1. /\ Above /\ DOMAIN nodes' = DOMAIN nodes \cup {n} /\ nodes'[n] = Node(m)
      /\ \A k \in DOMAIN nodes : nodes'[k] = nodes[k]
      /\ n \in Lines
    BY PlacesShape
<1>2. /\ file' = file /\ at \in Nat /\ at' = n
      /\ \A k \in DOMAIN nodes : k \in 1 .. at /\ k < n
    BY <1>1 DEF Above, Places, Read
<1>3. mode' = mode
    BY <1>2, SameMode
<1>4. /\ DOMAIN stack = 1 .. m /\ m \in Nat
      /\ \A i \in DOMAIN stack : stack[i] \in DOMAIN nodes
      /\ \A k \in DOMAIN nodes : Depth(k) \in Nat
    BY DEF StackOK, TreeOK, Depth
<1>5. /\ \A k \in DOMAIN nodes : Depth(k)' = Depth(k)
      /\ Depth(n)' = m
  <2>1. Node(m).path = Path(m)
      BY DEF Node, Path
  <2>2. Len(Path(m)) = m
      BY <1>4, PathIs
  <2> QED BY <1>1, <2>1, <2>2 DEF Depth
<1>6. /\ \A k \in DOMAIN nodes : Opens(k)' <=> Opens(k)
      /\ Opens(n)' <=> line.brace
      /\ ~Closes(n)'
  <2>1. \A k \in DOMAIN nodes : Opens(k)' <=> Opens(k)
      BY <1>1, <1>2, SameOpens
  <2>2. Opens(n)' <=> line.brace
      BY <1>1, <1>2 DEF Opens, line
  <2>3. ~Closes(n)'
      BY <1>2 DEF Closes, line
  <2> QED BY <2>1, <2>2, <2>3
<1>7. \A k \in DOMAIN nodes :
           /\ Balance(k, at + 1) \in Int
           /\ Balance(k, at + 1)' = Balance(k, at + 1) + (IF line.brace THEN 1 ELSE 0)
  <2>1. (Opens(at)' <=> line.brace) /\ ~Closes(at)'
      BY <1>2, <1>6
  <2> QED BY <1>1, <1>2, <2>1, BalanceStep
<1>8. Balance(n, at + 1)' = 0
    BY <1>2, BalanceNew
<1>9. /\ \A i \in 1 .. m : \A k : k = stack[i] => /\ k \in DOMAIN nodes /\ Opens(k)
                                                  /\ Balance(k, at + 1) = m - i
      /\ \A i \in 1 .. m : \A k \in DOMAIN nodes : Opens(k) /\ k > stack[i] => Depth(k) >= i
      /\ \A k \in DOMAIN nodes : Opens(k) => Balance(k, at + 1) < m - Depth(k)
    BY <1>4 DEF BraceOK
<1>10. CASE line.brace /\ Pushes(Len(stack))
  <2>1. /\ Len(stack') = m + 1 /\ DOMAIN stack' = 1 .. (m + 1) /\ stack'[m + 1] = n
        /\ \A i \in 1 .. m : stack'[i] = stack[i]
      BY <1>10 DEF Pushes
  <2>2. \A i \in 1 .. (m + 1) : \A k : k = stack'[i] =>
           Opens(k)' /\ Balance(k, at + 1)' = m + 1 - i
    <3> SUFFICES ASSUME NEW i \in 1 .. (m + 1), NEW k, k = stack'[i]
                 PROVE  Opens(k)' /\ Balance(k, at + 1)' = m + 1 - i
        OBVIOUS
    <3>1. CASE i \in 1 .. m
      <4>1. k \in DOMAIN nodes /\ Opens(k) /\ Balance(k, at + 1) = m - i
          BY <1>9, <2>1, <3>1
      <4>2. Opens(k)' /\ Balance(k, at + 1)' = m - i + 1
          BY <1>6, <1>7, <1>10, <4>1
      <4> QED BY <1>4, <4>2
    <3>2. CASE i = m + 1
        BY <1>4, <1>6, <1>8, <1>10, <2>1, <3>2
    <3> QED BY <1>4, <3>1, <3>2
  <2>3. \A i \in 1 .. (m + 1) : \A k \in DOMAIN nodes' :
           Opens(k)' /\ k > stack'[i] => Depth(k)' >= i
    <3> SUFFICES ASSUME NEW i \in 1 .. (m + 1), NEW k \in DOMAIN nodes',
                        Opens(k)', k > stack'[i]
                 PROVE  Depth(k)' >= i
        OBVIOUS
    <3>1. i \in 1 .. m
      <4>1. i = m + 1 => stack'[i] = n
          BY <2>1
      <4>2. ~(k > n)
          BY <1>1, <1>2
      <4> QED BY <1>4, <4>1, <4>2
    <3>2. CASE k = n
        BY <1>4, <1>5, <3>1, <3>2
    <3>3. CASE k \in DOMAIN nodes
        BY <1>5, <1>6, <1>9, <2>1, <3>1, <3>3
    <3> QED BY <1>1, <3>2, <3>3
  <2>4. \A k \in DOMAIN nodes' : Opens(k)' => Balance(k, at + 1)' < m + 1 - Depth(k)'
    <3> SUFFICES ASSUME NEW k \in DOMAIN nodes', Opens(k)'
                 PROVE  Balance(k, at + 1)' < m + 1 - Depth(k)'
        OBVIOUS
    <3>1. CASE k = n
        BY <1>4, <1>5, <1>8, <3>1
    <3>2. CASE k \in DOMAIN nodes
      <4>1. /\ Balance(k, at + 1) < m - Depth(k) /\ Balance(k, at + 1) \in Int
            /\ Depth(k) \in Nat /\ Depth(k)' = Depth(k)
            /\ Balance(k, at + 1)' = Balance(k, at + 1) + 1
          BY <1>4, <1>5, <1>6, <1>7, <1>9, <1>10, <3>2
      <4> QED BY <1>4, <4>1
    <3> QED BY <1>1, <3>1, <3>2
  <2>5. \A i \in DOMAIN stack' : Opens(stack[i])' /\ Balance(stack[i], at + 1)' = Len(stack') - i
      BY <2>1, <2>2
  <2>6. \A i \in DOMAIN stack' : \A k \in DOMAIN nodes' :
           Opens(k)' /\ k > stack'[i] => Depth(k)' >= i
      BY <2>1, <2>3
  <2>7. \A k \in DOMAIN nodes' : Opens(k)' => Balance(k, at + 1)' < Len(stack') - Depth(k)'
    <3> SUFFICES ASSUME NEW k \in DOMAIN nodes', Opens(k)'
                 PROVE  Balance(k, at + 1)' < Len(stack') - Depth(k)'
        OBVIOUS
    <3>1. Len(stack') = m + 1
        BY <2>1
    <3>2. Balance(k, at + 1)' < m + 1 - Depth(k)'
        BY <2>4
    <3>3. Depth(k)' \in Nat
        BY <1>1, <1>4, <1>5
    <3> QED BY <1>4, <3>1, <3>2, <3>3
  <2> QED BY <2>5, <2>6, <2>7 DEF BraceOK
<1>11. CASE ~line.brace /\ stack' = stack
  <2>1. \A i \in 1 .. m : \A k : k = stack[i] => Opens(k)' /\ Balance(k, at + 1)' = m - i
      BY <1>6, <1>7, <1>9, <1>11
  <2>2. \A i \in 1 .. m : \A k \in DOMAIN nodes' : Opens(k)' /\ k > stack[i] => Depth(k)' >= i
      BY <1>1, <1>5, <1>6, <1>9, <1>11
  <2>3. \A k \in DOMAIN nodes' : Opens(k)' => Balance(k, at + 1)' < m - Depth(k)'
      BY <1>1, <1>5, <1>6, <1>7, <1>9, <1>11
  <2> QED BY <1>3, <1>4, <1>11, <2>1, <2>2, <2>3 DEF BraceOK
<1> QED BY <1>10, <1>11

-----------------------------------------------------------------------------
(* Every step keeps the invariant.                                         *)

LEMMA InitIInv == TInit => IInv
<1> SUFFICES ASSUME TInit PROVE IInv
    OBVIOUS
<1>1. /\ file \in Files /\ at = 0 /\ nodes = <<>> /\ unplaced = <<>> /\ stack = <<>>
      /\ literal = NoWord /\ comment = FALSE /\ phase = "reading"
    BY DEF TInit, Init, TreeInit
<1>2. ShapeOK
    BY <1>1, FilesAssumption DEF ShapeOK
<1>3. ProseOK /\ TreeOK /\ IndentOK /\ NodesOK
    BY <1>1 DEF ProseOK, TreeOK, IndentOK, NodesOK, Pending
<1>4. StackOK /\ BraceOK
    BY <1>1 DEF StackOK, BraceOK
<1>5. CommentOK
  <2>1. \A k \in Lines : ~(k < at + 1)
      BY <1>1, <1>2, LineFacts
  <2> QED BY <1>1, <2>1 DEF CommentOK, InComment
<1> QED BY <1>2, <1>3, <1>4, <1>5 DEF IInv

LEMMA LiteralBodyKeeps ==
    ASSUME IInv, LiteralBody
    PROVE  IInv'
<1>1. Leaves /\ literal # NoWord /\ stack' = stack /\ comment' = comment /\ at < Len(file.lines)
      /\ file' = file /\ at' = at + 1
    BY DEF LiteralBody, Leaves, Read, more
<1>2. mode = "indent" /\ ~comment /\ comment \in BOOLEAN
    BY <1>1 DEF IInv, ProseOK, CommentOK
<1>3. ShapeOK' /\ ProseOK' /\ NodesOK' /\ TreeOK' /\ StackOK' /\ IndentOK' /\ BraceOK'
    BY <1>1, <1>2, LeavesShape, LiteralBodyProse, LeavesNodes, LeavesTree, LeavesStack DEF IInv
<1>4. CommentOK'
    BY <1>1, <1>2, CommentKept DEF IInv
<1> QED BY <1>3, <1>4 DEF IInv

\* A line that is left out of the tree outside prose.
LEMMA LeftKeeps ==
    ASSUME IInv, Leaves, literal = NoWord, literal' = literal, stack' = stack,
           \/ file.lines[at + 1].form # "statement" \/ comment
           \/ file.lines[at + 1].text = <<>>,
           comment' \in BOOLEAN,
           mode # "brace" => ~comment',
           mode = "brace" =>
              /\ ~Closes(at + 1)
              /\ comment' <=> /\ ~file.lines[at + 1].ends
                              /\ comment \/ file.lines[at + 1].form = "block_comment"
    PROVE  IInv'
<1>1. at < Len(file.lines) /\ file' = file /\ at' = at + 1 /\ nodes' = nodes
    BY DEF Leaves, Read, more
<1>2. ShapeOK' /\ Above
    BY LeavesShape DEF IInv
<1>3. NodesOK' /\ TreeOK'
    BY LeavesNodes, LeavesTree DEF IInv
<1>4. StackOK' /\ IndentOK' /\ BraceOK'
    BY LeavesStack DEF IInv
<1>5. ProseOK'
    BY <1>1, <1>2, OrdinaryProse DEF IInv
<1>6. CommentOK'
    BY <1>1, CommentKept DEF IInv, CommentOK
<1> QED BY <1>2, <1>3, <1>4, <1>5, <1>6 DEF IInv

LEMMA BlockCommentKeeps ==
    ASSUME IInv, BlockComment
    PROVE  IInv'
<1>1. /\ Leaves /\ comment /\ comment' = ~file.lines[at + 1].ends /\ literal' = literal
      /\ stack' = stack /\ at < Len(file.lines)
    BY DEF BlockComment, Leaves, Read, more, line
<1>2. mode = "brace" /\ literal = NoWord /\ ~Closes(at + 1)
    BY <1>1, CommentIs DEF IInv, CommentOK, ProseOK, Closes
<1>3. comment' \in BOOLEAN
    BY <1>1
<1> QED BY <1>1, <1>2, <1>3, LeftKeeps

LEMMA BlankOrCommentKeeps ==
    ASSUME IInv, BlankOrComment
    PROVE  IInv'
<1>1. /\ Leaves /\ ~comment /\ comment' = comment /\ literal = NoWord /\ literal' = literal
      /\ stack' = stack /\ file.lines[at + 1].form \in {"blank", "comment"}
      /\ at < Len(file.lines)
    BY DEF BlankOrComment, Leaves, Read, more, line, Ordinary
<1>2. ~Closes(at + 1) /\ comment \in BOOLEAN
    BY <1>1 DEF Closes, IInv, CommentOK
<1> QED BY <1>1, <1>2, LeftKeeps

LEMMA OpenCommentKeeps ==
    ASSUME IInv, OpenComment
    PROVE  IInv'
<1>1. /\ Leaves /\ comment' = ~file.lines[at + 1].ends /\ literal = NoWord /\ literal' = literal
      /\ stack' = stack /\ file.lines[at + 1].form = "block_comment" /\ mode = "brace"
      /\ at < Len(file.lines)
    BY DEF OpenComment, Leaves, Read, more, line, Ordinary
<1>2. ~Closes(at + 1) /\ comment' \in BOOLEAN
    BY <1>1 DEF Closes
<1> QED BY <1>1, <1>2, LeftKeeps

LEMMA ClosingBraceKeeps ==
    ASSUME IInv, ClosingBrace
    PROVE  IInv'
<1>1. /\ Leaves /\ ~comment /\ comment' = comment /\ literal = NoWord /\ literal' = literal
      /\ file.lines[at + 1].form = "close" /\ mode = "brace"
      /\ at < Len(file.lines) /\ file' = file /\ at' = at + 1 /\ nodes' = nodes
    BY DEF ClosingBrace, Leaves, Read, more, line, Ordinary
<1>2. ShapeOK' /\ Above
    BY <1>1, LeavesShape DEF IInv
<1>3. NodesOK' /\ TreeOK'
    BY <1>1, LeavesNodes, LeavesTree DEF IInv
<1>4. StackOK' /\ IndentOK' /\ BraceOK'
    BY ClosingStack DEF IInv
<1>5. ProseOK'
    BY <1>1, <1>2, OrdinaryProse DEF IInv
<1>6. CommentOK'
    BY <1>1, CommentKept DEF IInv, CommentOK
<1> QED BY <1>2, <1>3, <1>4, <1>5, <1>6 DEF IInv

LEMMA PlaceIs ==
    ASSUME NEW m \in Nat, NEW s, Read, UNCHANGED unplaced, Place(s), Len(s) = m,
           DOMAIN s = 1 .. m, s = <<>> <=> m = 0, \A i \in 1 .. m : s[i] = stack[i]
    PROVE  Places(m)
<1>1. (IF s = <<>> THEN 0 ELSE Last(s)) = IF m = 0 THEN 0 ELSE stack[m]
    BY DEF Last
<1>2. [i \in DOMAIN s |-> nodes[s[i]].text] = [i \in 1 .. m |-> nodes[stack[i]].text]
    OBVIOUS
<1> QED BY <1>1, <1>2 DEF Place, Places, Node

LEMMA IndentedStatementKeeps ==
    ASSUME IInv, IndentedStatement
    PROVE  IInv'
<1>1. /\ Read /\ UNCHANGED unplaced /\ Place(Pop) /\ stack' = Append(Pop, at + 1)
      /\ literal = NoWord /\ ~comment /\ comment' = comment /\ literal' = line.until
      /\ line.form = "statement" /\ mode = "indent"
      /\ at < Len(file.lines) /\ file' = file /\ at' = at + 1
    BY DEF IndentedStatement, Statement, Read, more, Ordinary
<1>2. ShapeOK /\ ProseOK /\ CommentOK /\ NodesOK /\ TreeOK /\ StackOK /\ IndentOK /\ BraceOK
    BY DEF IInv
<1>3. Width \in 0 .. Len(stack) /\ Pop = SubSeq(stack, 1, Width) /\ Len(stack) \in Nat
    BY <1>2, WidthIs DEF StackOK
<1>4. /\ Pop \in Seq(DOMAIN nodes) /\ Len(Pop) = Width /\ DOMAIN Pop = 1 .. Width
      /\ \A i \in 1 .. Width : Pop[i] = stack[i]
    BY <1>2, <1>3, PrefixIs
<1>5. Pop = <<>> <=> Width = 0
    BY <1>4, EmptySeq
<1>6. Places(Width)
  <2>1. Read /\ UNCHANGED unplaced /\ Place(Pop)
      BY <1>1
  <2>2. Width \in Nat
      BY <1>3
  <2> QED BY <1>4, <1>5, <2>1, <2>2, PlaceIs
<1>7. Pushes(Width)
    BY <1>1, <1>2, <1>3, <1>4, <1>6, PushesIs
<1>8. /\ ShapeOK' /\ Above /\ DOMAIN nodes' = DOMAIN nodes \cup {at + 1} /\ at + 1 \in Lines
    BY <1>2, <1>6, PlacesShape
<1>9. line.text # <<>>
    BY <1>1, <1>2, <1>8, LineFacts DEF line
<1>10. NodesOK'
    BY <1>1, <1>2, <1>6, <1>9, PlacesNodes DEF line
<1>11. TreeOK'
    BY <1>1, <1>2, <1>3, <1>6, PlacesTree, EnclosingByIndent
<1>12. StackOK' /\ IndentOK'
    BY <1>1, <1>2, <1>3, <1>6, <1>7, PushedStack, PushedIndent
<1>13. BraceOK'
    BY <1>1, SameMode DEF BraceOK
<1>14. ProseOK'
    BY <1>1, <1>2, <1>8, OrdinaryProse
<1>15. CommentOK'
    BY <1>1, <1>2, CommentKept DEF CommentOK
<1> QED BY <1>8, <1>10, <1>11, <1>12, <1>13, <1>14, <1>15 DEF IInv

LEMMA BracedStatementKeeps ==
    ASSUME IInv, BracedStatement
    PROVE  IInv'
<1>1. /\ Read /\ literal = NoWord /\ ~comment /\ comment' = comment /\ literal' = literal
      /\ file.lines[at + 1].form = "statement" /\ mode = "brace"
      /\ at < Len(file.lines) /\ file' = file /\ at' = at + 1
    BY DEF BracedStatement, Statement, Read, more, Ordinary, line
<1>2. ShapeOK /\ ProseOK /\ CommentOK /\ NodesOK /\ TreeOK /\ StackOK /\ IndentOK /\ BraceOK
    BY DEF IInv
<1>3. CASE line.text = <<>>
  <2>1. Leaves /\ stack' = stack
      BY <1>3 DEF BracedStatement, Statement, Leaves
  <2>2. ~Closes(at + 1)
      BY <1>1 DEF Closes
  <2>3. comment' \in BOOLEAN /\ file.lines[at + 1].text = <<>>
      BY <1>1, <1>2, <1>3 DEF CommentOK, line
  <2> QED BY <1>1, <2>1, <2>2, <2>3, LeftKeeps
<1>4. CASE line.text # <<>>
  <2>1. Place(stack) /\ UNCHANGED unplaced /\ stack' = IF line.brace THEN Append(stack, at + 1) ELSE stack
      BY <1>4 DEF BracedStatement
  <2> DEFINE m == Len(stack)
  <2>2. /\ m \in 0 .. Len(stack) /\ m \in Nat /\ DOMAIN stack = 1 .. m
        /\ stack \in Seq(DOMAIN nodes)
        /\ stack = <<>> <=> m = 0
      BY <1>2, EmptySeq DEF StackOK
  <2>3. Places(m)
      BY <1>1, <2>1, <2>2, PlaceIs
  <2>4. /\ ShapeOK' /\ Above /\ DOMAIN nodes' = DOMAIN nodes \cup {at + 1} /\ at + 1 \in Lines
      BY <1>2, <2>3, PlacesShape
  <2>5. line.brace => Pushes(m)
    <3>1. \A s \in Seq(DOMAIN nodes) :
             Len(s) = m /\ (\A i \in 1 .. m : s[i] = stack[i]) /\ stack' = Append(s, at + 1)
             => Pushes(m)
        BY <1>2, <2>2, <2>3, PushesIs
    <3>2. line.brace => stack' = Append(stack, at + 1)
        BY <2>1
    <3> QED BY <2>2, <3>1, <3>2
  <2>6. line.brace \in BOOLEAN /\ line.form = "statement"
      BY <1>1, <1>2, <2>4, LineFacts DEF line
  <2>7. NodesOK'
      BY <1>1, <1>2, <1>4, <2>3, PlacesNodes DEF line
  <2>8. TreeOK'
      BY <1>1, <1>2, <2>2, <2>3, PlacesTree, EnclosingByBrace
  <2>9. BraceOK'
      BY <1>1, <1>2, <2>1, <2>3, <2>5, <2>6, PlacedBrace
  <2>10. StackOK'
    <3>1. CASE line.brace
        BY <1>1, <1>2, <2>2, <2>3, <2>5, <3>1, PushedStack
    <3>2. CASE ~line.brace
        BY <1>1, <1>2, <2>1, <2>3, <3>2, KeptStack
    <3> QED BY <3>1, <3>2
  <2>11. IndentOK'
      BY <1>1, SameMode DEF IndentOK
  <2>12. ProseOK'
      BY <1>1, <1>2, <2>4, OrdinaryProse
  <2>13. CommentOK'
      BY <1>1, <1>2, CommentKept DEF CommentOK
  <2> QED BY <2>4, <2>7, <2>8, <2>9, <2>10, <2>11, <2>12, <2>13 DEF IInv
<1> QED BY <1>3, <1>4

LEMMA FlatStatementKeeps ==
    ASSUME IInv, FlatStatement
    PROVE  IInv'
<1>1. /\ Read /\ UNCHANGED unplaced /\ literal = NoWord /\ ~comment /\ comment' = comment
      /\ literal' = literal /\ stack' = stack /\ Place(<<>>)
      /\ line.form = "statement" /\ mode = "set"
      /\ at < Len(file.lines) /\ file' = file /\ at' = at + 1
    BY DEF FlatStatement, Statement, Read, more, Ordinary
<1>2. ShapeOK /\ ProseOK /\ CommentOK /\ NodesOK /\ TreeOK /\ StackOK /\ IndentOK /\ BraceOK
    BY DEF IInv
<1>3. 0 \in 0 .. Len(stack)
    BY <1>2 DEF StackOK
<1>4. Places(0)
    BY <1>1, PlaceIs
<1>5. /\ ShapeOK' /\ Above /\ DOMAIN nodes' = DOMAIN nodes \cup {at + 1} /\ at + 1 \in Lines
    BY <1>2, <1>4, PlacesShape
<1>6. line.text # <<>>
    BY <1>1, <1>2, <1>5, LineFacts DEF line
<1>7. NodesOK'
    BY <1>1, <1>2, <1>4, <1>6, PlacesNodes DEF line
<1>8. TreeOK'
    BY <1>1, <1>2, <1>3, <1>4, PlacesTree, EnclosingFlat
<1>9. StackOK'
    BY <1>1, <1>2, <1>3, <1>4, KeptStack
<1>10. IndentOK' /\ BraceOK'
    BY <1>1, SameMode DEF IndentOK, BraceOK
<1>11. ProseOK'
    BY <1>1, <1>2, <1>5, OrdinaryProse
<1>12. CommentOK'
    BY <1>1, <1>2, CommentKept DEF CommentOK
<1> QED BY <1>5, <1>7, <1>8, <1>9, <1>10, <1>11, <1>12 DEF IInv

\* A node has a parent where it has a path, and every line is accounted for.
LEMMA TreeIsCoherent ==
    ASSUME ShapeOK, TreeOK, at = Len(file.lines)
    PROVE  Coherent
<1>1. Lines = 1 .. Len(file.lines) /\ Len(file.lines) \in Nat
    BY LineFacts
<1>2. DOMAIN nodes \cap DOMAIN unplaced = {} /\ DOMAIN nodes \cup DOMAIN unplaced = DOMAIN file.lines
    BY <1>1 DEF ShapeOK, Lines
<1>3. ASSUME NEW n \in DOMAIN nodes
      PROVE  IF nodes[n].path = <<>> THEN nodes[n].parent = 0
             ELSE nodes[n].parent \in DOMAIN nodes \ {n}
  <2>1. n \in Nat /\ n # 0
      BY <1>1 DEF ShapeOK
  <2>2. CASE Enclosing(n) = 0
      BY <2>2 DEF TreeOK
  <2>3. CASE Enclosing(n) # 0
    <3>1. Enclosing(n) \in DOMAIN nodes /\ Enclosing(n) < n /\ nodes[n].parent = Enclosing(n)
        BY <2>3 DEF TreeOK
    <3>2. Enclosing(n) # n
        BY <2>1, <3>1
    <3>3. nodes[n].path # <<>>
      <4>1. nodes[Enclosing(n)].path \in Seq(Texts)
          BY <3>1 DEF TreeOK
      <4>2. nodes[n].path = Append(nodes[Enclosing(n)].path, nodes[Enclosing(n)].text)
          BY <2>3 DEF TreeOK
      <4>3. Len(nodes[n].path) = Len(nodes[Enclosing(n)].path) + 1
          BY <4>1, <4>2
      <4> QED BY <4>1, <4>3, EmptySeq
    <3> QED BY <3>1, <3>2, <3>3
  <2> QED BY <2>2, <2>3
<1> QED BY <1>2, <1>3 DEF Coherent

\* The steps that read no line leave the tree as it is.
TreeKept == UNCHANGED <<file, at, nodes, unplaced, stack, literal, comment>>

LEMMA TreeKeptKeeps ==
    ASSUME IInv, TreeKept, ShapeOK'
    PROVE  IInv'
<1>1. /\ file' = file /\ at' = at /\ nodes' = nodes /\ unplaced' = unplaced /\ stack' = stack
      /\ literal' = literal /\ comment' = comment /\ mode' = mode
    BY SameMode DEF TreeKept
<1>2. /\ ShapeOK /\ ProseOK /\ CommentOK /\ NodesOK /\ TreeOK /\ StackOK /\ IndentOK /\ BraceOK
      /\ at \in Nat /\ DOMAIN nodes \subseteq 1 .. at
    BY LineFacts DEF IInv, ShapeOK
<1>3. Above
    BY <1>1, <1>2 DEF Above
<1>4. ProseOK'
    BY <1>1, <1>2 DEF ProseOK, Pending
<1>5. CommentOK'
    BY <1>1, <1>2 DEF CommentOK, InComment, Lines
<1>6. NodesOK'
  <2>1. \A n \in 1 .. at : (InLiteral(n)' <=> InLiteral(n)) /\ (InComment(n)' <=> InComment(n))
      BY <1>1, <1>2, <1>3, SameLiteral, SameComment
  <2> QED BY <1>1, <1>2, <2>1 DEF NodesOK
<1>7. TreeOK'
  <2>1. \A n \in DOMAIN nodes : Enclosing(n)' = Enclosing(n)
      BY <1>2, <1>3, SameEnclosing
  <2>2. Texts' = Texts
      BY <1>1 DEF Texts
  <2> QED BY <1>1, <1>2, <2>1, <2>2 DEF TreeOK
<1>8. StackOK' /\ IndentOK'
    BY <1>1, <1>2 DEF StackOK, IndentOK
<1>9. BraceOK'
  <2>1. \A k \in DOMAIN nodes :
           /\ Opens(k)' <=> Opens(k)
           /\ Depth(k)' = Depth(k)
      BY <1>1 DEF Opens, Depth
  <2>2. \A k \in DOMAIN nodes : Balance(k, at + 1)' = Balance(k, at + 1)
    <3> SUFFICES ASSUME NEW k \in DOMAIN nodes PROVE Balance(k, at + 1)' = Balance(k, at + 1)
        OBVIOUS
    <3>1. \A j : Opens(j)' <=> Opens(j)
        BY <1>1 DEF Opens
    <3>2. \A j : Closes(j)' <=> Closes(j)
        BY <1>1, SameComment DEF Closes
    <3>3. OpensIn(k, at + 1)' = OpensIn(k, at + 1) /\ ClosesIn(k, at + 1)' = ClosesIn(k, at + 1)
        BY <1>1, <3>1, <3>2 DEF OpensIn, ClosesIn
    <3> QED BY <3>3 DEF Balance
  <2>3. \A i \in DOMAIN stack : stack[i] \in DOMAIN nodes
      BY <1>2 DEF StackOK
  <2> QED BY <1>1, <1>2, <2>1, <2>2, <2>3 DEF BraceOK
<1> QED BY <1>4, <1>5, <1>6, <1>7, <1>8, <1>9 DEF IInv

LEMMA EndOfFileKeeps ==
    ASSUME IInv, EndOfFile
    PROVE  IInv'
<1>1. TreeKept /\ at = Len(file.lines) /\ phase' \in {"tree", "refused"}
      /\ (phase' = "tree" <=> literal = NoWord /\ Coherent)
    BY DEF EndOfFile, TreeKept
<1>2. Coherent
    BY <1>1, TreeIsCoherent DEF IInv
<1>3. ShapeOK'
    BY <1>1, <1>2 DEF IInv, ShapeOK, TreeKept
<1> QED BY <1>1, <1>3, TreeKeptKeeps

LEMMA NextIInv ==
    ASSUME IInv, [TNext]_<<vars, lesson>>
    PROVE  IInv'
<1>1. CASE ReadLine
    BY <1>1, LiteralBodyKeeps, BlockCommentKeeps, BlankOrCommentKeeps, OpenCommentKeeps,
       ClosingBraceKeeps, IndentedStatementKeeps, BracedStatementKeeps, FlatStatementKeeps,
       EndOfFileKeeps DEF ReadLine
<1>2. CASE Extract
  <2>1. TreeKept /\ phase = "tree" /\ phase' = "extracted"
      BY <1>2 DEF Extract, TreeKept
  <2>2. ShapeOK'
      BY <2>1 DEF IInv, ShapeOK, TreeKept
  <2> QED BY <2>1, <2>2, TreeKeptKeeps
<1>3. CASE Analyse
  <2>1. TreeKept /\ phase = "extracted" /\ phase' = "analysed"
      BY <1>3 DEF Analyse, TreeKept
  <2>2. ShapeOK'
      BY <2>1 DEF IInv, ShapeOK, TreeKept
  <2> QED BY <2>1, <2>2, TreeKeptKeeps
<1>4. ASSUME NEW n, NEW token, NEW value, NEW cast, NEW generalise,
             Teach(n, token, value, cast, generalise)
      PROVE  IInv'
  <2>1. TreeKept /\ phase = "extracted" /\ phase' = "taught"
      BY <1>4 DEF Teach, TreeKept
  <2>2. ShapeOK'
      BY <2>1 DEF IInv, ShapeOK, TreeKept
  <2> QED BY <2>1, <2>2, TreeKeptKeeps
<1>5. CASE UNCHANGED <<vars, lesson>>
  <2>1. TreeKept /\ phase' = phase
      BY <1>5 DEF vars, TreeKept
  <2>2. ShapeOK'
      BY <2>1 DEF IInv, ShapeOK, TreeKept
  <2> QED BY <2>1, <2>2, TreeKeptKeeps
<1> QED BY <1>1, <1>2, <1>3, <1>4, <1>5 DEF TNext, Next

-----------------------------------------------------------------------------
(* The theorems.                                                           *)

\* The invariant holds of every reading of every file.
THEOREM Invariance == TSpec => []IInv
<1>1. TInit => IInv
    BY InitIInv
<1>2. IInv /\ [TNext]_<<vars, lesson>> => IInv'
    BY NextIInv
<1> QED BY <1>1, <1>2, PTL DEF TSpec

\* The tree that is handed on is the one the file says: every line is a node
\* or accounted for and never both, no prose and no comment is a node, each
\* node stands in its block with the whole path to it, and a file is refused
\* only for a literal that does not end.
THEOREM TreeAlwaysFollowsTheFile == TSpec => []TreeFollowsTheFile
<1>1. IInv => TreeFollowsTheFile
  <2> SUFFICES ASSUME IInv, phase \in {"tree", "refused"} PROVE TreeFollowsTheFile
      BY DEF TreeFollowsTheFile
  <2>1. Lines = 1 .. at /\ at = Len(file.lines)
      BY LineFacts DEF IInv, ShapeOK
  <2>2. (phase = "refused" <=> literal # NoWord) /\ DOMAIN nodes \cup DOMAIN unplaced = Lines
        /\ DOMAIN nodes \cap DOMAIN unplaced = {}
      BY <2>1 DEF IInv, ShapeOK
  <2>3. \A n \in Lines :
           n \in DOMAIN nodes <=>
               /\ file.lines[n].form = "statement" /\ ~InLiteral(n) /\ ~InComment(n)
               /\ file.lines[n].text # <<>>
      BY <2>1 DEF IInv, NodesOK
  <2>4. \A n \in DOMAIN nodes :
           /\ nodes[n].parent = Enclosing(n)
           /\ nodes[n].path = IF Enclosing(n) = 0 THEN <<>>
                              ELSE Append(nodes[Enclosing(n)].path, nodes[Enclosing(n)].text)
      BY DEF IInv, TreeOK
  <2> QED BY <2>2, <2>3, <2>4 DEF TreeFollowsTheFile
<1> QED BY <1>1, Invariance, PTL

-----------------------------------------------------------------------------
(* Coverage of one entry of an access list by another, over the packets    *)
(* they admit: all ports, any protocols and addresses, and any content     *)
(* (members) of the addresses that are not resolved.                       *)

Holds(address, a, members) ==
    IF Resolved(address) THEN \E n \in address.networks : a \in n
    ELSE a \in members[address]

In(port, ports) == ports.low <= port /\ port <= ports.high

PacketOK(p) == p.sport \in Int /\ p.dport \in Int

PortsOK(e) == {e.sport.low, e.sport.high, e.dport.low, e.dport.high} \subseteq Int

Passes(e, p, members) ==
    /\ e.protocol \in Universal \/ p.protocol = e.protocol
    /\ Holds(e.src, p.src, members) /\ In(p.sport, e.sport)
    /\ Holds(e.dst, p.dst, members) /\ In(p.dport, e.dport)
    /\ e.established => p.established

LEMMA AllTrueIs ==
    ASSUME NEW answers
    PROVE  /\ AllTrue(answers) = "yes" <=> "no" \notin answers /\ "unknown" \notin answers
           /\ AllTrue(answers) = "no" <=> "no" \in answers
    BY DEF AllTrue

LEMMA AddressCoversIs ==
    ASSUME NEW outer, NEW inner
    PROVE  /\ AddressCovers(outer, inner) \in {"yes", "no", "unknown"}
           /\ AddressCovers(outer, inner) = "yes" =>
                 \A a, members : Holds(inner, a, members) => Holds(outer, a, members)
           /\ AddressCovers(outer, inner) = "no" =>
                 /\ Resolved(outer) /\ Resolved(inner)
                 /\ \E n \in inner.networks : \A o \in outer.networks : ~(n \subseteq o)
    BY DEF AddressCovers, Known, Holds

\* An entry that covers another (covers) lets every packet of it through, in
\* whatever way the unresolved addresses are resolved.
THEOREM CoversIsSound ==
    ASSUME NEW outer, NEW inner, PortsOK(outer), PortsOK(inner), Covers(outer, inner) = "yes",
           NEW members, NEW p, PacketOK(p), Passes(inner, p, members)
    PROVE  Passes(outer, p, members)
<1> DEFINE answers == {ProtocolCovers(outer.protocol, inner.protocol),
                       AddressCovers(outer.src, inner.src),
                       AddressCovers(outer.dst, inner.dst),
                       PortCovers(outer.sport, inner.sport),
                       PortCovers(outer.dport, inner.dport)}
<1>1. ~(outer.established /\ ~inner.established) /\ AllTrue(answers) = "yes"
    BY DEF Covers
<1>2. "no" \notin answers /\ "unknown" \notin answers
    BY <1>1, AllTrueIs
<1>3. outer.protocol \in Universal \/ p.protocol = outer.protocol
    BY <1>2 DEF ProtocolCovers, Known, Passes
<1>4. Holds(outer.src, p.src, members) /\ Holds(outer.dst, p.dst, members)
  <2>1. AddressCovers(outer.src, inner.src) = "yes" /\ AddressCovers(outer.dst, inner.dst) = "yes"
      BY <1>2, AddressCoversIs
  <2> QED BY <2>1, AddressCoversIs DEF Passes
<1>5. In(p.sport, outer.sport) /\ In(p.dport, outer.dport)
  <2>1. /\ outer.sport.low <= inner.sport.low /\ inner.sport.high <= outer.sport.high
        /\ outer.dport.low <= inner.dport.low /\ inner.dport.high <= outer.dport.high
      BY <1>2 DEF PortCovers, Known
  <2> QED BY <2>1 DEF In, Passes, PacketOK, PortsOK
<1>6. outer.established => p.established
    BY <1>1 DEF Passes
<1> QED BY <1>3, <1>4, <1>5, <1>6 DEF Passes

\* An entry reported as shadowed or redundant (_observe) decides no packet of
\* its list: each entry named as a cause stands above it and lets all of its
\* packets through, and a cause that shadows it has the other action.
THEOREM ReportsAreCovered ==
    ASSUME NEW entries, \A j \in DOMAIN entries : j \in Nat \ {0} /\ PortsOK(entries[j]),
           \A j \in DOMAIN entries : 1 .. j \subseteq DOMAIN entries,
           NEW o \in AnalyseAcl(entries), o.kind \in {"SHADOWED", "REDUNDANT"}
    PROVE  /\ o.entry \in DOMAIN entries /\ o.causes # {} /\ o.causes \subseteq 1 .. (o.entry - 1)
           /\ \A j \in o.causes :
                 /\ entries[j].action = entries[o.entry].action <=> o.kind = "REDUNDANT"
                 /\ \A members, p :
                       PacketOK(p) /\ Passes(entries[o.entry], p, members)
                       => Passes(entries[j], p, members)
<1>1. PICK i \in DOMAIN entries : o \in Permissive(entries, i) \cup Reachability(entries, i)
    BY DEF AnalyseAcl
<1>2. o \in Reachability(entries, i)
    BY <1>1 DEF Permissive, Observation
<1> DEFINE covering == {j \in 1 .. (i - 1) : Covers(entries[j], entries[i]) = "yes"}
           same == {j \in covering : entries[j].action = entries[i].action}
<1>3. \/ o = Observation("SHADOWED", i, covering \ same) /\ covering \ same # {}
      \/ o = Observation("REDUNDANT", i, same) /\ same # {}
    BY <1>2 DEF Reachability, Observation
<1>4. /\ o.entry = i /\ o.causes # {} /\ o.causes \subseteq covering
      /\ \A j \in o.causes : entries[j].action = entries[i].action <=> o.kind = "REDUNDANT"
    BY <1>3 DEF Observation
<1>5. \A j \in covering : j \in DOMAIN entries /\ Covers(entries[j], entries[i]) = "yes"
    OBVIOUS
<1>6. ASSUME NEW j \in covering, NEW members, NEW p, PacketOK(p), Passes(entries[i], p, members)
      PROVE  Passes(entries[j], p, members)
    BY <1>5, <1>6, CoversIsSound
<1> QED BY <1>4, <1>6

LEMMA AtMostOne ==
    ASSUME NEW S, IsFiniteSet(S), Cardinality(S) <= 1
    PROVE  \A x, y \in S : x = y
<1>1. Cardinality(S) \in Nat
    BY FS_CardinalityType
<1>2. CASE Cardinality(S) = 0
    BY <1>2, FS_EmptySet
<1>3. CASE Cardinality(S) = 1
    BY <1>3, FS_Singleton
<1> QED BY <1>1, <1>2, <1>3

\* What an address must be: networks of one family each, and all of both
\* families where it is any.
ProperAddress(address) ==
    /\ IsFiniteSet(address.networks)
    /\ address.any => address.networks = {Address, Address6}
    /\ \A n \in address.networks : n # {} /\ (n \subseteq Address \/ n \subseteq Address6)

\* Where coverage of an address is denied that the analysis means to find, an
\* address of the family is in the one and not in the other.
LEMMA SomeAddressEscapes ==
    ASSUME NEW family \in {Address, Address6}, NEW outer, NEW inner,
           ProperAddress(outer), ProperAddress(inner), Comparable(family, outer, inner),
           AddressCovers(outer, inner) = "no", NEW members
    PROVE  \E a \in family \cap UNION inner.networks :
              Holds(inner, a, members) /\ ~Holds(outer, a, members)
<1>1. Resolved(outer) /\ Resolved(inner)
    BY AddressCoversIs
<1>2. PICK n \in inner.networks : \A o \in outer.networks : ~(n \subseteq o)
    BY AddressCoversIs
<1>3. ~outer.any
    BY <1>2 DEF ProperAddress
<1>4. PICK o \in outer.networks : TRUE
    BY <1>1 DEF Resolved
<1>5. \A x \in outer.networks : x = o
    BY <1>3, <1>4, AtMostOne DEF Comparable, ProperAddress
<1>6. PICK m \in inner.networks : m \cap family # {} /\ ~(m \cap family \subseteq o)
  <2>1. CASE inner.any
    <3>1. family \in inner.networks /\ family # o
        BY <1>4, <1>5, <2>1 DEF ProperAddress, Comparable
    <3>2. ~(family \subseteq o)
        BY <1>4, <3>1, FamiliesAssumption DEF ProperAddress
    <3> QED BY <3>1, <3>2
  <2>2. CASE ~inner.any
    <3>1. n \subseteq family
        BY <1>2, <2>2 DEF Comparable
    <3> QED BY <1>2, <1>4, <3>1
  <2> QED BY <2>1, <2>2
<1>7. PICK a \in m \cap family : a \notin o
    BY <1>6
<1> QED BY <1>1, <1>5, <1>6, <1>7 DEF Holds

\* A packet that differs from q in one respect, by what the entry says there.
Near(p, q, e, family) ==
    /\ p = [protocol |-> p.protocol, src |-> p.src, sport |-> p.sport,
            dst |-> p.dst, dport |-> p.dport, established |-> p.established]
    /\ p.protocol \in {q.protocol, "tcp", "udp"}
    /\ p.src \in {q.src} \cup (family \cap UNION e.src.networks)
    /\ p.dst \in {q.dst} \cup (family \cap UNION e.dst.networks)
    /\ p.sport \in {q.sport, e.sport.low, e.sport.high}
    /\ p.dport \in {q.dport, e.dport.low, e.dport.high}
    /\ \/ p.established = FALSE
       \/ /\ p.established = q.established
          /\ p.protocol = q.protocol \/ (e.established /\ e.protocol \in Universal)

\* The other direction: where the answer is no, and the analysis means to find
\* coverage of the addresses, some packet passes the entry above by, if the
\* entry below has any at all: one that is near any it has, of the family.
THEOREM NoIsNoCover ==
    ASSUME NEW family \in {Address, Address6}, NEW outer, NEW inner,
           PortsOK(outer), PortsOK(inner), Covers(outer, inner) = "no",
           ProperAddress(outer.src), ProperAddress(inner.src),
           ProperAddress(outer.dst), ProperAddress(inner.dst),
           Comparable(family, outer.src, inner.src), Comparable(family, outer.dst, inner.dst),
           NEW members, NEW q, PacketOK(q), Passes(inner, q, members)
    PROVE  \E p : /\ PacketOK(p) /\ Passes(inner, p, members)
                  /\ ~Passes(outer, p, members) /\ Near(p, q, inner, family)
<1> DEFINE Packet(protocol, src, sport, dst, dport, established) ==
               [protocol |-> protocol, src |-> src, sport |-> sport,
                dst |-> dst, dport |-> dport, established |-> established]
<1>1. CASE outer.established /\ ~inner.established
  <2> DEFINE p == Packet(q.protocol, q.src, q.sport, q.dst, q.dport, FALSE)
  <2>1. PacketOK(p) /\ Passes(inner, p, members) /\ ~Passes(outer, p, members)
      BY <1>1 DEF Passes, PacketOK
  <2>2. Near(p, q, inner, family)
      BY <1>1 DEF Near
  <2> QED BY <2>1, <2>2
<1>2. CASE ProtocolCovers(outer.protocol, inner.protocol) = "no"
  <2>1. outer.protocol \notin Universal /\ ~(inner.protocol \notin Universal /\ outer.protocol = inner.protocol)
      BY <1>2 DEF ProtocolCovers, Known
  <2>2. PICK x : /\ x # outer.protocol
                 /\ (inner.protocol \in Universal /\ x \in {"tcp", "udp"}) \/ x = q.protocol
    <3>1. CASE inner.protocol \in Universal
      <4>1. "tcp" # outer.protocol \/ "udp" # outer.protocol
          OBVIOUS
      <4> QED BY <3>1, <4>1
    <3>2. CASE inner.protocol \notin Universal
        BY <2>1, <3>2 DEF Passes
    <3> QED BY <3>1, <3>2
  <2> DEFINE p == Packet(x, q.src, q.sport, q.dst, q.dport,
                         IF inner.established THEN q.established ELSE FALSE)
  <2>3. PacketOK(p) /\ Passes(inner, p, members) /\ ~Passes(outer, p, members)
      BY <2>1, <2>2 DEF Passes, PacketOK
  <2>4. Near(p, q, inner, family)
    <3>1. CASE inner.established
        BY <2>2, <3>1 DEF Near
    <3>2. CASE ~inner.established
        BY <2>2, <3>2 DEF Near
    <3> QED BY <3>1, <3>2
  <2> QED BY <2>3, <2>4
<1>3. CASE AddressCovers(outer.src, inner.src) = "no"
  <2>1. PICK a \in family \cap UNION inner.src.networks :
           Holds(inner.src, a, members) /\ ~Holds(outer.src, a, members)
      BY <1>3, SomeAddressEscapes
  <2> DEFINE p == Packet(q.protocol, a, q.sport, q.dst, q.dport, q.established)
  <2>2. PacketOK(p) /\ Passes(inner, p, members) /\ ~Passes(outer, p, members)
      BY <2>1 DEF Passes, PacketOK
  <2>3. Near(p, q, inner, family)
      BY <2>1 DEF Near
  <2> QED BY <2>2, <2>3
<1>4. CASE AddressCovers(outer.dst, inner.dst) = "no"
  <2>1. PICK a \in family \cap UNION inner.dst.networks :
           Holds(inner.dst, a, members) /\ ~Holds(outer.dst, a, members)
      BY <1>4, SomeAddressEscapes
  <2> DEFINE p == Packet(q.protocol, q.src, q.sport, a, q.dport, q.established)
  <2>2. PacketOK(p) /\ Passes(inner, p, members) /\ ~Passes(outer, p, members)
      BY <2>1 DEF Passes, PacketOK
  <2>3. Near(p, q, inner, family)
      BY <2>1 DEF Near
  <2> QED BY <2>2, <2>3
<1>5. CASE PortCovers(outer.sport, inner.sport) = "no"
  <2>1. PICK x \in {inner.sport.low, inner.sport.high} : ~In(x, outer.sport) /\ In(x, inner.sport)
    <3>1. inner.sport.low <= q.sport /\ q.sport <= inner.sport.high /\ q.sport \in Int
        BY DEF Passes, In, PacketOK
    <3>2. ~(outer.sport.low <= inner.sport.low /\ inner.sport.high <= outer.sport.high)
        BY <1>5 DEF PortCovers, Known
    <3> QED BY <3>1, <3>2 DEF In, PortsOK
  <2> DEFINE p == Packet(q.protocol, q.src, x, q.dst, q.dport, q.established)
  <2>2. x \in Int
      BY DEF PortsOK
  <2>3. PacketOK(p) /\ Passes(inner, p, members) /\ ~Passes(outer, p, members)
      BY <2>1, <2>2 DEF Passes, PacketOK
  <2>4. Near(p, q, inner, family)
      BY <2>1, <2>2 DEF Near
  <2> QED BY <2>3, <2>4
<1>6. CASE PortCovers(outer.dport, inner.dport) = "no"
  <2>1. PICK x \in {inner.dport.low, inner.dport.high} : ~In(x, outer.dport) /\ In(x, inner.dport)
    <3>1. inner.dport.low <= q.dport /\ q.dport <= inner.dport.high /\ q.dport \in Int
        BY DEF Passes, In, PacketOK
    <3>2. ~(outer.dport.low <= inner.dport.low /\ inner.dport.high <= outer.dport.high)
        BY <1>6 DEF PortCovers, Known
    <3> QED BY <3>1, <3>2 DEF In, PortsOK
  <2> DEFINE p == Packet(q.protocol, q.src, q.sport, q.dst, x, q.established)
  <2>2. x \in Int
      BY DEF PortsOK
  <2>3. PacketOK(p) /\ Passes(inner, p, members) /\ ~Passes(outer, p, members)
      BY <2>1, <2>2 DEF Passes, PacketOK
  <2>4. Near(p, q, inner, family)
      BY <2>1, <2>2 DEF Near
  <2> QED BY <2>3, <2>4
<1>7. \/ outer.established /\ ~inner.established
      \/ "no" \in {ProtocolCovers(outer.protocol, inner.protocol),
                   AddressCovers(outer.src, inner.src),
                   AddressCovers(outer.dst, inner.dst),
                   PortCovers(outer.sport, inner.sport),
                   PortCovers(outer.dport, inner.dport)}
    BY AllTrueIs DEF Covers
<1> QED BY <1>1, <1>2, <1>3, <1>4, <1>5, <1>6, <1>7

-----------------------------------------------------------------------------
(* What a pattern made of a line reads.                                    *)

IsText(text) ==
    /\ text \in Seq(ToSet(text))
    /\ ToSet(text) \cap {Hole, AnyNumber, Redacted} = {}

LEMMA TextFacts ==
    ASSUME NEW text, IsText(text)
    PROVE  /\ Len(text) \in Nat /\ DOMAIN text = 1 .. Len(text)
           /\ \A i \in DOMAIN text : text[i] \notin {Hole, AnyNumber, Redacted}
<1>1. Len(text) \in Nat /\ DOMAIN text = 1 .. Len(text)
    BY DEF IsText
<1>2. \A i \in DOMAIN text : text[i] \in ToSet(text)
    BY DEF ToSet
<1> QED BY <1>1, <1>2 DEF IsText

LEMMA SameText ==
    ASSUME NEW here, NEW there, IsText(here), IsText(there), Len(here) = Len(there),
           \A i \in DOMAIN here : there[i] = here[i]
    PROVE  there = here
<1>1. here = [i \in DOMAIN here |-> here[i]] /\ there = [i \in DOMAIN there |-> there[i]]
    BY DEF IsText
<1>2. DOMAIN here = DOMAIN there
    BY TextFacts
<1> QED BY <1>1, <1>2

\* A header stands for itself and, generalised, for those of other numbers.
SameHeader(there, here, general) ==
    \/ there = here
    \/ /\ general /\ Len(there) = Len(here)
       /\ \A j \in DOMAIN here : there[j] = here[j] \/ {there[j], here[j]} \subseteq Numeral

LEMMA HeaderMeans ==
    ASSUME NEW here, NEW there, IsText(here), IsText(there), NEW general \in BOOLEAN,
           NEW header, header = [j \in DOMAIN here |->
                                   IF general /\ here[j] \in Numeral THEN AnyNumber ELSE here[j]]
    PROVE  Fits(header, there) <=> SameHeader(there, here, general)
<1>1. /\ Len(here) \in Nat /\ DOMAIN here = 1 .. Len(here)
      /\ Len(there) \in Nat /\ DOMAIN there = 1 .. Len(there)
      /\ \A i \in DOMAIN here : here[i] \notin {Hole, AnyNumber, Redacted}
      /\ \A i \in DOMAIN there : there[i] \notin {Hole, AnyNumber, Redacted}
    BY TextFacts
<1>2. Len(header) = Len(here) /\ DOMAIN header = DOMAIN here
    BY <1>1
<1>3. \A j \in DOMAIN here :
         header[j] = IF general /\ here[j] \in Numeral THEN AnyNumber ELSE here[j]
    OBVIOUS
<1> DEFINE alike(j) == \/ there[j] = here[j]
                       \/ general /\ {there[j], here[j]} \subseteq Numeral
<1>4. ASSUME Len(there) = Len(here), NEW j \in DOMAIN here
      PROVE  (\/ header[j] = there[j]
              \/ header[j] = AnyNumber /\ there[j] \in Numeral) <=> alike(j)
  <2>1. j \in DOMAIN there /\ there[j] # AnyNumber /\ here[j] # AnyNumber
      BY <1>1, <1>4
  <2>2. CASE general /\ here[j] \in Numeral
    <3>1. header[j] = AnyNumber
      BY <1>3, <1>4, <2>2
    <3> QED BY <2>1, <2>2, <3>1
  <2>3. CASE ~(general /\ here[j] \in Numeral)
    <3>1. header[j] = here[j]
      BY <1>3, <1>4, <2>3
    <3> QED BY <2>1, <2>3, <3>1
  <2> QED BY <2>2, <2>3
<1>5. Fits(header, there) <=> Len(there) = Len(here) /\ \A j \in DOMAIN here : alike(j)
  <2> HIDE DEF alike
  <2> QED BY <1>2, <1>4 DEF Fits
<1>6. CASE general
  <2>1. \A j \in DOMAIN here :
           alike(j) <=> there[j] = here[j] \/ {there[j], here[j]} \subseteq Numeral
      BY <1>6
  <2>2. SameHeader(there, here, general) <=>
           /\ Len(there) = Len(here)
           /\ \A j \in DOMAIN here : there[j] = here[j] \/ {there[j], here[j]} \subseteq Numeral
      BY <1>6 DEF SameHeader
  <2> HIDE DEF alike
  <2>3. (\A j \in DOMAIN here : alike(j)) <=>
           \A j \in DOMAIN here : there[j] = here[j] \/ {there[j], here[j]} \subseteq Numeral
      BY <2>1
  <2> QED BY <1>5, <2>2, <2>3
<1>7. CASE ~general
  <2>1. \A j \in DOMAIN here : alike(j) <=> there[j] = here[j]
      BY <1>7
  <2> HIDE DEF alike
  <2>2. CASE there = here
      BY <1>5, <2>1, <2>2 DEF SameHeader
  <2>3. CASE there # here
    <3>1. ~(Len(there) = Len(here) /\ \A j \in DOMAIN here : there[j] = here[j])
      BY <2>3, SameText
    <3> QED BY <1>5, <1>7, <2>1, <2>3, <3>1 DEF SameHeader
  <2> QED BY <2>2, <2>3
<1> QED BY <1>6, <1>7

SameBlock(there, path, general) ==
    /\ Len(path) <= Len(there)
    /\ path = <<>> => there = <<>>
    /\ \A i \in DOMAIN path : SameHeader(there[i], path[i], general)

\* A line is in the scope of the pattern where it stands in such a block.
LEMMA ScopeMeans ==
    ASSUME NEW T, \A text \in T : IsText(text), NEW path \in Seq(T), NEW there \in Seq(T),
           NEW general \in BOOLEAN, NEW p,
           p.root = (path = <<>>), p.scope = BuildScope(path, general)
    PROVE  InScope(p, there) <=> SameBlock(there, path, general)
<1>1. /\ Len(path) \in Nat /\ DOMAIN path = 1 .. Len(path)
      /\ Len(there) \in Nat /\ DOMAIN there = 1 .. Len(there)
      /\ \A i \in DOMAIN path : path[i] \in T
      /\ \A i \in DOMAIN there : there[i] \in T
    OBVIOUS
<1>2. /\ Len(p.scope) = Len(path) /\ DOMAIN p.scope = DOMAIN path
      /\ \A i \in DOMAIN path :
            p.scope[i] = [j \in DOMAIN path[i] |->
                IF general /\ path[i][j] \in Numeral THEN AnyNumber ELSE path[i][j]]
    BY <1>1 DEF BuildScope
<1>3. ASSUME NEW i \in DOMAIN path, Len(path) <= Len(there)
      PROVE  Fits(p.scope[i], there[i]) <=> SameHeader(there[i], path[i], general)
  <2>1. i \in DOMAIN there
    BY <1>1, <1>3
  <2>2. IsText(path[i]) /\ IsText(there[i])
    BY <1>1, <2>1
  <2> QED BY <1>2, <2>2, HeaderMeans
<1>4. CASE path = <<>>
  <2>1. Len(path) = 0 /\ DOMAIN path = {} /\ 0 <= Len(there)
    BY <1>1, <1>4
  <2> QED BY <1>4, <2>1 DEF InScope, SameBlock
<1>5. CASE path # <<>>
    BY <1>2, <1>3, <1>5 DEF InScope, SameBlock
<1> QED BY <1>4, <1>5

SameWords(there, here, token) ==
    /\ Len(there) = Len(here)
    /\ \A i \in DOMAIN here : i = token \/ (there[i] = here[i] /\ i \notin Secrets(here))

\* It reads the words it was made of, around the one it captures; a word that
\* was shown as a secret it never finds.
LEMMA WordsMean ==
    ASSUME NEW here, NEW there, IsText(here), IsText(there), NEW token \in 0 .. Len(here), NEW p,
           p.words = BuildRegex(Scrub(here), token)
    PROVE  Captured(p, there) =
              IF SameWords(there, here, token)
              THEN <<IF token = 0 THEN p.literal ELSE <<there[token]>>>> ELSE None
<1> DEFINE holes == {i \in DOMAIN there : p.words[i] = Hole}
           Nth(k) == CHOOSE i \in holes : Cardinality({j \in holes : j < i}) = k - 1
<1>1. /\ Len(here) \in Nat /\ DOMAIN here = 1 .. Len(here)
      /\ Len(there) \in Nat /\ DOMAIN there = 1 .. Len(there)
      /\ \A i \in DOMAIN here : here[i] \notin {Hole, AnyNumber, Redacted}
      /\ \A i \in DOMAIN there : there[i] \notin {Hole, AnyNumber, Redacted}
    BY TextFacts
<1>2. /\ DOMAIN p.words = DOMAIN here /\ Len(p.words) = Len(here)
      /\ \A i \in DOMAIN here :
            p.words[i] = IF i = token THEN Hole
                         ELSE IF i \in Secrets(here) THEN Redacted ELSE here[i]
  <2>1. Scrub(here) = [i \in DOMAIN here |-> IF i \in Secrets(here) THEN Redacted ELSE here[i]]
    BY DEF Scrub
  <2>2. p.words = [i \in DOMAIN here |-> IF i = token THEN Hole
                                         ELSE IF i \in Secrets(here) THEN Redacted ELSE here[i]]
    BY <2>1 DEF BuildRegex
  <2> QED BY <1>1, <2>2
<1>3. Redacted # Hole
    BY DEF Redacted, Hole
<1>4. ASSUME Len(there) = Len(here)
      PROVE  (\A i \in DOMAIN there : p.words[i] \in {Hole, there[i]})
             <=> SameWords(there, here, token)
  <2>1. ASSUME NEW i \in DOMAIN here
        PROVE  p.words[i] \in {Hole, there[i]} <=>
                  i = token \/ (there[i] = here[i] /\ i \notin Secrets(here))
    BY <1>1, <1>2, <1>3, <1>4, <2>1
  <2> QED BY <1>1, <1>4, <2>1 DEF SameWords
<1>5. ASSUME Len(there) = Len(here)
      PROVE  (IF holes = {} THEN p.literal
              ELSE [k \in 1 .. Cardinality(holes) |-> there[Nth(k)]])
             = IF token = 0 THEN p.literal ELSE <<there[token]>>
  <2>1. \A i \in DOMAIN there : p.words[i] = Hole <=> i = token
    BY <1>1, <1>2, <1>3, <1>5
  <2>2. CASE token = 0
    <3>1. holes = {}
      BY <1>1, <2>1, <2>2
    <3> QED BY <2>2, <3>1
  <2>3. CASE token # 0
    <3>1. holes = {token}
      BY <1>1, <1>5, <2>1, <2>3
    <3>2. Cardinality(holes) = 1
      BY <3>1, FS_Singleton
    <3>3. \A i \in holes : {j \in holes : j < i} = {}
      BY <3>1
    <3>4. Cardinality({}) = 0
      BY FS_EmptySet
    <3> HIDE DEF holes
    <3>5. Nth(1) = token
      BY <3>1, <3>3, <3>4
    <3> HIDE DEF Nth
    <3>6. [k \in 1 .. 1 |-> there[Nth(k)]] = <<there[token]>>
      BY <3>5
    <3> QED BY <2>3, <3>1, <3>2, <3>6
  <2> QED BY <2>2, <2>3
<1>6. Captured(p, there) =
         IF Len(there) # Len(p.words) \/ \E i \in DOMAIN there : p.words[i] \notin {Hole, there[i]}
         THEN None
         ELSE <<IF holes = {} THEN p.literal
                ELSE [k \in 1 .. Cardinality(holes) |-> there[Nth(k)]]>>
    BY DEF Captured
<1>7. CASE Len(there) = Len(here)
  <2> HIDE DEF holes, Nth
  <2> QED BY <1>2, <1>4, <1>5, <1>6, <1>7
<1>8. CASE Len(there) # Len(here)
    BY <1>2, <1>6, <1>8 DEF SameWords
<1> QED BY <1>7, <1>8

LEMMA CastIs ==
    ASSUME NEW cast \in {"str", "bool"} \cup Durations, NEW words
    PROVE  Cast(cast, words) = None \/ \E v : Cast(cast, words) = <<v>>
    BY DEF Cast, Durations

\* What a pattern reads of a line.
Reads(p, text) == Then(Captured(p, text), LAMBDA words : Cast(p.cast, words))

LEMMA MatchesAre ==
    ASSUME NEW t, NEW patterns, NEW m
    PROVE  m \in Matches(t, patterns) <=>
              \E p \in patterns, n \in DOMAIN t :
                  /\ InScope(p, t[n].path) /\ Reads(p, t[n].text) # None
                  /\ m = <<p.field, n, Reads(p, t[n].text)[1]>>
<1> DEFINE lines(p) == {n \in DOMAIN t : InScope(p, t[n].path) /\ Reads(p, t[n].text) # None}
           facts(p) == {<<p.field, n, Reads(p, t[n].text)[1]>> : n \in lines(p)}
<1>1. Matches(t, patterns) = UNION {facts(p) : p \in patterns}
    BY DEF Matches, Reads
<1>2. \A p : m \in facts(p) <=> \E n \in DOMAIN t :
                  /\ InScope(p, t[n].path) /\ Reads(p, t[n].text) # None
                  /\ m = <<p.field, n, Reads(p, t[n].text)[1]>>
    OBVIOUS
<1> HIDE DEF facts
<1> QED BY <1>1, <1>2

LEMMA OneMorePattern ==
    ASSUME NEW t, NEW patterns, NEW p
    PROVE  Matches(t, patterns \cup {p}) = Matches(t, patterns) \cup Matches(t, {p})
<1>1. ASSUME NEW m
      PROVE  m \in Matches(t, patterns \cup {p}) <=>
                m \in Matches(t, patterns) \/ m \in Matches(t, {p})
    BY MatchesAre
<1> QED BY <1>1

LEMMA ReadsMean ==
    ASSUME NEW here, NEW there, IsText(here), IsText(there), NEW token \in 0 .. Len(here), NEW p,
           p.words = BuildRegex(Scrub(here), token), p.cast \in {"str", "bool"} \cup Durations
    PROVE  /\ Reads(p, there) =
                 IF SameWords(there, here, token)
                 THEN Cast(p.cast, IF token = 0 THEN p.literal ELSE <<there[token]>>) ELSE None
           /\ Reads(p, there) # None => <<Reads(p, there)[1]>> = Reads(p, there)
<1> DEFINE words == IF token = 0 THEN p.literal ELSE <<there[token]>>
<1>1. Captured(p, there) = IF SameWords(there, here, token) THEN <<words>> ELSE None
    BY WordsMean
<1> HIDE DEF words
<1>2. <<words>> # None /\ Last(<<words>>) = words
    BY DEF None, Last
<1>3. Reads(p, there) = IF SameWords(there, here, token) THEN Cast(p.cast, words) ELSE None
    BY <1>1, <1>2 DEF Reads, Then
<1>4. Reads(p, there) = None \/ \E v : Reads(p, there) = <<v>>
    BY <1>3, CastIs
<1> QED BY <1>3, <1>4 DEF words

-----------------------------------------------------------------------------
(* A taught line is read.                                                  *)

\* Between reading and teaching the facts are those of the pack, and the
\* lines that are left are those no fact is about.
ReadOK ==
    /\ phase \in {"extracted", "analysed"} => matches = Matches(nodes, Patterns[file.os])
    /\ phase = "extracted" => residue \subseteq DOMAIN nodes \ {m[2] : m \in matches}

LEMMA TextsAreTexts ==
    ASSUME IInv
    PROVE  /\ \A text \in Texts : IsText(text)
           /\ \A n \in DOMAIN nodes : nodes[n].text \in Texts /\ nodes[n].path \in Seq(Texts)
<1>1. file \in Files /\ DOMAIN nodes \subseteq DOMAIN file.lines
    BY LineFacts DEF IInv, ShapeOK, Lines
<1>2. \A n \in DOMAIN file.lines : IsText(file.lines[n].text)
    BY <1>1, FilesAssumption, WordsAssumption DEF IsText
<1> QED BY <1>1, <1>2 DEF IInv, NodesOK, TreeOK, Texts

LEMMA InitReadOK == TInit => ReadOK
    BY DEF TInit, Init, TreeInit, ReadOK

LEMMA NextReadOK ==
    ASSUME IInv, ReadOK, [TNext]_<<vars, lesson>>
    PROVE  ReadOK'
<1>1. CASE ReadLine
    BY <1>1 DEF ReadLine, LiteralBody, BlockComment, BlankOrComment, OpenComment, ClosingBrace,
       IndentedStatement, BracedStatement, FlatStatement, Statement, EndOfFile, Read, more, ReadOK
<1>2. CASE Extract
  <2>1. /\ phase' = "extracted" /\ nodes' = nodes /\ file' = file
        /\ matches' = Matches(nodes, Patterns[file.os])
        /\ residue' \subseteq DOMAIN nodes \ {m[2] : m \in matches'}
      BY <1>2 DEF Extract
  <2> QED BY <2>1 DEF ReadOK
<1>3. CASE Analyse
  <2>1. /\ phase = "extracted" /\ phase' = "analysed" /\ nodes' = nodes /\ file' = file
        /\ matches' = matches
      BY <1>3 DEF Analyse
  <2> QED BY <2>1 DEF ReadOK
<1>4. ASSUME NEW n, NEW token, NEW value, NEW cast, NEW generalise,
             Teach(n, token, value, cast, generalise)
      PROVE  ReadOK'
  <2>1. phase' = "taught"
      BY <1>4 DEF Teach
  <2> QED BY <2>1 DEF ReadOK
<1>5. CASE UNCHANGED <<vars, lesson>>
    BY <1>5 DEF vars, ReadOK
<1> QED BY <1>1, <1>2, <1>3, <1>4, <1>5 DEF TNext, Next

\* Nothing of the pack is about the field that is taught.
NewField == \A f \in Files : \A p \in Patterns[f.os] : p.field # TaughtField

LEMMA TeachTeaches ==
    ASSUME NewField, IInv, ReadOK, NEW n \in residue, NEW token \in 0 .. Len(nodes[n].text),
           NEW value, NEW cast \in Casts, NEW generalise \in BOOLEAN,
           Teach(n, token, value, cast, generalise)
    PROVE  TaughtLineIsRead'
<1> DEFINE here == nodes[n].text
           path == nodes[n].path
           p == CompilePattern(Scrub(here), path, token, value, cast, generalise)
           new == Matches(nodes, {p})
           words(k) == IF token = 0 THEN value ELSE <<nodes[k].text[token]>>
           same(k) == /\ SameBlock(nodes[k].path, path, generalise)
                      /\ SameWords(nodes[k].text, here, token)
<1>1. /\ phase = "extracted" /\ phase' = "taught" /\ nodes' = nodes
      /\ matches' = Matches(nodes, Patterns[file.os] \cup {p})
      /\ residue' = residue \ {m[2] : m \in matches'}
      /\ lesson' = [line |-> n, token |-> token, general |-> generalise,
                    pattern |-> p, before |-> residue]
    BY DEF Teach
<1>2. /\ p.field = TaughtField /\ p.root = (path = <<>>) /\ p.scope = BuildScope(path, generalise)
      /\ p.words = BuildRegex(Scrub(here), token) /\ p.literal = value /\ p.cast = cast
    BY DEF CompilePattern
<1> HIDE DEF p
<1>3. matches' = matches \cup new /\ n \in DOMAIN nodes
  <2>1. Matches(nodes, Patterns[file.os] \cup {p}) = Matches(nodes, Patterns[file.os]) \cup new
      BY OneMorePattern
  <2>2. matches = Matches(nodes, Patterns[file.os]) /\ residue \subseteq DOMAIN nodes
      BY <1>1 DEF ReadOK
  <2> HIDE DEF new
  <2> QED BY <1>1, <2>1, <2>2
<1>4. \A k \in DOMAIN nodes : InScope(p, nodes[k].path) <=> SameBlock(nodes[k].path, path, generalise)
    BY <1>2, <1>3, TextsAreTexts, ScopeMeans
<1>5. ASSUME NEW k \in DOMAIN nodes
      PROVE  /\ Reads(p, nodes[k].text) =
                   IF SameWords(nodes[k].text, here, token) THEN Cast(cast, words(k)) ELSE None
             /\ Reads(p, nodes[k].text) # None =>
                   <<Reads(p, nodes[k].text)[1]>> = Reads(p, nodes[k].text)
  <2>1. IsText(here) /\ IsText(nodes[k].text) /\ cast \in {"str", "bool"} \cup Durations
      BY <1>3, <1>5, TextsAreTexts, CastsAssumption
  <2> QED BY <1>2, <2>1, ReadsMean
<1>6. \A m : m \in new <=> \E k \in DOMAIN nodes :
                              /\ InScope(p, nodes[k].path) /\ Reads(p, nodes[k].text) # None
                              /\ m = <<p.field, k, Reads(p, nodes[k].text)[1]>>
    BY MatchesAre
<1> HIDE DEF new
<1>7. \A k \in DOMAIN nodes : (\E m \in new : m[2] = k) <=> same(k) /\ Cast(cast, words(k)) # None
  <2> SUFFICES ASSUME NEW k \in DOMAIN nodes
               PROVE  (\E m \in new : m[2] = k) <=> same(k) /\ Cast(cast, words(k)) # None
      OBVIOUS
  <2>1. (\E m \in new : m[2] = k) <=> InScope(p, nodes[k].path) /\ Reads(p, nodes[k].text) # None
    <3>1. ASSUME NEW m \in new, m[2] = k
          PROVE  InScope(p, nodes[k].path) /\ Reads(p, nodes[k].text) # None
      <4>1. PICK j \in DOMAIN nodes : /\ InScope(p, nodes[j].path) /\ Reads(p, nodes[j].text) # None
                                      /\ m = <<p.field, j, Reads(p, nodes[j].text)[1]>>
        BY <1>6, <3>1
      <4>2. m[2] = j
        BY <4>1
      <4> QED BY <3>1, <4>1, <4>2
    <3>2. ASSUME InScope(p, nodes[k].path), Reads(p, nodes[k].text) # None
          PROVE  \E m \in new : m[2] = k
      <4>1. <<p.field, k, Reads(p, nodes[k].text)[1]>> \in new
        BY <1>6, <3>2
      <4> QED BY <4>1
    <3> QED BY <3>1, <3>2
  <2> HIDE DEF words
  <2> QED BY <1>4, <1>5, <2>1
<1>8. \A m \in new : m[2] \in DOMAIN nodes /\ <<m[3]>> = Cast(cast, words(m[2]))
  <2> SUFFICES ASSUME NEW m \in new
               PROVE  m[2] \in DOMAIN nodes /\ <<m[3]>> = Cast(cast, words(m[2]))
      OBVIOUS
  <2>1. PICK k \in DOMAIN nodes : /\ InScope(p, nodes[k].path) /\ Reads(p, nodes[k].text) # None
                                  /\ m = <<p.field, k, Reads(p, nodes[k].text)[1]>>
      BY <1>6
  <2>2. m[2] = k /\ <<m[3]>> = Reads(p, nodes[k].text)
      BY <1>5, <2>1
  <2> QED BY <1>5, <2>1, <2>2
<1>9. {m \in matches' : m[1] = TaughtField} = new
  <2>1. \A m \in new : m[1] = TaughtField
      BY <1>2, <1>6
  <2>2. \A m \in matches : m[1] # TaughtField
    <3>1. \A q \in Patterns[file.os] : q.field # TaughtField
        BY DEF NewField, IInv, ShapeOK
    <3>2. \A m \in matches : \E q \in Patterns[file.os] : m[1] = q.field
        BY <1>1, MatchesAre DEF ReadOK
    <3> QED BY <3>1, <3>2
  <2> QED BY <1>3, <2>1, <2>2
<1>10. residue' = residue \ {m[2] : m \in new}
  <2>1. {m[2] : m \in matches'} = {m[2] : m \in matches} \cup {m[2] : m \in new}
      BY <1>3
  <2> QED BY <1>1, <2>1 DEF ReadOK
<1>11. \A k \in DOMAIN nodes :
          SaysTheSame(k, n)' /\ ~(\E i \in DOMAIN here \ {token} : i \in Secrets(here)) <=> same(k)
  <2> SUFFICES ASSUME NEW k \in DOMAIN nodes
               PROVE  SaysTheSame(k, n)' /\ ~(\E i \in DOMAIN here \ {token} : i \in Secrets(here))
                      <=> same(k)
      OBVIOUS
  <2>1. SaysTheSame(k, n)' <=>
           /\ Len(nodes[k].text) = Len(here)
           /\ \A i \in DOMAIN here : i = token \/ nodes[k].text[i] = here[i]
           /\ SameBlock(nodes[k].path, path, generalise)
      BY <1>1 DEF SaysTheSame, SameBlock, SameHeader
  <2>2. SameWords(nodes[k].text, here, token) <=>
           /\ Len(nodes[k].text) = Len(here)
           /\ \A i \in DOMAIN here : i = token \/ nodes[k].text[i] = here[i]
           /\ ~(\E i \in DOMAIN here \ {token} : i \in Secrets(here))
      BY DEF SameWords
  <2> QED BY <2>1, <2>2
<1>12. \A k : Value(k)' = Cast(cast, words(k))
    BY <1>1, <1>2 DEF Value
<1> HIDE DEF same, words
<1>13. TaughtLineIsRead' <=>
            /\ \A k \in DOMAIN nodes :
                  (\E m \in new : m[2] = k) <=>
                     /\ SaysTheSame(k, n)' /\ Value(k)' # None
                     /\ ~(\E i \in DOMAIN here \ {token} : i \in Secrets(here))
            /\ \A m \in new : <<m[3]>> = Value(m[2])'
            /\ residue \ residue' = {m[2] : m \in new} \cap residue
            /\ residue' \subseteq residue
    BY <1>1, <1>9 DEF TaughtLineIsRead
<1>14. residue \ residue' = {m[2] : m \in new} \cap residue /\ residue' \subseteq residue
    BY <1>10
<1>15. \A m \in new : <<m[3]>> = Value(m[2])'
    BY <1>8, <1>12
<1>16. \A k \in DOMAIN nodes :
          (\E m \in new : m[2] = k) <=>
             /\ SaysTheSame(k, n)' /\ Value(k)' # None
             /\ ~(\E i \in DOMAIN here \ {token} : i \in Secrets(here))
    BY <1>7, <1>11, <1>12
<1> QED BY <1>13, <1>14, <1>15, <1>16

LEMMA NextTaught ==
    ASSUME NewField, IInv, ReadOK, TaughtLineIsRead, [TNext]_<<vars, lesson>>
    PROVE  TaughtLineIsRead'
<1>1. CASE ReadLine
  <2>1. phase' \in {"reading", "tree", "refused"}
      BY <1>1 DEF ReadLine, LiteralBody, BlockComment, BlankOrComment, OpenComment, ClosingBrace,
         IndentedStatement, BracedStatement, FlatStatement, Statement, EndOfFile, Read, more
  <2> QED BY <2>1 DEF TaughtLineIsRead
<1>2. CASE Extract \/ Analyse
  <2>1. phase' # "taught"
      BY <1>2 DEF Extract, Analyse
  <2> QED BY <2>1 DEF TaughtLineIsRead
<1>3. ASSUME NEW n \in residue, NEW token \in 0 .. Len(nodes[n].text), NEW value \in Literals,
             NEW cast \in Casts, NEW generalise \in BOOLEAN,
             Teach(n, token, value, cast, generalise)
      PROVE  TaughtLineIsRead'
    BY <1>3, TeachTeaches
<1>4. CASE UNCHANGED <<vars, lesson>>
  <2>1. /\ phase' = phase /\ matches' = matches /\ nodes' = nodes /\ residue' = residue
        /\ lesson' = lesson
      BY <1>4 DEF vars
  <2>2. \A k, n : SaysTheSame(k, n)' <=> SaysTheSame(k, n)
      BY <2>1 DEF SaysTheSame
  <2>3. \A k : Value(k)' = Value(k)
      BY <2>1 DEF Value
  <2> QED BY <2>1, <2>2, <2>3 DEF TaughtLineIsRead
<1> QED BY <1>1, <1>2, <1>3, <1>4 DEF TNext, Next

\* What an administrator taught is read by the next reading, on its line and on
\* every line that says the same in such a block, on no other, and with the
\* value of that line (compile.py, scrub.py, models/pack.py); what was read
\* before still is, and the lines that are left are those nothing read.
THEOREM TaughtLineAlwaysRead ==
    ASSUME NewField PROVE TSpec => []TaughtLineIsRead
<1>1. TInit => TaughtLineIsRead
    BY DEF TInit, Init, TreeInit, TaughtLineIsRead
<1>2. IInv /\ ReadOK /\ TaughtLineIsRead /\ [TNext]_<<vars, lesson>> => TaughtLineIsRead'
    BY NextTaught
<1>3. IInv /\ ReadOK /\ [TNext]_<<vars, lesson>> => ReadOK'
    BY NextReadOK
<1> QED BY <1>1, <1>2, <1>3, InitReadOK, Invariance, PTL DEF TSpec

-----------------------------------------------------------------------------
(* A fact is of its block.                                                 *)

\* The line n stands under the line k of the outermost level.
StandsUnder(k, n) ==
    /\ k < n /\ nodes[k].path = <<>> /\ nodes[n].path[1] = nodes[k].text
    /\ \A j \in DOMAIN nodes : k < j /\ j <= n => nodes[j].path # <<>>

TopOK ==
    /\ stack # <<>> => \A j \in DOMAIN nodes : j > stack[1] => nodes[j].path # <<>>
    /\ \A n \in DOMAIN nodes : nodes[n].path # <<>> => \E k \in DOMAIN nodes : StandsUnder(k, n)

LEMMA TopPlaces ==
    ASSUME IInv, TopOK, NEW m \in 0 .. Len(stack), Places(m),
           stack' # <<>> => stack'[1] = IF m = 0 THEN at + 1 ELSE stack[1]
    PROVE  TopOK'
<1>1. /\ DOMAIN nodes' = DOMAIN nodes \cup {at + 1}
      /\ \A k \in DOMAIN nodes : nodes'[k] = nodes[k]
      /\ nodes'[at + 1] = Node(m) /\ at \in Nat /\ DOMAIN nodes \subseteq 1 .. at
    BY PlacesShape DEF IInv, Above
<1>2. /\ nodes'[at + 1].path = [i \in 1 .. m |-> nodes[stack[i]].text]
      /\ Len(stack) \in Nat /\ DOMAIN stack = 1 .. Len(stack)
    BY <1>1 DEF Node, IInv, StackOK
<1>3. m = 0 <=> nodes'[at + 1].path = <<>>
  <2>1. CASE m = 0
      BY <1>2, <2>1
  <2>2. CASE m # 0
    <3>1. 1 \in DOMAIN nodes'[at + 1].path
      BY <1>2, <2>2
    <3> QED BY <2>2, <3>1
  <2> QED BY <2>1, <2>2
<1>4. ASSUME m # 0
      PROVE  /\ stack # <<>> /\ stack[1] \in DOMAIN nodes /\ nodes[stack[1]].path = <<>>
             /\ nodes'[at + 1].path[1] = nodes[stack[1]].text
  <2>1. 1 \in DOMAIN stack /\ 1 \in 1 .. m
      BY <1>2, <1>4
  <2>2. stack[1] \in DOMAIN nodes /\ nodes[stack[1]].path = [j \in 1 .. (1 - 1) |-> nodes[stack[j]].text]
    <3>1. \A i \in DOMAIN stack : /\ stack[i] \in DOMAIN nodes
                                  /\ nodes[stack[i]].path = [j \in 1 .. (i - 1) |-> nodes[stack[j]].text]
      BY DEF IInv, StackOK
    <3> QED BY <2>1, <3>1
  <2>3. nodes[stack[1]].path = <<>> /\ stack # <<>>
      BY <2>1, <2>2
  <2>4. nodes'[at + 1].path[1] = nodes[stack[1]].text
      BY <1>2, <2>1
  <2> QED BY <2>2, <2>3, <2>4
<1>5. ASSUME stack' # <<>>, NEW j \in DOMAIN nodes', j > stack'[1]
      PROVE  nodes'[j].path # <<>>
  <2>1. CASE m = 0
      BY <1>1, <1>5, <2>1
  <2>2. CASE m # 0
      BY <1>1, <1>3, <1>4, <1>5, <2>2 DEF TopOK
  <2> QED BY <2>1, <2>2
<1>6. ASSUME NEW n \in DOMAIN nodes, nodes[n].path # <<>>
      PROVE  \E k \in DOMAIN nodes' : StandsUnder(k, n)'
  <2>1. PICK k \in DOMAIN nodes : StandsUnder(k, n)
      BY <1>6 DEF TopOK
  <2>2. StandsUnder(k, n)'
      BY <1>1, <2>1 DEF StandsUnder
  <2> QED BY <1>1, <2>2
<1>7. ASSUME NEW n, n = at + 1, nodes'[n].path # <<>>
      PROVE  \E k \in DOMAIN nodes' : StandsUnder(k, n)'
  <2>1. PICK k : k = stack[1]
      OBVIOUS
  <2>2. m # 0
      BY <1>3, <1>7
  <2>3. k \in DOMAIN nodes /\ k \in 1 .. at /\ k < n
      BY <1>1, <1>4, <1>7, <2>1, <2>2
  <2>4. \A j \in DOMAIN nodes' : k < j => nodes'[j].path # <<>>
    <3>1. \A j \in DOMAIN nodes : k < j => nodes'[j].path # <<>>
      BY <1>1, <1>4, <2>1, <2>2 DEF TopOK
    <3> QED BY <1>1, <1>7, <3>1
  <2>5. nodes'[k].path = <<>> /\ nodes'[n].path[1] = nodes'[k].text
      BY <1>1, <1>4, <1>7, <2>1, <2>2, <2>3
  <2>6. StandsUnder(k, n)'
      BY <2>3, <2>4, <2>5 DEF StandsUnder
  <2> QED BY <1>1, <2>3, <2>6
<1> QED BY <1>1, <1>5, <1>6, <1>7 DEF TopOK

LEMMA TopKept ==
    ASSUME TopOK, nodes' = nodes, stack' # <<>> => stack # <<>> /\ stack'[1] = stack[1]
    PROVE  TopOK'
    BY DEF TopOK, StandsUnder

\* The outermost block, when a block is opened and when one is closed.
LEMMA Outermost ==
    ASSUME NEW S, NEW s \in Seq(S), NEW e
    PROVE  /\ Append(s, e)[1] = IF s = <<>> THEN e ELSE s[1]
           /\ s # <<>> /\ Front(s) # <<>> => Front(s)[1] = s[1]
    BY DEF Front

LEMMA NextTopOK ==
    ASSUME IInv, TopOK, [TNext]_<<vars, lesson>>
    PROVE  TopOK'
<1>1. CASE IndentedStatement
  <2>1. StackOK /\ Read /\ UNCHANGED unplaced /\ Place(Pop) /\ stack' = Append(Pop, at + 1)
      BY <1>1 DEF IndentedStatement, Statement, IInv
  <2>2. Width \in 0 .. Len(stack) /\ Pop = SubSeq(stack, 1, Width) /\ Len(stack) \in Nat
      BY <2>1, WidthIs DEF StackOK
  <2>3. /\ Pop \in Seq(DOMAIN nodes) /\ Len(Pop) = Width /\ DOMAIN Pop = 1 .. Width
        /\ \A i \in 1 .. Width : Pop[i] = stack[i]
      BY <2>1, <2>2, PrefixIs
  <2>4. Pop = <<>> <=> Width = 0
      BY <2>3, EmptySeq
  <2>5. Places(Width)
    <3>1. Read /\ UNCHANGED unplaced /\ Place(Pop) /\ Width \in Nat
      BY <2>1, <2>2
    <3> QED BY <2>3, <2>4, <3>1, PlaceIs
  <2>6. stack'[1] = IF Width = 0 THEN at + 1 ELSE stack[1]
      BY <2>1, <2>2, <2>3, <2>4, Outermost
  <2> QED BY <2>2, <2>5, <2>6, TopPlaces
<1>2. CASE BracedStatement
  <2>1. /\ Read /\ stack \in Seq(DOMAIN nodes) /\ Len(stack) \in Nat
        /\ DOMAIN stack = 1 .. Len(stack) /\ (stack = <<>> <=> Len(stack) = 0)
    <3>1. Read /\ stack \in Seq(DOMAIN nodes)
      BY <1>2 DEF BracedStatement, Statement, IInv, StackOK
    <3> QED BY <3>1, EmptySeq
  <2>2. CASE line.text = <<>>
      BY <1>2, <2>2, TopKept DEF BracedStatement
  <2>3. CASE line.text # <<>>
    <3>1. /\ Place(stack) /\ UNCHANGED unplaced
          /\ stack' = IF line.brace THEN Append(stack, at + 1) ELSE stack
      BY <1>2, <2>3 DEF BracedStatement
    <3>2. Places(Len(stack))
      BY <2>1, <3>1, PlaceIs
    <3>3. stack' # <<>> => stack'[1] = IF Len(stack) = 0 THEN at + 1 ELSE stack[1]
      BY <2>1, <3>1, Outermost
    <3> QED BY <2>1, <3>2, <3>3, TopPlaces
  <2> QED BY <2>2, <2>3
<1>3. CASE FlatStatement
  <2>1. Read /\ UNCHANGED unplaced /\ Place(<<>>) /\ stack' = stack /\ mode = "set"
      BY <1>3 DEF FlatStatement, Statement
  <2>2. stack = <<>> /\ 0 \in 0 .. Len(stack)
      BY <2>1 DEF IInv, StackOK
  <2>3. Places(0)
      BY <2>1, PlaceIs
  <2> QED BY <2>1, <2>2, <2>3, TopPlaces
<1>4. CASE ClosingBrace
  <2>1. /\ stack \in Seq(DOMAIN nodes) /\ nodes' = nodes
        /\ stack' = IF stack = <<>> THEN stack ELSE Front(stack)
      BY <1>4 DEF ClosingBrace, IInv, StackOK
  <2>2. stack' # <<>> => stack # <<>> /\ stack'[1] = stack[1]
      BY <2>1, Outermost
  <2> QED BY <2>1, <2>2, TopKept
<1>5. CASE \/ LiteralBody \/ BlockComment \/ BlankOrComment \/ OpenComment \/ EndOfFile
           \/ Extract \/ Analyse \/ UNCHANGED <<vars, lesson>>
  <2>1. nodes' = nodes /\ stack' = stack
      BY <1>5 DEF LiteralBody, BlockComment, BlankOrComment, OpenComment, EndOfFile,
         Extract, Analyse, vars
  <2> QED BY <2>1, TopKept
<1>6. ASSUME NEW n, NEW token, NEW value, NEW cast, NEW generalise,
             Teach(n, token, value, cast, generalise)
      PROVE  TopOK'
  <2>1. nodes' = nodes /\ stack' = stack
      BY <1>6 DEF Teach
  <2> QED BY <2>1, TopKept
<1> QED BY <1>1, <1>2, <1>3, <1>4, <1>5, <1>6 DEF TNext, Next, ReadLine

LEMMA TopLevel ==
    ASSUME IInv, NEW n \in DOMAIN nodes
    PROVE  /\ Enclosing(n) = 0 <=> nodes[n].path = <<>>
           /\ n \in Nat /\ n \in DOMAIN file.lines /\ nodes[n].text = file.lines[n].text
<1>1. n \in Nat /\ n \in DOMAIN file.lines /\ nodes[n].text = file.lines[n].text
    BY LineFacts DEF IInv, ShapeOK, NodesOK, Lines
<1>2. CASE Enclosing(n) = 0
    BY <1>1, <1>2 DEF IInv, TreeOK
<1>3. CASE Enclosing(n) # 0
  <2> DEFINE above == nodes[Enclosing(n)]
  <2>1. Enclosing(n) \in DOMAIN nodes /\ nodes[n].path = Append(above.path, above.text)
      BY <1>3 DEF IInv, TreeOK
  <2>2. above.path \in Seq(Texts)
      BY <2>1 DEF IInv, TreeOK
  <2> HIDE DEF above
  <2>3. nodes[n].path # <<>>
      BY <2>1, <2>2
  <2> QED BY <1>1, <1>3, <2>3
<1> QED BY <1>2, <1>3

LEMMA HomeIs ==
    ASSUME IInv, NEW n \in DOMAIN nodes, NEW k \in DOMAIN nodes, StandsUnder(k, n)
    PROVE  Home(n) = k
<1> DEFINE Tops(i) == /\ i <= n /\ Enclosing(i) = 0
                      /\ \A j \in (i + 1) .. n : j \in DOMAIN nodes => Enclosing(j) # 0
<1>1. \A i \in DOMAIN nodes : i \in Nat /\ (Enclosing(i) = 0 <=> nodes[i].path = <<>>)
    BY TopLevel
<1>2. Tops(k)
    BY <1>1 DEF StandsUnder
<1>3. ASSUME NEW i \in DOMAIN nodes, Tops(i)
      PROVE  i = k
  <2>1. CASE i < k
    <3>1. k \in (i + 1) .. n
      BY <1>1, <2>1 DEF StandsUnder
    <3> QED BY <1>2, <1>3, <3>1
  <2>2. CASE k < i
    <3>1. i \in (k + 1) .. n
      BY <1>1, <1>3, <2>2
    <3> QED BY <1>2, <1>3, <3>1
  <2> QED BY <1>1, <2>1, <2>2
<1>4. Home(n) = CHOOSE i \in DOMAIN nodes : Tops(i)
    BY DEF Home
<1> HIDE DEF Tops
<1> QED BY <1>2, <1>3, <1>4

\* The timeouts of the pack count in the unit the lines of the platform do.
TimeoutsCount ==
    \A f \in Files : \A p \in Patterns[f.os], n \in DOMAIN f.lines :
        p.cast \in Durations /\ Reads(p, f.lines[n].text) # None =>
            Reads(p, f.lines[n].text)[1] = f.lines[n].seconds

\* A value is a fact about the block it was written in (models/pack.py): read
\* at the top level by a pattern that names no block, and by any other only
\* under a line of the outermost level that begins the block it names.
THEOREM FactsAlwaysOfTheirBlock ==
    ASSUME TimeoutsCount PROVE TSpec => []FactsAreOfTheirBlock
<1>1. IInv /\ ReadOK /\ TopOK => FactsAreOfTheirBlock
  <2> SUFFICES ASSUME IInv, ReadOK, TopOK, phase \in {"extracted", "analysed"}, NEW m \in matches
               PROVE  \E p \in Patterns[file.os] :
                         /\ p.field = m[1]
                         /\ p.root => Enclosing(m[2]) = 0
                         /\ ~p.root /\ p.scope # <<>> =>
                               Fits(p.scope[1], file.lines[Home(m[2])].text)
                         /\ p.cast \in Durations => m[3] = file.lines[m[2]].seconds
      BY DEF FactsAreOfTheirBlock
  <2>1. PICK p \in Patterns[file.os] : \E n \in DOMAIN nodes :
                 /\ InScope(p, nodes[n].path) /\ Reads(p, nodes[n].text) # None
                 /\ m = <<p.field, n, Reads(p, nodes[n].text)[1]>>
      BY MatchesAre DEF ReadOK
  <2>2. PICK n \in DOMAIN nodes : /\ InScope(p, nodes[n].path) /\ Reads(p, nodes[n].text) # None
                                  /\ m = <<p.field, n, Reads(p, nodes[n].text)[1]>>
      BY <2>1
  <2>3. m[1] = p.field /\ m[2] = n /\ m[3] = Reads(p, nodes[n].text)[1]
      BY <2>2
  <2>4. p.root => Enclosing(n) = 0
      BY <2>2, TopLevel DEF InScope
  <2>5. ASSUME ~p.root, p.scope # <<>>
        PROVE  Fits(p.scope[1], file.lines[Home(n)].text)
    <3>1. p.scope \in Seq(ToSet(p.scope))
      BY ScopesAssumption DEF IInv, ShapeOK
    <3>2. 1 \in DOMAIN p.scope /\ Len(p.scope) \in Nat /\ Len(p.scope) >= 1
      BY <2>5, <3>1
    <3>3. Len(p.scope) <= Len(nodes[n].path) /\ Fits(p.scope[1], nodes[n].path[1])
      BY <2>2, <2>5, <3>2 DEF InScope
    <3>4. nodes[n].path # <<>>
      BY <3>2, <3>3
    <3>5. PICK k \in DOMAIN nodes : StandsUnder(k, n)
      BY <3>4 DEF TopOK
    <3>6. Home(n) = k /\ nodes[n].path[1] = file.lines[k].text
      BY <3>5, HomeIs, TopLevel DEF StandsUnder
    <3> QED BY <3>3, <3>6
  <2>6. p.cast \in Durations => m[3] = file.lines[n].seconds
    <3>1. n \in DOMAIN file.lines /\ nodes[n].text = file.lines[n].text /\ file \in Files
      BY TopLevel DEF IInv, ShapeOK
    <3> QED BY <2>2, <2>3, <3>1 DEF TimeoutsCount
  <2> QED BY <2>3, <2>4, <2>5, <2>6
<1>2. TInit => TopOK
    BY DEF TInit, Init, TreeInit, TopOK
<1>3. IInv /\ TopOK /\ [TNext]_<<vars, lesson>> => TopOK'
    BY NextTopOK
<1>4. IInv /\ ReadOK /\ [TNext]_<<vars, lesson>> => ReadOK'
    BY NextReadOK
<1> QED BY <1>1, <1>2, <1>3, <1>4, InitReadOK, Invariance, PTL DEF TSpec

-----------------------------------------------------------------------------
(* What is reported of a list is true of the lines of the list.            *)

LEMMA FirstIsAMember ==
    ASSUME NEW S \in SUBSET Nat, S # {}
    PROVE  FirstOf(S) \in S
<1> DEFINE R == OpToRel(<, Nat)
<1>1. PICK x \in S : \A y \in S : ~(<<y, x>> \in R)
  <2>1. IsWellFoundedOn(R, Nat)
      BY NatLessThanWellFounded
  <2> HIDE DEF R
  <2> QED BY <2>1, WFMin
<1>2. \A y \in S : x <= y
  <2> SUFFICES ASSUME NEW y \in S, ~(x <= y) PROVE <<y, x>> \in R
      BY <1>1
  <2>1. y < x
      OBVIOUS
  <2> QED BY <2>1 DEF OpToRel
<1> QED BY <1>2 DEF FirstOf

\* A set-style filter is known by a line of its own.
LEMMA CitedIsOwn ==
    ASSUME NEW t, DOMAIN t \subseteq Nat, NEW name \in FilterNames(t)
    PROVE  t[Cited(t, FirstOf(FilterLines(t, name)))].text[3] = name
<1> DEFINE first == FirstOf(FilterLines(t, name))
           from == {n \in TermLines(t, first) : t[n].text[6] = "from"}
           among == IF from = {} THEN TermLines(t, first) ELSE from
<1>1. FilterLines(t, name) \in SUBSET Nat /\ FilterLines(t, name) # {}
    BY DEF FilterLines, FilterNames
<1>2. first \in FilterLines(t, name)
    BY <1>1, FirstIsAMember
<1>3. t[first].text[3] = name
    BY <1>2 DEF FilterLines
<1> HIDE DEF first
<1>4. first \in TermLines(t, first) /\ TermLines(t, first) \subseteq FilterLines(t, name)
    BY <1>2, <1>3 DEF TermLines
<1>5. among # {} /\ among \subseteq FilterLines(t, name)
    BY <1>4
<1>6. Cited(t, first) = FirstOf(among)
    BY DEF Cited
<1> HIDE DEF among
<1>7. FirstOf(among) \in FilterLines(t, name)
    BY <1>1, <1>5, FirstIsAMember
<1> QED BY <1>6, <1>7 DEF FilterLines, first

\* A list is known by the line it is cited at.
LEMMA HeadsAreDistinct ==
    ASSUME NEW t, DOMAIN t \subseteq Nat, NEW os, NEW shape,
           NEW l \in ExtractedLists(t, os, shape).kept, NEW k \in ExtractedLists(t, os, shape).kept,
           l.head = k.head
    PROVE  l = k
<1>1. ASSUME NEW h, NEW a \in BlockList(t, os, h).kept, NEW b \in BlockList(t, os, h).kept
      PROVE  a = b /\ a.head = h
    BY <1>1 DEF BlockList, Kept
<1>2. ASSUME NEW h, NEW a \in BraceList(t, h).kept, NEW b \in BraceList(t, h).kept
      PROVE  a = b /\ a.head = h
    BY <1>2 DEF BraceList, Kept
<1>3. ASSUME NEW f, NEW a \in SetList(t, f).kept, NEW b \in SetList(t, f).kept
      PROVE  a = b /\ a.head = Cited(t, FirstOf(FilterLines(t, f)))
    BY <1>3 DEF SetList, Kept
<1>4. /\ \E r \in Reader(t, os, shape) : l \in r.kept
      /\ \E r \in Reader(t, os, shape) : k \in r.kept
    BY DEF ExtractedLists
<1>5. CASE os # "junos"
  <2>1. Reader(t, os, shape) = {BlockList(t, os, h) : h \in Headers(t, os)}
      BY <1>5 DEF Reader
  <2> QED BY <1>1, <1>4, <2>1
<1>6. CASE os = "junos" /\ shape = "brace"
  <2>1. Reader(t, os, shape) = {BraceList(t, n) : n \in {n \in DOMAIN t : IsFilter(t, n)}}
      BY <1>6 DEF Reader, BraceLists
  <2> QED BY <1>2, <1>4, <2>1
<1>7. CASE os = "junos" /\ shape # "brace"
  <2>1. Reader(t, os, shape) = {SetList(t, f) : f \in FilterNames(t)}
      BY <1>7 DEF Reader
  <2>2. PICK f \in FilterNames(t) : l \in SetList(t, f).kept
      BY <1>4, <2>1
  <2>3. PICK g \in FilterNames(t) : k \in SetList(t, g).kept
      BY <1>4, <2>1
  <2>4. f = g
    <3>1. l.head = Cited(t, FirstOf(FilterLines(t, f))) /\ k.head = Cited(t, FirstOf(FilterLines(t, g)))
      BY <1>3, <2>2, <2>3
    <3>2. t[l.head].text[3] = f /\ t[k.head].text[3] = g
      BY <3>1, CitedIsOwn
    <3> QED BY <3>2
  <2> QED BY <1>3, <2>2, <2>3, <2>4
<1> QED BY <1>5, <1>6, <1>7

\* The lists that were kept, and what was observed of them.
ObservedOK ==
    /\ phase \in {"extracted", "analysed"} => \A l, k \in lists : l.head = k.head => l = k
    /\ phase = "analysed" =>
          observations = [h \in {l.head : l \in lists} |->
                            UNION {AnalyseAcl(l.entries) : l \in {l \in lists : l.head = h}}]

LEMMA NextObservedOK ==
    ASSUME IInv, ObservedOK, [TNext]_<<vars, lesson>>
    PROVE  ObservedOK'
<1>1. CASE ReadLine
    BY <1>1 DEF ReadLine, LiteralBody, BlockComment, BlankOrComment, OpenComment, ClosingBrace,
       IndentedStatement, BracedStatement, FlatStatement, Statement, EndOfFile, Read, more, ObservedOK
<1>2. CASE Extract
  <2>1. phase' = "extracted" /\ lists' = ExtractedLists(nodes, file.os, mode).kept
      BY <1>2 DEF Extract
  <2>2. DOMAIN nodes \subseteq Nat
      BY LineFacts DEF IInv, ShapeOK, Lines
  <2>3. \A l, k \in lists' : l.head = k.head => l = k
      BY <2>1, <2>2, HeadsAreDistinct
  <2> QED BY <2>1, <2>3 DEF ObservedOK
<1>3. CASE Analyse
    BY <1>3 DEF Analyse, ObservedOK
<1>4. ASSUME NEW n, NEW token, NEW value, NEW cast, NEW generalise,
             Teach(n, token, value, cast, generalise)
      PROVE  ObservedOK'
    BY <1>4 DEF Teach, ObservedOK
<1>5. CASE UNCHANGED <<vars, lesson>>
    BY <1>5 DEF vars, ObservedOK
<1> QED BY <1>1, <1>2, <1>3, <1>4, <1>5 DEF TNext, Next

LEMMA ReportsAreResolved ==
    ASSUME NEW entries, NEW o \in AnalyseAcl(entries), o.kind \in {"SHADOWED", "REDUNDANT"}
    PROVE  /\ Resolved(entries[o.entry].src) /\ Resolved(entries[o.entry].dst)
           /\ \A j \in o.causes : Resolved(entries[j].src) /\ Resolved(entries[j].dst)
<1>1. PICK i \in DOMAIN entries : o \in Permissive(entries, i) \cup Reachability(entries, i)
    BY DEF AnalyseAcl
<1>2. o \in Reachability(entries, i)
    BY <1>1 DEF Permissive, Observation
<1>3. /\ o.entry = i /\ Resolved(entries[i].src) /\ Resolved(entries[i].dst)
      /\ \A j \in o.causes : Covers(entries[j], entries[i]) = "yes"
    BY <1>2 DEF Reachability, Observation
<1>4. ASSUME NEW j \in o.causes
      PROVE  Resolved(entries[j].src) /\ Resolved(entries[j].dst)
  <2> DEFINE answers == {ProtocolCovers(entries[j].protocol, entries[i].protocol),
                         AddressCovers(entries[j].src, entries[i].src),
                         AddressCovers(entries[j].dst, entries[i].dst),
                         PortCovers(entries[j].sport, entries[i].sport),
                         PortCovers(entries[j].dport, entries[i].dport)}
  <2>1. AllTrue(answers) = "yes"
      BY <1>3 DEF Covers
  <2>2. "unknown" \notin answers
      BY <2>1, AllTrueIs
  <2> QED BY <2>2 DEF AddressCovers
<1> QED BY <1>3, <1>4

LEMMA EntriesAreASequence ==
    ASSUME EntriesSayTheirLines, phase \in {"extracted", "analysed"}, NEW l \in lists
    PROVE  /\ Len(l.entries) \in Nat /\ DOMAIN l.entries = 1 .. Len(l.entries)
           /\ \A j \in DOMAIN l.entries : PortsOK(l.entries[j])
<1>1. l.entries \in Seq(ToSet(l.entries))
    BY DEF EntriesSayTheirLines
<1>2. \A j \in DOMAIN l.entries :
         {l.entries[j].sport.low, l.entries[j].sport.high,
          l.entries[j].dport.low, l.entries[j].dport.high} \subseteq 0 .. PortMax
    BY DEF EntriesSayTheirLines
<1> QED BY <1>1, <1>2, PortMaxAssumption DEF PortsOK

\* What the entries of a list that can be read say is what their lines admit.
LEMMA WhatEntriesSay ==
    ASSUME EntriesSayTheirLines, phase \in {"extracted", "analysed"}, NEW l \in lists,
           NEW members \in Possible(l), NEW i \in DOMAIN l.entries, ~Misread(l, i)
    PROVE  /\ ~ReadInPart(l, i) =>
                 Admitted(l, i, members) \subseteq {p \in Packets(l) : LetsThrough(l.entries[i], p)}
           /\ Resolved(l.entries[i].src) /\ Resolved(l.entries[i].dst) =>
                 {p \in Packets(l) : LetsThrough(l.entries[i], p)} \subseteq Admitted(l, i, members)
    BY DEF EntriesSayTheirLines

LEMMA ObservedOfTheList ==
    ASSUME ObservedOK, phase = "analysed", NEW l \in lists
    PROVE  observations[l.head] = AnalyseAcl(l.entries)
<1>1. {k \in lists : k.head = l.head} = {l}
    BY DEF ObservedOK
<1>2. observations[l.head] = UNION {AnalyseAcl(k.entries) : k \in {k \in lists : k.head = l.head}}
    BY DEF ObservedOK
<1> QED BY <1>1, <1>2

\* An entry whose addresses are resolved passes the packets it says.
LEMMA ResolvedPasses ==
    ASSUME NEW e, NEW p, NEW members, Resolved(e.src), Resolved(e.dst)
    PROVE  Passes(e, p, members) <=> LetsThrough(e, p)
    BY DEF LetsThrough, MayHold, Passes, Holds, In

LEMMA PacketsAreOK ==
    ASSUME NEW l, NEW p \in Packets(l)
    PROVE  PacketOK(p)
    BY PortMaxAssumption DEF Packets, PacketOK

LEMMA ReportedEntryDecidesNothing ==
    ASSUME ObservedOK, EntriesSayTheirLines, phase = "analysed",
           NEW l \in lists, NEW members \in Possible(l), NEW o \in observations[l.head],
           o.kind \in {"SHADOWED", "REDUNDANT"}, ~ReadInPart(l, o.entry),
           \A j \in {o.entry} \cup o.causes : ~Misread(l, j),
           NEW p \in Admitted(l, o.entry, members)
    PROVE  \E j \in DOMAIN l.entries : j \in 1 .. (o.entry - 1) /\ p \in Admitted(l, j, members)
<1> DEFINE entries == l.entries
           i == o.entry
<1>1. /\ \A j \in DOMAIN entries : j \in Nat \ {0} /\ PortsOK(entries[j])
      /\ \A j \in DOMAIN entries : 1 .. j \subseteq DOMAIN entries
    BY EntriesAreASequence
<1>2. o \in AnalyseAcl(entries)
    BY ObservedOfTheList
<1> HIDE DEF entries
<1>3. /\ i \in DOMAIN entries /\ o.causes # {} /\ o.causes \subseteq 1 .. (i - 1)
      /\ \A j \in o.causes : PacketOK(p) /\ Passes(entries[i], p, members)
                              => Passes(entries[j], p, members)
    BY <1>1, <1>2, ReportsAreCovered
<1>4. /\ Resolved(entries[i].src) /\ Resolved(entries[i].dst)
      /\ \A j \in o.causes : Resolved(entries[j].src) /\ Resolved(entries[j].dst)
    BY <1>2, ReportsAreResolved
<1>5. i \in Nat /\ 1 .. i \subseteq DOMAIN entries
    BY <1>1, <1>3
<1>6. PICK j \in o.causes : j \in DOMAIN entries /\ j \in 1 .. (i - 1)
    BY <1>3, <1>5
<1>7. p \in Packets(l) /\ LetsThrough(entries[i], p)
    BY <1>3, WhatEntriesSay DEF entries
<1>8. Passes(entries[i], p, members)
    BY <1>4, <1>7, ResolvedPasses
<1>9. LetsThrough(entries[j], p)
    BY <1>3, <1>4, <1>6, <1>7, <1>8, PacketsAreOK, ResolvedPasses
<1>10. p \in Admitted(l, j, members)
    BY <1>4, <1>6, <1>7, <1>9, WhatEntriesSay DEF entries
<1> QED BY <1>6, <1>10 DEF entries

\* Where the entries of the lists say what their lines do, or less, an entry
\* reported as shadowed or redundant has no effect: each packet its lines admit
\* is decided by an entry above it, whatever the groups of the list hold
\* (acl_analysis.py); but for entries read in part and causes misread.
THEOREM ReportedEntriesAlwaysDecideNothing ==
    TSpec /\ []EntriesSayTheirLines => []ReportedEntriesDecideNothing
<1>1. ObservedOK /\ EntriesSayTheirLines => ReportedEntriesDecideNothing
  <2> SUFFICES ASSUME ObservedOK, EntriesSayTheirLines, phase = "analysed",
                      NEW l \in lists, NEW members \in Possible(l),
                      NEW admitted, admitted = [i \in DOMAIN l.entries |-> Admitted(l, i, members)],
                      NEW o \in observations[l.head],
                      o.kind \in {"SHADOWED", "REDUNDANT"}, ~ReadInPart(l, o.entry),
                      \A j \in {o.entry} \cup o.causes : ~Misread(l, j)
               PROVE  admitted[o.entry] \subseteq UNION {admitted[j] : j \in 1 .. (o.entry - 1)}
      BY DEF ReportedEntriesDecideNothing
  <2>1. o.entry \in DOMAIN l.entries
    <3>1. o \in AnalyseAcl(l.entries)
        BY ObservedOfTheList
    <3>2. /\ \A j \in DOMAIN l.entries : j \in Nat \ {0} /\ PortsOK(l.entries[j])
          /\ \A j \in DOMAIN l.entries : 1 .. j \subseteq DOMAIN l.entries
        BY EntriesAreASequence
    <3> QED BY <3>1, <3>2, ReportsAreCovered
  <2>2. ASSUME NEW p \in admitted[o.entry]
        PROVE  \E j \in 1 .. (o.entry - 1) : p \in admitted[j]
    <3>1. p \in Admitted(l, o.entry, members)
        BY <2>1, <2>2
    <3>2. PICK j \in DOMAIN l.entries : j \in 1 .. (o.entry - 1) /\ p \in Admitted(l, j, members)
        BY <3>1, ReportedEntryDecidesNothing
    <3> QED BY <3>2
  <2> QED BY <2>2
<1>2. TInit => ObservedOK
    BY DEF TInit, Init, TreeInit, ObservedOK
<1>3. IInv /\ ObservedOK /\ [TNext]_<<vars, lesson>> => ObservedOK'
    BY NextObservedOK
<1> QED BY <1>1, <1>2, <1>3, Invariance, PTL DEF TSpec

-----------------------------------------------------------------------------
(* The other direction.                                                    *)

\* What an entry must be for there to be packets of it at all.
Proper(e) ==
    /\ e.protocol \in Universal \cup Protocols
    /\ ProperAddress(e.src) /\ ProperAddress(e.dst)
    /\ e.sport.low <= e.sport.high /\ e.dport.low <= e.dport.high
    /\ e.established \in BOOLEAN /\ (e.established => e.protocol = "tcp")

EntriesAreProper ==
    phase \in {"extracted", "analysed"} =>
        \A l \in lists : \A i \in DOMAIN l.entries : Proper(l.entries[i])

LEMMA CoversAnswers ==
    ASSUME NEW outer, NEW inner
    PROVE  Covers(outer, inner) \in {"yes", "no", "unknown"}
    BY DEF Covers, AllTrue

\* Nothing is reported of an entry only where every comparison ends in no.
LEMMA SilenceIs ==
    ASSUME NEW entries, NEW i \in DOMAIN entries, NEW j \in 1 .. (i - 1),
           \A o \in AnalyseAcl(entries) :
              o.entry = i => o.kind \notin {"SHADOWED", "REDUNDANT", "UNDETERMINED"}
    PROVE  /\ Resolved(entries[i].src) /\ Resolved(entries[i].dst)
           /\ Covers(entries[j], entries[i]) = "no"
<1> DEFINE above(answer) == {k \in 1..(i - 1) : Covers(entries[k], entries[i]) = answer}
           same == {k \in above("yes") : entries[k].action = entries[i].action}
           other == above("yes") \ same
<1>1. Reachability(entries, i) \subseteq AnalyseAcl(entries)
    BY DEF AnalyseAcl
<1>2. \A kind \in {"SHADOWED", "REDUNDANT", "UNDETERMINED"} : \A causes :
         Observation(kind, i, causes) \notin Reachability(entries, i)
  <2>1. \A kind, causes : /\ Observation(kind, i, causes).entry = i
                          /\ Observation(kind, i, causes).kind = kind
      BY DEF Observation
  <2> QED BY <1>1, <2>1
<1>3. Reachability(entries, i) =
         IF ~Resolved(entries[i].src) \/ ~Resolved(entries[i].dst)
         THEN {Observation("UNDETERMINED", i, {})}
         ELSE CASE other # {} -> {Observation("SHADOWED", i, other)}
                [] other = {} /\ same # {} -> {Observation("REDUNDANT", i, same)}
                [] above("yes") = {} /\ above("unknown") # {} ->
                     {Observation("UNDETERMINED", i, {})}
                [] OTHER -> {}
    BY DEF Reachability
<1> HIDE DEF above, same, other
<1>4. Resolved(entries[i].src) /\ Resolved(entries[i].dst)
    BY <1>2, <1>3
<1>5. other = {}
    BY <1>2, <1>3, <1>4
<1>6. same = {}
    BY <1>2, <1>3, <1>4, <1>5
<1>7. above("yes") = {}
    BY <1>5, <1>6 DEF other
<1>8. above("unknown") = {}
    BY <1>2, <1>3, <1>4, <1>5, <1>6, <1>7
<1>9. Covers(entries[j], entries[i]) # "yes" /\ Covers(entries[j], entries[i]) # "unknown"
    BY <1>7, <1>8 DEF above
<1> QED BY <1>4, <1>9, CoversAnswers

LEMMA FamilyIs ==
    ASSUME NEW l
    PROVE  Family(l) \in {Address, Address6}
    BY DEF Family

\* There is an address of the family in a proper address for that family.
LEMMA SomeAddress ==
    ASSUME NEW family \in {Address, Address6}, NEW address, ProperAddress(address),
           Resolved(address), address.any \/ \A n \in address.networks : n \subseteq family
    PROVE  \E a \in family : MayHold(address, a)
<1>1. PICK n \in address.networks : n \cap family # {}
  <2>1. CASE address.any
      BY <2>1, FamiliesAssumption DEF ProperAddress
  <2>2. CASE ~address.any
      BY <2>2 DEF ProperAddress, Resolved
  <2> QED BY <2>1, <2>2
<1> QED BY <1>1 DEF MayHold

\* There is a packet of a proper entry.
LEMMA SomePacket ==
    ASSUME "tcp" \in Protocols, NEW l, NEW e, Proper(e),
           {e.sport.low, e.sport.high, e.dport.low, e.dport.high} \subseteq 0 .. PortMax,
           NEW a \in Family(l), MayHold(e.src, a), NEW b \in Family(l), MayHold(e.dst, b)
    PROVE  \E q \in Packets(l) : LetsThrough(e, q)
<1>1. PICK x \in Protocols : /\ e.protocol \in Universal \/ x = e.protocol
                             /\ e.established => x = "tcp"
    BY DEF Proper, Universal
<1> DEFINE q == [protocol |-> x, src |-> a, sport |-> e.sport.low,
                 dst |-> b, dport |-> e.dport.low, established |-> e.established]
<1>2. q \in Packets(l)
    BY <1>1 DEF Packets, Proper
<1>3. LetsThrough(e, q)
  <2>1. /\ e.sport.low <= e.sport.low /\ e.dport.low <= e.dport.low
        /\ e.sport.low <= e.sport.high /\ e.dport.low <= e.dport.high
      BY PortMaxAssumption DEF Proper
  <2> QED BY <1>1, <2>1 DEF LetsThrough
<1> QED BY <1>2, <1>3

LEMMA NearIsAPacket ==
    ASSUME {"tcp", "udp"} \subseteq Protocols, NEW l, NEW e, Proper(e),
           {e.sport.low, e.sport.high, e.dport.low, e.dport.high} \subseteq 0 .. PortMax,
           NEW q \in Packets(l), NEW p, Near(p, q, e, Family(l))
    PROVE  p \in Packets(l)
<1>1. p.protocol \in Protocols
    BY DEF Near, Packets
<1>2. p.src \in Family(l) /\ p.dst \in Family(l)
    BY DEF Near, Packets
<1>3. p.sport \in 0 .. PortMax /\ p.dport \in 0 .. PortMax
    BY DEF Near, Packets
<1>4. p.established \in BOOLEAN /\ (p.established => p.protocol = "tcp")
  <2>1. CASE p.established = FALSE
      BY <2>1
  <2>2. CASE p.established = q.established /\ p.protocol = q.protocol
      BY <2>2 DEF Packets
  <2>3. ~(e.established /\ e.protocol \in Universal)
      BY DEF Proper, Universal
  <2> QED BY <2>1, <2>2, <2>3 DEF Near
<1>5. p = [protocol |-> p.protocol, src |-> p.src, sport |-> p.sport,
           dst |-> p.dst, dport |-> p.dport, established |-> p.established]
    BY DEF Near
<1>6. p \in [protocol : Protocols, src : Family(l), sport : 0 .. PortMax,
             dst : Family(l), dport : 0 .. PortMax, established : BOOLEAN]
    BY <1>1, <1>2, <1>3, <1>4, <1>5
<1> QED BY <1>4, <1>6 DEF Packets

LEMMA SilentEntryIsReachable ==
    ASSUME {"tcp", "udp"} \subseteq Protocols,
           ObservedOK, EntriesSayTheirLines, EntriesAreProper, phase = "analysed",
           NEW l \in lists, NEW members \in Possible(l), NEW i \in DOMAIN l.entries,
           NEW j \in 1 .. (i - 1),
           Observed(l, i) \cap {"SHADOWED", "REDUNDANT", "UNDETERMINED"} = {},
           Comparable(Family(l), l.entries[j].src, l.entries[i].src),
           Comparable(Family(l), l.entries[j].dst, l.entries[i].dst),
           ~Misread(l, i), ~Misread(l, j), ~ReadInPart(l, j)
    PROVE  \E p \in Admitted(l, i, members) : p \notin Admitted(l, j, members)
<1> DEFINE inner == l.entries[i]
           outer == l.entries[j]
           family == Family(l)
           all == [address \in {outer.src, outer.dst} |-> family]
<1>1. j \in DOMAIN l.entries
    BY EntriesAreASequence
<1>2. \A k \in DOMAIN l.entries :
         /\ {l.entries[k].sport.low, l.entries[k].sport.high,
             l.entries[k].dport.low, l.entries[k].dport.high} \subseteq 0 .. PortMax
         /\ Proper(l.entries[k])
    BY DEF EntriesSayTheirLines, EntriesAreProper
<1>3. Resolved(inner.src) /\ Resolved(inner.dst) /\ Covers(outer, inner) = "no"
  <2>1. \A o \in AnalyseAcl(l.entries) :
           o.entry = i => o.kind \notin {"SHADOWED", "REDUNDANT", "UNDETERMINED"}
      BY ObservedOfTheList DEF Observed
  <2> QED BY <2>1, SilenceIs
<1>4. PortsOK(inner) /\ PortsOK(outer)
    BY <1>1, EntriesAreASequence
<1>5. /\ ProperAddress(inner.src) /\ ProperAddress(inner.dst)
      /\ ProperAddress(outer.src) /\ ProperAddress(outer.dst)
    BY <1>1, <1>2 DEF Proper
<1>6. PICK q \in Packets(l) : LetsThrough(inner, q)
  <2>1. PICK a \in family : MayHold(inner.src, a)
      BY <1>3, <1>5, FamilyIs, SomeAddress DEF Comparable
  <2>2. PICK b \in family : MayHold(inner.dst, b)
      BY <1>3, <1>5, FamilyIs, SomeAddress DEF Comparable
  <2> QED BY <1>2, <2>1, <2>2, SomePacket
<1>7. PacketOK(q) /\ Passes(inner, q, all)
    BY <1>3, <1>6, PacketsAreOK, ResolvedPasses
<1>8. PICK p : PacketOK(p) /\ Passes(inner, p, all) /\ ~Passes(outer, p, all) /\ Near(p, q, inner, family)
    BY <1>3, <1>4, <1>5, <1>7, FamilyIs, NoIsNoCover
<1>9. p \in Packets(l)
    BY <1>2, <1>6, <1>8, NearIsAPacket
<1>10. LetsThrough(inner, p)
    BY <1>3, <1>8, ResolvedPasses
<1>11. ~LetsThrough(outer, p)
  <2>1. all[outer.src] = family /\ all[outer.dst] = family
      OBVIOUS
  <2>2. p.src \in family /\ p.dst \in family
      BY <1>9 DEF Packets
  <2> HIDE DEF all, family
  <2> QED BY <1>8, <2>1, <2>2 DEF LetsThrough, MayHold, Passes, Holds, In
<1>12. p \in Admitted(l, i, members) /\ p \notin Admitted(l, j, members)
    BY <1>1, <1>3, <1>9, <1>10, <1>11, WhatEntriesSay
<1> QED BY <1>12

\* Where, besides, the entries are such that there are packets of them, an
\* entry of which nothing is reported is not covered by one above it, whatever
\* the groups of the list hold, where intervals.py means to find coverage of
\* its addresses (Comparable) and the two are read as they stand.
THEOREM SilenceAlwaysMeansReachable ==
    ASSUME {"tcp", "udp"} \subseteq Protocols
    PROVE  TSpec /\ []EntriesSayTheirLines /\ []EntriesAreProper => []SilenceMeansReachable
<1>1. ObservedOK /\ EntriesSayTheirLines /\ EntriesAreProper => SilenceMeansReachable
  <2> SUFFICES ASSUME ObservedOK, EntriesSayTheirLines, EntriesAreProper, phase = "analysed",
                      NEW l \in lists, NEW members \in Possible(l),
                      NEW admitted, admitted = [i \in DOMAIN l.entries |-> Admitted(l, i, members)],
                      NEW i \in DOMAIN l.entries, NEW j \in 1 .. (i - 1),
                      Observed(l, i) \cap {"SHADOWED", "REDUNDANT", "UNDETERMINED"} = {},
                      Comparable(Family(l), l.entries[j].src, l.entries[i].src),
                      Comparable(Family(l), l.entries[j].dst, l.entries[i].dst),
                      ~Misread(l, i), ~Misread(l, j), ~ReadInPart(l, j)
               PROVE  ~(admitted[i] \subseteq admitted[j])
      BY Zenon DEF SilenceMeansReachable
  <2>1. PICK p \in Admitted(l, i, members) : p \notin Admitted(l, j, members)
      BY SilentEntryIsReachable
  <2>2. j \in DOMAIN l.entries
      BY EntriesAreASequence
  <2>3. admitted[i] = Admitted(l, i, members) /\ admitted[j] = Admitted(l, j, members)
      BY <2>2
  <2> QED BY <2>1, <2>3
<1>2. TInit => ObservedOK
    BY DEF TInit, Init, TreeInit, ObservedOK
<1>3. IInv /\ ObservedOK /\ [TNext]_<<vars, lesson>> => ObservedOK'
    BY NextObservedOK
<1> QED BY <1>1, <1>2, <1>3, Invariance, PTL DEF TSpec

=============================================================================
