--------------------------- MODULE DeviceReading ---------------------------
(***************************************************************************)
(* One file read to the end (api/parse/service.py parse_configuration,     *)
(* then api/analyse): tree, pattern matches, interfaces, access lists,     *)
(* residue, and the observations about the lists that were kept.           *)
(*                                                                         *)
(* What a line means to the device is not in the program.  A line carries  *)
(* it for the properties: the list and the rule it belongs to, the         *)
(* condition it adds (key) and the packets it admits (box), those of the   *)
(* group it names besides.  Lines of one rule with the same key are        *)
(* alternatives, different keys all have to hold; a line whose rule is ""  *)
(* is a rule by itself.  A line that sets a timeout carries its seconds.   *)
(***************************************************************************)
EXTENDS ParseTree, AclAnalysis

CONSTANTS
    Patterns,    \* platform -> the patterns of its pack
    NumberOf,    \* word -> number
    Protocols,   \* protocols of packets
    Members      \* what the groups no file defines may hold: name -> addresses

\* The headers of a block are a sequence.
ASSUME ScopesAssumption ==
    \A f \in Files : \A p \in Patterns[f.os] : p.scope \in Seq(ToSet(p.scope))

VARIABLES
    matches,        \* <<field, line, value>>
    interfaces,
    lists,          \* access lists that were kept
    failures,       \* access lists that were dropped
    residue,        \* lines an administrator will be asked about
    observations    \* name of a list -> what was observed of it

vars == <<file, at, nodes, unplaced, stack, literal, comment, phase,
          matches, interfaces, lists, failures, residue, observations>>

results == <<matches, interfaces, lists, failures, residue, observations>>

Init ==
    /\ TreeInit
    /\ matches = {} /\ interfaces = {} /\ lists = {} /\ failures = {}
    /\ residue = {} /\ observations = <<>>

\* Words of a pattern that stand for others: a captured one, any number.
Hole == "_"
AnyNumber == "#"

\* A header of a scope is matched in full.
Fits(header, words) ==
    /\ Len(header) = Len(words)
    /\ \A i \in DOMAIN header :
          \/ header[i] = words[i]
          \/ header[i] = AnyNumber /\ words[i] \in Numeral

\* Mutant: the block of a pattern may stand anywhere around the line.
InScopeAnywhere(pattern, path) ==
    IF pattern.root THEN path = <<>> ELSE ToSet(pattern.scope) \subseteq ToSet(path)

\* PatternScope.matches: without a block a pattern reads the top level only;
\* a block is anchored at the outermost one, and the empty one is anywhere.
InScope(pattern, path) ==
    IF pattern.root THEN path = <<>>
    ELSE /\ Len(pattern.scope) <= Len(path)
         /\ \A i \in DOMAIN pattern.scope : Fits(pattern.scope[i], path[i])

\* A pattern fixes the words of a line and captures those at its holes; one
\* that captures nothing states its value itself.
Captured(p, text) ==
    LET holes == {i \in DOMAIN text : p.words[i] = Hole}
        Nth(k) == CHOOSE i \in holes : Cardinality({j \in holes : j < i}) = k - 1
    IN  IF Len(text) # Len(p.words) \/ \E i \in DOMAIN text : p.words[i] \notin {Hole, text[i]}
        THEN None
        ELSE <<IF holes = {} THEN p.literal
               ELSE [k \in 1..Cardinality(holes) |-> text[Nth(k)]]>>

TrueTokens == {"true", "yes", "on", "enable", "enabled", "1"}
FalseTokens == {"false", "no", "off", "disable", "disabled", "0"}

Durations == {"duration", "duration_minutes"}

\* cast_value; a value its cast refuses is no fact.
Cast(cast, words) ==
    LET numbers == ToSet(words) \subseteq DOMAIN NumberOf
        one == Len(words) = 1
    IN  CASE cast = "str" -> <<words>>
          [] cast = "bool" ->
               IF one /\ words[1] \in TrueTokens \cup FalseTokens
               THEN <<words[1] \in TrueTokens>> ELSE None
          [] cast = "duration_minutes" ->
               IF one /\ numbers THEN <<NumberOf[words[1]] * 60>> ELSE None
          [] cast = "duration" ->
               CASE one /\ numbers -> <<NumberOf[words[1]]>>
                 [] Len(words) = 2 /\ numbers -> <<NumberOf[words[1]] * 60 + NumberOf[words[2]]>>
                 [] OTHER -> None

\* apply_pack: every pattern on every line in its scope.
Matches(t, patterns) ==
    UNION {LET read(n) == Then(Captured(p, t[n].text), LAMBDA words : Cast(p.cast, words))
           IN  {<<p.field, n, read(n)[1]>> :
                   n \in {n \in DOMAIN t : InScope(p, t[n].path) /\ read(n) # None}} :
           p \in patterns}

Extract ==
    /\ phase = "tree"
    /\ LET found == ExtractedLists(nodes, file.os, mode) IN
       /\ matches' = Matches(nodes, Patterns[file.os])
       /\ interfaces' = ExtractedInterfaces(nodes, file.os)
       /\ lists' = found.kept
       /\ failures' = found.failed
       /\ residue' = DOMAIN nodes \ ({m[2] : m \in matches'}
                                     \cup MatchedLines(nodes, file.os, mode))
    /\ phase' = "extracted"
    /\ UNCHANGED <<file, at, nodes, unplaced, stack, literal, comment, observations>>

\* analyse_device: every list that was kept.
Analyse ==
    /\ phase = "extracted"
    /\ observations' = [h \in {l.head : l \in lists} |->
                          UNION {AnalyseAcl(l.entries) : l \in {l \in lists : l.head = h}}]
    /\ phase' = "analysed"
    /\ UNCHANGED <<file, at, nodes, unplaced, stack, literal, comment,
                   matches, interfaces, lists, failures, residue>>

Next ==
    \/ ReadLine /\ UNCHANGED results
    \/ Extract
    \/ Analyse

Spec == Init /\ [][Next]_vars

-----------------------------------------------------------------------------
(* What the file says, without the parser.                                 *)

Lines == DOMAIN file.lines

\* A line is prose when it stands between an opener and its closing word.
InLiteral(n) ==
    \E k \in DOMAIN nodes :
        /\ mode = "indent" /\ k < n /\ file.lines[k].until # NoWord
        /\ \A j \in (k + 1)..(n - 1) : file.lines[j].text # <<file.lines[k].until>>

InComment(n) ==
    \E k \in Lines :
        /\ mode = "brace" /\ k < n /\ file.lines[k].form = "block_comment"
        /\ \A j \in k..(n - 1) : ~file.lines[j].ends

\* The nearest line above that is less indented, or the last brace that
\* nothing closed.
Count(S, Test(_)) == Cardinality({n \in S : Test(n)})
Opens(n) == n \in DOMAIN nodes /\ file.lines[n].brace
Closes(n) == ~InComment(n) /\ file.lines[n].form = "close"

Encloses(k, n) ==
    CASE mode = "indent" -> k \in DOMAIN nodes /\ file.lines[k].indent < file.lines[n].indent
      [] mode = "brace" -> /\ Opens(k)
                           /\ Count((k + 1)..(n - 1), Opens) = Count((k + 1)..(n - 1), Closes)
      [] OTHER -> FALSE

Enclosing(n) ==
    LET around == {k \in 1..(n - 1) : Encloses(k, n)}
    IN  IF around = {} THEN 0 ELSE CHOOSE k \in around : \A j \in around : j <= k

-----------------------------------------------------------------------------
(* What the device does with a list.                                       *)

\* The lines of the rule the line n belongs to.
RuleOf(n) ==
    IF file.lines[n].rule = "" THEN {n}
    ELSE {k \in Lines : /\ file.lines[k].list = file.lines[n].list
                        /\ file.lines[k].rule = file.lines[n].rule}

Rule(list, i) == RuleOf(FirstOf(list.entries[i].lines))

\* The addresses of the packets a list is asked about.  A brace filter says
\* its family; the other readers find lists of IPv4 alone.
Family(list) ==
    IF <<"family", "inet6">> \in ToSet(nodes[list.head].path) THEN Address6 ELSE Address

\* A protocol has one name.
Packets(list) ==
    {p \in [protocol : Protocols, src : Family(list), sport : 0..PortMax,
            dst : Family(list), dport : 0..PortMax, established : BOOLEAN] :
        p.established => p.protocol = "tcp"}

Admits(box, p, members) ==
    /\ p.protocol \in box.protocol
    /\ p.src \in box.src \cup (IF box.group = "" THEN {} ELSE members[box.group])
    /\ p.sport \in box.sport
    /\ p.dst \in box.dst /\ p.dport \in box.dport
    /\ p.established \in box.established

\* One entry: its rule or, of a rule read as several, the part at its ports.
Admitted(list, i, members) ==
    LET entry == list.entries[i]
        boxes == [key \in {file.lines[n].key : n \in Rule(list, i)} \ {""} |->
                    {file.lines[n].box : n \in {n \in Rule(list, i) : file.lines[n].key = key}}]
        part == \E j \in DOMAIN list.entries : j # i /\ list.entries[j].lines = entry.lines
        among(port, ports) == ports.low <= port /\ port <= ports.high
    IN  {p \in Packets(list) :
            /\ \A key \in DOMAIN boxes : \E box \in boxes[key] : Admits(box, p, members)
            /\ part => among(p.sport, entry.sport) /\ among(p.dport, entry.dport)}

\* What groups may hold matters to a list that names one.
Possible(list) ==
    IF \E i \in DOMAIN list.entries : \E n \in Rule(list, i) : file.lines[n].box.group # ""
    THEN Members ELSE {CHOOSE m \in Members : TRUE}

\* What the entry says of packets, as it was read; an address whose members
\* are not known may hold any.
MayHold(address, a) == Resolved(address) => \E n \in address.networks : a \in n

LetsThrough(e, p) ==
    /\ e.protocol \in Universal \/ p.protocol = e.protocol
    /\ MayHold(e.src, p.src) /\ MayHold(e.dst, p.dst)
    /\ e.sport.low <= p.sport /\ p.sport <= e.sport.high
    /\ e.dport.low <= p.dport /\ p.dport <= e.dport.high
    /\ e.established => p.established

\* The statement a condition is written in: its line, or the block around it.
StatementOf(n) ==
    LET above == nodes[n].parent IN
    IF above = 0 \/ nodes[above].text = <<"from">> THEN n ELSE above

\* An entry that says less than its rule: a condition was stated again, which
\* to JunOS is one more alternative and to the code the only one left; or it
\* names several lists of which some are not defined.
ReadInPart(list, i) ==
    \E n, k \in Rule(list, i) :
        /\ file.lines[n].key = file.lines[k].key /\ file.lines[n].key # ""
        /\ \/ StatementOf(n) # StatementOf(k)
           \/ file.lines[n].box.group # "" /\ file.lines[k].box.src # {}

\* An entry that says something else: a prefix list with "except" is read as
\* the list, and ports above the highest or below the lowest as that port.
Misread(list, i) ==
    \E n \in Rule(list, i) :
        \/ "except" \in ToSet(file.lines[n].text)
        \/ file.lines[n].box.sport = {} \/ file.lines[n].box.dport = {}

Observed(list, i) == {o.kind : o \in {o \in observations[list.head] : o.entry = i}}

-----------------------------------------------------------------------------
\* Every line of the file is a node or accounted for, never both; prose and
\* comments are no nodes, so they cannot become facts; and a node stands in
\* the block the file puts it in (block_parser.py, ConfigTree).  A file is
\* refused for a literal that does not end, never for the tree made of it.
TreeFollowsTheFile ==
    phase \in {"tree", "refused"} =>
        /\ phase = "refused" <=> literal # NoWord
        /\ DOMAIN nodes \cup DOMAIN unplaced = Lines
        /\ DOMAIN nodes \cap DOMAIN unplaced = {}
        /\ \A n \in Lines :
            n \in DOMAIN nodes <=>
                /\ file.lines[n].form = "statement" /\ ~InLiteral(n) /\ ~InComment(n)
                /\ file.lines[n].text # <<>>
        /\ \A n \in DOMAIN nodes :
            LET parent == Enclosing(n) IN
            /\ nodes[n].parent = parent
            /\ nodes[n].path = IF parent = 0 THEN <<>>
                               ELSE Append(nodes[parent].path, nodes[parent].text)

\* The line at the outermost level under which a line stands.
Home(n) ==
    CHOOSE k \in DOMAIN nodes :
        /\ k <= n /\ Enclosing(k) = 0
        /\ \A j \in (k + 1)..n : j \in DOMAIN nodes => Enclosing(j) # 0

\* A value is a fact about the block it was written in: a pattern for the top
\* level read it there, one that names a block only under a line that begins
\* such a block at the outermost level, and a timeout counts in the unit its
\* platform writes (models/pack.py PatternScope, casts.py).
FactsAreOfTheirBlock ==
    phase \in {"extracted", "analysed"} =>
        \A m \in matches : \E p \in Patterns[file.os] :
            /\ p.field = m[1]
            /\ p.root => Enclosing(m[2]) = 0
            /\ ~p.root /\ p.scope # <<>> => Fits(p.scope[1], file.lines[Home(m[2])].text)
            /\ p.cast \in Durations => m[3] = file.lines[m[2]].seconds

\* Lines of the list the line n belongs to, and those a list that was kept
\* has read.  Lists are told apart by where they stand, not by their names.
SameList(n) == {k \in DOMAIN nodes : file.lines[k].list = file.lines[n].list}
LinesOf(list) == UNION {list.entries[i].lines : i \in DOMAIN list.entries}

\* A list of the file is kept with all its rules in their order, or it is
\* reported and every line of it stays in front of an administrator
\* (structures.py: one unreadable entry drops the list).  One exception: of a
\* dropped filter in braces nothing stays if another of its name, say of the
\* other family, was kept (_junos_brace_node_ids, which goes by the name).
ListsAreWhole ==
    phase \in {"extracted", "analysed"} =>
        /\ \A n \in DOMAIN nodes : file.lines[n].list # "" =>
              \/ n \notin residue /\ \E l \in lists : LinesOf(l) = SameList(n)
              \/ /\ \A l \in lists : LinesOf(l) \cap SameList(n) = {}
                 /\ \E f \in failures :
                      /\ f.line \in SameList(n)
                      /\ n \in residue \/ (mode = "brace" /\ \E l \in lists : l.name = f.name)
        /\ \A l \in lists : \A i, j \in DOMAIN l.entries :
              i < j => FirstOf(l.entries[i].lines) <= FirstOf(l.entries[j].lines)

\* An entry that was read lets through the packets its lines do, and its ports
\* are ports (structures.py: what a reader cannot represent it refuses).  Where
\* it names a group without known members, it is what it says of the rest.  An
\* entry read in part says less than its lines, never more; one that is misread
\* is excepted.
EntriesSayTheirLines ==
    phase \in {"extracted", "analysed"} =>
        \A l \in lists :
            /\ l.entries \in Seq(ToSet(l.entries))
            /\ \A i \in DOMAIN l.entries :
                LET e == l.entries[i]
                    said == {p \in Packets(l) : LetsThrough(e, p)}
                IN  /\ {e.sport.low, e.sport.high, e.dport.low, e.dport.high} \subseteq 0..PortMax
                    /\ ~Misread(l, i) => \A members \in Possible(l) :
                         LET admitted == Admitted(l, i, members) IN
                         /\ ~ReadInPart(l, i) => admitted \subseteq said
                         /\ Resolved(e.src) /\ Resolved(e.dst) => said \subseteq admitted

\* An entry reported as shadowed or redundant has no effect on the device:
\* each packet it admits is decided by an entry above it (acl_analysis.py).
\* Not so of an entry that says less than its lines, nor where the one above
\* that is named as the cause is misread.
ReportedEntriesDecideNothing ==
    phase = "analysed" =>
        \A l \in lists : \A members \in Possible(l) :
            LET admitted == [i \in DOMAIN l.entries |-> Admitted(l, i, members)] IN
            \A o \in observations[l.head] :
                (/\ o.kind \in {"SHADOWED", "REDUNDANT"}
                 /\ ~ReadInPart(l, o.entry)
                 /\ \A j \in {o.entry} \cup o.causes : ~Misread(l, j))
                => admitted[o.entry] \subseteq UNION {admitted[j] : j \in 1..(o.entry - 1)}

\* Where intervals.py means to find coverage of an address by another: it
\* compares network by network, so not by several of them; and it takes "any"
\* for both families, so it is not covered by 0.0.0.0/0, the network of all
\* addresses of the one family the list is for.
Comparable(family, outer, inner) ==
    /\ inner.any \/ \A n \in inner.networks : n \subseteq family
    /\ outer.any \/ Cardinality(outer.networks) <= 1
    /\ ~(inner.any /\ outer.networks = {family})

\* The other direction: an entry of which nothing is reported is not covered
\* by one entry above it, whatever the members of the groups the file does
\* not define.  Where it would be by several networks or by that of all
\* addresses, and where one of the two is not read as it stands, the analysis
\* may be silent.
SilenceMeansReachable ==
    phase = "analysed" =>
        \A l \in lists : \A members \in Possible(l) :
            LET e == l.entries
                admitted == [i \in DOMAIN e |-> Admitted(l, i, members)]
            IN  \A i \in DOMAIN e : \A j \in 1..(i - 1) :
                (/\ Observed(l, i) \cap {"SHADOWED", "REDUNDANT", "UNDETERMINED"} = {}
                 /\ Comparable(Family(l), e[j].src, e[i].src)
                 /\ Comparable(Family(l), e[j].dst, e[i].dst)
                 /\ ~Misread(l, i) /\ ~Misread(l, j) /\ ~ReadInPart(l, j))
                => ~(admitted[i] \subseteq admitted[j])

=============================================================================
