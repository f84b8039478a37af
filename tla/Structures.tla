----------------------------- MODULE Structures -----------------------------
(***************************************************************************)
(* api/parse/structures.py: the interfaces and the access lists of a tree. *)
(* A dialect is the platform's way to write a list: IOS and NX-OS write a  *)
(* named block with one entry per line, JunOS spreads a term over several  *)
(* lines, as set commands or in braces.  A list of which one entry cannot  *)
(* be read is dropped whole, and reported.                                 *)
(*                                                                         *)
(* A tree t maps the number of a line to its node; a result is <<x>>, or   *)
(* None when it could not be read.  Addresses and ports are small numbers; *)
(* the constants say which words denote which.                             *)
(***************************************************************************)
EXTENDS Naturals, Sequences, FiniteSets, SequencesExt

CONSTANTS
    Address,      \* all IPv4 addresses
    Address6,     \* all IPv6 addresses
    PortMax,      \* the largest port
    AddressOf,    \* word -> address
    WildcardOf,   \* word -> wildcard mask, as a number
    CidrOf,       \* word -> the addresses of a network with a prefix length
    PortOf,       \* word -> port, numbers and the port names that are known
    Numeral       \* the words that are digits

ASSUME PortMaxAssumption == PortMax \in Nat

ASSUME FamiliesAssumption ==
    Address # {} /\ Address6 # {} /\ Address \cap Address6 = {}

None == <<>>

\* Reading goes on with the words that are left, unless it failed already.
Then(result, Take(_)) == IF result = None THEN None ELSE Take(Last(result))

After(words, n) == SubSeq(words, n + 1, Len(words))

-----------------------------------------------------------------------------
(* Addresses and ports.  An address is the set of its networks, each of    *)
(* one family; an object whose members are not known has none, and is not  *)
(* resolved.                                                               *)

\* ANY_NETWORKS: 0.0.0.0/0 and ::/0.
AnyAddress == [any |-> TRUE, networks |-> {Address, Address6}]
Networks(s) == [any |-> FALSE, networks |-> s]
Unresolved == Networks({})

\* Mutant: the ones of a mask are taken as contiguous.
AnyWildcard(address, mask) ==
    <<{a \in Address : a \div (mask + 1) = address \div (mask + 1)}>>

\* A wildcard mask has a network only when its ones are contiguous.
WildcardToCidr(address, mask) ==
    IF \E k \in 0..8 : mask + 1 = 2 ^ k
    THEN <<{a \in Address : a \div (mask + 1) = address \div (mask + 1)}>>
    ELSE None

TakeAddress(dialect, words) ==
    LET second == Len(words) > 1
        group == IF dialect = "ios" THEN "object-group" ELSE "addrgroup"
    IN  CASE words = <<>> -> None
          [] words # <<>> /\ words[1] = "any" -> <<AnyAddress, After(words, 1)>>
          [] words # <<>> /\ words[1] = "host" ->
               IF second /\ words[2] \in DOMAIN AddressOf
               THEN <<Networks({{AddressOf[words[2]]}}), After(words, 2)>> ELSE None
          [] words # <<>> /\ words[1] = group ->
               IF second THEN <<Unresolved, After(words, 2)>> ELSE None
          [] OTHER ->
               IF dialect = "nxos"
               THEN IF words[1] \in DOMAIN CidrOf
                    THEN <<Networks({CidrOf[words[1]]}), After(words, 1)>> ELSE None
               ELSE IF /\ second
                       /\ words[1] \in DOMAIN AddressOf /\ words[2] \in DOMAIN WildcardOf
                    THEN LET net == WildcardToCidr(AddressOf[words[1]], WildcardOf[words[2]])
                         IN  IF net = None THEN None
                             ELSE <<Networks({net[1]}), After(words, 2)>>
                    ELSE None

\* PortSpec: an operator and its interval.
Ports(low, high) == [low |-> low, high |-> high]
AnyPort == Ports(0, PortMax)

Smaller(a, b) == IF a < b THEN a ELSE b

\* Mutant: gt keeps its own port.
GtInclusive(op, p) ==
    CASE op = "eq" -> Ports(p, p)
      [] op = "lt" -> Ports(0, IF p = 0 THEN 0 ELSE p - 1)
      [] op = "gt" -> Ports(p, PortMax)
      [] op = "neq" -> Ports(p, p)

\* PortSpec._normalise, which has no case for neq.
Normalise(op, p) ==
    CASE op = "eq" -> Ports(p, p)
      [] op = "lt" -> Ports(0, IF p = 0 THEN 0 ELSE p - 1)
      [] op = "gt" -> Ports(Smaller(PortMax, p + 1), PortMax)
      [] op = "neq" -> Ports(p, p)

PortOps == {"eq", "lt", "gt", "neq"}

TakePort(words) ==
    CASE words # <<>> /\ words[1] = "range" ->
           IF /\ Len(words) > 2 /\ {words[2], words[3]} \subseteq DOMAIN PortOf
              /\ PortOf[words[2]] <= PortOf[words[3]]
           THEN <<Ports(PortOf[words[2]], PortOf[words[3]]), After(words, 3)>>
           ELSE None
      [] words # <<>> /\ words[1] \in PortOps ->
           IF Len(words) > 1 /\ words[2] \in DOMAIN PortOf
           THEN <<Normalise(words[1], PortOf[words[2]]), After(words, 2)>>
           ELSE None
      [] OTHER -> <<AnyPort, words>>

-----------------------------------------------------------------------------
(* IOS and NX-OS.                                                          *)

Entry(action, protocol, src, sport, dst, dport, established, lines) ==
    [action |-> action, protocol |-> protocol, src |-> src, sport |-> sport,
     dst |-> dst, dport |-> dport, established |-> established, lines |-> lines]

Understood == {"established", "log", "log-input"}

Unnumbered(words) ==
    IF words # <<>> /\ words[1] \in Numeral THEN Tail(words) ELSE words

\* [number] action protocol source [ports] destination [ports] flags
ParseEntry(dialect, words, lines) ==
    LET ws == Unnumbered(words)
        src == IF Len(ws) > 1 /\ ws[1] \in {"permit", "deny"}
               THEN TakeAddress(dialect, After(ws, 2)) ELSE None
        sport == Then(src, TakePort)
        dst == Then(sport, LAMBDA r : TakeAddress(dialect, r))
        dport == Then(dst, TakePort)
    IN  IF dport = None THEN None
        ELSE IF ~(ToSet(dport[2]) \subseteq Understood) THEN None
        ELSE <<Entry(ws[1], ws[2], src[1], sport[1], dst[1], dport[1],
                     "established" \in ToSet(dport[2]), lines)>>

\* Only IOS declares how a remark is written.
IsRemark(dialect, words) == dialect = "ios" /\ Len(words) > 1 /\ words[1] = "remark"

\* The header of a list: its name follows the words the pack declares.
ListHeader(dialect) ==
    IF dialect = "ios" THEN <<"ip", "access-list", "extended">>
                       ELSE <<"ip", "access-list">>

IsHeader(dialect, words) ==
    LET header == ListHeader(dialect) IN
    Len(words) = Len(header) + 1 /\ IsStrictPrefix(header, words)

Kept(name, head, entries) == [name |-> name, head |-> head, entries |-> entries]
Failed(name, head, at) == [name |-> name, head |-> head, line |-> at]

InOrder(S) == SetToSortSeq(S, LAMBDA a, b : a < b)

EntryLines(t, dialect, head) ==
    SelectSeq(InOrder({c \in DOMAIN t : t[c].parent = head}),
              LAMBDA c : ~IsRemark(dialect, t[c].text))

Readings(t, dialect, head) ==
    [i \in DOMAIN EntryLines(t, dialect, head) |->
        LET c == EntryLines(t, dialect, head)[i]
        IN  ParseEntry(dialect, t[c].text, {c})]

\* One list: kept with its entries, or failed at the first that is unreadable.
BlockList(t, dialect, head) ==
    LET read == Readings(t, dialect, head)
        bad == {i \in DOMAIN read : read[i] = None}
    IN  IF bad = {}
        THEN [kept |-> {Kept(Last(t[head].text), head, FlattenSeq(read))}, failed |-> {}]
        ELSE [kept |-> {},
              failed |-> {Failed(Last(t[head].text), head,
                                 EntryLines(t, dialect, head)[CHOOSE i \in bad :
                                     \A j \in bad : i <= j])}]

Headers(t, dialect) == {n \in DOMAIN t : IsHeader(dialect, t[n].text)}

\* Mutant: the lines of a list are taken whether it was kept or not.
ClaimedAnyway(t, dialect) ==
    UNION {{h} \cup {c \in DOMAIN t : t[c].parent = h} : h \in Headers(t, dialect)}

\* matched_node_ids, for these dialects: the lines of the lists read whole.
BlockListLines(t, dialect) ==
    UNION {{h} \cup {c \in DOMAIN t : t[c].parent = h} :
              h \in {h \in Headers(t, dialect) : BlockList(t, dialect, h).failed = {}}}

-----------------------------------------------------------------------------
(* JunOS: one term, from either surface.  A clause is a keyword and the    *)
(* values written for it.                                                  *)

FromKeywords == {"protocol", "source-address", "destination-address",
                 "source-port", "destination-port",
                 "source-prefix-list", "destination-prefix-list"}
AddressKeywords(side) == {side \o "-address", side \o "-prefix-list"}
IsPrefixList(keyword) == keyword \in {"source-prefix-list", "destination-prefix-list"}

Clause(keyword, values) == [keyword |-> keyword, values |-> values]

\* A value or an action of several words is one no reader knows.
Only(words) == IF Len(words) = 1 THEN words[1] ELSE "compound"

BracketValues(words) ==
    IF Len(words) > 1 /\ words[1] = "[" /\ Last(words) = "]"
    THEN SubSeq(words, 2, Len(words) - 1) ELSE words

\* Several networks are one address; members of lists nobody defined are
\* not there to be compared.
JunosAddresses(clause, lists) ==
    IF IsPrefixList(clause.keyword)
    THEN Networks(UNION {lists[v] : v \in ToSet(clause.values) \cap DOMAIN lists})
    ELSE Networks({CidrOf[v] : v \in ToSet(clause.values)})

ReadableClause(clause) ==
    /\ clause.keyword \in FromKeywords /\ clause.values # <<>>
    /\ clause.keyword = "protocol" => Len(clause.values) = 1
    /\ clause.keyword \in {"source-address", "destination-address"} =>
         ToSet(clause.values) \subseteq DOMAIN CidrOf
    /\ clause.keyword \in {"source-port", "destination-port"} =>
         ToSet(clause.values) \subseteq DOMAIN PortOf

Decisions == [accept |-> "permit", discard |-> "deny", reject |-> "deny"]
Deciding == DOMAIN Decisions
Logging == {"log", "syslog"}

\* A clause written twice: the later one is what the entry holds.
LastOf(clauses, keywords) ==
    LET of == SelectSeq(clauses, LAMBDA c : c.keyword \in keywords)
    IN  IF of = <<>> THEN None ELSE <<Last(of)>>

AddressIn(clauses, side, lists) ==
    LET c == LastOf(clauses, AddressKeywords(side))
    IN  IF c = None THEN AnyAddress ELSE JunosAddresses(c[1], lists)

PortsIn(clauses, keyword) ==
    LET c == LastOf(clauses, {keyword})
    IN  IF c = None THEN <<AnyPort>>
        ELSE [i \in DOMAIN c[1].values |-> Normalise("eq", PortOf[c[1].values[i]])]

ProtocolIn(clauses) ==
    LET c == LastOf(clauses, {"protocol"}) IN IF c = None THEN "any" ELSE c[1].values[1]

\* A term is one entry for each pair of a source and a destination port.
JunosEntries(clauses, thens, lines, lists) ==
    LET deciding == SelectSeq(thens, LAMBDA a : a \in Deciding)
        sports == PortsIn(clauses, "source-port")
        dports == PortsIn(clauses, "destination-port")
        Made(sport, dport) ==
            Entry(Decisions[Last(deciding)], ProtocolIn(clauses),
                  AddressIn(clauses, "source", lists), sport,
                  AddressIn(clauses, "destination", lists), dport, FALSE, lines)
    IN  IF \/ \E i \in DOMAIN clauses : ~ReadableClause(clauses[i])
           \/ ~(ToSet(thens) \subseteq Deciding \cup Logging)
           \/ deciding = <<>>
        THEN None
        ELSE FlattenSeq([i \in DOMAIN sports |->
                            [j \in DOMAIN dports |-> Made(sports[i], dports[j])]])

-----------------------------------------------------------------------------
(* JunOS as set commands: set filter F term T from|then clause.            *)

IsTermLine(words) ==
    /\ Len(words) > 6 /\ words[1] = "set" /\ words[2] = "filter" /\ words[4] = "term"
    /\ words[6] \in {"from", "then"}

IsSetPrefixList(words) ==
    Len(words) = 4 /\ words[1] = "set" /\ words[2] = "prefix-list" /\ words[4] \in DOMAIN CidrOf

SetPrefixLists(t) ==
    LET defined == {n \in DOMAIN t : IsSetPrefixList(t[n].text)}
    IN  [name \in {t[n].text[3] : n \in defined} |->
            {CidrOf[t[n].text[4]] : n \in {n \in defined : t[n].text[3] = name}}]

\* A filter and a term stand where they are first named, in this order.
FilterLines(t, name) == {n \in DOMAIN t : IsTermLine(t[n].text) /\ t[n].text[3] = name}
TermLines(t, first) ==
    {n \in FilterLines(t, t[first].text[3]) : t[n].text[5] = t[first].text[5]}
FirstOf(S) == CHOOSE n \in S : \A k \in S : n <= k
Terms(t, name) ==
    InOrder({n \in FilterLines(t, name) : n = FirstOf(TermLines(t, n))})
FilterNames(t) == {t[n].text[3] : n \in {n \in DOMAIN t : IsTermLine(t[n].text)}}

SetClauses(t, first) ==
    LET from == SelectSeq(InOrder(TermLines(t, first)), LAMBDA n : t[n].text[6] = "from")
    IN  [i \in DOMAIN from |->
            Clause(t[from[i]].text[7], BracketValues(After(t[from[i]].text, 7)))]

SetThens(t, first) ==
    LET then == SelectSeq(InOrder(TermLines(t, first)), LAMBDA n : t[n].text[6] = "then")
    IN  [i \in DOMAIN then |-> Only(After(t[then[i]].text, 6))]

\* The line of a term that is reported when the term cannot be read.  A port
\* list in brackets is blamed too, which can be read.
Blamed(t, first) ==
    LET clause(n) == After(t[n].text, 6)
        of(kind) == SelectSeq(InOrder(TermLines(t, first)), LAMBDA n : t[n].text[6] = kind)
        unread(n) ==
            \/ clause(n)[1] \notin FromKeywords
            \/ clause(n)[1] = "protocol" /\ Len(BracketValues(Tail(clause(n)))) # 1
            \/ /\ clause(n)[1] \in {"source-port", "destination-port"}
               /\ clause(n)[2] \notin DOMAIN PortOf
            \/ /\ clause(n)[1] \in {"source-address", "destination-address"}
               /\ clause(n)[2] \notin DOMAIN CidrOf
        undecided(n) == Only(clause(n)) \notin Deciding \cup Logging
    IN  Head(SelectSeq(of("from"), unread) \o SelectSeq(of("then"), undecided)
             \o of("then") \o of("from"))

\* A filter is cited at its first condition, or at its first action.
Cited(t, first) ==
    LET from == {n \in TermLines(t, first) : t[n].text[6] = "from"}
    IN  FirstOf(IF from = {} THEN TermLines(t, first) ELSE from)

SetList(t, name) ==
    LET terms == Terms(t, name)
        read == [i \in DOMAIN terms |->
                    JunosEntries(SetClauses(t, terms[i]), SetThens(t, terms[i]),
                                 TermLines(t, terms[i]), SetPrefixLists(t))]
        bad == {i \in DOMAIN read : read[i] = None}
        head == Cited(t, FirstOf(FilterLines(t, name)))
    IN  IF bad = {}
        THEN [kept |-> {Kept(name, head, FlattenSeq(read))}, failed |-> {}]
        ELSE [kept |-> {},
              failed |-> {Failed(name, head, Blamed(t, terms[FirstOf(bad)]))}]

\* The lines of the filters read whole, and the prefix lists they name.
SetListLines(t) ==
    LET own == UNION {FilterLines(t, name) :
                        name \in {f \in FilterNames(t) : SetList(t, f).failed = {}}}
        named == {t[n].text[8] : n \in {n \in own : /\ Len(t[n].text) = 8
                                                    /\ IsPrefixList(t[n].text[7])}}
    IN  own \cup {n \in DOMAIN t : IsSetPrefixList(t[n].text) /\ t[n].text[3] \in named}

-----------------------------------------------------------------------------
(* JunOS in braces: a filter block under firewall, a block per term.       *)

Text(t, n) == t[n].text
Kids(t, n) == InOrder({c \in DOMAIN t : t[c].parent = n})
Under(t, n, words) == words \in ToSet(t[n].path)

IsFilter(t, n) ==
    Len(Text(t, n)) = 2 /\ Text(t, n)[1] = "filter" /\ Under(t, n, <<"firewall">>)

BracePrefixLists(t) ==
    LET blocks == {n \in DOMAIN t : /\ Len(Text(t, n)) = 2 /\ Text(t, n)[1] = "prefix-list"
                                    /\ Under(t, n, <<"policy-options">>)}
        members(n) == {CidrOf[t[c].text[1]] : c \in {c \in ToSet(Kids(t, n)) :
                          Len(t[c].text) = 1 /\ t[c].text[1] \in DOMAIN CidrOf}}
    IN  [name \in {Text(t, n)[2] : n \in {n \in blocks : members(n) # {}}} |->
            UNION {members(n) : n \in {n \in blocks : Text(t, n)[2] = name}}]

\* A condition holds its values on its line or, one per line, in its block.
Condition(t, n) ==
    IF Len(Text(t, n)) = 1
    THEN Clause(Text(t, n)[1], [i \in DOMAIN Kids(t, n) |-> Only(Text(t, Kids(t, n)[i]))])
    ELSE Clause(Text(t, n)[1], BracketValues(Tail(Text(t, n))))

\* What a child of a term adds: conditions, or a clause nothing can read.
ClausesOf(t, c) ==
    CASE Text(t, c) = <<"from">> ->
           [i \in DOMAIN Kids(t, c) |-> Condition(t, Kids(t, c)[i])]
      [] Text(t, c)[1] = "then" -> <<>>
      [] OTHER -> <<Clause(Text(t, c)[1], <<>>)>>

ThensOf(t, c) ==
    CASE Text(t, c) = <<"then">> ->
           [i \in DOMAIN Kids(t, c) |-> Only(Text(t, Kids(t, c)[i]))]
      [] Text(t, c)[1] = "then" /\ Len(Text(t, c)) > 1 -> <<Only(Tail(Text(t, c)))>>
      [] OTHER -> <<>>

\* The lines of a term that its entries cite: the conditions of its from
\* blocks with the values in them, and the actions of its then blocks.
CitedOf(t, term) ==
    LET kids == ToSet(Kids(t, term))
        blocks == {c \in kids : Text(t, c) \in {<<"from">>, <<"then">>}}
        inside == UNION {ToSet(Kids(t, c)) : c \in blocks}
        conditions == {n \in inside : Text(t, t[n].parent) = <<"from">> /\ Len(Text(t, n)) = 1}
    IN  {term} \cup kids \cup inside \cup UNION {ToSet(Kids(t, n)) : n \in conditions}

\* All the lines of a block, however deep: up to the next that is not deeper.
Descendants(t, n) ==
    {c \in DOMAIN t : /\ c > n
                      /\ \A k \in DOMAIN t : n < k /\ k <= c =>
                           Len(t[k].path) > Len(t[n].path)}

BraceTerms(t, filter) ==
    SelectSeq(Kids(t, filter), LAMBDA c : Text(t, c)[1] = "term" /\ Len(Text(t, c)) > 1)

BraceList(t, filter) ==
    LET terms == BraceTerms(t, filter)
        kids(i) == Kids(t, terms[i])
        read == [i \in DOMAIN terms |->
                    JunosEntries(FlattenSeq([j \in DOMAIN kids(i) |-> ClausesOf(t, kids(i)[j])]),
                                 FlattenSeq([j \in DOMAIN kids(i) |-> ThensOf(t, kids(i)[j])]),
                                 CitedOf(t, terms[i]),
                                 BracePrefixLists(t))]
        bad == {i \in DOMAIN read : read[i] = None}
        name == Text(t, filter)[2]
    IN  IF bad # {}
        THEN [kept |-> {}, failed |-> {Failed(name, filter, terms[FirstOf(bad)])}]
        ELSE [kept |-> IF terms = <<>> THEN {} ELSE {Kept(name, filter, FlattenSeq(read))},
              failed |-> {}]

BraceLists(t) == {BraceList(t, n) : n \in {n \in DOMAIN t : IsFilter(t, n)}}

\* The whole block of a filter whose name was kept, be it by another filter.
BraceListLines(t) ==
    LET kept == UNION {{l.name : l \in r.kept} : r \in BraceLists(t)}
        own == {n \in DOMAIN t : IsFilter(t, n) /\ Text(t, n)[2] \in kept}
    IN  own \cup UNION {Descendants(t, n) : n \in own}

-----------------------------------------------------------------------------
(* One device: the reader its dialect and the shape of its file call for.  *)

Reader(t, os, shape) ==
    CASE os # "junos" -> {BlockList(t, os, h) : h \in Headers(t, os)}
      [] os = "junos" /\ shape = "brace" -> BraceLists(t)
      [] OTHER -> {SetList(t, f) : f \in FilterNames(t)}

ExtractedLists(t, os, shape) ==
    [kept |-> UNION {r.kept : r \in Reader(t, os, shape)},
     failed |-> UNION {r.failed : r \in Reader(t, os, shape)}]

\* Interfaces are declared by the Cisco packs alone.
IsInterface(t, os, n) ==
    os # "junos" /\ Len(Text(t, n)) = 2 /\ Text(t, n)[1] = "interface"

Direction == {"in", "out"}
IsApplied(words) ==
    Len(words) = 4 /\ words[1] = "ip" /\ words[2] = "access-group" /\ words[4] \in Direction

\* What a line of an interface block tells of the interface.
Says(words) ==
    CASE words[1] = "description" /\ Len(words) > 1 -> "description"
      [] words[1] = "ip" /\ Len(words) > 2 /\ words[2] = "address" -> "address"
      [] words = <<"shutdown">> -> "disabled"
      [] words = <<"no", "shutdown">> -> "enabled"
      [] IsApplied(words) -> "applied"
      [] OTHER -> "nothing"

\* The last of shutdown and no shutdown is the state of the interface.
ExtractedInterface(t, n) ==
    LET told(what) == SelectSeq(Kids(t, n), LAMBDA c : Says(Text(t, c)) \in what)
        states == told({"disabled", "enabled"})
    IN  [name |-> Text(t, n)[2], head |-> n,
         description |-> IF told({"description"}) = <<>> THEN ""
                         ELSE Text(t, Last(told({"description"})))[2],
         enabled |-> IF states = <<>> THEN "unknown" ELSE Says(Text(t, Last(states))),
         applied |-> {<<Text(t, c)[3], Text(t, c)[4]>> : c \in ToSet(told({"applied"}))},
         cited |-> {n} \cup {c \in ToSet(Kids(t, n)) : Says(Text(t, c)) # "nothing"}]

ExtractedInterfaces(t, os) ==
    {ExtractedInterface(t, n) : n \in {n \in DOMAIN t : IsInterface(t, os, n)}}

\* matched_node_ids: the lines that structure extraction took.
MatchedLines(t, os, shape) ==
    (UNION {i.cited : i \in ExtractedInterfaces(t, os)})
    \cup (CASE os # "junos" -> BlockListLines(t, os)
            [] os = "junos" /\ shape = "brace" -> BraceListLines(t)
            [] OTHER -> SetListLines(t))

=============================================================================
