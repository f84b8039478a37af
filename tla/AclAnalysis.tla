---------------------------- MODULE AclAnalysis ----------------------------
(***************************************************************************)
(* api/analyse: what one access list says against itself, by comparing     *)
(* every entry with the entries above it.  A comparison has three answers: *)
(* an address that is not resolved makes it "unknown", never "no".         *)
(***************************************************************************)
EXTENDS Structures

Known(b) == IF b THEN "yes" ELSE "no"

\* Mutant: what is not known settles the question.
UnknownIsNo(answers) ==
    IF "no" \in answers \/ "unknown" \in answers THEN "no" ELSE "yes"

\* all_true: a definite no wins, then what is not known.
AllTrue(answers) ==
    CASE "no" \in answers -> "no"
      [] "no" \notin answers /\ "unknown" \in answers -> "unknown"
      [] OTHER -> "yes"

Resolved(address) == address.networks # {}

\* Every network of the inner address lies in one network of the outer one.
AddressCovers(outer, inner) ==
    IF ~Resolved(outer) \/ ~Resolved(inner) THEN "unknown"
    ELSE Known(\A n \in inner.networks : \E o \in outer.networks : n \subseteq o)

PortCovers(outer, inner) == Known(outer.low <= inner.low /\ inner.high <= outer.high)

Universal == {"ip", "any"}
ProtocolCovers(outer, inner) ==
    Known(outer \in Universal \/ (inner \notin Universal /\ outer = inner))

\* An entry for established sessions can narrow a list, it cannot shadow.
Covers(outer, inner) ==
    IF outer.established /\ ~inner.established THEN "no"
    ELSE AllTrue({ProtocolCovers(outer.protocol, inner.protocol),
                  AddressCovers(outer.src, inner.src),
                  AddressCovers(outer.dst, inner.dst),
                  PortCovers(outer.sport, inner.sport),
                  PortCovers(outer.dport, inner.dport)})

IsPermitAnyAny(e) ==
    /\ e.action = "permit" /\ e.protocol \in Universal
    /\ e.src.any /\ e.dst.any /\ e.dport = AnyPort

Observation(kind, entry, causes) == [kind |-> kind, entry |-> entry, causes |-> causes]

\* _observe: of the entry at `i', given the entries above it.
Reachability(entries, i) ==
    LET above(answer) == {j \in 1..(i - 1) : Covers(entries[j], entries[i]) = answer}
        same == {j \in above("yes") : entries[j].action = entries[i].action}
        other == above("yes") \ same
    IN  CASE ~Resolved(entries[i].src) \/ ~Resolved(entries[i].dst) ->
               {Observation("UNDETERMINED", i, {})}
          [] OTHER ->
               CASE other # {} -> {Observation("SHADOWED", i, other)}
                 [] other = {} /\ same # {} -> {Observation("REDUNDANT", i, same)}
                 [] above("yes") = {} /\ above("unknown") # {} ->
                      {Observation("UNDETERMINED", i, {})}
                 [] OTHER -> {}

Permissive(entries, i) ==
    IF IsPermitAnyAny(entries[i]) THEN {Observation("OVERLY_PERMISSIVE", i, {})} ELSE {}

AnalyseAcl(entries) ==
    UNION {Permissive(entries, i) \cup Reachability(entries, i) : i \in DOMAIN entries}

=============================================================================
