----------------------------- MODULE PackStore ------------------------------
(***************************************************************************)
(* The vendor packs on disk and how the loader chooses among them          *)
(* (api/ingest/packs.py, api/ingest/pack_activation.py, the lookups of     *)
(* api/train/activation.py).                                               *)
(*                                                                         *)
(* A file is keyed by <<platform, version>>, a version is <<line, patch>>  *)
(* where line stands for major.minor.  The builtin tree is the constant    *)
(* Shipped; the trained tree is a function the operators take, in which a  *)
(* file that is open for writing is Torn.  A pack is its status and its    *)
(* trained patterns, each <<number, example it was compiled from>>.  The   *)
(* checksum is left out: write_pack stamps every file it completes, so an  *)
(* ACTIVE file fails verification exactly when it is Torn.                 *)
(***************************************************************************)
EXTENDS Naturals, FiniteSets

CONSTANTS
    Platform,       \* numbered in the order of their directories
    Shipped,        \* builtin tree: <<platform, version>> -> pack
    NoPack,         \* find_version or find_pack returned None
    Unloadable      \* active_packs raised PackLoadError

\* A file truncated and not yet rewritten: it has no status the loader knows.
Torn == [status |-> "TORN", patterns |-> {}]

ASSUME PlatformAssumption == Platform \subseteq Nat

\* Each platform ships with one ACTIVE version, and nothing else is builtin.
ASSUME ShippedAssumption ==
    /\ \A k \in DOMAIN Shipped :
          k = <<k[1], k[2]>> /\ k[1] \in Platform /\ k[2] \in Nat \X Nat
    /\ \A p \in Platform :
          \E k \in DOMAIN Shipped : k[1] = p /\ Shipped[k].status = "ACTIVE"
    /\ \A j, k \in DOMAIN Shipped :
          Shipped[j].status = "ACTIVE" /\ Shipped[k].status = "ACTIVE" /\ j[1] = k[1] => j = k

BumpPatch(v) == <<v[1], v[2] + 1>>

\* next_pattern_id: the first free number, that of a withdrawn pattern too.
NextPatternId(patterns) ==
    CHOOSE n \in 1 .. Cardinality(patterns) + 1 :
        /\ \A q \in patterns : q[1] # n
        /\ \A m \in 1 .. n - 1 : \E q \in patterns : q[1] = m

\* rglob order within a tree.
Earlier(j, k) ==
    \/ j[1] < k[1]
    \/ j[1] = k[1] /\ j[2][1] < k[2][1]
    \/ j[1] = k[1] /\ j[2][1] = k[2][1] /\ j[2][2] < k[2][2]

Pack(k, origin, file) ==
    [platform |-> k[1], version |-> k[2], origin |-> origin,
     status |-> file.status, patterns |-> file.patterns]

Readable(trained) == \A k \in DOMAIN trained : trained[k] # Torn

\* discover_packs: both trees, every file, or PackLoadError.
Discovered(trained) ==
    {Pack(k, "builtin", Shipped[k]) : k \in DOMAIN Shipped}
        \cup {Pack(k, "trained", trained[k]) : k \in DOMAIN trained}

\* The pin of a platform supersedes every status: of it.
Chosen(packs, pins) ==
    {f \in packs : IF f.platform \in DOMAIN pins
                   THEN f.version = pins[f.platform]
                   ELSE f.status = "ACTIVE"}

\* The two refusals of active_packs: a pin without a pack, and two packs of
\* one platform.
Loads(chosen, pins) ==
    /\ \A p \in DOMAIN pins : \E f \in chosen : f.platform = p
    /\ \A f, g \in chosen : f.platform = g.platform => f = g

\* active_packs over files read at one moment and pins read at another.
Loadable(trained, pins) ==
    Readable(trained) /\ Loads(Chosen(Discovered(trained), pins), pins)

ActivePacks(trained, pins) ==
    IF Loadable(trained, pins)
    THEN Chosen(Discovered(trained), pins)
    ELSE Unloadable

\* find_pack
PackOf(packs, p) ==
    IF \E f \in packs : f.platform = p
    THEN CHOOSE f \in packs : f.platform = p
    ELSE NoPack

\* find_version reads file after file, builtin first, and raises on a torn
\* one it meets before the version it looks for.
MeetsTorn(trained, k) ==
    /\ k \notin DOMAIN Shipped
    /\ \E j \in DOMAIN trained :
          trained[j] = Torn /\ (j = k \/ k \notin DOMAIN trained \/ Earlier(j, k))

FindVersion(trained, k) ==
    IF k \in DOMAIN Shipped THEN Pack(k, "builtin", Shipped[k])
    ELSE IF k \in DOMAIN trained THEN Pack(k, "trained", trained[k])
    ELSE NoPack

WithFile(trained, k, file) ==
    [j \in DOMAIN trained \cup {k} |-> IF j = k THEN file ELSE trained[j]]

WithPin(pins, p, v) ==
    [q \in DOMAIN pins \cup {p} |-> IF q = p THEN v ELSE pins[q]]

NoPins == [p \in {} |-> <<>>]

=============================================================================
