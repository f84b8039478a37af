----------------------------- MODULE ChainVerify -----------------------------
(***************************************************************************)
(* What verify_chain concludes from what it read (api/audit/verify.py).    *)
(*                                                                         *)
(* Pure operators: the modules that use them decide when each read happens *)
(* and what may have happened to the store in between.  Triggers and the   *)
(* hash_algo column are configuration rather than chain state and are left *)
(* out; a payload that no longer hashes is a record that no longer does.   *)
(***************************************************************************)
EXTENDS ChainRecords, FiniteSets, FiniteSetsExt

CONSTANTS
    NoEnd,      \* verify_chain(end=None)
    NoTop       \* MAX(seq) of an empty table

ASSUME NoTopAssumption == NoTop \notin Nat

ChainStart == 0

\* SELECT ... WHERE seq >= start [AND seq <= end] ORDER BY seq.
InRange(r, start, end) ==
    {s \in DOMAIN r : s >= start /\ (end # NoEnd => s <= end)}

MaxSeq(r) == IF DOMAIN r = {} THEN NoTop ELSE Max(DOMAIN r)

\* The seqs whose digest the walk has in hand when it reaches s: the row
\* before it in the range, or the anchor before the range.
Predecessor(S, anchor, s) == {Max(T) : T \in {{t \in S \cup anchor : t < s}} \ {{}}}

\* The problems reported of row s, walking the rows S of r.
RowFailures(r, S, anchor, s) ==
    LET before == Predecessor(S, anchor, s) IN
    {k \in {"deleted_record", "broken_genesis", "broken_link", "modified_record"} :
        CASE k = "deleted_record"  -> \E p \in before : s # p + 1
          [] k = "broken_genesis"  -> s = ChainStart /\ r[s].prev # Genesis
          [] k = "broken_link"     -> \E p \in before : r[s].prev # r[p].hash
          [] k = "modified_record" ->
                r[s].hash # EntryHash(s, r[s].event, r[s].prev)}

WalkFailures(r, S, anchor) ==
    UNION {RowFailures(r, S, anchor, s) : s \in S}

\* Mutant: no comparison of the counts.
CountIgnored(h, count, full) == FALSE

CountDiffers(h, count, full) == full /\ h.count # count

\* The head cross-check.  h, top, count and tail are four separate reads; tail
\* is the digest of row top.
HeadState(h, top, count, tail, full) ==
    CASE h = NoHead /\ top = NoTop -> "empty"
      [] h = NoHead /\ top # NoTop -> "missing"
      [] h # NoHead /\ top = NoTop -> "truncated"
      [] OTHER ->
           CASE h.last_seq > top               -> "truncated"
             [] h.last_seq < top               -> "lagging"
             [] h.last_seq = top /\ tail # h.last_hash -> "hash_mismatch"
             [] OTHER -> IF CountDiffers(h, count, full) THEN "count_mismatch"
                                                         ELSE "consistent"

Clean == {"empty", "consistent"}

\* report.ok of a verification that nothing interrupts.
Anchor(r, start) == {start - 1} \cap DOMAIN r
TailHash(r) == IF DOMAIN r = {} THEN NoTop ELSE r[MaxSeq(r)].hash

HeadStateNow(r, h, full) ==
    HeadState(h, MaxSeq(r), Cardinality(DOMAIN r), TailHash(r), full)

VerifiesOK(r, h) ==
    /\ WalkFailures(r, DOMAIN r, {}) = {}
    /\ HeadStateNow(r, h, TRUE) \in Clean

=============================================================================
