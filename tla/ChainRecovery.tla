---------------------------- MODULE ChainRecovery ----------------------------
(***************************************************************************)
(* The audit chain after a crash, a restore or a damaged store: what       *)
(* append(), reconcile_head() and verify_chain() make of a log and a head  *)
(* that no longer belong together.                                         *)
(*                                                                         *)
(* Nothing runs concurrently here (AuditChain and ChainVerification cover  *)
(* that), so an append is one step.  A damage is one row of audit_log lost *)
(* or altered, the head lost, or the head restored from an older copy; the *)
(* tables themselves do not produce one, so MaxDamage bounds how many the  *)
(* surroundings inflict.  attested remembers every record append() ever    *)
(* returned, which the database cannot.                                    *)
(***************************************************************************)
EXTENDS ChainVerify

CONSTANTS
    Event,
    MaxRecords,     \* bound on the appends of a behaviour
    MaxDamage       \* bound on the damages of a behaviour

VARIABLES
    rows,       \* audit_log
    head,       \* audit_chain_head
    attested,   \* the <<seq, row>> pairs append() has returned
    heads,      \* the heads there have been: what a restore can bring back
    damage,     \* how many damages so far
    outcome     \* what the last append or reconcile_head came to

vars == <<rows, head, attested, heads, damage, outcome>>

Init ==
    /\ rows = [s \in {} |-> Genesis]
    /\ head = NoHead
    /\ attested = {}
    /\ heads = {}
    /\ damage = 0
    /\ outcome = "none"

-----------------------------------------------------------------------------
(* The program.                                                            *)

Append(e) ==
    LET d == NextRecord(head, e) IN
    /\ Cardinality(attested) < MaxRecords
    /\ ~Collides(rows, d)
    /\ rows' = WithRow(rows, d)
    /\ head' = HeadOf(d)
    /\ attested' = attested \cup {<<d.seq, Row(d)>>}
    /\ heads' = heads \cup {HeadOf(d)}
    /\ outcome' = "appended"
    /\ UNCHANGED damage

\* sqlite3.IntegrityError out of insert_record: rolled back.
AppendRaises(e) ==
    /\ Collides(rows, NextRecord(head, e))
    /\ outcome' = "append_raised"
    /\ UNCHANGED <<rows, head, attested, heads, damage>>

Top == MaxSeq(rows)
Lagging == head # NoHead /\ Top # NoTop /\ head.last_seq < Top

\* read_one rebuilds the AuditRecord, which raises if its digest is wrong.
Reconstructs(s) == rows[s].hash = EntryHash(s, rows[s].event, rows[s].prev)

\* Mutant: the rebuilt head keeps the count of the one it replaces.
RebuiltHeadKeepsCount ==
    [last_seq |-> Top, last_hash |-> rows[Top].hash, count |-> head.count]

RebuiltHead ==
    [last_seq |-> Top, last_hash |-> rows[Top].hash,
     count |-> Cardinality(DOMAIN rows)]

\* The log holds more than the head says: rebuild the head from the last row,
\* with the count of the rows there are.
RepairForward ==
    /\ Lagging
    /\ Reconstructs(Top)
    /\ head' = RebuiltHead
    /\ heads' = heads \cup {head'}
    /\ outcome' = "repaired_forward"
    /\ UNCHANGED <<rows, attested, damage>>

HeadAhead == head.last_seq > Top

\* ChainIntegrityError (or read_one's): the head or the tail is missing, or
\* forward repair was not allowed.
Refuse(allow_forward_repair) ==
    /\ \/ head = NoHead /\ Top # NoTop
       \/ head # NoHead /\ Top = NoTop
       \/ head # NoHead /\ Top # NoTop /\ HeadAhead
       \/ Lagging /\ (~allow_forward_repair \/ ~Reconstructs(Top))
    /\ outcome' = "refused"
    /\ UNCHANGED <<rows, head, attested, heads, damage>>

\* Nothing to do.
FindConsistent ==
    /\ \/ head = NoHead /\ Top = NoTop
       \/ head # NoHead /\ Top # NoTop /\ head.last_seq = Top
    /\ outcome' = "consistent"
    /\ UNCHANGED <<rows, head, attested, heads, damage>>

Reconcile(allow_forward_repair) ==
    \/ allow_forward_repair /\ RepairForward
    \/ Refuse(allow_forward_repair)
    \/ FindConsistent

-----------------------------------------------------------------------------
(* The surroundings.                                                       *)

Damage ==
    /\ damage < MaxDamage
    /\ damage' = damage + 1
    /\ outcome' = "none"
    /\ UNCHANGED <<attested, heads>>

LoseRecord(s) ==
    /\ Damage
    /\ rows' = [t \in DOMAIN rows \ {s} |-> rows[t]]
    /\ UNCHANGED head

AlterRecord(s, e) ==
    /\ Damage
    /\ rows[s].event # e
    /\ rows' = [rows EXCEPT ![s].event = e]
    /\ UNCHANGED head

LoseHead ==
    /\ Damage
    /\ head # NoHead
    /\ head' = NoHead
    /\ UNCHANGED rows

RestoreHead(h) ==
    /\ Damage
    /\ head # NoHead /\ h # head
    /\ head' = h
    /\ UNCHANGED rows

-----------------------------------------------------------------------------

Next ==
    \/ \E e \in Event : Append(e) \/ AppendRaises(e)
    \/ \E allow \in BOOLEAN : Reconcile(allow)
    \/ \E s \in DOMAIN rows : LoseRecord(s) \/ \E e \in Event : AlterRecord(s, e)
    \/ LoseHead
    \/ \E h \in heads : RestoreHead(h)

Spec == Init /\ [][Next]_vars

-----------------------------------------------------------------------------

Evidence == \A a \in attested : a[1] \in DOMAIN rows /\ rows[a[1]] = a[2]

\* Once a record append() returned is gone or altered, verification fails, and
\* keeps failing through whatever is appended and reconciled afterwards.
LossIsReported == ~Evidence => ~VerifiesOK(rows, head)

\* reconcile_head never refuses a chain verification would pass (a part of
\* ReconcileIsSound).
RefusesOnlyDamage == outcome' = "refused" => ~VerifiesOK(rows, head)

\* A head rebuilt forward is a head verification accepts and append() can
\* extend, if no record is missing (the other part).
RepairRestoresService ==
    outcome' = "repaired_forward" /\ Evidence =>
        /\ VerifiesOK(rows', head')
        /\ \A e \in Event : ~Collides(rows', NextRecord(head', e))

\* reconcile_head withholds its repair only from a damaged chain, and a repair
\* it makes gives both verification and append back.
ReconcileIsSound == [][RefusesOnlyDamage /\ RepairRestoresService]_vars

=============================================================================
