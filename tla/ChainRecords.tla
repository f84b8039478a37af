---------------------------- MODULE ChainRecords ----------------------------
(***************************************************************************)
(* The two stored shapes of the audit database, and the record append()    *)
(* builds from the head it read.                                           *)
(*                                                                         *)
(* audit_log is a function from seq to [event, prev, hash];                *)
(* audit_chain_head is NoHead or [last_seq, last_hash, count].  A digest   *)
(* is the tuple of what was hashed: SHA-256 is taken to be injective.  An  *)
(* event stands for the hashed fields the caller chooses (timestamp,       *)
(* actor, action, subject, payload).                                       *)
(***************************************************************************)
EXTENDS Naturals

CONSTANT
    Genesis     \* GENESIS_HASH

\* read_head returns None: audit_chain_head has no row.
NoHead == [absent |-> TRUE]

EntryHash(seq, event, prev) == <<seq, event, prev>>

\* Mutants of the three, and of what follows: bugs the properties must catch.
NextPrevForgets(h) == Genesis
NextCountFromZero(h) == IF h = NoHead THEN 0 ELSE h.count + 1

NextSeq(h) == IF h = NoHead THEN 0 ELSE h.last_seq + 1
NextPrev(h) == IF h = NoHead THEN Genesis ELSE h.last_hash
NextCount(h) == IF h = NoHead THEN 1 ELSE h.count + 1

NextRecord(h, event) ==
    [seq   |-> NextSeq(h),
     event |-> event,
     prev  |-> NextPrev(h),
     hash  |-> EntryHash(NextSeq(h), event, NextPrev(h)),
     count |-> NextCount(h)]

Row(d) == [event |-> d.event, prev |-> d.prev, hash |-> d.hash]
HeadOf(d) == [last_seq |-> d.seq, last_hash |-> d.hash, count |-> d.count]

WithRow(r, d) ==
    [s \in DOMAIN r \cup {d.seq} |-> IF s = d.seq THEN Row(d) ELSE r[s]]

\* seq is the primary key of audit_log and entry_hash is UNIQUE.
Collides(r, d) ==
    \/ d.seq \in DOMAIN r
    \/ \E s \in DOMAIN r : r[s].hash = d.hash

=============================================================================
