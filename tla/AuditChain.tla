----------------------------- MODULE AuditChain -----------------------------
(***************************************************************************)
(* The hash chain of api/audit: the rows of audit_log, the singleton row   *)
(* audit_chain_head, and the callers of AuditChain.append, which extend    *)
(* both inside one BEGIN IMMEDIATE transaction.                            *)
(*                                                                         *)
(* rows and head are the committed database.  What a transaction has       *)
(* written and not committed is visible to its own connection only (WAL),  *)
(* so it lives in the writer's draft until Commit.  The in-process lock of *)
(* an AuditChain object is left out: every request builds its own object,  *)
(* so it excludes nobody, and the docstring rests correctness on BEGIN     *)
(* IMMEDIATE alone.                                                        *)
(***************************************************************************)
EXTENDS ChainRecords, FiniteSets

CONSTANTS
    Writer,         \* threads and processes that call append
    Event,          \* what they ask the chain to attest
    NotJson,        \* events whose payload is not JSON-native (decision D2)
    Forbidden,      \* events a model actor may not perform (Rule 1)
    NoEvent, NoDraft, NoReply, Nobody,
    MaxRecords      \* bound on the length of the chain

ASSUME WriterAssumption == Nobody \notin Writer
ASSUME EventAssumption ==
    /\ NoEvent \notin Event
    /\ NotJson \subseteq Event
    /\ Forbidden \subseteq Event

VARIABLES
    rows,       \* audit_log: seq -> [event, prev, hash]
    head,       \* audit_chain_head: NoHead or [last_seq, last_hash, count]
    lock,       \* the writer holding SQLite's write lock, or Nobody
    pc,         \* where each writer is inside append()
    req,        \* the event each writer was called with
    draft,      \* the AuditRecord each writer built, not yet committed
    reply       \* what the last call of each writer returned

vars == <<rows, head, lock, pc, req, draft, reply>>

\* The program points at which a writer is inside immediate_transaction.
InTransaction == {"begun", "built", "inserted", "updated"}
Busying == {"waiting"} \cup InTransaction
Points == {"idle", "committed"} \cup Busying

-----------------------------------------------------------------------------

Init ==
    /\ rows = [s \in {} |-> NoEvent]
    /\ head = NoHead
    /\ lock = Nobody
    /\ pc = [w \in Writer |-> "idle"]
    /\ req = [w \in Writer |-> NoEvent]
    /\ draft = [w \in Writer |-> NoDraft]
    /\ reply = [w \in Writer |-> NoReply]

\* Leaving append() other than by returning a record.
Abandon(w) ==
    /\ pc' = [pc EXCEPT ![w] = "idle"]
    /\ req' = [req EXCEPT ![w] = NoEvent]
    /\ draft' = [draft EXCEPT ![w] = NoDraft]
    /\ reply' = [reply EXCEPT ![w] = NoReply]
    /\ UNCHANGED <<rows, head>>

\* append() is called with a payload canonical_payload accepts.
Call(w, e) ==
    /\ pc[w] = "idle"
    /\ e \notin NotJson
    /\ Cardinality(DOMAIN rows)
         + Cardinality({v \in Writer : pc[v] # "idle"}) < MaxRecords
    /\ pc' = [pc EXCEPT ![w] = "waiting"]
    /\ req' = [req EXCEPT ![w] = e]
    /\ reply' = [reply EXCEPT ![w] = NoReply]
    /\ UNCHANGED <<rows, head, lock, draft>>

\* canonical_payload raises PayloadNotJsonNativeError before any SQL runs.
RefusePayload(w, e) ==
    /\ pc[w] = "idle"
    /\ e \in NotJson
    /\ Abandon(w)
    /\ UNCHANGED lock

\* Mutant: a plain BEGIN, which reads the head without excluding writers.
BeginDeferred(w) ==
    /\ pc[w] = "waiting"
    /\ lock' = w
    /\ pc' = [pc EXCEPT ![w] = "begun"]
    /\ UNCHANGED <<rows, head, req, draft, reply>>

\* BEGIN IMMEDIATE: the write lock is taken before the head is read.
Begin(w) ==
    /\ pc[w] = "waiting"
    /\ lock = Nobody
    /\ lock' = w
    /\ pc' = [pc EXCEPT ![w] = "begun"]
    /\ UNCHANGED <<rows, head, req, draft, reply>>

\* Mutant: no busy_timeout, the writer waits for as long as it takes.
BusyForever(w) ==
    /\ pc[w] = "waiting"
    /\ lock # Nobody
    /\ UNCHANGED vars

\* busy_timeout elapses while another writer holds the lock.
Busy(w) ==
    /\ pc[w] = "waiting"
    /\ lock # Nobody
    /\ Abandon(w)
    /\ UNCHANGED lock

\* read_head, then the AuditRecord constructor.
BuildRecord(w) ==
    /\ pc[w] = "begun"
    /\ req[w] \notin Forbidden
    /\ draft' = [draft EXCEPT ![w] = NextRecord(head, req[w])]
    /\ pc' = [pc EXCEPT ![w] = "built"]
    /\ UNCHANGED <<rows, head, lock, req, reply>>

\* INSERT: refused (see Rollback) if the row collides with a stored one.
InsertRecord(w) ==
    /\ pc[w] = "built"
    /\ ~Collides(rows, draft[w])
    /\ pc' = [pc EXCEPT ![w] = "inserted"]
    /\ UNCHANGED <<rows, head, lock, req, draft, reply>>

UpsertHead(w) ==
    /\ pc[w] = "inserted"
    /\ pc' = [pc EXCEPT ![w] = "updated"]
    /\ UNCHANGED <<rows, head, lock, req, draft, reply>>

\* COMMIT: the row and the head become durable and visible together.
Commit(w) ==
    /\ pc[w] = "updated"
    /\ rows' = WithRow(rows, draft[w])
    /\ head' = HeadOf(draft[w])
    /\ lock' = Nobody
    /\ pc' = [pc EXCEPT ![w] = "committed"]
    /\ UNCHANGED <<req, draft, reply>>

\* Mutant: append() answers from the head it reads after the commit.
ReturnFromHead(w) ==
    /\ pc[w] = "committed"
    /\ reply' = [reply EXCEPT ![w] = [seq |-> head.last_seq, event |-> req[w]]]
    /\ pc' = [pc EXCEPT ![w] = "idle"]
    /\ req' = [req EXCEPT ![w] = NoEvent]
    /\ draft' = [draft EXCEPT ![w] = NoDraft]
    /\ UNCHANGED <<rows, head, lock>>

\* append() returns the record to its caller.
Return(w) ==
    /\ pc[w] = "committed"
    /\ reply' = [reply EXCEPT ![w] = [seq |-> draft[w].seq, event |-> req[w]]]
    /\ pc' = [pc EXCEPT ![w] = "idle"]
    /\ req' = [req EXCEPT ![w] = NoEvent]
    /\ draft' = [draft EXCEPT ![w] = NoDraft]
    /\ UNCHANGED <<rows, head, lock>>

\* Any statement of the transaction raises (a full disk, a constraint, the
\* constructor refusing a model actor): ROLLBACK, and the exception goes on.
Rollback(w) ==
    /\ pc[w] \in InTransaction
    /\ lock' = Nobody
    /\ Abandon(w)

\* The writer's process dies.  SQLite discards what it had not committed.
Crash(w) ==
    /\ pc[w] # "idle"
    /\ lock' = IF lock = w THEN Nobody ELSE lock
    /\ Abandon(w)

-----------------------------------------------------------------------------

Enter(w) == Begin(w) \/ Busy(w)
Work(w) ==
    \/ BuildRecord(w) \/ InsertRecord(w) \/ UpsertHead(w)
    \/ Commit(w) \/ Return(w) \/ Rollback(w)

Next ==
    \E w \in Writer :
        \/ \E e \in Event : Call(w, e) \/ RefusePayload(w, e)
        \/ Enter(w)
        \/ Work(w)
        \/ Crash(w)

Spec == Init /\ [][Next]_vars

\* A thread inside append() keeps running, and SQLite answers BEGIN IMMEDIATE
\* within busy_timeout: with the lock when it is free, with SQLITE_BUSY when
\* it is held.
Fairness == \A w \in Writer : WF_vars(Enter(w)) /\ WF_vars(Work(w))

-----------------------------------------------------------------------------
(* Invariants.                                                             *)

TypeOK ==
    /\ DOMAIN rows \subseteq Nat
    /\ head # NoHead => head.last_seq \in Nat /\ head.count \in Nat
    /\ lock \in Writer \cup {Nobody}
    /\ pc \in [Writer -> Points]
    /\ req \in [Writer -> Event \cup {NoEvent}]
    /\ DOMAIN draft = Writer
    /\ DOMAIN reply = Writer

\* The log is gapless from 0, each record hashes its own contents and names
\* its predecessor's digest, and the first names GENESIS_HASH: whatever the
\* writers, rollbacks and crashes interleave, the committed chain verifies.
ChainLinked ==
    \A s \in DOMAIN rows :
        /\ rows[s].hash = EntryHash(s, rows[s].event, rows[s].prev)
        /\ IF s = 0 THEN rows[s].prev = Genesis
                    ELSE /\ s - 1 \in DOMAIN rows
                         /\ rows[s].prev = rows[s-1].hash

\* "There is no window in which the log and the head can disagree because of
\* this code path": the committed head always describes the committed tail.
HeadMatchesLog ==
    IF head = NoHead
    THEN DOMAIN rows = {}
    ELSE /\ DOMAIN rows = 0 .. head.last_seq
         /\ head.last_hash = rows[head.last_seq].hash
         /\ head.count = head.last_seq + 1

\* The sequence number append() hands back is the one its event is stored
\* under.  confirm() writes it into the training example as audit_seq, and a
\* compiled pattern cites it, so it must survive every interleaving.
ReplyIsAttested ==
    \A w \in Writer :
        reply[w] # NoReply =>
            /\ reply[w].seq \in DOMAIN rows
            /\ rows[reply[w].seq].event = reply[w].event

\* Two calls that both returned were given different sequence numbers.
RepliesDistinct ==
    \A v, w \in Writer :
        v # w /\ reply[v] # NoReply /\ reply[w] # NoReply
            => reply[v].seq # reply[w].seq

\* A committed record is never moved, changed or removed.
AppendOnly ==
    [][\A s \in DOMAIN rows : s \in DOMAIN rows' /\ rows'[s] = rows[s]]_rows

\* Every call of append() ends: it returns a record or raises.
EveryCallEnds == \A w \in Writer : pc[w] # "idle" ~> pc[w] = "idle"

-----------------------------------------------------------------------------
(* AuditChain implements AttestationLog: the log is the events of the rows *)
(* in seq order, and an event is pending from the call until the commit.   *)

Length == IF head = NoHead THEN 0 ELSE head.count
LogView == [i \in 1 .. Length |-> rows[i - 1].event]
PendingView == [w \in Writer |-> IF pc[w] \in Busying THEN req[w] ELSE NoEvent]

Abstract == INSTANCE AttestationLog WITH log <- LogView, pending <- PendingView
ImplementsAttestationLog == Abstract!Spec

=============================================================================
