-------------------------- MODULE AuditChainProofs --------------------------
(***************************************************************************)
(* Theorems about AuditChain, for any sets of writers and events and any   *)
(* bound: the chain stays linked and the head describes it, replies are    *)
(* attested, and every step implements a step of AttestationLog.  And      *)
(* about ChainVerification, for any readers and ranges: whatever commits   *)
(* between the reads of a verification, it accuses no record and no tail   *)
(* of a chain nobody touched.                                              *)
(***************************************************************************)
EXTENDS ChainVerification, Sequences, SequenceTheorems, FiniteSetTheorems, TLAPS

-----------------------------------------------------------------------------
(* The inductive invariant.                                                *)

\* The write lock is held by exactly the writer inside a transaction, if any.
LockOK == \A w \in Writer : pc[w] \in InTransaction <=> lock = w

\* Every call in progress carries an event whose payload was accepted.
ReqOK == \A w \in Writer : pc[w] # "idle" => req[w] \in Event \ NotJson

\* A record under construction still extends the head it was built from.
DraftOK ==
    \A w \in Writer :
        pc[w] \in {"built", "inserted", "updated"} =>
            /\ draft[w] = NextRecord(head, req[w])
            /\ req[w] \notin Forbidden

\* Between COMMIT and the return, the record is in the log.
CommittedOK ==
    \A w \in Writer :
        pc[w] = "committed" =>
            /\ draft[w].seq \in DOMAIN rows
            /\ rows[draft[w].seq].event = req[w]

\* w has been, or is about to be, told that its event is record s.
Holds(w, s) ==
    \/ pc[w] = "committed" /\ draft[w].seq = s
    \/ reply[w] # NoReply /\ reply[w].seq = s

OneHolder ==
    \A v, w \in Writer : \A s \in DOMAIN rows :
        Holds(v, s) /\ Holds(w, s) => v = w

IInv ==
    /\ TypeOK
    /\ HeadMatchesLog
    /\ ChainLinked
    /\ LockOK
    /\ ReqOK
    /\ DraftOK
    /\ CommittedOK
    /\ ReplyIsAttested
    /\ OneHolder

-----------------------------------------------------------------------------
(* What the record built from a head is.                                   *)

\* A head written by upsert_head is a row.
LEMMA HeadIsARow == ASSUME NEW d PROVE HeadOf(d) # NoHead
BY DEF HeadOf, NoHead

\* The next record takes the first free sequence number, its count is one
\* more, and it names the digest of the record before it.
LEMMA NextRecordExtends ==
    ASSUME HeadMatchesLog, TypeOK, NEW e, NEW d, d = NextRecord(head, e)
    PROVE  /\ d.seq \in Nat
           /\ d.event = e
           /\ d.count = d.seq + 1
           /\ d.hash = EntryHash(d.seq, e, d.prev)
           /\ \A s : s \in DOMAIN rows <=> s \in Nat /\ s < d.seq
           /\ IF d.seq = 0 THEN d.prev = Genesis
                           ELSE d.prev = rows[d.seq - 1].hash
BY DEF HeadMatchesLog, TypeOK, NextRecord, NextSeq, NextPrev, NextCount

\* WithRow adds one row and leaves the others alone.
LEMMA WithRowAdds ==
    ASSUME NEW r, NEW d
    PROVE  /\ DOMAIN WithRow(r, d) = DOMAIN r \cup {d.seq}
           /\ WithRow(r, d)[d.seq] = Row(d)
           /\ \A s \in DOMAIN r : s # d.seq => WithRow(r, d)[s] = r[s]
BY DEF WithRow

-----------------------------------------------------------------------------

\* The empty database, with nobody inside append(), satisfies the invariant.
LEMMA InitIInv == Init => IInv
<1> SUFFICES ASSUME Init PROVE IInv
    OBVIOUS
<1> USE DEF Init
<1>1. DOMAIN rows = {}
    OBVIOUS
<1>2. TypeOK
    BY <1>1 DEF TypeOK, Points
<1>3. HeadMatchesLog /\ ChainLinked
    BY <1>1 DEF HeadMatchesLog, ChainLinked
<1>4. LockOK /\ ReqOK /\ DraftOK /\ CommittedOK
    BY WriterAssumption DEF LockOK, ReqOK, DraftOK, CommittedOK, InTransaction
<1>5. ReplyIsAttested /\ OneHolder
    BY <1>1 DEF ReplyIsAttested, OneHolder
<1> QED
    BY <1>2, <1>3, <1>4, <1>5 DEF IInv

-----------------------------------------------------------------------------
(* Every step preserves the invariant.                                     *)

\* What the log and the head satisfy, they satisfy while both stand still.
LEMMA LogStands ==
    ASSUME IInv, UNCHANGED <<rows, head>>
    PROVE  (HeadMatchesLog /\ ChainLinked)'
BY DEF IInv, HeadMatchesLog, ChainLinked

\* Leaving append() early, lock and all.
LEMMA AbandonIInv ==
    ASSUME IInv, NEW w \in Writer, Abandon(w),
           lock' = IF lock = w THEN Nobody ELSE lock
    PROVE  IInv'
<1> USE DEF Abandon
<1>1. UNCHANGED <<rows, head>>
    OBVIOUS
<1>2. TypeOK'
    BY <1>1 DEF IInv, TypeOK, Points
<1>3. LockOK'
    BY WriterAssumption DEF IInv, TypeOK, LockOK, InTransaction
<1>4. ReqOK' /\ DraftOK' /\ CommittedOK'
    BY <1>1 DEF IInv, TypeOK, ReqOK, DraftOK, CommittedOK
<1>5. ReplyIsAttested' /\ OneHolder'
    BY <1>1 DEF IInv, TypeOK, ReplyIsAttested, OneHolder, Holds
<1> QED
    BY <1>1, <1>2, <1>3, <1>4, <1>5, LogStands DEF IInv

\* Entering append() with a payload canonical_payload accepts.
LEMMA CallIInv ==
    ASSUME IInv, NEW w \in Writer, NEW e \in Event, Call(w, e)
    PROVE  IInv'
<1> USE DEF Call
<1>1. UNCHANGED <<rows, head>>
    OBVIOUS
<1>2. TypeOK'
    BY <1>1 DEF IInv, TypeOK, Points, Busying
<1>3. LockOK'
    BY DEF IInv, TypeOK, LockOK, InTransaction
<1>4. ReqOK' /\ DraftOK' /\ CommittedOK'
    BY <1>1 DEF IInv, TypeOK, ReqOK, DraftOK, CommittedOK
<1>5. ReplyIsAttested' /\ OneHolder'
    BY <1>1 DEF IInv, TypeOK, ReplyIsAttested, OneHolder, Holds
<1> QED
    BY <1>1, <1>2, <1>3, <1>4, <1>5, LogStands DEF IInv

\* Taking the write lock: no other writer is inside a transaction.
LEMMA BeginIInv ==
    ASSUME IInv, NEW w \in Writer, Begin(w)
    PROVE  IInv'
<1> USE DEF Begin
<1>1. UNCHANGED <<rows, head>>
    OBVIOUS
<1>2. TypeOK'
    BY <1>1 DEF IInv, TypeOK, Points, Busying, InTransaction
<1>3. LockOK'
    BY WriterAssumption DEF IInv, TypeOK, LockOK, InTransaction
<1>4. ReqOK' /\ DraftOK' /\ CommittedOK'
    BY <1>1 DEF IInv, TypeOK, ReqOK, DraftOK, CommittedOK
<1>5. ReplyIsAttested' /\ OneHolder'
    BY <1>1 DEF IInv, TypeOK, ReplyIsAttested, OneHolder, Holds
<1> QED
    BY <1>1, <1>2, <1>3, <1>4, <1>5, LogStands DEF IInv

\* The record built under the lock extends the committed head.
LEMMA BuildRecordIInv ==
    ASSUME IInv, NEW w \in Writer, BuildRecord(w)
    PROVE  IInv'
<1> USE DEF BuildRecord
<1>1. UNCHANGED <<rows, head>>
    OBVIOUS
<1>2. TypeOK'
    BY <1>1 DEF IInv, TypeOK, Points, Busying, InTransaction
<1>3. LockOK'
    BY DEF IInv, TypeOK, LockOK, InTransaction
<1>4. DraftOK'
  <2> SUFFICES ASSUME NEW v \in Writer, pc'[v] \in {"built", "inserted", "updated"}
               PROVE  draft'[v] = NextRecord(head, req[v]) /\ req[v] \notin Forbidden
      BY <1>1 DEF DraftOK, NextRecord, NextSeq, NextPrev, NextCount
  <2>1. CASE v = w
      BY <2>1 DEF IInv, TypeOK
  <2>2. CASE v # w
      BY <2>2 DEF IInv, TypeOK, DraftOK
  <2> QED
      BY <2>1, <2>2
<1>5. ReqOK' /\ CommittedOK'
    BY <1>1 DEF IInv, TypeOK, ReqOK, CommittedOK
<1>6. ReplyIsAttested' /\ OneHolder'
    BY <1>1 DEF IInv, TypeOK, ReplyIsAttested, OneHolder, Holds
<1> QED
    BY <1>1, <1>2, <1>3, <1>4, <1>5, <1>6, LogStands DEF IInv

\* InsertRecord and UpsertHead only advance inside the transaction.
LEMMA WriteIInv ==
    ASSUME IInv, NEW w \in Writer, InsertRecord(w) \/ UpsertHead(w)
    PROVE  IInv'
<1> USE DEF InsertRecord, UpsertHead
<1>1. UNCHANGED <<rows, head>>
    OBVIOUS
<1>2. TypeOK'
    BY <1>1 DEF IInv, TypeOK, Points, Busying, InTransaction
<1>3. LockOK'
    BY DEF IInv, TypeOK, LockOK, InTransaction
<1>4. ReqOK' /\ DraftOK' /\ CommittedOK'
    BY <1>1 DEF IInv, TypeOK, ReqOK, DraftOK, CommittedOK
<1>5. ReplyIsAttested' /\ OneHolder'
    BY <1>1 DEF IInv, TypeOK, ReplyIsAttested, OneHolder, Holds
<1> QED
    BY <1>1, <1>2, <1>3, <1>4, <1>5, LogStands DEF IInv

\* The one step that changes the database.
LEMMA CommitIInv ==
    ASSUME IInv, NEW w \in Writer, Commit(w)
    PROVE  IInv'
<1> DEFINE d == draft[w]
<1>1. d = NextRecord(head, req[w]) /\ req[w] \in Event \ (NotJson \cup Forbidden)
    BY DEF IInv, Commit, DraftOK, ReqOK
<1>2. /\ d.seq \in Nat
      /\ d.event = req[w]
      /\ d.count = d.seq + 1
      /\ d.hash = EntryHash(d.seq, req[w], d.prev)
      /\ \A s : s \in DOMAIN rows <=> s \in Nat /\ s < d.seq
      /\ IF d.seq = 0 THEN d.prev = Genesis ELSE d.prev = rows[d.seq - 1].hash
    BY <1>1, NextRecordExtends DEF IInv
<1>3. /\ rows' = WithRow(rows, d)
      /\ head' = HeadOf(d)
      /\ lock' = Nobody
      /\ pc' = [pc EXCEPT ![w] = "committed"]
      /\ UNCHANGED <<req, draft, reply>>
      /\ pc[w] = "updated"
    BY DEF Commit
<1>4. /\ \A s : s \in DOMAIN rows' <=> s \in Nat /\ s <= d.seq
      /\ rows'[d.seq] = Row(d)
      /\ \A s \in DOMAIN rows : rows'[s] = rows[s]
      /\ d.seq \notin DOMAIN rows
  <2>1. /\ DOMAIN rows' = DOMAIN rows \cup {d.seq}
        /\ rows'[d.seq] = Row(d)
        /\ \A s \in DOMAIN rows : s # d.seq => rows'[s] = rows[s]
      BY <1>3, WithRowAdds, Zenon
  <2>2. d.seq \notin DOMAIN rows
      BY <1>2
  <2>3. \A s : s \in DOMAIN rows' <=> s \in Nat /\ s <= d.seq
      BY <1>2, <2>1
  <2> QED
      BY <2>1, <2>2, <2>3
<1>5. /\ Row(d).event = req[w]
      /\ Row(d).prev = d.prev
      /\ Row(d).hash = d.hash
    BY <1>2 DEF Row
<1>6. /\ head' # NoHead
      /\ head'.last_seq = d.seq
      /\ head'.last_hash = d.hash
      /\ head'.count = d.count
    BY <1>3, HeadIsARow DEF HeadOf
<1>7. TypeOK'
    BY <1>2, <1>3, <1>4, <1>6 DEF IInv, TypeOK, Points
<1>8. HeadMatchesLog'
  <2>1. DOMAIN rows' = 0 .. d.seq
    <3>1. \A s : s \in 0 .. d.seq <=> s \in Nat /\ s <= d.seq
        BY <1>2
    <3> QED
        BY <1>4, <3>1, Zenon
  <2>2. head'.last_hash = rows'[head'.last_seq].hash
      BY <1>4, <1>5, <1>6
  <2>3. head'.last_seq = d.seq /\ head'.count = head'.last_seq + 1
      BY <1>2, <1>6
  <2> QED
      BY <1>6, <2>1, <2>2, <2>3 DEF HeadMatchesLog
<1>9. ChainLinked'
  <2> SUFFICES ASSUME NEW s \in DOMAIN rows'
               PROVE  /\ rows'[s].hash = EntryHash(s, rows'[s].event, rows'[s].prev)
                      /\ IF s = 0 THEN rows'[s].prev = Genesis
                                  ELSE /\ s - 1 \in DOMAIN rows'
                                       /\ rows'[s].prev = rows'[s-1].hash
      BY DEF ChainLinked
  <2>1. CASE s = d.seq
      BY <1>2, <1>4, <1>5, <2>1
  <2>2. CASE s # d.seq
    <3>1. s \in DOMAIN rows /\ rows'[s] = rows[s]
        BY <1>2, <1>4, <2>2
    <3>2. s # 0 => s - 1 \in DOMAIN rows /\ rows'[s-1] = rows[s-1]
        BY <1>2, <1>4, <3>1
    <3>3. /\ rows[s].hash = EntryHash(s, rows[s].event, rows[s].prev)
          /\ IF s = 0 THEN rows[s].prev = Genesis
                      ELSE /\ s - 1 \in DOMAIN rows
                           /\ rows[s].prev = rows[s-1].hash
        BY <3>1 DEF IInv, ChainLinked
    <3>4. s # 0 => s - 1 \in DOMAIN rows'
        BY <1>2, <1>4, <3>2
    <3> QED
        BY <3>1, <3>2, <3>3, <3>4
  <2> QED
      BY <2>1, <2>2
<1>10. LockOK'
    BY <1>3, WriterAssumption DEF IInv, TypeOK, LockOK, InTransaction
<1>11. ReqOK'
    BY <1>3 DEF IInv, TypeOK, ReqOK
<1>12. DraftOK'
  \* Nobody else is inside a transaction: w holds the lock.
  <2>1. \A v \in Writer : v # w => pc[v] \notin InTransaction
      BY <1>3 DEF IInv, LockOK, InTransaction
  <2> QED
      BY <1>3, <2>1 DEF IInv, TypeOK, DraftOK, InTransaction
<1>13. CommittedOK'
  <2> SUFFICES ASSUME NEW v \in Writer, pc'[v] = "committed"
               PROVE  /\ draft[v].seq \in DOMAIN rows'
                      /\ rows'[draft[v].seq].event = req[v]
      BY <1>3 DEF CommittedOK
  <2>1. CASE v = w
      BY <1>2, <1>4, <1>5, <2>1
  <2>2. CASE v # w
    <3>1. pc[v] = "committed"
        BY <1>3, <2>2 DEF IInv, TypeOK
    <3>2. draft[v].seq \in DOMAIN rows /\ rows[draft[v].seq].event = req[v]
        BY <3>1 DEF IInv, CommittedOK
    <3> QED
        BY <1>2, <1>4, <3>2
  <2> QED
      BY <2>1, <2>2
<1>14. ReplyIsAttested'
    BY <1>2, <1>3, <1>4 DEF IInv, ReplyIsAttested
<1>15. OneHolder'
  \* What was held before is in the old log, and d.seq was not.
  <2>1. \A v \in Writer : \A s : Holds(v, s)' => Holds(v, s) \/ (v = w /\ s = d.seq)
      BY <1>3 DEF Holds, IInv, TypeOK
  <2>2. \A v \in Writer : \A s : Holds(v, s) => s \in DOMAIN rows
      BY DEF Holds, IInv, CommittedOK, ReplyIsAttested
  <2> QED
      BY <1>4, <2>1, <2>2 DEF IInv, OneHolder
<1> QED
    BY <1>7, <1>8, <1>9, <1>10, <1>11, <1>12, <1>13, <1>14, <1>15 DEF IInv

\* Returning hands the caller the record that Commit stored.
LEMMA ReturnIInv ==
    ASSUME IInv, NEW w \in Writer, Return(w)
    PROVE  IInv'
<1> USE DEF Return
<1>1. UNCHANGED <<rows, head>>
    OBVIOUS
<1>2. TypeOK'
    BY <1>1 DEF IInv, TypeOK, Points
<1>3. LockOK'
    BY DEF IInv, TypeOK, LockOK, InTransaction
<1>4. ReqOK' /\ DraftOK' /\ CommittedOK'
    BY <1>1 DEF IInv, TypeOK, ReqOK, DraftOK, CommittedOK
<1>5. ReplyIsAttested'
    BY <1>1 DEF IInv, TypeOK, CommittedOK, ReplyIsAttested
<1>6. OneHolder'
  <2>1. \A v \in Writer : \A s : Holds(v, s)' => Holds(v, s)
      BY DEF Holds, IInv, TypeOK
  <2> QED
      BY <1>1, <2>1 DEF IInv, OneHolder
<1> QED
    BY <1>1, <1>2, <1>3, <1>4, <1>5, <1>6, LogStands DEF IInv

\* Every step of append(), and a crash anywhere in it, keeps the invariant.
LEMMA NextIInv == IInv /\ [Next]_vars => IInv'
<1> SUFFICES ASSUME IInv, [Next]_vars PROVE IInv'
    OBVIOUS
<1>1. CASE UNCHANGED vars
    BY <1>1 DEF vars, IInv, TypeOK, HeadMatchesLog, ChainLinked, LockOK, ReqOK,
        DraftOK, CommittedOK, ReplyIsAttested, OneHolder, Holds
<1>2. ASSUME NEW w \in Writer, NEW e \in Event, Call(w, e) PROVE IInv'
    BY <1>2, CallIInv
<1>3. ASSUME NEW w \in Writer, NEW e \in Event, RefusePayload(w, e) PROVE IInv'
    BY <1>3, AbandonIInv DEF RefusePayload, IInv, LockOK, InTransaction
<1>4. ASSUME NEW w \in Writer, Begin(w) PROVE IInv'
    BY <1>4, BeginIInv
<1>5. ASSUME NEW w \in Writer, Busy(w) PROVE IInv'
    BY <1>5, AbandonIInv DEF Busy, IInv, LockOK, InTransaction
<1>6. ASSUME NEW w \in Writer, BuildRecord(w) PROVE IInv'
    BY <1>6, BuildRecordIInv
<1>7. ASSUME NEW w \in Writer, InsertRecord(w) \/ UpsertHead(w) PROVE IInv'
    BY <1>7, WriteIInv
<1>8. ASSUME NEW w \in Writer, Commit(w) PROVE IInv'
    BY <1>8, CommitIInv
<1>9. ASSUME NEW w \in Writer, Return(w) PROVE IInv'
    BY <1>9, ReturnIInv
<1>10. ASSUME NEW w \in Writer, Rollback(w) PROVE IInv'
    BY <1>10, AbandonIInv DEF Rollback, IInv, LockOK
<1>11. ASSUME NEW w \in Writer, Crash(w) PROVE IInv'
    BY <1>11, AbandonIInv DEF Crash
<1> QED
    BY <1>1, <1>2, <1>3, <1>4, <1>5, <1>6, <1>7, <1>8, <1>9, <1>10, <1>11
    DEF Next, Enter, Work

\* The inductive invariant holds throughout: the committed log and head agree,
\* one writer holds the write lock, and what it built extends that head.
THEOREM Invariance == Spec => []IInv
<1> QED
    BY InitIInv, NextIInv, PTL DEF Spec

-----------------------------------------------------------------------------
(* What a reader should know of.                                           *)

\* Every variable keeps its type: Spec never leaves the states of append().
THEOREM TypeCorrect == Spec => []TypeOK
BY Invariance, PTL DEF IInv

\* The committed head describes the committed tail at every moment, whatever
\* writers, rollbacks and crashes interleave.
THEOREM HeadAlwaysMatchesLog == Spec => []HeadMatchesLog
BY Invariance, PTL DEF IInv

\* The committed log is gapless and every record names its predecessor.
THEOREM ChainAlwaysLinked == Spec => []ChainLinked
BY Invariance, PTL DEF IInv

\* The record a caller was given is the record in the log.
THEOREM RepliesAlwaysAttested == Spec => []ReplyIsAttested
BY Invariance, PTL DEF IInv

\* No two callers were given the same sequence number.
THEOREM RepliesAlwaysDistinct == Spec => []RepliesDistinct
<1>1. IInv => RepliesDistinct
    BY DEF IInv, ReplyIsAttested, OneHolder, Holds, RepliesDistinct
<1> QED
    BY <1>1, Invariance, PTL

\* A commit leaves the rows that were there where they were.
LEMMA CommitKeepsRows ==
    ASSUME IInv, NEW w \in Writer, Commit(w), NEW s \in DOMAIN rows
    PROVE  s \in DOMAIN rows' /\ rows'[s] = rows[s]
<1>1. draft[w] = NextRecord(head, req[w])
    BY DEF IInv, Commit, DraftOK
<1>2. s # draft[w].seq
    BY <1>1, NextRecordExtends DEF IInv
<1>3. rows' = WithRow(rows, draft[w])
    BY DEF Commit
<1>4. /\ DOMAIN rows' = DOMAIN rows \cup {draft[w].seq}
      /\ \A t \in DOMAIN rows : t # draft[w].seq => rows'[t] = rows[t]
    BY <1>3, WithRowAdds, Zenon
<1> QED
    BY <1>2, <1>4

\* Only a commit touches the log or the head.
LEMMA OnlyCommitWrites ==
    ASSUME [Next]_vars, ~UNCHANGED <<rows, head>>
    PROVE  \E w \in Writer : Commit(w)
BY DEF Next, Enter, Work, vars, Call, RefusePayload, Begin, Busy, BuildRecord,
    InsertRecord, UpsertHead, Return, Rollback, Crash, Abandon

\* A committed record is never moved, changed or removed.
THEOREM LogIsAppendOnly == Spec => AppendOnly
<1>1. IInv /\ [Next]_vars =>
          [\A s \in DOMAIN rows : s \in DOMAIN rows' /\ rows'[s] = rows[s]]_rows
    BY OnlyCommitWrites, CommitKeepsRows
<1> QED
    BY <1>1, Invariance, PTL DEF Spec, AppendOnly

-----------------------------------------------------------------------------
(* AuditChain implements AttestationLog.                                   *)

\* The abstract log of a stored chain of length n, where f are its rows.
View(f, n) == [i \in 1 .. n |-> f[i - 1].event]

\* The abstract log is a sequence of events.
LEMMA ViewType ==
    ASSUME NEW f, NEW n \in Nat, NEW S, \A i \in 1 .. n : f[i - 1].event \in S
    PROVE  View(f, n) \in Seq(S) /\ Len(View(f, n)) = n
<1>1. View(f, n) \in [1 .. n -> S]
    BY DEF View
<1>2. View(f, n) \in Seq(S)
    BY <1>1, SeqDef
<1>3. DOMAIN View(f, n) = 1 .. n /\ DOMAIN View(f, n) = 1 .. Len(View(f, n))
    BY <1>1, <1>2, LenProperties
<1> QED
    BY <1>2, <1>3, LenProperties

\* One more row is one more element.
LEMMA ViewAppend ==
    ASSUME NEW f, NEW g, NEW n \in Nat,
           \A i \in 1 .. n : g[i - 1] = f[i - 1]
    PROVE  View(g, n + 1) = Append(View(f, n), g[n].event)
<1> DEFINE S == {f[i - 1].event : i \in 1 .. n} \cup {g[n].event}
<1>1. View(f, n) \in Seq(S) /\ Len(View(f, n)) = n
  <2>1. \A i \in 1 .. n : f[i - 1].event \in S
      OBVIOUS
  <2> QED
      BY <2>1, ViewType
<1>2. View(g, n + 1) \in Seq(S) /\ Len(View(g, n + 1)) = n + 1
  <2>1. \A i \in 1 .. n + 1 : g[i - 1].event \in S
    <3> SUFFICES ASSUME NEW i \in 1 .. n + 1 PROVE g[i - 1].event \in S
        OBVIOUS
    <3>1. CASE i = n + 1
        BY <3>1
    <3>2. CASE i # n + 1
        BY <3>2
    <3> QED
        BY <3>1, <3>2
  <2>2. n + 1 \in Nat
      OBVIOUS
  <2> HIDE DEF S
  <2> QED
      BY <2>1, <2>2, ViewType, Zenon
<1>3. Append(View(f, n), g[n].event) \in Seq(S)
    BY <1>1
<1>4. Len(Append(View(f, n), g[n].event)) = n + 1
    BY <1>1
<1>5. ASSUME NEW i \in 1 .. n + 1
      PROVE  View(g, n + 1)[i] = Append(View(f, n), g[n].event)[i]
  <2>1. View(g, n + 1)[i] = g[i - 1].event
      BY DEF View
  <2>2. CASE i = n + 1
      BY <1>1, <2>1, <2>2
  <2>3. CASE i # n + 1
    <3>1. i \in 1 .. n
        BY <2>3
    <3>2. View(f, n)[i] = f[i - 1].event
        BY <3>1 DEF View
    <3> QED
        BY <1>1, <2>1, <3>1, <3>2
  <2> QED
      BY <2>2, <2>3
<1> HIDE DEF S
<1> QED
    BY <1>2, <1>3, <1>4, <1>5, SeqEqual

\* The abstract log is empty until there is a head, and then as long as it
\* says.
LEMMA LogViewIsView ==
    ASSUME IInv
    PROVE  /\ Length \in Nat
           /\ LogView = View(rows, Length)
BY DEF IInv, TypeOK, Length, LogView, View

\* The empty database is the empty log.
LEMMA InitRefines == Init => Abstract!Init
<1> SUFFICES ASSUME Init PROVE Abstract!Init
    OBVIOUS
<1>1. LogView = << >>
    BY DEF Init, LogView, Length
<1>2. PendingView = [w \in Writer |-> NoEvent]
    BY DEF Init, PendingView, Busying, InTransaction
<1> QED
    BY <1>1, <1>2 DEF Abstract!Init

\* A commit attests the pending event of its writer.
LEMMA CommitAttests ==
    ASSUME IInv, NEW w \in Writer, Commit(w)
    PROVE  Abstract!Attest(w)
<1> DEFINE d == draft[w]
<1>1. d = NextRecord(head, req[w]) /\ req[w] \in Event
    BY DEF IInv, Commit, DraftOK, ReqOK
<1>2. IInv'
    BY CommitIInv
<1>3. Length' = d.seq + 1 /\ d.seq = Length /\ d.event = req[w]
  <2>1. head' # NoHead /\ head'.count = d.count
      BY HeadIsARow DEF Commit, HeadOf
  <2>2. d.seq = Length /\ d.count = d.seq + 1 /\ d.event = req[w]
      BY <1>1 DEF Length, NextRecord, NextSeq, NextCount, IInv, TypeOK, HeadMatchesLog
  <2> QED
      BY <2>1, <2>2 DEF Length
<1>4. \A i \in 1 .. Length : rows'[i - 1] = rows[i - 1]
  <2>1. \A i \in 1 .. Length : i - 1 \in DOMAIN rows
      BY DEF IInv, TypeOK, HeadMatchesLog, Length
  <2> QED
      BY <2>1, CommitKeepsRows
<1>5. rows'[Length].event = req[w]
  <2>1. rows' = WithRow(rows, d)
      BY DEF Commit
  <2>2. rows'[d.seq] = Row(d)
      BY <2>1, WithRowAdds, Zenon
  <2> QED
      BY <1>3, <2>2 DEF Row
<1>6. LogView' = Append(LogView, req[w])
  <2>1. LogView = View(rows, Length) /\ Length \in Nat
      BY LogViewIsView
  <2>2. LogView' = View(rows', Length + 1)
      BY <1>3 DEF LogView, View
  <2>3. View(rows', Length + 1) = Append(View(rows, Length), rows'[Length].event)
      BY <1>4, <2>1, ViewAppend
  <2> QED
      BY <1>5, <2>1, <2>2, <2>3
<1>7. PendingView[w] = req[w] /\ req[w] # NoEvent
    BY <1>1, EventAssumption DEF Commit, PendingView, Busying, InTransaction
<1>8. PendingView' = [PendingView EXCEPT ![w] = NoEvent]
    BY DEF Commit, PendingView, Busying, InTransaction, IInv, TypeOK
<1> QED
    BY <1>6, <1>7, <1>8 DEF Abstract!Attest

\* Entering append() is asking; leaving it before the commit is giving up;
\* every other step is invisible to AttestationLog.
LEMMA AbandonRefines ==
    ASSUME IInv, NEW w \in Writer, Abandon(w)
    PROVE  Abstract!GiveUp(w) \/ UNCHANGED Abstract!vars
<1>1. LogView' = LogView
    BY DEF Abandon, LogView, Length
<1>2. PendingView' = [PendingView EXCEPT ![w] = NoEvent]
    BY DEF Abandon, PendingView, Busying, InTransaction, IInv, TypeOK
<1>3. PendingView[w] = NoEvent => PendingView' = PendingView
    BY <1>2 DEF PendingView
<1> QED
    BY <1>1, <1>2, <1>3 DEF Abstract!GiveUp, Abstract!vars

\* Entering append() is asking for the attestation.
LEMMA CallAsks ==
    ASSUME IInv, NEW w \in Writer, NEW e \in Event, Call(w, e)
    PROVE  Abstract!Ask(w, e)
<1>1. LogView' = LogView
    BY DEF Call, LogView, Length
<1>2. PendingView[w] = NoEvent
    BY DEF Call, PendingView, Busying, InTransaction
<1>3. PendingView' = [PendingView EXCEPT ![w] = e]
    BY DEF Call, PendingView, Busying, InTransaction, IInv, TypeOK
<1> QED
    BY <1>1, <1>2, <1>3 DEF Abstract!Ask

\* The statements inside the transaction show nothing to AttestationLog.
LEMMA InnerStepHides ==
    ASSUME IInv, NEW w \in Writer,
           \/ Begin(w) \/ BuildRecord(w) \/ InsertRecord(w)
           \/ UpsertHead(w) \/ Return(w)
    PROVE  UNCHANGED Abstract!vars
<1>1. LogView' = LogView
    BY DEF Begin, BuildRecord, InsertRecord, UpsertHead, Return, LogView, Length
<1>2. PendingView' = PendingView
    BY DEF Begin, BuildRecord, InsertRecord, UpsertHead, Return, PendingView,
        Busying, InTransaction, IInv, TypeOK
<1> QED
    BY <1>1, <1>2 DEF Abstract!vars

\* Every step of append() is a step of AttestationLog, or none.
LEMMA NextRefines == IInv /\ [Next]_vars => [Abstract!Next]_Abstract!vars
<1> SUFFICES ASSUME IInv, [Next]_vars PROVE [Abstract!Next]_Abstract!vars
    OBVIOUS
<1>1. CASE UNCHANGED vars
    BY <1>1 DEF vars, Abstract!vars, LogView, Length, PendingView
<1>2. ASSUME NEW w \in Writer, NEW e \in Event, Call(w, e)
      PROVE  Abstract!Next
    BY <1>2, CallAsks DEF Abstract!Next
<1>3. ASSUME NEW w \in Writer, Abandon(w)
      PROVE  [Abstract!Next]_Abstract!vars
    BY <1>3, AbandonRefines DEF Abstract!Next
<1>4. ASSUME NEW w \in Writer, Commit(w)
      PROVE  Abstract!Next
    BY <1>4, CommitAttests DEF Abstract!Next
<1>5. ASSUME NEW w \in Writer,
             \/ Begin(w) \/ BuildRecord(w) \/ InsertRecord(w)
             \/ UpsertHead(w) \/ Return(w)
      PROVE  UNCHANGED Abstract!vars
    BY <1>5, InnerStepHides
<1> QED
    BY <1>1, <1>2, <1>3, <1>4, <1>5
    DEF Next, Enter, Work, RefusePayload, Busy, Rollback, Crash

\* The database, the lock and the crashes together do what AttestationLog
\* promises: an event is attested once, at the end, or not at all.
THEOREM Refinement == Spec => ImplementsAttestationLog
BY InitRefines, NextRefines, Invariance, PTL
DEF Spec, ImplementsAttestationLog, Abstract!Spec

-----------------------------------------------------------------------------
(* The inductive invariant of verification beside appends.                 *)

\* The heads there have been: no head, or that of a row when it was the last.
Heads ==
    {NoHead} \cup
    {[last_seq |-> s, last_hash |-> rows[s].hash, count |-> s + 1] : s \in DOMAIN rows}

\* No walk has found anything.
Seen ==
    [start : Nat, end : Int \cup {NoEnd}, seqs : SUBSET Nat, anchor : SUBSET Nat,
     failures : {{}}, head : Heads, top : Nat \cup {NoTop}, count : Nat]

Reads == {"idle", "rows", "anchor", "walked", "head", "top", "count"}

ReaderTypeOK ==
    /\ at \in [Reader -> Reads]
    /\ seen \in [Reader -> Seen]
    /\ DOMAIN report = Reader

\* The rows fetched are there still, and have no gap above their start.
FetchedOK ==
    \A v \in Reader :
        /\ seen[v].seqs \subseteq DOMAIN rows
        /\ seen[v].anchor \subseteq {seen[v].start - 1} \cap DOMAIN rows
        /\ \A s \in seen[v].seqs :
              s >= seen[v].start /\ seen[v].start .. s - 1 \subseteq seen[v].seqs

\* The tail that was read is no older than the head, and is that of the head if
\* nothing has committed since.
TopOK ==
    \A v \in Reader :
        at[v] \in {"top", "count"} =>
            LET s == seen[v] IN
            /\ s.top = NoTop => s.head = NoHead
            /\ s.top # NoTop => s.top \in DOMAIN rows
            /\ s.top # NoTop /\ s.head # NoHead => s.head.last_seq <= s.top
            /\ head = s.head => s.top = IF head = NoHead THEN NoTop ELSE head.last_seq

CountOK ==
    \A v \in Reader :
        at[v] = "count" /\ head = seen[v].head /\ head # NoHead => seen[v].count = head.count

VInv ==
    /\ IInv
    /\ head \in Heads
    /\ ReaderTypeOK
    /\ FetchedOK
    /\ TopOK
    /\ CountOK

-----------------------------------------------------------------------------
(* What verify_chain makes of rows that are linked.                        *)

LEMMA MaxIs ==
    ASSUME NEW T \in SUBSET Int, NEW m \in T, \A t \in T : t <= m
    PROVE  Max(T) = m
<1>1. \A x \in T : (\A t \in T : x >= t) <=> x = m
    OBVIOUS
<1> QED
    BY <1>1 DEF Max

\* A walk over rows that are linked, without a gap, finds nothing wrong.
LEMMA WalkFindsNothing ==
    ASSUME ChainLinked, DOMAIN rows \subseteq Nat, NEW start \in Nat,
           NEW S \in SUBSET DOMAIN rows, NEW anchor \in SUBSET ({start - 1} \cap DOMAIN rows),
           \A s \in S : s >= start /\ start .. s - 1 \subseteq S
    PROVE  WalkFailures(rows, S, anchor) = {}
<1>1. ASSUME NEW s \in S, NEW p \in Predecessor(S, anchor, s)
      PROVE  p = s - 1 /\ p \in DOMAIN rows /\ s # 0
  <2> DEFINE T == {t \in S \cup anchor : t < s}
  <2>1. T # {} /\ p = Max(T)
      BY <1>1 DEF Predecessor
  <2>2. T \subseteq Nat /\ s \in Nat /\ s >= start
      BY <1>1
  <2>3. s - 1 \in T
    <3>1. PICK t \in T : TRUE
        BY <2>1
    <3>2. CASE t \in S
        BY <1>1, <2>2, <3>2
    <3>3. CASE t \in anchor
      <4>1. t = start - 1
          BY <3>3
      <4>2. CASE s = start
          BY <3>1, <4>1, <4>2
      <4>3. CASE s # start
          BY <1>1, <2>2, <4>3
      <4> QED
          BY <4>2, <4>3
    <3> QED
        BY <3>1, <3>2, <3>3
  <2>4. Max(T) = s - 1
    <3>1. T \in SUBSET Int /\ \A t \in T : t <= s - 1
        BY <2>2
    <3> QED
        BY <2>3, <3>1, MaxIs
  <2>5. s - 1 \in DOMAIN rows /\ s - 1 \in Nat
      BY <2>3
  <2> QED
      BY <2>1, <2>2, <2>4, <2>5
<1>2. ASSUME NEW s \in S
      PROVE  RowFailures(rows, S, anchor, s) = {}
  <2>1. /\ rows[s].hash = EntryHash(s, rows[s].event, rows[s].prev)
        /\ s = 0 => rows[s].prev = Genesis
        /\ s # 0 => rows[s].prev = rows[s - 1].hash
      BY <1>2 DEF ChainLinked
  <2>2. \A p \in Predecessor(S, anchor, s) : s = p + 1 /\ rows[s].prev = rows[p].hash
      BY <1>1, <1>2, <2>1
  <2> QED
      BY <2>1, <2>2 DEF RowFailures, ChainStart
<1> QED
    BY <1>2 DEF WalkFailures

\* MAX(seq) and COUNT of the log are what the head says.
LEMMA HeadCountsRows ==
    ASSUME IInv
    PROVE  /\ DOMAIN rows \subseteq Nat
           /\ Cardinality(DOMAIN rows) \in Nat
           /\ head = NoHead => DOMAIN rows = {} /\ MaxSeq(rows) = NoTop
           /\ head # NoHead =>
                /\ head.last_seq \in Nat /\ DOMAIN rows = 0 .. head.last_seq
                /\ MaxSeq(rows) = head.last_seq
                /\ Cardinality(DOMAIN rows) = head.count
<1>1. CASE head = NoHead
    BY <1>1, FS_EmptySet DEF IInv, HeadMatchesLog, MaxSeq
<1>2. CASE head # NoHead
  <2> DEFINE n == head.last_seq
  <2>1. n \in Nat /\ DOMAIN rows = 0 .. n /\ head.count = n + 1
      BY <1>2 DEF IInv, TypeOK, HeadMatchesLog
  <2>2. Max(0 .. n) = n
    <3>1. 0 .. n \in SUBSET Int /\ n \in 0 .. n /\ \A t \in 0 .. n : t <= n
        BY <2>1
    <3> QED
        BY <3>1, MaxIs
  <2>3. Cardinality(0 .. n) = n + 1
      BY <2>1, FS_Interval
  <2> QED
      BY <1>2, <2>1, <2>2, <2>3 DEF MaxSeq
<1> QED
    BY <1>1, <1>2

-----------------------------------------------------------------------------

LEMMA VInitVInv == VInit => VInv
<1> SUFFICES ASSUME VInit PROVE VInv
    OBVIOUS
<1>1. IInv /\ head \in Heads
    BY InitIInv DEF VInit, Init, Heads
<1>2. Blank \in Seen
    BY DEF Blank, Seen, Heads, ChainStart
<1> QED
    BY <1>1, <1>2 DEF VInit, VInv, ReaderTypeOK, FetchedOK, TopOK, CountOK, Reads, Blank, ChainStart

\* A commit: rows stay, and the head is one no reader has seen.
LEMMA CommitIsNew ==
    ASSUME IInv, NEW w \in Writer, Commit(w)
    PROVE  /\ \A s \in DOMAIN rows : s \in DOMAIN rows' /\ rows'[s] = rows[s]
           /\ head' \in Heads' /\ head' # NoHead
           /\ head'.last_seq \notin DOMAIN rows
<1> DEFINE d == draft[w]
<1>1. d = NextRecord(head, req[w]) /\ rows' = WithRow(rows, d) /\ head' = HeadOf(d)
    BY DEF IInv, Commit, DraftOK
<1>2. /\ d.seq \in Nat /\ d.count = d.seq + 1 /\ d.seq \notin DOMAIN rows
    BY <1>1, NextRecordExtends DEF IInv
<1>3. d.seq \in DOMAIN rows' /\ rows'[d.seq].hash = d.hash
  <2>1. DOMAIN rows' = DOMAIN rows \cup {d.seq} /\ rows'[d.seq] = Row(d)
      BY <1>1, WithRowAdds, Zenon
  <2> QED
      BY <2>1 DEF Row
<1>4. head' = [last_seq |-> d.seq, last_hash |-> rows'[d.seq].hash, count |-> d.seq + 1]
    BY <1>1, <1>2, <1>3 DEF HeadOf
<1>5. head' \in Heads' /\ head'.last_seq = d.seq
    BY <1>3, <1>4 DEF Heads
<1> QED
    BY <1>1, <1>2, <1>5, CommitKeepsRows, HeadIsARow

LEMMA WritersVInv ==
    ASSUME VInv, [Next]_vars, UNCHANGED readerVars
    PROVE  VInv'
<1> USE DEF readerVars
<1>1. IInv'
    BY NextIInv DEF VInv
<1>2. CASE UNCHANGED <<rows, head>>
    BY <1>1, <1>2 DEF VInv, Heads, ReaderTypeOK, Seen, FetchedOK, TopOK, CountOK
<1>3. CASE \E w \in Writer : Commit(w)
  <2>1. /\ \A s \in DOMAIN rows : s \in DOMAIN rows' /\ rows'[s] = rows[s]
        /\ head' \in Heads' /\ head' # NoHead
        /\ head'.last_seq \notin DOMAIN rows
      BY <1>3, CommitIsNew DEF VInv
  <2>2. Heads \subseteq Heads'
      BY <2>1 DEF Heads
  <2>3. ReaderTypeOK'
      BY <2>2 DEF VInv, ReaderTypeOK, Seen
  <2>4. FetchedOK'
      BY <2>1 DEF VInv, FetchedOK
  <2>5. \A v \in Reader : head' # seen'[v].head
      BY <2>1 DEF VInv, ReaderTypeOK, Seen, Heads
  <2>6. (TopOK /\ CountOK)'
      BY <2>1, <2>5 DEF VInv, TopOK, CountOK
  <2> QED
      BY <1>1, <2>1, <2>3, <2>4, <2>6 DEF VInv
<1> QED
    BY <1>2, <1>3, OnlyCommitWrites

\* A reader moves from one read to the next, the writers standing still.
LEMMA ReaderMoves ==
    ASSUME VInv, NEW v \in Reader, NEW from, NEW to \in Reads, Advance(v, from, to)
    PROVE  /\ IInv' /\ head' \in Heads' /\ Heads' = Heads
           /\ rows' = rows /\ head' = head
           /\ at[v] = from /\ at'[v] = to /\ at' \in [Reader -> Reads]
           /\ \A u \in Reader \ {v} : at'[u] = at[u]
<1>1. UNCHANGED vars
    BY DEF Advance
<1>2. IInv' /\ rows' = rows /\ head' = head
    BY <1>1, NextIInv DEF VInv, vars
<1> QED
    BY <1>2 DEF VInv, ReaderTypeOK, Advance, Heads

\* What remains of the invariant is what the reader has just read.
LEMMA ReaderVInv ==
    ASSUME VInv, NEW v \in Reader, NEW from, NEW to \in Reads, Advance(v, from, to),
           NEW s \in Seen, seen' = [seen EXCEPT ![v] = s], DOMAIN report' = Reader,
           s.seqs \subseteq DOMAIN rows,
           s.anchor \subseteq {s.start - 1} \cap DOMAIN rows,
           \A t \in s.seqs : t >= s.start /\ s.start .. t - 1 \subseteq s.seqs,
           to \in {"top", "count"} =>
               /\ s.top = NoTop => s.head = NoHead
               /\ s.top # NoTop => s.top \in DOMAIN rows
               /\ s.top # NoTop /\ s.head # NoHead => s.head.last_seq <= s.top
               /\ head = s.head => s.top = IF head = NoHead THEN NoTop ELSE head.last_seq,
           to = "count" /\ head = s.head /\ head # NoHead => s.count = head.count
    PROVE  VInv'
<1>1. /\ IInv' /\ head' \in Heads' /\ Heads' = Heads /\ rows' = rows /\ head' = head
      /\ at'[v] = to /\ at' \in [Reader -> Reads]
      /\ \A u \in Reader \ {v} : at'[u] = at[u]
    BY ReaderMoves
<1>2. seen'[v] = s /\ (\A u \in Reader \ {v} : seen'[u] = seen[u]) /\ seen' \in [Reader -> Seen]
    BY DEF VInv, ReaderTypeOK
<1>3. ReaderTypeOK'
    BY <1>1, <1>2 DEF ReaderTypeOK, Seen
<1>4. FetchedOK'
  <2>1. \A u \in Reader \ {v} : seen'[u] = seen[u]
      BY <1>2
  <2> QED
      BY <1>1, <1>2, <2>1 DEF VInv, FetchedOK
<1>5. (TopOK /\ CountOK)'
    BY <1>1, <1>2 DEF VInv, TopOK, CountOK
<1> QED
    BY <1>1, <1>3, <1>4, <1>5 DEF VInv

LEMMA ReadersVInv ==
    ASSUME VInv, NEW v \in Reader, Verify(v)
    PROVE  VInv'
<1> DEFINE s == seen[v]
<1>1. /\ s \in Seen /\ s.seqs \subseteq DOMAIN rows /\ DOMAIN report = Reader
      /\ s.anchor \subseteq {s.start - 1} \cap DOMAIN rows
      /\ \A t \in s.seqs : t >= s.start /\ s.start .. t - 1 \subseteq s.seqs
    BY DEF VInv, ReaderTypeOK, FetchedOK
<1>2. /\ DOMAIN rows \subseteq Nat /\ Cardinality(DOMAIN rows) \in Nat
      /\ head = NoHead => DOMAIN rows = {} /\ MaxSeq(rows) = NoTop
      /\ head # NoHead =>
            /\ head.last_seq \in Nat /\ DOMAIN rows = 0 .. head.last_seq
            /\ MaxSeq(rows) = head.last_seq
            /\ Cardinality(DOMAIN rows) = head.count
    BY HeadCountsRows DEF VInv
<1>3. ChainLinked /\ head \in Heads
    BY DEF VInv, IInv
<1>4. ASSUME NEW start \in Nat, NEW end \in Int \cup {NoEnd}, ReadRows(v, start, end)
      PROVE  VInv'
  <2> DEFINE S == InRange(rows, start, end)
             t == [Blank EXCEPT !.start = start, !.end = end, !.seqs = S]
  <2>1. S \subseteq DOMAIN rows /\ \A x \in S : x >= start /\ start .. x - 1 \subseteq S
    <3>1. \A x \in DOMAIN rows : x \in Nat /\ 0 .. x - 1 \subseteq DOMAIN rows
        BY <1>2
    <3> QED
        BY <3>1 DEF InRange
  <2>2. /\ t \in Seen /\ t.start = start /\ t.seqs = S /\ t.anchor = {}
      BY <1>2, <2>1 DEF Blank, Seen, Heads, ChainStart
  <2>3. Advance(v, "idle", "rows") /\ seen' = [seen EXCEPT ![v] = t] /\ DOMAIN report' = Reader
      BY <1>1, <1>4 DEF ReadRows
  <2>4. "rows" \in Reads /\ "rows" \notin {"top", "count"}
      BY DEF Reads
  <2> HIDE DEF t, S
  <2> QED
      BY <2>1, <2>2, <2>3, <2>4, ReaderVInv
<1>5. CASE ReadAnchor(v)
  <2> DEFINE t == [s EXCEPT !.anchor = Anchor(rows, s.start)]
  <2>1. /\ t \in Seen /\ t.start = s.start /\ t.seqs = s.seqs
        /\ t.anchor = {s.start - 1} \cap DOMAIN rows
      BY <1>1, <1>2 DEF Seen, Anchor
  <2>2. Advance(v, "rows", "anchor") /\ seen' = [seen EXCEPT ![v] = t] /\ DOMAIN report' = Reader
      BY <1>1, <1>5 DEF ReadAnchor
  <2>3. "anchor" \in Reads /\ "anchor" \notin {"top", "count"}
      BY DEF Reads
  <2> HIDE DEF t
  <2> QED
      BY <1>1, <2>1, <2>2, <2>3, ReaderVInv
<1>6. CASE Walk(v)
  <2>1. WalkFailures(rows, s.seqs, s.anchor) = {}
      BY <1>1, <1>2, <1>3, WalkFindsNothing DEF Seen
  <2> DEFINE t == [s EXCEPT !.failures = {}]
  <2>2. t \in Seen /\ t.start = s.start /\ t.seqs = s.seqs /\ t.anchor = s.anchor
      BY <1>1 DEF Seen
  <2>3. Advance(v, "anchor", "walked") /\ seen' = [seen EXCEPT ![v] = t] /\ DOMAIN report' = Reader
      BY <1>1, <1>6, <2>1 DEF Walk
  <2>4. "walked" \in Reads /\ "walked" \notin {"top", "count"}
      BY DEF Reads
  <2> HIDE DEF t
  <2> QED
      BY <1>1, <2>2, <2>3, <2>4, ReaderVInv
<1>7. CASE ReadHead(v)
  <2> DEFINE t == [s EXCEPT !.head = head]
  <2>1. t \in Seen /\ t.start = s.start /\ t.seqs = s.seqs /\ t.anchor = s.anchor
      BY <1>1, <1>3 DEF Seen
  <2>2. Advance(v, "walked", "head") /\ seen' = [seen EXCEPT ![v] = t] /\ DOMAIN report' = Reader
      BY <1>1, <1>7 DEF ReadHead
  <2>3. "head" \in Reads /\ "head" \notin {"top", "count"}
      BY DEF Reads
  <2> HIDE DEF t
  <2> QED
      BY <1>1, <2>1, <2>2, <2>3, ReaderVInv
<1>8. CASE ReadTop(v)
  <2> DEFINE t == [s EXCEPT !.top = MaxSeq(rows)]
  <2>1. /\ t \in Seen /\ t.start = s.start /\ t.seqs = s.seqs /\ t.anchor = s.anchor
        /\ t.head = s.head /\ t.top = MaxSeq(rows)
      BY <1>1, <1>2 DEF Seen
  <2>2. Advance(v, "head", "top") /\ seen' = [seen EXCEPT ![v] = t] /\ DOMAIN report' = Reader
      BY <1>1, <1>8 DEF ReadTop
  <2>3. /\ s.head # NoHead => s.head.last_seq \in DOMAIN rows
        /\ MaxSeq(rows) = NoTop => head = NoHead
      BY <1>1, <1>2, NoTopAssumption DEF Seen, Heads
  <2>4. "top" \in Reads /\ "top" # "count"
      BY DEF Reads
  <2> HIDE DEF t
  <2>5. /\ t.top = NoTop => t.head = NoHead
        /\ t.top # NoTop => t.top \in DOMAIN rows
        /\ t.top # NoTop /\ t.head # NoHead => t.head.last_seq <= t.top
        /\ head = t.head => t.top = IF head = NoHead THEN NoTop ELSE head.last_seq
    <3>1. CASE head = NoHead
        BY <1>2, <2>1, <2>3, <3>1
    <3>2. CASE head # NoHead
        BY <1>2, <2>1, <2>3, <3>2
    <3> QED
        BY <3>1, <3>2
  <2> QED
      BY <1>1, <2>1, <2>2, <2>4, <2>5, ReaderVInv
<1>9. CASE ReadCount(v)
  <2> DEFINE t == [s EXCEPT !.count = Cardinality(DOMAIN rows)]
  <2>1. /\ t \in Seen /\ t.start = s.start /\ t.seqs = s.seqs /\ t.anchor = s.anchor
        /\ t.head = s.head /\ t.top = s.top /\ t.count = Cardinality(DOMAIN rows)
      BY <1>1, <1>2 DEF Seen
  <2>2. Advance(v, "top", "count") /\ seen' = [seen EXCEPT ![v] = t] /\ DOMAIN report' = Reader
      BY <1>1, <1>9 DEF ReadCount
  <2>3. /\ s.top = NoTop => s.head = NoHead
        /\ s.top # NoTop => s.top \in DOMAIN rows
        /\ s.top # NoTop /\ s.head # NoHead => s.head.last_seq <= s.top
        /\ head = s.head => s.top = IF head = NoHead THEN NoTop ELSE head.last_seq
      BY <2>2 DEF VInv, TopOK, Advance
  <2>4. "count" \in Reads
      BY DEF Reads
  <2> HIDE DEF t
  <2> QED
      BY <1>1, <1>2, <2>1, <2>2, <2>3, <2>4, ReaderVInv
<1>10. CASE Conclude(v)
  <2>1. Advance(v, "count", "idle") /\ seen' = [seen EXCEPT ![v] = Blank] /\ DOMAIN report' = Reader
      BY <1>1, <1>10 DEF Conclude
  <2>2. Blank \in Seen /\ Blank.seqs = {} /\ Blank.anchor = {} /\ "idle" \in Reads
      BY DEF Blank, Seen, Heads, ChainStart, Reads
  <2> QED
      BY <2>1, <2>2, ReaderVInv
<1>11. CASE \E range \in Ranges : ReadRows(v, range[1], range[2])
    BY <1>4, <1>11, RangesAssumption
<1> QED
    BY <1>5, <1>6, <1>7, <1>8, <1>9, <1>10, <1>11 DEF Verify

LEMMA VNextVInv == VInv /\ [VNext]_allVars => VInv'
<1> SUFFICES ASSUME VInv, [VNext]_allVars PROVE VInv'
    OBVIOUS
<1>1. CASE UNCHANGED allVars
    BY <1>1, WritersVInv DEF allVars
<1>2. CASE Next /\ UNCHANGED readerVars
    BY <1>2, WritersVInv
<1>3. CASE \E v \in Reader : Verify(v)
    BY <1>3, ReadersVInv
<1> QED
    BY <1>1, <1>2, <1>3 DEF VNext

\* The inductive invariant holds in every behaviour.
THEOREM VInvariance == VSpec => []VInv
BY VInitVInv, VNextVInv, PTL DEF VSpec

-----------------------------------------------------------------------------

\* What is reported, when it is: no record and no tail, and nothing at all when
\* the head has not moved since it was read.
LEMMA ConclusionIsFair ==
    ASSUME VInv, NEW v \in Reader, Conclude(v)
    PROVE  /\ report'[v].failures = {}
           /\ report'[v].head_state \notin {"truncated", "hash_mismatch"}
           /\ head = seen[v].head => report'[v].ok
<1> DEFINE s == seen[v]
           tail == IF s.top = NoTop THEN NoTop ELSE rows[s.top].hash
           state == HeadState(s.head, s.top, s.count, tail, Full(s))
<1>1. /\ s \in Seen /\ at[v] = "count"
      /\ report'[v].failures = s.failures /\ report'[v].head_state = state
      /\ report'[v].ok = (s.failures = {} /\ state \in Clean)
    BY DEF VInv, ReaderTypeOK, Conclude, Advance
<1>2. s.failures = {} /\ s.head \in Heads
    BY <1>1 DEF Seen
<1>3. /\ s.top = NoTop => s.head = NoHead
      /\ s.top # NoTop => s.top \in DOMAIN rows
      /\ s.top # NoTop /\ s.head # NoHead => s.head.last_seq <= s.top
      /\ head = s.head => s.top = IF head = NoHead THEN NoTop ELSE head.last_seq
      /\ head = s.head /\ head # NoHead => s.count = head.count
    BY <1>1 DEF VInv, TopOK, CountOK
<1>4. DOMAIN rows \subseteq Nat
    BY HeadCountsRows DEF VInv
<1>5. s.head # NoHead => s.head.last_seq \in Nat /\ s.head.last_hash = rows[s.head.last_seq].hash
    BY <1>2, <1>4 DEF Heads
<1>6. state \notin {"truncated", "hash_mismatch"}
    BY <1>3, <1>4, <1>5 DEF HeadState
<1>7. head = s.head => state \in Clean
    BY <1>3, <1>4, <1>5, NoTopAssumption DEF HeadState, Clean, CountDiffers
<1> QED
    BY <1>1, <1>2, <1>6, <1>7

LEMMA UnaccusedStep ==
    ASSUME VInv, NoLossReported, [VNext]_allVars
    PROVE  NoLossReported' /\ QuietVerificationPasses
<1>1. CASE UNCHANGED readerVars
    BY <1>1 DEF readerVars, NoLossReported, QuietVerificationPasses
<1>2. CASE \E v \in Reader : Verify(v)
  <2> PICK v \in Reader : Verify(v)
      BY <1>2
  <2>1. \A u \in Reader \ {v} : at'[u] = at[u] /\ report'[u] = report[u]
      BY DEF VInv, ReaderTypeOK, Verify, ReadRows, ReadAnchor, Walk, ReadHead, ReadTop,
             ReadCount, Conclude, Advance
  <2>2. CASE Conclude(v)
      BY <2>1, <2>2, ConclusionIsFair
      DEF NoLossReported, QuietVerificationPasses
  <2>3. CASE ~Conclude(v)
    <3>1. at[v] # "count" \/ at'[v] # "idle"
        BY <2>3 DEF VInv, ReaderTypeOK, Verify, ReadRows, ReadAnchor, Walk, ReadHead, ReadTop,
                    ReadCount, Advance
    <3>2. report'[v] = report[v] \/ report'[v] = NoReport
        BY <2>3 DEF VInv, ReaderTypeOK, Verify, ReadRows, ReadAnchor, Walk, ReadHead, ReadTop,
                    ReadCount
    <3> QED
        BY <2>1, <3>1, <3>2 DEF NoLossReported, QuietVerificationPasses
  <2> QED
      BY <2>2, <2>3
<1> QED
    BY <1>1, <1>2 DEF VNext, allVars

\* verify_chain accuses no record and no tail of a chain nobody touched,
\* however appends commit between its reads, and passes when none does after
\* it has read the head (api/audit/verify.py).
THEOREM UntouchedChainIsUnaccused == VSpec => UntouchedIsUnaccused
<1>1. VInit => NoLossReported
    BY DEF VInit, NoLossReported
<1>2. VInv /\ NoLossReported /\ [VNext]_allVars => NoLossReported'
    BY UnaccusedStep
<1>3. VInv /\ NoLossReported /\ [VNext]_allVars
        => [NoLossReported' /\ QuietVerificationPasses]_allVars
    BY UnaccusedStep
<1> QED
    BY <1>1, <1>2, <1>3, VInvariance, PTL DEF VSpec, UntouchedIsUnaccused

\* What holds of AuditChain holds beside its readers: the log, its head and the
\* replies of append() are what they were proved to be without them.
THEOREM ReadersChangeNothing == VSpec => Spec
<1>1. VInit => Init
    BY DEF VInit
<1>2. [VNext]_allVars => [Next]_vars
    BY DEF VNext, allVars, Verify, ReadRows, ReadAnchor, Walk, ReadHead, ReadTop, ReadCount,
           Conclude, Advance
<1> QED
    BY <1>1, <1>2, PTL DEF VSpec, Spec

=============================================================================
