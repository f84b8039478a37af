--------------------------- MODULE AuditRunProofs ---------------------------
(***************************************************************************)
(* Theorems about AuditRun, for any sets of requests, files and shapes and *)
(* any bound, whatever raises or dies: what is decided is attested, the    *)
(* chain and the stored runs agree, and the queue is the last parse.       *)
(***************************************************************************)
EXTENDS AuditRun, TLAPS

-----------------------------------------------------------------------------
(* The inductive invariant.                                                *)

\* A decision on its way to the database has been attested before.
DecidingIsAttested == \A s \in deciding : <<"ADMIN_CONFIRMED", s>> \in attested

\* Every request has an audit_id of its own, no stored run has one that is
\* still to be given, and a run is stored under an id once its request says so.
IdsOK ==
    /\ \A i \in DOMAIN runs : i < audits
    /\ \A a \in Auditor : job[a] # Idle =>
          /\ job[a].id < audits
          /\ job[a].id \in DOMAIN runs <=> job[a].point = "saving"
    /\ \A a, b \in Auditor :
          job[a] # Idle /\ job[b] # Idle /\ job[a].id = job[b].id => a = b

\* The chain names whole runs, and none whose request is still at work.
AttestedIsWhole ==
    \A r \in attested : r[1] = "AUDIT_RUN" => r[2] \in DOMAIN runs /\ Whole(r[2])

\* Unless something failed, a stored run without a request is attested.
StoredIsAttested ==
    ~failed => \A i \in DOMAIN runs :
        \/ \E a \in Auditor : job[a] # Idle /\ job[a].id = i
        \/ Whole(i) /\ <<"AUDIT_RUN", i>> \in attested

\* Two requests that queue the residue of one file both know it.
OverlapKnown ==
    \A a, b \in Auditor :
        /\ a # b
        /\ job[a] # Idle /\ job[a].point \in {"parsed", "cleared"}
        /\ job[b] # Idle /\ job[b].point \in {"parsed", "cleared"}
        /\ job[a].file = job[b].file
        => job[a].overlapped /\ job[b].overlapped

\* What a request has still to queue is residue of its file, all of it until
\* it has cleared the queue.
RowsAreResidue ==
    \A a \in Auditor : job[a] # Idle =>
        /\ job[a].rows \subseteq Residue(job[a].file, job[a].known)
        /\ job[a].point = "parsed" => job[a].rows = Residue(job[a].file, job[a].known)

\* From clearing to the last line the file's queue is nobody's parse, and
\* without an overlap it holds exactly the lines this request has queued.
QueueGrows ==
    \A a \in Auditor :
        At(a, "cleared") =>
            /\ settled[job[a].file] = Mixed
            /\ ~job[a].overlapped =>
                  {q \in queue : q[1] = job[a].file}
                      = Residue(job[a].file, job[a].known) \ job[a].rows

IInv ==
    /\ TypeOK
    /\ DecisionIsAttested
    /\ DecidingIsAttested
    /\ IdsOK
    /\ AttestedIsWhole
    /\ StoredIsAttested
    /\ OverlapKnown
    /\ RowsAreResidue
    /\ QueueGrows
    /\ QueueIsTheLastParse

-----------------------------------------------------------------------------

\* Nobody has asked for anything: the invariant holds.
LEMMA InitIInv == Init => IInv
<1> SUFFICES ASSUME Init PROVE IInv
    OBVIOUS
<1> USE DEF Init
<1>1. TypeOK
    BY DEF TypeOK
<1>2. DecisionIsAttested /\ DecidingIsAttested
    BY DEF DecisionIsAttested, DecidingIsAttested
<1>3. IdsOK /\ AttestedIsWhole /\ StoredIsAttested
    BY DEF IdsOK, AttestedIsWhole, StoredIsAttested
<1>4. OverlapKnown /\ RowsAreResidue /\ QueueGrows /\ QueueIsTheLastParse
    BY DEF OverlapKnown, RowsAreResidue, QueueGrows, QueueIsTheLastParse, At
<1> QED
    BY <1>1, <1>2, <1>3, <1>4 DEF IInv

-----------------------------------------------------------------------------
(* What a step leaves alone.                                               *)

\* Decisions hold as long as the chain only grows.
LEMMA DecisionsStand ==
    ASSUME IInv, UNCHANGED <<learned, examples, deciding>>, attested \subseteq attested'
    PROVE  (DecisionIsAttested /\ DecidingIsAttested)'
BY DEF IInv, DecisionIsAttested, DecidingIsAttested

\* Runs and chain agree while both stand, if no request ends, changes its id
\* or starts saving.
LEMMA RunsStand ==
    ASSUME IInv, UNCHANGED <<runs, attested, failed, audits>>,
           \A a \in Auditor :
               /\ job'[a] = Idle <=> job[a] = Idle
               /\ job[a] # Idle =>
                     /\ job'[a].id = job[a].id
                     /\ job'[a].point = "saving" <=> job[a].point = "saving"
    PROVE  (IdsOK /\ AttestedIsWhole /\ StoredIsAttested)'
<1>1. IdsOK'
    BY DEF IInv, IdsOK
<1>2. AttestedIsWhole'
    BY DEF IInv, AttestedIsWhole, Whole
<1>3. StoredIsAttested'
    BY DEF IInv, StoredIsAttested, Whole
<1> QED
    BY <1>1, <1>2, <1>3

\* The queue is what it was if no request touches it: some may leave, or go on
\* to save, with what they know of their file.
LEMMA QueueStands ==
    ASSUME IInv, UNCHANGED <<queue, settled>>,
           \A a \in Auditor : job'[a] # Idle =>
               /\ job[a] # Idle
               /\ job'[a].file = job[a].file /\ job'[a].known = job[a].known
               /\ job'[a].rows = job[a].rows
               /\ job'[a].point \in {"parsed", "cleared"} => job'[a] = job[a]
    PROVE  (OverlapKnown /\ RowsAreResidue /\ QueueGrows /\ QueueIsTheLastParse)'
<1>1. OverlapKnown'
    BY DEF IInv, OverlapKnown
<1>2. RowsAreResidue'
    BY DEF IInv, RowsAreResidue, Residue
<1>3. QueueGrows'
    BY DEF IInv, QueueGrows, At, Residue
<1>4. QueueIsTheLastParse'
    BY DEF IInv, QueueIsTheLastParse, Residue
<1> QED
    BY <1>1, <1>2, <1>3, <1>4

-----------------------------------------------------------------------------
(* Every step preserves the invariant.                                     *)

\* A request starts: its id is new, and so is what it knows of overlaps.
LEMMA ParseIInv ==
    ASSUME IInv, NEW a \in Auditor, NEW f \in File, NEW results \in Selections,
           Parse(a, f, results)
    PROVE  IInv'
<1> USE DEF Parse
<1> DEFINE new == [point |-> "parsed", id |-> audits, file |-> f,
                   known |-> learned, rows |-> Residue(f, learned),
                   results |-> results, overlapped |-> Queueing(f) # {}]
<1>1. Residue(f, learned) \subseteq Line
    BY DEF Residue, Line, File
<1>2. new \in Requests
    BY <1>1 DEF IInv, TypeOK, Requests
<1>3. \A b \in Auditor : b # a /\ job[b] # Idle =>
          /\ job'[b] \in Requests
          /\ job'[b].point = job[b].point /\ job'[b].id = job[b].id
          /\ job'[b].file = job[b].file /\ job'[b].known = job[b].known
          /\ job'[b].rows = job[b].rows
          /\ job[b].overlapped => job'[b].overlapped
          /\ b \in Queueing(f) => job'[b].overlapped
    BY DEF IInv, TypeOK, Requests
<1>4. \A b \in Auditor : b # a => job'[b] = Idle <=> job[b] = Idle
    BY <1>3, IdleAssumption DEF IInv, TypeOK, Queueing
<1>5. job'[a] = new /\ job'[a] # Idle /\ job[a] = Idle
    BY <1>2, IdleAssumption
<1>6. TypeOK'
  <2>1. job' \in [Auditor -> Requests \cup {Idle}]
      BY <1>2, <1>3, <1>4, <1>5
  <2> QED
      BY <2>1 DEF IInv, TypeOK
<1>7. DecisionIsAttested' /\ DecidingIsAttested'
    BY DEF IInv, DecisionIsAttested, DecidingIsAttested
<1>8. IdsOK'
    BY <1>3, <1>4, <1>5 DEF IInv, TypeOK, IdsOK, Requests
<1>9. AttestedIsWhole'
    BY DEF IInv, AttestedIsWhole, Whole
<1>10. StoredIsAttested'
  <2> SUFFICES ASSUME ~failed', NEW i \in DOMAIN runs'
               PROVE  \/ \E b \in Auditor : job'[b] # Idle /\ job'[b].id = i
                      \/ Whole(i)' /\ <<"AUDIT_RUN", i>> \in attested'
      BY DEF StoredIsAttested
  <2>1. CASE Whole(i) /\ <<"AUDIT_RUN", i>> \in attested
      BY <2>1 DEF Whole
  <2>2. ASSUME NEW b \in Auditor, job[b] # Idle, job[b].id = i
        PROVE  job'[b] # Idle /\ job'[b].id = i
      BY <1>3, <1>4, <1>5, <2>2
  <2> QED
      BY <2>1, <2>2 DEF IInv, StoredIsAttested
<1>11. OverlapKnown'
  <2>1. ASSUME NEW b \in Auditor, b # a, job'[b] # Idle,
               job'[b].point \in {"parsed", "cleared"}, job'[b].file = f
        PROVE  job'[a].overlapped /\ job'[b].overlapped
    <3>1. b \in Queueing(f)
        BY <1>3, <1>4, <2>1 DEF Queueing
    <3> QED
        BY <1>3, <1>4, <1>5, <2>1, <3>1
  <2>2. job'[a].file = f
      BY <1>5
  <2> QED
      BY <1>3, <1>4, <2>1, <2>2 DEF IInv, OverlapKnown
<1>12. RowsAreResidue'
    BY <1>3, <1>4, <1>5 DEF IInv, RowsAreResidue, Residue
<1>13. QueueGrows'
    BY <1>3, <1>4, <1>5 DEF IInv, QueueGrows, At, Residue
<1>14. QueueIsTheLastParse'
    BY DEF IInv, QueueIsTheLastParse, Residue
<1> QED
    BY <1>6, <1>7, <1>8, <1>9, <1>10, <1>11, <1>12, <1>13, <1>14 DEF IInv

\* The queue of a file is cleared: it is nobody's parse now, and a request
\* that has it to itself has all of its residue still to queue.
LEMMA ClearIInv ==
    ASSUME IInv, NEW a \in Auditor, Clear(a)
    PROVE  IInv'
<1> USE DEF Clear, At
<1>1. /\ job[a] \in Requests /\ job'[a] \in Requests /\ job'[a] # Idle
      /\ job'[a].point = "cleared" /\ job'[a].id = job[a].id
      /\ job'[a].file = job[a].file /\ job'[a].known = job[a].known
      /\ job'[a].rows = job[a].rows /\ job'[a].overlapped = job[a].overlapped
      /\ \A b \in Auditor : b # a => job'[b] = job[b]
    BY IdleAssumption DEF IInv, TypeOK, Requests
<1>2. TypeOK'
    BY <1>1 DEF IInv, TypeOK, Requests
<1>3. (DecisionIsAttested /\ DecidingIsAttested)'
    BY DecisionsStand
<1>4. (IdsOK /\ AttestedIsWhole /\ StoredIsAttested)'
    BY <1>1, RunsStand
<1>5. OverlapKnown' /\ RowsAreResidue'
    BY <1>1 DEF IInv, OverlapKnown, RowsAreResidue, Residue
<1>6. QueueGrows'
  <2> SUFFICES ASSUME NEW b \in Auditor, At(b, "cleared")'
               PROVE  /\ settled'[job'[b].file] = Mixed
                      /\ ~job'[b].overlapped =>
                            {q \in queue' : q[1] = job'[b].file}
                                = Residue(job'[b].file, job'[b].known) \ job'[b].rows
      BY DEF QueueGrows, Residue
  <2>1. CASE b = a
    <3>1. job'[b].rows = Residue(job'[b].file, job'[b].known)
        BY <1>1, <2>1 DEF IInv, RowsAreResidue
    <3> QED
        BY <1>1, <2>1, <3>1 DEF IInv, TypeOK, Requests
  <2>2. CASE b # a /\ job[b].file = job[a].file
    <3>1. job[b].overlapped
        BY <1>1, <2>2 DEF IInv, OverlapKnown
    <3> QED
        BY <1>1, <2>2, <3>1 DEF IInv, TypeOK, Requests
  <2>3. CASE b # a /\ job[b].file # job[a].file
    <3>1. {q \in queue' : q[1] = job[b].file} = {q \in queue : q[1] = job[b].file}
        BY <2>3
    <3> QED
        BY <1>1, <2>3, <3>1 DEF IInv, TypeOK, Requests, QueueGrows
  <2> QED
      BY <2>1, <2>2, <2>3
<1>7. QueueIsTheLastParse'
  <2> SUFFICES ASSUME NEW f \in File, settled'[f] # Mixed
               PROVE  {q \in queue' : q[1] = f} = Residue(f, settled'[f])
      BY DEF QueueIsTheLastParse, Residue
  <2>1. f # job[a].file /\ settled'[f] = settled[f]
      BY <1>1 DEF IInv, TypeOK, Requests
  <2>2. {q \in queue' : q[1] = f} = {q \in queue : q[1] = f}
      BY <2>1
  <2> QED
      BY <2>1, <2>2 DEF IInv, QueueIsTheLastParse
<1> QED
    BY <1>2, <1>3, <1>4, <1>5, <1>6, <1>7 DEF IInv

\* One more line of the residue is in the queue, one less is to come.
LEMMA QueueLineIInv ==
    ASSUME IInv, NEW a \in Auditor, NEW q, QueueLine(a, q)
    PROVE  IInv'
<1> USE DEF QueueLine, At
<1>1. /\ job[a] \in Requests /\ job'[a] \in Requests /\ job'[a] # Idle
      /\ job'[a].point = "cleared" /\ job'[a].id = job[a].id
      /\ job'[a].file = job[a].file /\ job'[a].known = job[a].known
      /\ job'[a].rows = job[a].rows \ {q} /\ job'[a].overlapped = job[a].overlapped
      /\ \A b \in Auditor : b # a => job'[b] = job[b]
    BY IdleAssumption DEF IInv, TypeOK, Requests
<1>2. q \in Residue(job[a].file, job[a].known)
    BY DEF IInv, RowsAreResidue
<1>3. q \in Line /\ q[1] = job[a].file
    BY <1>1, <1>2 DEF Requests, Residue
<1>4. TypeOK'
    BY <1>1, <1>3 DEF IInv, TypeOK
<1>5. (DecisionIsAttested /\ DecidingIsAttested)'
    BY DecisionsStand
<1>6. (IdsOK /\ AttestedIsWhole /\ StoredIsAttested)'
    BY <1>1, RunsStand
<1>7. OverlapKnown' /\ RowsAreResidue'
    BY <1>1 DEF IInv, OverlapKnown, RowsAreResidue, Residue
<1>8. \A f \in File : f # job[a].file =>
          {p \in queue' : p[1] = f} = {p \in queue : p[1] = f}
    BY <1>3
<1>9. QueueGrows'
  <2> SUFFICES ASSUME NEW b \in Auditor, At(b, "cleared")'
               PROVE  /\ settled'[job'[b].file] = Mixed
                      /\ ~job'[b].overlapped =>
                            {p \in queue' : p[1] = job'[b].file}
                                = Residue(job'[b].file, job'[b].known) \ job'[b].rows
      BY DEF QueueGrows, Residue
  <2>1. CASE b = a
    <3>1. {p \in queue' : p[1] = job[a].file} = {p \in queue : p[1] = job[a].file} \cup {q}
        BY <1>3
    <3> QED
        BY <1>1, <1>2, <2>1, <3>1 DEF IInv, QueueGrows
  <2>2. CASE b # a /\ job[b].file = job[a].file
    <3>1. job[b].overlapped
        BY <1>1, <2>2 DEF IInv, OverlapKnown
    <3> QED
        BY <1>1, <2>2, <3>1 DEF IInv, QueueGrows
  <2>3. CASE b # a /\ job[b].file # job[a].file
    <3>1. job[b].file \in File
        BY <1>1, <2>3 DEF IInv, TypeOK, Requests
    <3> QED
        BY <1>1, <1>8, <2>3, <3>1 DEF IInv, QueueGrows
  <2> QED
      BY <2>1, <2>2, <2>3
<1>10. QueueIsTheLastParse'
  <2> SUFFICES ASSUME NEW f \in File, settled[f] # Mixed
               PROVE  {p \in queue' : p[1] = f} = Residue(f, settled[f])
      BY DEF QueueIsTheLastParse, Residue
  <2>1. f # job[a].file
      BY DEF IInv, QueueGrows
  <2> QED
      BY <1>8, <2>1 DEF IInv, QueueIsTheLastParse
<1> QED
    BY <1>4, <1>5, <1>6, <1>7, <1>9, <1>10 DEF IInv

\* The residue is queued: without an overlap the queue is this parse.
LEMMA QueuedIInv ==
    ASSUME IInv, NEW a \in Auditor, Queued(a)
    PROVE  IInv'
<1> USE DEF Queued, At
<1>1. /\ job[a] \in Requests /\ job'[a] \in Requests /\ job'[a] # Idle
      /\ job'[a].point = "queued" /\ job'[a].id = job[a].id
      /\ job'[a].file = job[a].file /\ job'[a].known = job[a].known
      /\ job'[a].rows = job[a].rows /\ job'[a].overlapped = job[a].overlapped
      /\ \A b \in Auditor : b # a => job'[b] = job[b]
    BY IdleAssumption DEF IInv, TypeOK, Requests
<1>2. TypeOK'
    BY <1>1 DEF IInv, TypeOK, Requests
<1>3. (DecisionIsAttested /\ DecidingIsAttested)'
    BY DecisionsStand
<1>4. (IdsOK /\ AttestedIsWhole /\ StoredIsAttested)'
    BY <1>1, RunsStand
<1>5. OverlapKnown' /\ RowsAreResidue'
    BY <1>1 DEF IInv, OverlapKnown, RowsAreResidue, Residue
<1>6. \A f \in File : settled'[f] # settled[f] => f = job[a].file /\ ~job[a].overlapped
    BY DEF IInv, TypeOK
<1>7. QueueGrows'
  <2> SUFFICES ASSUME NEW b \in Auditor, b # a, At(b, "cleared")
               PROVE  settled'[job[b].file] = settled[job[b].file]
      BY <1>1 DEF IInv, QueueGrows, Residue
  <2>1. job[b].file = job[a].file => job[a].overlapped
      BY <1>1 DEF IInv, OverlapKnown
  <2>2. job[b].file \in File
      BY DEF IInv, TypeOK, Requests
  <2> QED
      BY <1>6, <2>1, <2>2
<1>8. QueueIsTheLastParse'
  <2> SUFFICES ASSUME NEW f \in File, settled'[f] # Mixed
               PROVE  {q \in queue : q[1] = f} = Residue(f, settled'[f])
      BY DEF QueueIsTheLastParse, Residue
  <2>1. CASE settled'[f] = settled[f]
      BY <2>1 DEF IInv, QueueIsTheLastParse
  <2>2. CASE settled'[f] # settled[f]
    <3>1. settled'[f] = job[a].known
        BY <1>6, <2>2 DEF IInv, TypeOK
    <3> QED
        BY <1>6, <2>2, <3>1 DEF IInv, QueueGrows
  <2> QED
      BY <2>1, <2>2
<1> QED
    BY <1>2, <1>3, <1>4, <1>5, <1>7, <1>8 DEF IInv

\* A request ends without a run: it has stored none, or it failed.
LEMMA LeaveIInv ==
    ASSUME IInv, NEW a \in Auditor, NoResults(a) \/ Raise(a)
    PROVE  IInv'
<1> USE DEF NoResults, Raise, At
<1>1. /\ job' = [job EXCEPT ![a] = Idle] /\ job[a] \in Requests
      /\ UNCHANGED <<learned, queue, runs, examples, attested, deciding, settled, audits>>
      /\ ~failed' => ~failed /\ job[a].point = "queued"
    BY DEF IInv, TypeOK
<1> HIDE DEF NoResults, Raise
<1>2. job'[a] = Idle /\ \A b \in Auditor : b # a => job'[b] = job[b]
    BY <1>1 DEF IInv, TypeOK
<1>3. TypeOK'
    BY <1>1 DEF IInv, TypeOK, NoResults, Raise
<1>4. (DecisionIsAttested /\ DecidingIsAttested)'
    BY <1>1, DecisionsStand
<1>5. (OverlapKnown /\ RowsAreResidue /\ QueueGrows /\ QueueIsTheLastParse)'
    BY <1>1, <1>2, QueueStands
<1>6. IdsOK' /\ AttestedIsWhole'
    BY <1>1, <1>2 DEF IInv, IdsOK, AttestedIsWhole, Whole
<1>7. StoredIsAttested'
  <2> SUFFICES ASSUME ~failed', NEW i \in DOMAIN runs
               PROVE  \/ \E b \in Auditor : job'[b] # Idle /\ job'[b].id = i
                      \/ Whole(i) /\ <<"AUDIT_RUN", i>> \in attested
      BY <1>1 DEF StoredIsAttested, Whole
  <2>1. job[a].id # i
      BY <1>1, IdleAssumption DEF IInv, IdsOK
  <2> QED
      BY <1>1, <1>2, <2>1 DEF IInv, StoredIsAttested
<1> QED
    BY <1>3, <1>4, <1>5, <1>6, <1>7 DEF IInv

\* The run gets its row: under a new id, so no run is written over.
LEMMA InsertRunIInv ==
    ASSUME IInv, NEW a \in Auditor, InsertRun(a)
    PROVE  IInv'
<1> USE DEF InsertRun, At
<1>1. /\ job[a] \in Requests /\ job'[a] \in Requests /\ job'[a] # Idle
      /\ job'[a].point = "saving" /\ job'[a].id = job[a].id
      /\ job'[a].file = job[a].file /\ job'[a].known = job[a].known
      /\ job'[a].rows = job[a].rows
      /\ \A b \in Auditor : b # a => job'[b] = job[b]
    BY IdleAssumption DEF IInv, TypeOK, Requests
<1>2. /\ job[a].id \notin DOMAIN runs /\ job[a].id \in Nat
      /\ DOMAIN runs' = DOMAIN runs \cup {job[a].id}
      /\ \A i \in DOMAIN runs : runs'[i] = runs[i]
    BY <1>1 DEF IInv, IdsOK, Requests
<1>3. TypeOK'
    BY <1>1, <1>2 DEF IInv, TypeOK
<1>4. (DecisionIsAttested /\ DecidingIsAttested)'
    BY DecisionsStand
<1>5. (OverlapKnown /\ RowsAreResidue /\ QueueGrows /\ QueueIsTheLastParse)'
    BY <1>1, QueueStands
<1>6. IdsOK'
    BY <1>1, <1>2 DEF IInv, IdsOK
<1>7. AttestedIsWhole' /\ StoredIsAttested'
    BY <1>1, <1>2 DEF IInv, AttestedIsWhole, StoredIsAttested, Whole
<1> QED
    BY <1>3, <1>4, <1>5, <1>6, <1>7 DEF IInv

\* A finding or its evidence is stored: the run was not attested, since it was
\* not whole.
LEMMA InsertFindingIInv ==
    ASSUME IInv, NEW a \in Auditor, InsertFinding(a)
    PROVE  IInv'
<1> USE DEF InsertFinding, At
<1>1. job[a].id \in DOMAIN runs /\ <<"AUDIT_RUN", job[a].id>> \notin attested
    BY DEF IInv, IdsOK, AttestedIsWhole
<1>2. /\ DOMAIN runs' = DOMAIN runs
      /\ \A i \in DOMAIN runs : i # job[a].id => runs'[i] = runs[i]
      /\ runs'[job[a].id] = [runs[job[a].id] EXCEPT !.done = @ + 1]
    BY <1>1
<1>3. TypeOK'
  <2>1. \A i \in DOMAIN runs' : runs'[i] = [results |-> runs'[i].results, done |-> runs'[i].done]
      BY <1>1, <1>2 DEF IInv, TypeOK
  <2> QED
      BY <1>2, <2>1 DEF IInv, TypeOK
<1>4. (DecisionIsAttested /\ DecidingIsAttested)'
    BY DecisionsStand
<1>5. (OverlapKnown /\ RowsAreResidue /\ QueueGrows /\ QueueIsTheLastParse)'
    BY QueueStands
<1>6. IdsOK'
    BY <1>2 DEF IInv, IdsOK
<1>7. AttestedIsWhole'
  <2> SUFFICES ASSUME NEW r \in attested, r[1] = "AUDIT_RUN"
               PROVE  r[2] \in DOMAIN runs' /\ Whole(r[2])'
      BY DEF AttestedIsWhole
  <2>1. r[2] \in DOMAIN runs /\ Whole(r[2])
      BY DEF IInv, AttestedIsWhole
  <2> QED
      BY <1>2, <2>1 DEF Whole
<1>8. StoredIsAttested'
    BY <1>1, <1>2 DEF IInv, StoredIsAttested, Whole
<1> QED
    BY <1>3, <1>4, <1>5, <1>6, <1>7, <1>8 DEF IInv

\* The chain is told of a run that is whole.
LEMMA AttestIInv ==
    ASSUME IInv, NEW a \in Auditor, Attest(a)
    PROVE  IInv'
<1> USE DEF Attest, Saved, At, RunRecord
<1>1. /\ job[a].id \in DOMAIN runs /\ Whole(job[a].id)
      /\ attested' = attested \cup {<<"AUDIT_RUN", job[a].id>>}
    BY DEF IInv, IdsOK
<1>2. job'[a] = Idle /\ \A b \in Auditor : b # a => job'[b] = job[b]
    BY DEF IInv, TypeOK
<1>3. TypeOK'
    BY <1>2 DEF IInv, TypeOK
<1>4. (DecisionIsAttested /\ DecidingIsAttested)'
    BY <1>1, DecisionsStand
<1>5. (OverlapKnown /\ RowsAreResidue /\ QueueGrows /\ QueueIsTheLastParse)'
    BY <1>2, QueueStands
<1>6. IdsOK'
    BY <1>2 DEF IInv, IdsOK
<1>7. AttestedIsWhole'
    BY <1>1 DEF IInv, AttestedIsWhole, Whole
<1>8. StoredIsAttested'
    BY <1>1, <1>2 DEF IInv, StoredIsAttested, Whole
<1> QED
    BY <1>3, <1>4, <1>5, <1>6, <1>7, <1>8 DEF IInv

\* An administrator decides a shape, or a pack starts or stops reading it.
LEMMA DecisionIInv ==
    ASSUME IInv, NEW s \in Taught,
           Decide(s) \/ StoreExample(s) \/ RefuseExample(s) \/ Activate(s) \/ Withdraw(s)
    PROVE  IInv'
<1>1. /\ UNCHANGED <<queue, runs, job, settled, failed, audits>>
      /\ attested' = attested \/ attested' = attested \cup {<<"ADMIN_CONFIRMED", s>>}
    BY DEF Decide, StoreExample, RefuseExample, Activate, Withdraw
<1>2. TypeOK'
    BY <1>1, TextAssumption
    DEF Decide, StoreExample, RefuseExample, Activate, Withdraw, IInv, TypeOK
<1>3. (DecisionIsAttested /\ DecidingIsAttested)'
    BY DEF Decide, StoreExample, RefuseExample, Activate, Withdraw, IInv,
        DecisionIsAttested, DecidingIsAttested
<1>4. (OverlapKnown /\ RowsAreResidue /\ QueueGrows /\ QueueIsTheLastParse)'
    BY <1>1, QueueStands
<1>5. IdsOK'
    BY <1>1 DEF IInv, IdsOK
<1>6. AttestedIsWhole' /\ StoredIsAttested'
    BY <1>1 DEF IInv, AttestedIsWhole, StoredIsAttested, Whole
<1> QED
    BY <1>2, <1>3, <1>4, <1>5, <1>6 DEF IInv

\* The process dies: requests and decisions in flight are gone.
LEMMA CrashIInv ==
    ASSUME IInv, Crash
    PROVE  IInv'
<1> USE DEF Crash
<1>1. TypeOK'
    BY DEF IInv, TypeOK
<1>2. DecisionIsAttested' /\ DecidingIsAttested'
    BY DEF IInv, DecisionIsAttested, DecidingIsAttested
<1>3. (OverlapKnown /\ RowsAreResidue /\ QueueGrows /\ QueueIsTheLastParse)'
    BY QueueStands
<1>4. IdsOK' /\ AttestedIsWhole' /\ StoredIsAttested'
    BY DEF IInv, IdsOK, AttestedIsWhole, StoredIsAttested, Whole
<1> QED
    BY <1>1, <1>2, <1>3, <1>4 DEF IInv

\* Nothing happens.
LEMMA StutterIInv ==
    ASSUME IInv, UNCHANGED vars
    PROVE  IInv'
<1> USE DEF vars
<1>1. TypeOK'
    BY DEF IInv, TypeOK
<1>2. (DecisionIsAttested /\ DecidingIsAttested)'
    BY DecisionsStand
<1>3. (IdsOK /\ AttestedIsWhole /\ StoredIsAttested)'
    BY RunsStand
<1>4. (OverlapKnown /\ RowsAreResidue /\ QueueGrows /\ QueueIsTheLastParse)'
    BY QueueStands
<1> QED
    BY <1>1, <1>2, <1>3, <1>4 DEF IInv

LEMMA NextIInv == IInv /\ [Next]_vars => IInv'
BY ParseIInv, ClearIInv, QueueLineIInv, QueuedIInv, LeaveIInv, InsertRunIInv,
   InsertFindingIInv, AttestIInv, DecisionIInv, CrashIInv, StutterIInv
DEF Next, Work

-----------------------------------------------------------------------------

\* The inductive invariant holds in every behaviour.
THEOREM Invariance == Spec => []IInv
BY InitIInv, NextIInv, PTL DEF Spec

\* What the variables hold: every row, request and record is well formed.
THEOREM TypeCorrect == Spec => []TypeOK
<1>1. IInv => TypeOK
    BY DEF IInv
<1> QED
    BY <1>1, Invariance, PTL

\* No decision is stored, and no pattern parsed with, that the chain does not
\* attest: confirm() appends first (api/train/service.py).
THEOREM DecisionsAreAttested == Spec => []DecisionIsAttested
<1>1. IInv => DecisionIsAttested
    BY DEF IInv
<1> QED
    BY <1>1, Invariance, PTL

\* The chain names no run that the database cannot show in full, and what was
\* stored is attested unless something failed, although save_run is a
\* statement at a time (api/db/findings.py, api/routers/audits.py).
THEOREM RunsAlwaysAgree == Spec => []RunsAgreeWithTheChain
<1>1. IInv => RunsAgreeWithTheChain
    BY DEF IInv, AttestedIsWhole, StoredIsAttested, RunsAgreeWithTheChain
<1> QED
    BY <1>1, Invariance, PTL

\* The queue of a file is the residue of its last parse, whatever the order of
\* statements of other requests, unless two of them queue one file at once
\* (api/train/service.py record_residue).
THEOREM QueueAlwaysTheLastParse == Spec => []QueueIsTheLastParse
<1>1. IInv => QueueIsTheLastParse
    BY DEF IInv
<1> QED
    BY <1>1, Invariance, PTL

=============================================================================
