------------------------- MODULE PackLifecycleProofs -------------------------
(***************************************************************************)
(* Theorems about PackLifecycle, for any requests of any administrators    *)
(* and parsers, wherever they interleave: what the record names is on      *)
(* disk, what it chooses is attested, and the loader finds its packs       *)
(* unless a failure or a lost choice came before.                          *)
(***************************************************************************)
EXTENDS PackLifecycle, TLAPS

-----------------------------------------------------------------------------
(* The inductive invariant.                                                *)

Fields == {"kind", "platform", "version", "example", "pattern", "files", "pins", "pack"}
Points == {"idle", "scanned", "drafted", "draft_open", "written", "loaded", "ready",
           "active_open", "activated", "recalled", "record_open", "saved", "cleared"}

Drafting == {"scanned", "drafted", "draft_open", "written", "loaded", "ready", "active_open"}

\* A request past its start has its local variables; a rollback writes no pack.
ShapeOK ==
    /\ at \in [Admin -> Points]
    /\ DOMAIN job = Admin
    /\ \A a \in Admin :
          /\ at[a] # "idle" => DOMAIN job[a] = Fields
          /\ at[a] \in Drafting => job[a].kind # "rollback"

Disk == DOMAIN trained \cup DOMAIN Shipped

\* So is what a request holds of the record, to write it back, and the version
\* it is about to choose.
HeldOnDisk ==
    \A a \in Admin :
        /\ at[a] \in Holding =>
              \A p \in DOMAIN job[a].pins : <<p, job[a].pins[p]>> \in Disk
        /\ at[a] \in {"activated", "record_open"} => Key(job[a]) \in Disk

\* A choice is attested, or its request is on the way to the append.
Settled(k) ==
    \/ <<"PACK_ACTIVATED", k[1], k[2]>> \in chain
    \/ <<"PACK_ROLLED_BACK", k[1], k[2]>> \in chain
    \/ \E a \in Admin : at[a] \in {"saved", "cleared"} /\ Key(job[a]) = k

ChoicesSettled ==
    ~failed =>
        /\ \A p \in DOMAIN pins : Settled(<<p, pins[p]>>)
        /\ \A a \in Admin :
              at[a] \in Holding =>
                  \A p \in DOMAIN job[a].pins : Settled(<<p, job[a].pins[p]>>)

\* Unless two requests have crossed, one at a time holds the record, as it is.
HeldAsRead ==
    ~crossed =>
        /\ \A a, b \in Admin : at[a] \in Holding /\ at[b] \in Holding => a = b
        /\ \A a \in Admin :
              /\ at[a] \in Holding \ {"record_open"} => job[a].pins = pins
              /\ at[a] = "record_open" => pins = NoPins

\* A file is torn only while a request has it open.
TornIsOpen ==
    ~failed =>
        \A k \in DOMAIN trained :
            trained[k] = Torn =>
                \E a \in Admin :
                    at[a] \in {"draft_open", "active_open"} /\ Key(job[a]) = k

\* The platform is pinned, or a request is about to pin it.
Pinned(k) ==
    \/ k[1] \in DOMAIN pins
    \/ \E a \in Admin :
          /\ at[a] \in {"activated", "record_open"}
          /\ job[a].kind # "rollback"
          /\ Key(job[a]) = k
    \/ \E a \in Admin : at[a] = "record_open" /\ k[1] \in DOMAIN job[a].pins

ActiveIsPinned ==
    ~failed /\ ~crossed =>
        \A k \in DOMAIN trained : trained[k].status = "ACTIVE" => Pinned(k)

KeysOK == \A k \in DOMAIN trained : k = <<k[1], k[2]>>

IInv ==
    /\ ShapeOK
    /\ KeysOK
    /\ ChoicesOnDisk
    /\ HeldOnDisk
    /\ ChoicesSettled
    /\ HeldAsRead
    /\ TornIsOpen
    /\ ActiveIsPinned

-----------------------------------------------------------------------------
(* What a request's step leaves to the others.                             *)

\* The other requests stand where they stood, with what they had.
Others(a) ==
    /\ at' \in [Admin -> Points]
    /\ DOMAIN job' = Admin
    /\ \A b \in Admin : b # a => at'[b] = at[b] /\ job'[b] = job[b]

LEMMA Moved ==
    ASSUME ShapeOK, NEW a \in Admin, NEW from, NEW to \in Points, NEW j,
           Step(a, from, to), job' = [job EXCEPT ![a] = j]
    PROVE  Others(a) /\ at[a] = from /\ at'[a] = to /\ job'[a] = j
    BY DEF ShapeOK, Step, Others

LEMMA MovedOn ==
    ASSUME ShapeOK, NEW a \in Admin, NEW from, NEW to \in Points,
           Step(a, from, to), job' = job
    PROVE  Others(a) /\ at[a] = from /\ at'[a] = to /\ job'[a] = job[a]
    BY DEF ShapeOK, Step, Others

LEMMA Ended ==
    ASSUME ShapeOK, NEW a \in Admin, End(a)
    PROVE  Others(a) /\ at'[a] = "idle"
    BY DEF ShapeOK, End, Others, Points

\* A step that leaves the store alone, ends or moves to a point where nothing
\* is held or open, and comes from none where something was.
Quiet(a) ==
    /\ Others(a)
    /\ at[a] \in {"idle", "scanned", "drafted", "written", "loaded", "ready", "recalled"}
    /\ at'[a] \in {"idle", "scanned", "drafted", "written", "loaded"}
    /\ at'[a] # "idle" => DOMAIN job'[a] = Fields /\ job'[a].kind # "rollback"
    /\ UNCHANGED <<store, crossed, failed>>
    /\ chain \subseteq chain'

LEMMA QuietStep ==
    ASSUME IInv, NEW a \in Admin, Quiet(a)
    PROVE  IInv'
<1> USE DEF IInv, Quiet, Others, store
<1>1. ShapeOK'
    BY DEF ShapeOK, Drafting
<1>2. KeysOK' /\ ChoicesOnDisk'
    BY DEF KeysOK, ChoicesOnDisk
<1>3. HeldOnDisk'
    BY DEF HeldOnDisk, Holding, Disk, Key
<1>4. ChoicesSettled'
  <2>1. \A k : Settled(k) => Settled(k)'
      BY DEF Settled, Key
  <2> QED
      BY <2>1 DEF ChoicesSettled, Holding
<1>5. HeldAsRead'
    BY DEF HeldAsRead, Holding
<1>6. TornIsOpen'
    BY DEF TornIsOpen, Key
<1>7. ActiveIsPinned'
    BY DEF ActiveIsPinned, Pinned, Key
<1> QED
    BY <1>1, <1>2, <1>3, <1>4, <1>5, <1>6, <1>7

-----------------------------------------------------------------------------
(* The quiet steps: drafting, loading, refusing.                           *)

LEMMA JobFields ==
    ASSUME NEW kind, NEW p
    PROVE  DOMAIN Job(kind, p) = Fields /\ Job(kind, p).kind = kind
    BY DEF Job, Fields

LEMMA ScanToCompileQuiet ==
    ASSUME IInv, NEW a \in Admin, NEW p, NEW e, ScanToCompile(a, p, e)
    PROVE  Quiet(a)
<1> DEFINE j == [Job("compile", p) EXCEPT !.files = trained, !.example = e]
<1>1. DOMAIN j = Fields /\ j.kind # "rollback"
    BY JobFields DEF Fields
<1>2. Step(a, "idle", "scanned") /\ job' = [job EXCEPT ![a] = j]
    BY DEF ScanToCompile, Start
<1>3. Others(a) /\ at[a] = "idle" /\ at'[a] = "scanned" /\ job'[a] = j
  <2> HIDE DEF j
  <2> QED
      BY <1>2, Moved DEF IInv, Points
<1> QED
    BY <1>1, <1>3 DEF Quiet, ScanToCompile, Start, store

LEMMA ScanToWithdrawQuiet ==
    ASSUME IInv, NEW a \in Admin, NEW p, NEW n, ScanToWithdraw(a, p, n)
    PROVE  Quiet(a)
<1> DEFINE j == [Job("withdraw", p) EXCEPT !.files = trained, !.pattern = n]
<1>1. DOMAIN j = Fields /\ j.kind # "rollback"
    BY JobFields DEF Fields
<1>2. Step(a, "idle", "scanned") /\ job' = [job EXCEPT ![a] = j]
    BY DEF ScanToWithdraw, Start
<1>3. Others(a) /\ at[a] = "idle" /\ at'[a] = "scanned" /\ job'[a] = j
  <2> HIDE DEF j
  <2> QED
      BY <1>2, Moved DEF IInv, Points
<1> QED
    BY <1>1, <1>3 DEF Quiet, ScanToWithdraw, Start, store

LEMMA LoadDraftQuiet ==
    ASSUME IInv, NEW a \in Admin, NEW p, NEW v, LoadDraft(a, p, v)
    PROVE  Quiet(a)
<1> DEFINE j == [Job("activate", p) EXCEPT !.version = v,
                                           !.pack = FindVersion(trained, <<p, v>>)]
<1>1. DOMAIN j = Fields /\ j.kind # "rollback"
    BY JobFields DEF Fields
<1>2. Step(a, "idle", "loaded") /\ job' = [job EXCEPT ![a] = j]
    BY DEF LoadDraft, Start
<1>3. Others(a) /\ at[a] = "idle" /\ at'[a] = "loaded" /\ job'[a] = j
  <2> HIDE DEF j
  <2> QED
      BY <1>2, Moved DEF IInv, Points
<1> QED
    BY <1>1, <1>3 DEF Quiet, LoadDraft, Start, store

LEMMA BuildDraftQuiet ==
    ASSUME IInv, NEW a \in Admin, BuildDraft(a)
    PROVE  Quiet(a)
<1> DEFINE draft == [platform |-> job[a].platform,
                     version |-> BumpPatch(Base(a).version),
                     patterns |-> DraftPatterns(job[a], Base(a))]
<1> DEFINE j == [job[a] EXCEPT !.version = draft.version, !.pack = draft, !.files = None]
<1>1. DOMAIN j = Fields /\ j.kind # "rollback"
    BY DEF IInv, ShapeOK, BuildDraft, Step, Fields, Drafting
<1>2. job' = [job EXCEPT ![a].version = draft.version,
                         ![a].pack = draft, ![a].files = None]
    BY DEF BuildDraft
<1>3. job' = [job EXCEPT ![a] = j]
  <2> HIDE DEF draft
  <2> QED
      BY <1>2 DEF IInv, ShapeOK
<1>4. Others(a) /\ at[a] = "scanned" /\ at'[a] = "drafted" /\ job'[a] = j
  <2>1. Step(a, "scanned", "drafted")
      BY DEF BuildDraft
  <2> HIDE DEF j
  <2> QED
      BY <2>1, <1>3, Moved DEF IInv, Points
<1> QED
    BY <1>1, <1>4 DEF Quiet, BuildDraft, store, ghosts

LEMMA NoDraftQuiet ==
    ASSUME IInv, NEW a \in Admin, NoDraft(a)
    PROVE  Quiet(a)
<1>1. Others(a) /\ at'[a] = "idle"
    BY Ended DEF IInv, NoDraft, Raise
<1> QED
    BY <1>1 DEF Quiet, NoDraft, Raise, store, ghosts

LEMMA NoTargetQuiet ==
    ASSUME IInv, NEW a \in Admin, NoTarget(a)
    PROVE  Quiet(a)
<1>1. Others(a) /\ at'[a] = "idle"
    BY Ended DEF IInv, NoTarget, Raise
<1> QED
    BY <1>1 DEF Quiet, NoTarget, Raise, store, ghosts

LEMMA AppendCreatedQuiet ==
    ASSUME IInv, NEW a \in Admin, AppendCreated(a)
    PROVE  Quiet(a)
<1>1. UNCHANGED <<store, crossed, failed>> /\ chain \subseteq chain' /\ at[a] = "written"
    BY DEF AppendCreated
<1>2. CASE job[a].kind = "compile"
  <2>1. Others(a) /\ at'[a] = "idle"
      BY <1>2, Ended DEF IInv, AppendCreated
  <2> QED
      BY <1>1, <2>1 DEF Quiet
<1>3. CASE job[a].kind # "compile"
  <2>1. Step(a, "written", "loaded") /\ job' = job
      BY <1>3 DEF AppendCreated
  <2>2. Others(a) /\ at'[a] = "loaded" /\ job'[a] = job[a]
      BY <2>1, MovedOn DEF IInv, Points
  <2> QED
      BY <1>1, <2>2 DEF Quiet, IInv, ShapeOK, Drafting
<1> QED
    BY <1>2, <1>3

-----------------------------------------------------------------------------
(* The writes of a pack.                                                   *)

\* A step of a that writes its file, from a point where nothing is pinned by
\* it to one where nothing is yet.
Writes(a, file) ==
    /\ Others(a)
    /\ at[a] # "idle" /\ job'[a] = job[a]
    /\ trained' = WithFile(trained, Key(job[a]), file)
    /\ UNCHANGED <<pins, chain, crossed, failed>>

LEMMA WriteStep ==
    ASSUME IInv, NEW a \in Admin, NEW file, Writes(a, file),
           \/ at[a] = "drafted" /\ at'[a] \in {"draft_open", "written"}
           \/ at[a] = "draft_open" /\ at'[a] = "written"
           \/ at[a] = "ready" /\ at'[a] \in {"active_open", "activated"}
           \/ at[a] = "active_open" /\ at'[a] = "activated",
           file = Torn <=> at'[a] \in {"draft_open", "active_open"},
           file.status = "ACTIVE" => at'[a] = "activated" /\ job[a].kind # "rollback"
    PROVE  IInv'
<1> USE DEF IInv, Writes, Others
<1> DEFINE k == Key(job[a])
<1>1. /\ DOMAIN trained' = DOMAIN trained \cup {k}
      /\ trained'[k] = file
      /\ \A i \in DOMAIN trained : i # k => trained'[i] = trained[i]
    BY DEF WithFile
<1>2. \A b \in Admin : job'[b] = job[b]
    OBVIOUS
<1>3. ShapeOK'
    BY DEF ShapeOK, Drafting
<1>4. KeysOK'
    BY <1>1 DEF KeysOK, Key
<1>5. Disk \subseteq Disk' /\ k \in Disk'
    BY <1>1 DEF Disk
<1>6. ChoicesOnDisk'
    BY <1>5 DEF ChoicesOnDisk, Disk
<1>7. HeldOnDisk'
    BY <1>2, <1>5 DEF HeldOnDisk, Holding, Key
<1>8. ChoicesSettled'
  <2>1. \A i : Settled(i) => Settled(i)'
      BY <1>2 DEF Settled, Key
  <2> QED
      BY <1>2, <2>1 DEF ChoicesSettled, Holding
<1>9. HeldAsRead'
    BY <1>2 DEF HeldAsRead, Holding
<1>10. TornIsOpen'
    BY <1>1, <1>2 DEF TornIsOpen, Key
<1>11. ActiveIsPinned'
  <2>1. \A i : Pinned(i) => Pinned(i)'
      BY <1>2 DEF Pinned, Key
  <2> QED
      BY SMTT(20), <1>1, <1>2, <2>1 DEF ActiveIsPinned, Pinned, Key
<1> QED
    BY <1>3, <1>4, <1>6, <1>7, <1>8, <1>9, <1>10, <1>11

LEMMA OpenDraftStep ==
    ASSUME IInv, NEW a \in Admin, OpenDraft(a)
    PROVE  IInv'
<1>1. Step(a, "drafted", "draft_open") /\ job' = job
    BY DEF OpenDraft
<1>2. Others(a) /\ at[a] = "drafted" /\ at'[a] = "draft_open" /\ job'[a] = job[a]
    BY <1>1, MovedOn DEF IInv, Points
<1>3. Writes(a, Torn)
    BY <1>2 DEF OpenDraft, Writes, ghosts
<1> QED
    BY <1>2, <1>3, WriteStep DEF Torn

LEMMA FillDraftStep ==
    ASSUME IInv, NEW a \in Admin, FillDraft(a)
    PROVE  IInv'
<1> DEFINE from == IF WholeWrites THEN "drafted" ELSE "draft_open"
<1>1. Step(a, from, "written") /\ job' = job
    BY DEF FillDraft
<1>2. Others(a) /\ at[a] = from /\ at'[a] = "written" /\ job'[a] = job[a]
    BY <1>1, MovedOn DEF IInv, Points
<1>3. Writes(a, DraftFile(job[a]))
    BY <1>2 DEF FillDraft, Writes
<1>4. DraftFile(job[a]).status = "DRAFT" /\ DraftFile(job[a]) # Torn
    BY DEF DraftFile, File, Torn
<1> QED
    BY <1>2, <1>3, <1>4, WriteStep

LEMMA OpenActiveStep ==
    ASSUME IInv, NEW a \in Admin, OpenActive(a)
    PROVE  IInv'
<1>1. Step(a, "ready", "active_open") /\ job' = job
    BY DEF OpenActive
<1>2. Others(a) /\ at[a] = "ready" /\ at'[a] = "active_open" /\ job'[a] = job[a]
    BY <1>1, MovedOn DEF IInv, Points
<1>3. Writes(a, Torn)
    BY <1>2 DEF OpenActive, Writes, ghosts
<1> QED
    BY <1>2, <1>3, WriteStep DEF Torn

LEMMA FillActiveStep ==
    ASSUME IInv, NEW a \in Admin, FillActive(a)
    PROVE  IInv'
<1> DEFINE from == IF WholeWrites THEN "ready" ELSE "active_open"
<1> DEFINE file == File("ACTIVE", job[a].pack)
<1>1. Step(a, from, "activated") /\ job' = job
    BY DEF FillActive
<1>2. Others(a) /\ at[a] = from /\ at'[a] = "activated" /\ job'[a] = job[a]
    BY <1>1, MovedOn DEF IInv, Points
<1>3. Writes(a, file)
    BY <1>2 DEF FillActive, Writes, ghosts
<1>4. file.status = "ACTIVE" /\ file # Torn
    BY DEF File, Torn
<1>5. job[a].kind # "rollback"
    BY <1>2 DEF IInv, ShapeOK, Drafting
<1> HIDE DEF file
<1> QED
    BY <1>2, <1>3, <1>4, <1>5, WriteStep

-----------------------------------------------------------------------------
(* Reading the record.                                                     *)

\* A step of a that reads the record and holds what it read.
Takes(a) ==
    /\ Others(a)
    /\ at[a] \in {"idle", "loaded"} /\ at'[a] \in {"ready", "recalled"}
    /\ DOMAIN job'[a] = Fields
    /\ at'[a] = "ready" => job'[a].kind # "rollback"
    /\ job'[a].pins = pins
    /\ Hold(a)
    /\ UNCHANGED <<store, chain, failed>>

LEMMA TakeStep ==
    ASSUME IInv, NEW a \in Admin, Takes(a)
    PROVE  IInv'
<1> USE DEF IInv, Takes, Others, store
<1>1. ShapeOK'
    BY DEF ShapeOK, Drafting
<1>2. KeysOK' /\ ChoicesOnDisk'
    BY DEF KeysOK, ChoicesOnDisk
<1>3. HeldOnDisk'
    BY DEF HeldOnDisk, Holding, Disk, Key, ChoicesOnDisk
<1>4. ChoicesSettled'
  <2>1. \A k : Settled(k) => Settled(k)'
      BY DEF Settled, Key
  <2> QED
      BY <2>1 DEF ChoicesSettled, Holding
<1>5. HeldAsRead'
  <2>1. ~crossed' => ~crossed /\ \A b \in Admin \ {a} : at[b] \notin Holding
      BY DEF Hold
  <2>2. \A b \in Admin \ {a} : at'[b] \in Holding <=> at[b] \in Holding
      OBVIOUS
  <2>3. at'[a] # "record_open" /\ job'[a].pins = pins'
      OBVIOUS
  <2> QED
      BY <2>1, <2>2, <2>3 DEF HeldAsRead, Holding
<1>6. TornIsOpen'
    BY DEF TornIsOpen, Key
<1>7. ActiveIsPinned'
  <2>1. \A k : Pinned(k) => Pinned(k)'
      BY DEF Pinned, Key
  <2>2. ~crossed' => ~crossed
      BY DEF Hold
  <2> QED
      BY <2>1, <2>2 DEF ActiveIsPinned
<1> QED
    BY <1>1, <1>2, <1>3, <1>4, <1>5, <1>6, <1>7

LEMMA ReadRecordStep ==
    ASSUME IInv, NEW a \in Admin, ReadRecord(a)
    PROVE  IInv'
<1> DEFINE j == [job[a] EXCEPT !.pins = pins]
<1>1. Step(a, "loaded", "ready") /\ job' = [job EXCEPT ![a] = j]
    BY DEF ReadRecord, IInv, ShapeOK
<1>2. /\ DOMAIN job[a] = Fields /\ job[a].kind # "rollback"
    BY <1>1 DEF IInv, ShapeOK, Drafting, Step
<1>3. DOMAIN j = Fields /\ j.kind # "rollback" /\ j.pins = pins
    BY <1>2 DEF Fields
<1>4. Others(a) /\ at[a] = "loaded" /\ at'[a] = "ready" /\ job'[a] = j
  <2> HIDE DEF j
  <2> QED
      BY <1>1, Moved DEF IInv, Points
<1>5. Takes(a)
    BY <1>3, <1>4 DEF Takes, ReadRecord, store
<1> QED
    BY <1>5, TakeStep

LEMMA StartRollbackStep ==
    ASSUME IInv, NEW a \in Admin, NEW p, NEW v, StartRollback(a, p, v)
    PROVE  IInv'
<1> DEFINE j == [Job("rollback", p) EXCEPT !.version = v, !.pins = pins]
<1>1. Step(a, "idle", "recalled") /\ job' = [job EXCEPT ![a] = j]
    BY DEF StartRollback, Start
<1>2. DOMAIN j = Fields /\ j.pins = pins
    BY JobFields DEF Fields
<1>3. Others(a) /\ at[a] = "idle" /\ at'[a] = "recalled" /\ job'[a] = j
  <2> HIDE DEF j
  <2> QED
      BY <1>1, Moved DEF IInv, Points
<1>4. Takes(a)
    BY <1>2, <1>3 DEF Takes, StartRollback, Start, store
<1> QED
    BY <1>4, TakeStep

-----------------------------------------------------------------------------
(* Choosing: the record is written, the cache cleared, the choice attested. *)

LEMMA FindTargetStep ==
    ASSUME IInv, NEW a \in Admin, FindTarget(a)
    PROVE  IInv'
<1>1. Step(a, "recalled", "activated") /\ job' = job
    BY DEF FindTarget
<1>2. Others(a) /\ at[a] = "recalled" /\ at'[a] = "activated" /\ job'[a] = job[a]
    BY <1>1, MovedOn DEF IInv, Points
<1>3. UNCHANGED <<trained, pins, chain, job, crossed, failed>>
    BY DEF FindTarget, store, ghosts
<1>4. Key(job[a]) \in Disk
    BY DEF FindTarget, Target, FindVersion, Disk
<1> USE DEF IInv, Others
<1>5. ShapeOK'
    BY <1>2, <1>3 DEF ShapeOK, Drafting
<1>6. KeysOK' /\ ChoicesOnDisk'
    BY <1>3 DEF KeysOK, ChoicesOnDisk
<1>7. HeldOnDisk'
    BY <1>2, <1>3, <1>4 DEF HeldOnDisk, Holding, Disk, Key
<1>8. ChoicesSettled'
  <2>1. \A k : Settled(k) => Settled(k)'
      BY <1>2, <1>3 DEF Settled, Key
  <2> QED
      BY <1>2, <1>3, <2>1 DEF ChoicesSettled, Holding
<1>9. HeldAsRead'
    BY <1>2, <1>3 DEF HeldAsRead, Holding
<1>10. TornIsOpen'
    BY <1>2, <1>3 DEF TornIsOpen, Key
<1>11. ActiveIsPinned'
  <2>1. \A k : Pinned(k) => Pinned(k)'
      BY <1>2, <1>3 DEF Pinned, Key
  <2> QED
      BY <1>3, <2>1 DEF ActiveIsPinned
<1> QED
    BY <1>5, <1>6, <1>7, <1>8, <1>9, <1>10, <1>11

LEMMA ReloadFailsStep ==
    ASSUME IInv, NEW a \in Admin, ReloadFails(a)
    PROVE  IInv'
<1>1. Others(a) /\ at[a] = "activated" /\ at'[a] = "idle"
    BY Ended DEF ReloadFails, Raise, IInv
<1>2. UNCHANGED <<trained, pins, chain, crossed, failed>>
    BY DEF ReloadFails, Raise, store, ghosts
<1>3. trained[Key(job[a])].status # "ACTIVE"
    BY DEF ReloadFails, Torn
<1> USE DEF IInv, Others
<1>5. ShapeOK'
    BY <1>1 DEF ShapeOK, Drafting
<1>6. KeysOK' /\ ChoicesOnDisk'
    BY <1>2 DEF KeysOK, ChoicesOnDisk
<1>7. HeldOnDisk'
    BY <1>1, <1>2 DEF HeldOnDisk, Holding, Disk, Key
<1>8. ChoicesSettled'
  <2>1. \A k : Settled(k) => Settled(k)'
      BY <1>1, <1>2 DEF Settled, Key
  <2> QED
      BY <1>1, <1>2, <2>1 DEF ChoicesSettled, Holding
<1>9. HeldAsRead'
    BY <1>1, <1>2 DEF HeldAsRead, Holding
<1>10. TornIsOpen'
    BY <1>1, <1>2 DEF TornIsOpen, Key
<1>11. ActiveIsPinned'
  <2>1. \A k : Pinned(k) /\ k # Key(job[a]) => Pinned(k)'
      BY <1>1, <1>2 DEF Pinned, Key
  <2> QED
      BY <1>2, <1>3, <2>1 DEF ActiveIsPinned
<1> QED
    BY <1>5, <1>6, <1>7, <1>8, <1>9, <1>10, <1>11

LEMMA OpenRecordStep ==
    ASSUME IInv, NEW a \in Admin, OpenRecord(a)
    PROVE  IInv'
<1>1. Step(a, "activated", "record_open") /\ job' = job
    BY DEF OpenRecord
<1>2. Others(a) /\ at[a] = "activated" /\ at'[a] = "record_open" /\ job'[a] = job[a]
    BY <1>1, MovedOn DEF IInv, Points
<1>3. UNCHANGED <<trained, chain, job, crossed, failed>> /\ pins' = NoPins
    BY DEF OpenRecord, ghosts
<1>4. DOMAIN pins' = {}
    BY <1>3 DEF NoPins
<1> USE DEF IInv, Others
<1>5. ShapeOK'
    BY <1>2, <1>3 DEF ShapeOK, Drafting
<1>6. KeysOK' /\ ChoicesOnDisk'
    BY <1>3, <1>4 DEF KeysOK, ChoicesOnDisk
<1>7. HeldOnDisk'
    BY <1>2, <1>3 DEF HeldOnDisk, Holding, Disk, Key
<1>8. ChoicesSettled'
  <2>1. \A k : Settled(k) => Settled(k)'
      BY <1>2, <1>3 DEF Settled, Key
  <2> QED
      BY <1>2, <1>3, <1>4, <2>1 DEF ChoicesSettled, Holding
<1>9. HeldAsRead'
    BY <1>2, <1>3 DEF HeldAsRead, Holding
<1>10. TornIsOpen'
    BY <1>2, <1>3 DEF TornIsOpen, Key
<1>11. ActiveIsPinned'
  <2>1. ~crossed => job[a].pins = pins
      BY <1>2 DEF HeldAsRead, Holding
  <2>2. ~crossed => \A k : Pinned(k) => Pinned(k)'
      BY <1>2, <1>3, <2>1 DEF Pinned, Key
  <2> QED
      BY <1>3, <2>2 DEF ActiveIsPinned
<1> QED
    BY <1>5, <1>6, <1>7, <1>8, <1>9, <1>10, <1>11

LEMMA SaveRecordStep ==
    ASSUME IInv, NEW a \in Admin, SaveRecord(a)
    PROVE  IInv'
<1> DEFINE from == IF WholeWrites THEN "activated" ELSE "record_open"
<1> DEFINE j == job[a]
<1>1. Step(a, from, "saved") /\ job' = job
    BY DEF SaveRecord
<1>2. Others(a) /\ at[a] = from /\ at'[a] = "saved" /\ job'[a] = job[a]
    BY <1>1, MovedOn DEF IInv, Points
<1>3. /\ UNCHANGED <<trained, chain, job, crossed, failed>>
      /\ pins' = WithPin(j.pins, j.platform, j.version)
    BY DEF SaveRecord, SavedPins
<1>4. /\ DOMAIN pins' = DOMAIN j.pins \cup {j.platform}
      /\ \A p \in DOMAIN pins' :
            pins'[p] = IF p = j.platform THEN j.version ELSE j.pins[p]
    BY <1>3 DEF WithPin
<1> USE DEF IInv, Others
<1>5. ShapeOK'
    BY <1>2, <1>3 DEF ShapeOK, Drafting
<1>6. KeysOK' /\ ChoicesOnDisk'
  <2>1. Key(j) \in Disk /\ \A p \in DOMAIN j.pins : <<p, j.pins[p]>> \in Disk
      BY <1>2 DEF HeldOnDisk, Holding
  <2> QED
      BY <1>3, <1>4, <2>1 DEF KeysOK, ChoicesOnDisk, Disk, Key
<1>7. HeldOnDisk'
    BY <1>2, <1>3 DEF HeldOnDisk, Holding, Disk, Key
<1>8. ChoicesSettled'
  <2>1. \A k : Settled(k) => Settled(k)'
      BY <1>2, <1>3 DEF Settled, Key
  <2>2. ~failed => \A p \in DOMAIN j.pins : Settled(<<p, j.pins[p]>>)
      BY <1>2 DEF ChoicesSettled, Holding
  <2>3. ~failed => (\A p \in DOMAIN pins : Settled(<<p, pins[p]>>))'
    <3> SUFFICES ASSUME ~failed, NEW p \in DOMAIN pins'
                 PROVE  Settled(<<p, pins[p]>>)'
        OBVIOUS
    <3>1. CASE p = j.platform
      <4>1. Key(job'[a]) = <<p, pins'[p]>>
          BY <1>3, <1>4, <3>1 DEF Key
      <4> QED
          BY <1>2, <4>1 DEF Settled, Key
    <3>2. CASE p # j.platform
      <4>1. Settled(<<p, j.pins[p]>>) /\ pins'[p] = j.pins[p]
          BY <1>4, <2>2, <3>2
      <4> QED
          BY <1>2, <1>3, <4>1 DEF Settled, Key
    <3> QED
        BY <3>1, <3>2
  <2> QED
      BY <1>2, <1>3, <2>1, <2>3 DEF ChoicesSettled, Holding
<1>9. HeldAsRead'
    BY <1>2, <1>3 DEF HeldAsRead, Holding
<1>10. TornIsOpen'
    BY <1>2, <1>3 DEF TornIsOpen, Key
<1>11. ActiveIsPinned'
  <2>1. ~crossed => DOMAIN pins \subseteq DOMAIN j.pins
      BY <1>2 DEF HeldAsRead, Holding, NoPins
  <2>2. ~crossed => \A k : Pinned(k) => Pinned(k)'
      BY <1>2, <1>3, <1>4, <2>1 DEF Pinned, Key
  <2> QED
      BY <1>3, <2>2 DEF ActiveIsPinned
<1> QED
    BY <1>5, <1>6, <1>7, <1>8, <1>9, <1>10, <1>11

LEMMA ClearCacheStep ==
    ASSUME IInv, NEW a \in Admin, ClearCache(a)
    PROVE  IInv'
<1>1. Step(a, "saved", "cleared") /\ job' = job
    BY DEF ClearCache
<1>2. Others(a) /\ at[a] = "saved" /\ at'[a] = "cleared" /\ job'[a] = job[a]
    BY <1>1, MovedOn DEF IInv, Points
<1>3. UNCHANGED <<trained, pins, chain, job, crossed, failed>>
    BY DEF ClearCache, store
<1> USE DEF IInv, Others
<1>5. ShapeOK'
    BY <1>2, <1>3 DEF ShapeOK, Drafting
<1>6. KeysOK' /\ ChoicesOnDisk'
    BY <1>3 DEF KeysOK, ChoicesOnDisk
<1>7. HeldOnDisk'
    BY <1>2, <1>3 DEF HeldOnDisk, Holding, Disk, Key
<1>8. ChoicesSettled'
  <2>1. \A k : Settled(k) => Settled(k)'
      BY <1>2, <1>3 DEF Settled, Key
  <2> QED
      BY <1>2, <1>3, <2>1 DEF ChoicesSettled, Holding
<1>9. HeldAsRead'
    BY <1>2, <1>3 DEF HeldAsRead, Holding
<1>10. TornIsOpen'
    BY <1>2, <1>3 DEF TornIsOpen, Key
<1>11. ActiveIsPinned'
  <2>1. \A k : Pinned(k) => Pinned(k)'
      BY <1>2, <1>3 DEF Pinned, Key
  <2> QED
      BY <1>3, <2>1 DEF ActiveIsPinned
<1> QED
    BY <1>5, <1>6, <1>7, <1>8, <1>9, <1>10, <1>11

LEMMA AppendOutcomeStep ==
    ASSUME IInv, NEW a \in Admin, AppendOutcome(a)
    PROVE  IInv'
<1>1. Others(a) /\ at[a] = "cleared" /\ at'[a] = "idle"
    BY Ended DEF AppendOutcome, IInv
<1>2. UNCHANGED <<trained, pins, crossed, failed>>
    BY DEF AppendOutcome, store, ghosts
<1>3. chain' = chain \cup Outcome(job[a])
    BY DEF AppendOutcome
<1> USE DEF IInv, Others
<1>5. ShapeOK'
    BY <1>1 DEF ShapeOK, Drafting
<1>6. KeysOK' /\ ChoicesOnDisk'
    BY <1>2 DEF KeysOK, ChoicesOnDisk
<1>7. HeldOnDisk'
    BY <1>1, <1>2 DEF HeldOnDisk, Holding, Disk, Key
<1>8. ChoicesSettled'
  <2>1. \A k : Settled(k) => Settled(k)'
    <3> TAKE k
    <3>1. CASE Key(job[a]) = k
        BY <1>3, <3>1 DEF Settled, Outcome, Key
    <3>2. CASE Key(job[a]) # k
        BY <1>1, <1>3, <3>2 DEF Settled, Key
    <3> QED
        BY <3>1, <3>2
  <2> QED
      BY <1>1, <1>2, <2>1 DEF ChoicesSettled, Holding
<1>9. HeldAsRead'
    BY <1>1, <1>2 DEF HeldAsRead, Holding
<1>10. TornIsOpen'
    BY <1>1, <1>2 DEF TornIsOpen, Key
<1>11. ActiveIsPinned'
  <2>1. \A k : Pinned(k) => Pinned(k)'
      BY <1>1, <1>2 DEF Pinned, Key
  <2> QED
      BY <1>2, <2>1 DEF ActiveIsPinned
<1> QED
    BY <1>5, <1>6, <1>7, <1>8, <1>9, <1>10, <1>11

-----------------------------------------------------------------------------
(* Failures, and the parsers.                                              *)

LEMMA AppendRaisesStep ==
    ASSUME IInv, NEW a \in Admin, AppendRaises(a)
    PROVE  IInv'
<1>1. Others(a) /\ at'[a] = "idle"
    BY Ended DEF AppendRaises, IInv
<1>2. UNCHANGED <<trained, pins, crossed>> /\ failed'
    BY DEF AppendRaises, store
<1> USE DEF IInv, Others
<1>3. ShapeOK'
    BY <1>1 DEF ShapeOK, Drafting
<1>4. KeysOK' /\ ChoicesOnDisk'
    BY <1>2 DEF KeysOK, ChoicesOnDisk
<1>5. HeldOnDisk'
    BY <1>1, <1>2 DEF HeldOnDisk, Holding, Disk, Key
<1>6. HeldAsRead'
    BY <1>1, <1>2 DEF HeldAsRead, Holding
<1> QED
    BY <1>2, <1>3, <1>4, <1>5, <1>6 DEF ChoicesSettled, TornIsOpen, ActiveIsPinned

LEMMA CrashStep ==
    ASSUME IInv, Crash
    PROVE  IInv'
<1>1. /\ at' = [a \in Admin |-> "idle"] /\ job' = [a \in Admin |-> None]
      /\ UNCHANGED <<trained, pins, crossed>> /\ failed'
    BY DEF Crash, store
<1> USE DEF IInv
<1>3. ShapeOK'
    BY <1>1 DEF ShapeOK, Drafting, Points
<1>4. KeysOK' /\ ChoicesOnDisk'
    BY <1>1 DEF KeysOK, ChoicesOnDisk
<1>5. HeldOnDisk'
    BY <1>1 DEF HeldOnDisk, Holding
<1>6. HeldAsRead'
    BY <1>1 DEF HeldAsRead, Holding
<1> QED
    BY <1>1, <1>3, <1>4, <1>5, <1>6 DEF ChoicesSettled, TornIsOpen, ActiveIsPinned

\* A parser reads the store and writes the cache only.
LEMMA Unmoved ==
    ASSUME IInv, UNCHANGED <<trained, pins, chain, at, job, crossed, failed>>
    PROVE  IInv'
<1> USE DEF IInv
<1>1. ShapeOK' /\ KeysOK' /\ ChoicesOnDisk'
    BY DEF ShapeOK, KeysOK, ChoicesOnDisk
<1>2. HeldOnDisk' /\ HeldAsRead'
    BY DEF HeldOnDisk, HeldAsRead, Disk, Key
<1>3. ChoicesSettled'
    BY DEF ChoicesSettled, Settled, Key
<1>4. TornIsOpen'
    BY DEF TornIsOpen, Key
<1>5. ActiveIsPinned'
    BY DEF ActiveIsPinned, Pinned, Key
<1> QED
    BY <1>1, <1>2, <1>3, <1>4, <1>5

LEMMA ParseStep ==
    ASSUME IInv, NEW r \in Parser, Parse(r)
    PROVE  IInv'
<1>1. UNCHANGED <<trained, pins, chain, at, job, crossed, failed>>
    BY DEF Parse, CacheHit, CacheMiss, Choose, Insert, store, ghosts
<1> QED
    BY <1>1, Unmoved

-----------------------------------------------------------------------------

LEMMA Initially == Init => IInv
<1> SUFFICES ASSUME Init PROVE IInv
    OBVIOUS
<1> USE DEF Init, IInv
<1>1. ShapeOK /\ KeysOK /\ ChoicesOnDisk
    BY DEF ShapeOK, KeysOK, ChoicesOnDisk, NoPins, Points, Drafting
<1>2. HeldOnDisk /\ HeldAsRead
    BY DEF HeldOnDisk, HeldAsRead, Holding
<1>3. ChoicesSettled
    BY DEF ChoicesSettled, Holding, NoPins
<1>4. TornIsOpen /\ ActiveIsPinned
    BY DEF TornIsOpen, ActiveIsPinned
<1> QED
    BY <1>1, <1>2, <1>3, <1>4

\* Every step of every request, parser and crash preserves the invariant.
LEMMA Stepwise == IInv /\ [Next]_vars => IInv'
<1> SUFFICES ASSUME IInv, [Next]_vars PROVE IInv'
    OBVIOUS
<1>1. CASE UNCHANGED vars
    BY <1>1, Unmoved DEF vars, store, ghosts
<1>2. ASSUME NEW a \in Admin, Request(a) PROVE IInv'
  <2>1. PICK p \in Platform :
            \/ \E e \in Example : ScanToCompile(a, p, e)
            \/ \E n \in PatternIds : ScanToWithdraw(a, p, n)
            \/ \E v : LoadDraft(a, p, v) \/ StartRollback(a, p, v)
      BY <1>2 DEF Request
  <2>2. CASE \E e \in Example : ScanToCompile(a, p, e)
      BY <2>2, ScanToCompileQuiet, QuietStep
  <2>3. CASE \E n \in PatternIds : ScanToWithdraw(a, p, n)
      BY <2>3, ScanToWithdrawQuiet, QuietStep
  <2>4. CASE \E v : LoadDraft(a, p, v)
      BY <2>4, LoadDraftQuiet, QuietStep
  <2>5. CASE \E v : StartRollback(a, p, v)
      BY <2>5, StartRollbackStep
  <2> QED
      BY <2>1, <2>2, <2>3, <2>4, <2>5
<1>3. ASSUME NEW a \in Admin, Work(a) PROVE IInv'
  <2>1. CASE BuildDraft(a) \/ NoDraft(a) \/ AppendCreated(a) \/ NoTarget(a)
      BY <2>1, BuildDraftQuiet, NoDraftQuiet, AppendCreatedQuiet, NoTargetQuiet,
         QuietStep
  <2>2. CASE OpenDraft(a) \/ FillDraft(a) \/ OpenActive(a) \/ FillActive(a)
      BY <2>2, OpenDraftStep, FillDraftStep, OpenActiveStep, FillActiveStep
  <2>3. CASE ReadRecord(a) \/ FindTarget(a) \/ ReloadFails(a)
      BY <2>3, ReadRecordStep, FindTargetStep, ReloadFailsStep
  <2>4. CASE OpenRecord(a) \/ SaveRecord(a) \/ ClearCache(a)
      BY <2>4, OpenRecordStep, SaveRecordStep, ClearCacheStep
  <2>5. CASE AppendOutcome(a) \/ AppendRaises(a)
      BY <2>5, AppendOutcomeStep, AppendRaisesStep
  <2> QED
      BY <1>3, <2>1, <2>2, <2>3, <2>4, <2>5 DEF Work
<1> QED
    BY <1>1, <1>2, <1>3, ParseStep, CrashStep DEF Next

\* The invariant holds of every behaviour.
THEOREM Invariance == Spec => []IInv
    BY Initially, Stepwise, PTL DEF Spec

\* No file is open and no choice is half made.
Still ==
    \A a \in Admin : at[a] \notin {"draft_open", "active_open", "activated", "record_open"}

\* Then, with no file torn and every ACTIVE pack's platform pinned, a platform
\* is either pinned to one version, which one tree files, or has its builtin one.
LEMMA StillIsLoadable ==
    ASSUME IInv, Still, ~failed, ~crossed, FiledOnce
    PROVE  Loadable(trained, pins)
<1> DEFINE packs == Chosen(Discovered(trained), pins)
<1>1. Readable(trained)
    BY DEF Readable, IInv, TornIsOpen, Still
<1>2. \A k \in DOMAIN trained : trained[k].status = "ACTIVE" => k[1] \in DOMAIN pins
    BY DEF IInv, ActiveIsPinned, Pinned, Still
<1>3. \A f \in Discovered(trained) :
          \E k \in Disk :
              /\ k = <<k[1], k[2]>> /\ f.platform = k[1] /\ f.version = k[2]
              /\ \/ k \in DOMAIN Shipped /\ f = Pack(k, "builtin", Shipped[k])
                 \/ k \in DOMAIN trained /\ f = Pack(k, "trained", trained[k])
    BY ShippedAssumption DEF Discovered, Disk, IInv, KeysOK, Pack
<1>4. ASSUME NEW p \in DOMAIN pins
      PROVE  \E f \in packs : f.platform = p
  <2> DEFINE k == <<p, pins[p]>>
  <2>1. k \in Disk
      BY DEF IInv, ChoicesOnDisk, Disk
  <2>2. CASE k \in DOMAIN Shipped
    <3>1. Pack(k, "builtin", Shipped[k]) \in Discovered(trained)
        BY <2>2 DEF Discovered
    <3> QED
        BY <3>1 DEF Chosen, Pack
  <2>3. CASE k \in DOMAIN trained
    <3>1. Pack(k, "trained", trained[k]) \in Discovered(trained)
        BY <2>3 DEF Discovered
    <3> QED
        BY <3>1 DEF Chosen, Pack
  <2> QED
      BY <2>1, <2>2, <2>3 DEF Disk
<1>5. ASSUME NEW f \in packs, NEW g \in packs, f.platform = g.platform
      PROVE  f = g
  <2>1. f \in Discovered(trained) /\ g \in Discovered(trained)
      BY DEF Chosen
  <2>2. PICK k \in Disk :
            /\ k = <<k[1], k[2]>> /\ f.platform = k[1] /\ f.version = k[2]
            /\ \/ k \in DOMAIN Shipped /\ f = Pack(k, "builtin", Shipped[k])
               \/ k \in DOMAIN trained /\ f = Pack(k, "trained", trained[k])
      BY <1>3, <2>1
  <2>3. PICK i \in Disk :
            /\ i = <<i[1], i[2]>> /\ g.platform = i[1] /\ g.version = i[2]
            /\ \/ i \in DOMAIN Shipped /\ g = Pack(i, "builtin", Shipped[i])
               \/ i \in DOMAIN trained /\ g = Pack(i, "trained", trained[i])
      BY <1>3, <2>1
  <2>4. k = i
    <3>1. CASE f.platform \in DOMAIN pins
      <4>1. f.version = pins[f.platform] /\ g.version = pins[f.platform]
          BY <1>5, <3>1 DEF Chosen
      <4> QED
          BY <1>5, <2>2, <2>3, <4>1
    <3>2. CASE f.platform \notin DOMAIN pins
      <4>1. f.status = "ACTIVE" /\ g.status = "ACTIVE"
          BY <1>5, <3>2 DEF Chosen
      <4>2. /\ k \in DOMAIN Shipped /\ f = Pack(k, "builtin", Shipped[k])
            /\ i \in DOMAIN Shipped /\ g = Pack(i, "builtin", Shipped[i])
        <5>1. ASSUME k \in DOMAIN trained PROVE f # Pack(k, "trained", trained[k])
            BY <1>2, <2>2, <3>2, <4>1, <5>1 DEF Pack
        <5>2. ASSUME i \in DOMAIN trained PROVE g # Pack(i, "trained", trained[i])
            BY <1>2, <1>5, <2>3, <3>2, <4>1, <5>2 DEF Pack
        <5> QED
            BY <2>2, <2>3, <5>1, <5>2
      <4>3. Shipped[k].status = "ACTIVE" /\ Shipped[i].status = "ACTIVE" /\ k[1] = i[1]
          BY <1>5, <2>2, <2>3, <4>1, <4>2 DEF Pack
      <4> QED
          BY <4>2, <4>3, ShippedAssumption
    <3> QED
        BY <3>1, <3>2
  <2> QED
      BY <2>2, <2>3, <2>4 DEF FiledOnce
<1> QED
    BY <1>1, <1>4, <1>5 DEF Loadable, Loads

\* Wherever requests interleave and the process dies, the record names versions
\* that are on disk; at rest, unless a failure came before or two requests held
\* the record at once, the loader finds one pack for every platform
\* (api/train/activation.py, activate and rollback; active_packs).
THEOREM AlwaysOnePackEach == Spec => []OnePackEach
<1>1. IInv => OnePackEach
    BY StillIsLoadable DEF IInv, OnePackEach, AtRest, Still
<1> QED
    BY <1>1, Invariance, PTL

\* At rest every choice of the record is attested in the audit chain, unless an
\* append raised or the process died (api/train/service.py, activate_draft and
\* rollback_pack), even where one choice was lost under another.
THEOREM ChoicesAlwaysAttested == Spec => []ChoicesAttested
<1>1. IInv => ChoicesAttested
    BY DEF IInv, ChoicesSettled, Settled, ChoicesAttested, AtRest
<1> QED
    BY <1>1, Invariance, PTL

-----------------------------------------------------------------------------
(* Requests one at a time: what compile, activate, rollback and withdraw    *)
(* promise when no two of them are in flight, whoever sends them, beside    *)
(* any parsers, and (where `failed' is not excluded) through crashes.       *)

OneAtATime ==
    \A a, b \in Admin : at[a] # "idle" /\ at[b] # "idle" => a = b

Version == Nat \X Nat

\* Past building the draft, or past load_draft, a request has its pack.
HasPack == Drafting \ {"scanned"}

\* A file no choice can rest on, now and when it is torn or a DRAFT.
Inert(k) ==
    IF k[1] \in DOMAIN pins
    THEN pins[k[1]] # k[2]
    ELSE k \in DOMAIN trained => trained[k].status # "ACTIVE"

\* What a request is about to write, and what it has written.
KindOK(a) ==
    /\ at[a] \in {"scanned", "drafted", "draft_open", "written"} =>
          job[a].kind \in {"compile", "withdraw"}
    /\ at[a] \in {"loaded", "ready", "active_open"} =>
          job[a].kind \in {"activate", "withdraw"}
    /\ at[a] = "recalled" => job[a].kind = "rollback"
    /\ at[a] \in {"activated", "record_open", "saved", "cleared"} =>
          job[a].kind # "compile"

DraftOK(a) ==
    /\ at[a] = "scanned" => job[a].files = trained
    /\ at[a] \in HasPack => job[a].version \in Version
    /\ at[a] \in {"drafted", "draft_open"} => Inert(Key(job[a]))
    /\ at[a] \in {"drafted", "draft_open", "written"} => Key(job[a].pack) = Key(job[a])
    /\ at[a] = "written" =>
          Key(job[a]) \in DOMAIN trained /\ trained[Key(job[a])] = DraftFile(job[a])

ActiveOK(a) ==
    /\ at[a] \in {"activated", "record_open", "saved", "cleared"}
       /\ job[a].kind # "rollback" =>
          /\ Key(job[a]) \in DOMAIN trained
          /\ trained[Key(job[a])] = File("ACTIVE", job[a].pack)
    /\ at[a] \in {"saved", "cleared"} =>
          /\ job[a].platform \in DOMAIN pins
          /\ pins[job[a].platform] = job[a].version

WithdrawOK(a) ==
    at[a] \notin {"idle", "scanned"} /\ job[a].kind = "withdraw" =>
        \A q \in job[a].pack.patterns : q[1] # job[a].pattern

RequestOK(a) == KindOK(a) /\ DraftOK(a) /\ ActiveOK(a) /\ WithdrawOK(a)

RequestsOK == \A a \in Admin : RequestOK(a)

FilesTyped == \A k \in DOMAIN trained : k[2] \in Version

\* A choice is being made: the record or a pack of it may have changed, and the
\* cache is still to be cleared.
Choosing ==
    \E a \in Admin : at[a] \in {"active_open", "activated", "record_open", "saved"}

Choice == Chosen(Discovered(trained), pins)

\* Otherwise whatever a parser has read chooses what the disk would.
ReadsOK ==
    ~overlap /\ ~Choosing =>
        /\ cache # None => cache = Choice /\ Loads(Choice, pins)
        /\ \A r \in Parser :
              fill[r] # None =>
                  /\ fill[r].point = "scanned" => Chosen(Discovered(fill[r].read), pins) = Choice
                  /\ fill[r].point = "chosen" => fill[r].read = Choice /\ Loads(Choice, pins)

\* The file of version k is open: its patterns are about to be written.
Open(k) ==
    \E a \in Admin : at[a] \in {"draft_open", "active_open"} /\ Key(job[a]) = k

\* Nobody has read anything since a crash tore a file.
TornUnread ==
    cache # None \/ (\E r \in Parser : fill[r] # None) =>
        \A k \in DOMAIN trained : trained[k] = Torn => Open(k)

AInv ==
    /\ DOMAIN fill = Parser
    /\ RequestsOK
    /\ FilesTyped
    /\ ReadsOK
    /\ TornUnread

\* The file of a version holds what it held when it was last the active one, and
\* so does the request that activates it again.
Kept(k) == k \in DOMAIN lived /\ lived[k].kept

LivedFiles ==
    \A k \in DOMAIN lived :
        lived[k].kept =>
            k \in DOMAIN trained /\ (trained[k].patterns = lived[k].patterns \/ Open(k))

LivedJob(a) ==
    at[a] \in {"written", "loaded", "ready", "active_open"} /\ Kept(Key(job[a])) =>
        /\ job[a].kind = "activate"
        /\ job[a].pack.patterns = lived[Key(job[a])].patterns

LivedOK ==
    FiledOnce /\ ~failed => LivedFiles /\ \A a \in Admin : LivedJob(a)

\* The file of the draft an administrator was shown holds what was shown, and so
\* does the request that activates it.
ShownFile(a, k) ==
    /\ k \in DOMAIN trained
    /\ \/ trained[k].patterns = shown[a].patterns
       \/ Open(k)
       \/ at[a] = "written" /\ job[a].kind = "compile" /\ Key(job[a]) = k

ShownJob(a, k) ==
    at[a] \in {"written", "loaded", "ready", "active_open", "activated"}
    /\ Key(job[a]) = k /\ job[a].kind \in {"activate", "withdraw"} =>
        /\ job[a].kind = "activate"
        /\ shown[a].patterns = job[a].pack.patterns

ShownOK ==
    FiledOnce /\ ~failed =>
        \A a \in Admin :
            shown[a] # None => ShownFile(a, Key(shown[a])) /\ ShownJob(a, Key(shown[a]))

\* A step of a request while the others are at rest.
Alone(a) ==
    /\ Others(a)
    /\ \A b \in Admin : b # a => at[b] = "idle" /\ at'[b] = "idle"

LEMMA IsAlone ==
    ASSUME OneAtATime, OneAtATime', NEW a \in Admin, Others(a),
           at[a] # "idle" \/ at'[a] # "idle"
    PROVE  Alone(a)
    BY DEF OneAtATime, Others, Alone

LEMMA MineIsAll ==
    ASSUME NEW a \in Admin, Alone(a), RequestOK(a)'
    PROVE  RequestsOK'
<1> SUFFICES ASSUME NEW b \in Admin, b # a PROVE RequestOK(b)'
    BY DEF RequestsOK
<1>1. at'[b] = "idle"
    BY DEF Alone
<1> QED
    BY <1>1 DEF RequestOK, KindOK, DraftOK, ActiveOK, WithdrawOK, HasPack, Drafting

\* At rest, a request satisfies all of it.
LEMMA IdleIsOK ==
    ASSUME NEW a, at[a] = "idle"
    PROVE  RequestOK(a)
    BY DEF RequestOK, KindOK, DraftOK, ActiveOK, WithdrawOK, HasPack, Drafting

LEMMA IdleIsOKNext ==
    ASSUME NEW a, at'[a] = "idle"
    PROVE  RequestOK(a)'
    BY DEF RequestOK, KindOK, DraftOK, ActiveOK, WithdrawOK, HasPack, Drafting

\* Points at which nothing is open and no choice is being made.
Calm == {"idle", "scanned", "drafted", "written", "loaded", "ready", "recalled", "cleared"}

LEMMA StillReads ==
    ASSUME AInv, NEW a \in Admin, Alone(a), UNCHANGED <<store, cache, fill, overlap>>,
           at[a] \in Calm, at'[a] \in Calm
    PROVE  DOMAIN fill' = Parser /\ FilesTyped' /\ ReadsOK' /\ TornUnread'
<1>1. ~Choosing /\ ~Choosing'
    BY DEF Alone, Choosing, Calm
<1>2. \A k : ~Open(k) /\ ~Open(k)'
    BY DEF Alone, Open, Calm
<1>3. FilesTyped'
    BY DEF AInv, FilesTyped, store
<1>4. Choice' = Choice
    BY DEF Choice, store
<1>5. ReadsOK'
    BY <1>1, <1>4 DEF AInv, ReadsOK, store
<1>6. TornUnread'
    BY <1>2 DEF AInv, TornUnread, store
<1> QED
    BY <1>3, <1>5, <1>6 DEF AInv

LEMMA CalmStep ==
    ASSUME AInv, NEW a \in Admin, Alone(a), UNCHANGED <<store, cache, fill, overlap>>,
           at[a] \in Calm, at'[a] \in Calm, RequestOK(a)'
    PROVE  AInv'
    BY StillReads, MineIsAll DEF AInv

-----------------------------------------------------------------------------
(* What each step of a request does to it.                                 *)

LEMMA ScanToCompileDoes ==
    ASSUME ShapeOK, NEW a \in Admin, NEW p, NEW e, ScanToCompile(a, p, e)
    PROVE  /\ Others(a) /\ at[a] = "idle" /\ at'[a] = "scanned"
           /\ job'[a].kind = "compile" /\ job'[a].files = trained
<1> DEFINE j == [Job("compile", p) EXCEPT !.files = trained, !.example = e]
<1>1. j.kind = "compile" /\ j.files = trained
    BY DEF Job
<1>2. Step(a, "idle", "scanned") /\ job' = [job EXCEPT ![a] = j]
    BY DEF ScanToCompile, Start
<1> HIDE DEF j
<1> QED
    BY <1>1, <1>2, Moved DEF Points

LEMMA ScanToWithdrawDoes ==
    ASSUME ShapeOK, NEW a \in Admin, NEW p, NEW n, ScanToWithdraw(a, p, n)
    PROVE  /\ Others(a) /\ at[a] = "idle" /\ at'[a] = "scanned"
           /\ job'[a].kind = "withdraw" /\ job'[a].files = trained
<1> DEFINE j == [Job("withdraw", p) EXCEPT !.files = trained, !.pattern = n]
<1>1. j.kind = "withdraw" /\ j.files = trained
    BY DEF Job
<1>2. Step(a, "idle", "scanned") /\ job' = [job EXCEPT ![a] = j]
    BY DEF ScanToWithdraw, Start
<1> HIDE DEF j
<1> QED
    BY <1>1, <1>2, Moved DEF Points

LEMMA LoadDraftDoes ==
    ASSUME ShapeOK, NEW a \in Admin, NEW p, NEW v, LoadDraft(a, p, v)
    PROVE  /\ Others(a) /\ at[a] = "idle" /\ at'[a] = "loaded"
           /\ job'[a].kind = "activate" /\ Key(job'[a]) = <<p, v>>
           /\ job'[a].version = v
           /\ job'[a].pack = FindVersion(trained, <<p, v>>)
<1> DEFINE pack == FindVersion(trained, <<p, v>>)
<1> HIDE DEF pack
<1> DEFINE j == [Job("activate", p) EXCEPT !.version = v, !.pack = pack]
<1>1. j.kind = "activate" /\ j.platform = p /\ j.version = v /\ j.pack = pack
    BY DEF Job
<1>2. Step(a, "idle", "loaded") /\ job' = [job EXCEPT ![a] = j]
    BY DEF LoadDraft, Start, pack
<1> HIDE DEF j
<1>3. Others(a) /\ at[a] = "idle" /\ at'[a] = "loaded" /\ job'[a] = j
    BY <1>2, Moved DEF Points
<1> QED
    BY <1>1, <1>3 DEF Key, pack

LEMMA StartRollbackDoes ==
    ASSUME ShapeOK, NEW a \in Admin, NEW p, NEW v, StartRollback(a, p, v)
    PROVE  /\ Others(a) /\ at[a] = "idle" /\ at'[a] = "recalled"
           /\ job'[a].kind = "rollback"
<1> DEFINE j == [Job("rollback", p) EXCEPT !.version = v, !.pins = pins]
<1>1. j.kind = "rollback"
    BY DEF Job
<1>2. Step(a, "idle", "recalled") /\ job' = [job EXCEPT ![a] = j]
    BY DEF StartRollback, Start
<1> HIDE DEF j
<1> QED
    BY <1>1, <1>2, Moved DEF Points

LEMMA BuildDraftDoes ==
    ASSUME ShapeOK, NEW a \in Admin, BuildDraft(a)
    PROVE  /\ Others(a) /\ at[a] = "scanned" /\ at'[a] = "drafted"
           /\ job'[a].kind = job[a].kind /\ job'[a].platform = job[a].platform
           /\ job'[a].pattern = job[a].pattern
           /\ job'[a].version = BumpPatch(Base(a).version)
           /\ job'[a].pack = [platform |-> job[a].platform,
                              version |-> BumpPatch(Base(a).version),
                              patterns |-> DraftPatterns(job[a], Base(a))]
<1> DEFINE draft == [platform |-> job[a].platform,
                     version |-> BumpPatch(Base(a).version),
                     patterns |-> DraftPatterns(job[a], Base(a))]
<1>1. draft.version = BumpPatch(Base(a).version)
    OBVIOUS
<1> HIDE DEF draft
<1> DEFINE j == [job[a] EXCEPT !.version = draft.version, !.pack = draft, !.files = None]
<1>2. job' = [job EXCEPT ![a].version = draft.version,
                         ![a].pack = draft, ![a].files = None]
    BY DEF BuildDraft, draft
<1>3. job' = [job EXCEPT ![a] = j] /\ Step(a, "scanned", "drafted")
    BY <1>2 DEF ShapeOK, BuildDraft
<1>4. DOMAIN job[a] = Fields
    BY <1>3 DEF ShapeOK, Step
<1>5. /\ j.kind = job[a].kind /\ j.platform = job[a].platform
      /\ j.pattern = job[a].pattern /\ j.version = draft.version /\ j.pack = draft
    BY <1>4 DEF Fields
<1> HIDE DEF j
<1>6. Others(a) /\ at[a] = "scanned" /\ at'[a] = "drafted" /\ job'[a] = j
    BY <1>3, Moved DEF Points
<1> QED
    BY <1>1, <1>5, <1>6 DEF draft

LEMMA ReadRecordDoes ==
    ASSUME ShapeOK, NEW a \in Admin, ReadRecord(a)
    PROVE  /\ Others(a) /\ at[a] = "loaded" /\ at'[a] = "ready"
           /\ job'[a].kind = job[a].kind /\ job'[a].platform = job[a].platform
           /\ job'[a].pattern = job[a].pattern /\ job'[a].version = job[a].version
           /\ job'[a].pack = job[a].pack
<1> DEFINE j == [job[a] EXCEPT !.pins = pins]
<1>1. job' = [job EXCEPT ![a] = j] /\ Step(a, "loaded", "ready")
    BY DEF ReadRecord, ShapeOK
<1>2. DOMAIN job[a] = Fields
    BY <1>1 DEF ShapeOK, Step
<1>3. /\ j.kind = job[a].kind /\ j.platform = job[a].platform
      /\ j.pattern = job[a].pattern /\ j.version = job[a].version
      /\ j.pack = job[a].pack
    BY <1>2 DEF Fields
<1> HIDE DEF j
<1>4. Others(a) /\ at[a] = "loaded" /\ at'[a] = "ready" /\ job'[a] = j
    BY <1>1, Moved DEF Points
<1> QED
    BY <1>3, <1>4

-----------------------------------------------------------------------------
(* Drafting rests on the pack that is chosen, and names another version.   *)

\* The packs on disk, each under its key.
LEMMA PackKeys ==
    ASSUME NEW f \in Discovered(trained)
    PROVE  \/ \E k \in DOMAIN Shipped :
                 f = Pack(k, "builtin", Shipped[k]) /\ f.platform = k[1] /\ f.version = k[2]
           \/ \E k \in DOMAIN trained :
                 f = Pack(k, "trained", trained[k]) /\ f.platform = k[1] /\ f.version = k[2]
    BY DEF Discovered, Pack

\* What find_pack finds in a draftable deployment.
LEMMA BaseIsChosen ==
    ASSUME NEW a \in Admin, CanDraft(a), job[a].files = trained, FilesTyped
    PROVE  /\ Loads(Choice, pins)
           /\ Base(a) \in Choice /\ Base(a).platform = job[a].platform
           /\ Base(a).version \in Version
<1> DEFINE p == job[a].platform
<1>1. Loadable(trained, pins) /\ Base(a) = PackOf(Choice, p) /\ Base(a) # NoPack
    BY DEF CanDraft, Base, ActivePacks, Choice
<1>2. Base(a) \in Choice /\ Base(a).platform = p
    BY <1>1 DEF PackOf
<1>3. Base(a) \in Discovered(trained)
    BY <1>2 DEF Choice, Chosen
<1>4. Base(a).version \in Version
    BY <1>3, PackKeys, ShippedAssumption DEF FilesTyped, Version
<1> QED
    BY <1>1, <1>2, <1>4 DEF Loadable, Choice

LEMMA BumpMoves ==
    ASSUME NEW v \in Version
    PROVE  BumpPatch(v) \in Version /\ BumpPatch(v) # v
    BY DEF Version, BumpPatch

\* Its draft's file decides nothing: its platform is pinned to the base, or the
\* base is the one ACTIVE pack of it.
LEMMA DraftIsInert ==
    ASSUME NEW a \in Admin, CanDraft(a), job[a].files = trained, FilesTyped, KeysOK
    PROVE  Inert(<<job[a].platform, BumpPatch(Base(a).version)>>)
<1> DEFINE p == job[a].platform
<1> DEFINE v == BumpPatch(Base(a).version)
<1> DEFINE k == <<p, v>>
<1>1. /\ Loads(Choice, pins) /\ Base(a) \in Choice /\ Base(a).platform = p
      /\ Base(a).version \in Version /\ v # Base(a).version
    BY BaseIsChosen, BumpMoves
<1>2. CASE p \in DOMAIN pins
  <2>1. pins[p] = Base(a).version
      BY <1>1, <1>2 DEF Choice, Chosen
  <2> QED
      BY <1>1, <1>2, <2>1 DEF Inert
<1>3. CASE p \notin DOMAIN pins
  <2> SUFFICES ASSUME k \in DOMAIN trained, trained[k].status = "ACTIVE"
               PROVE  FALSE
      BY <1>3 DEF Inert
  <2> DEFINE f == Pack(k, "trained", trained[k])
  <2>1. f \in Discovered(trained)
      BY DEF Discovered
  <2>2. f.platform = p /\ f.version = v /\ f.status = "ACTIVE"
      BY DEF Pack
  <2> HIDE DEF f, v
  <2>3. f \in Choice
      BY <1>3, <2>1, <2>2 DEF Choice, Chosen
  <2> QED
      BY <1>1, <2>2, <2>3 DEF Loads
<1> QED
    BY <1>2, <1>3

\* Writing such a file, torn or as a DRAFT, changes no choice.
LEMMA InertWrite ==
    ASSUME NEW k, Inert(k), NEW file, file.status # "ACTIVE",
           trained' = WithFile(trained, k, file), pins' = pins
    PROVE  Choice' = Choice
<1>1. /\ DOMAIN trained' = DOMAIN trained \cup {k} /\ trained'[k] = file
      /\ \A i \in DOMAIN trained : i # k => trained'[i] = trained[i]
    BY DEF WithFile
<1> DEFINE Free(f) == IF f.platform \in DOMAIN pins
                      THEN f.version = pins[f.platform] ELSE f.status = "ACTIVE"
<1>2. Choice = {f \in Discovered(trained) : Free(f)}
    BY DEF Choice, Chosen
<1>3. Choice' = {f \in Discovered(trained)' : Free(f)}
    BY DEF Choice, Chosen
<1>4. k \in DOMAIN trained => ~Free(Pack(k, "trained", trained[k]))
    BY DEF Inert, Pack
<1>5. ~Free(Pack(k, "trained", file))
    BY DEF Inert, Pack
<1> HIDE DEF Free
<1>6. ASSUME NEW f \in Discovered(trained), Free(f) PROVE f \in Discovered(trained)'
  <2>1. CASE \E i \in DOMAIN Shipped : f = Pack(i, "builtin", Shipped[i])
      BY <2>1 DEF Discovered
  <2>2. CASE \E i \in DOMAIN trained : f = Pack(i, "trained", trained[i])
    <3>1. PICK i \in DOMAIN trained : f = Pack(i, "trained", trained[i])
        BY <2>2
    <3>2. i # k
        BY <1>4, <1>6, <3>1
    <3>3. i \in DOMAIN trained' /\ trained'[i] = trained[i]
        BY <1>1, <3>2
    <3> QED
        BY <3>1, <3>3 DEF Discovered
  <2> QED
      BY <2>1, <2>2 DEF Discovered
<1>7. ASSUME NEW f \in Discovered(trained)', Free(f) PROVE f \in Discovered(trained)
  <2>1. CASE \E i \in DOMAIN Shipped : f = Pack(i, "builtin", Shipped[i])
      BY <2>1 DEF Discovered
  <2>2. CASE \E i \in DOMAIN trained' : f = Pack(i, "trained", trained'[i])
    <3>1. PICK i \in DOMAIN trained' : f = Pack(i, "trained", trained'[i])
        BY <2>2
    <3>2. i # k
        BY <1>1, <1>5, <1>7, <3>1
    <3>3. i \in DOMAIN trained /\ trained'[i] = trained[i]
        BY <1>1, <3>2
    <3> QED
        BY <3>1, <3>3 DEF Discovered
  <2> QED
      BY <2>1, <2>2 DEF Discovered
<1> QED
    BY <1>2, <1>3, <1>6, <1>7

-----------------------------------------------------------------------------
(* The calm steps keep the invariant of requests that come one at a time.  *)

LEMMA CalmStarts ==
    ASSUME IInv, AInv, OneAtATime, OneAtATime', NEW a \in Admin, Request(a)
    PROVE  AInv'
<1>1. PICK p \in Platform :
          \/ \E e \in Example : ScanToCompile(a, p, e)
          \/ \E n \in PatternIds : ScanToWithdraw(a, p, n)
          \/ \E v : LoadDraft(a, p, v) \/ StartRollback(a, p, v)
    BY DEF Request
<1>2. ASSUME NEW e, ScanToCompile(a, p, e) PROVE AInv'
  <2>1. /\ Others(a) /\ at[a] = "idle" /\ at'[a] = "scanned"
        /\ job'[a].kind = "compile" /\ job'[a].files = trained
      BY <1>2, ScanToCompileDoes DEF IInv
  <2>2. Alone(a) /\ UNCHANGED <<store, cache, fill, overlap>>
      BY <1>2, <2>1, IsAlone DEF ScanToCompile, Start, parserVars
  <2>3. RequestOK(a)'
      BY <2>1, <2>2 DEF RequestOK, KindOK, DraftOK, ActiveOK, WithdrawOK, HasPack,
         Drafting, store
  <2> QED
      BY <2>1, <2>2, <2>3, CalmStep DEF Calm
<1>3. ASSUME NEW n, ScanToWithdraw(a, p, n) PROVE AInv'
  <2>1. /\ Others(a) /\ at[a] = "idle" /\ at'[a] = "scanned"
        /\ job'[a].kind = "withdraw" /\ job'[a].files = trained
      BY <1>3, ScanToWithdrawDoes DEF IInv
  <2>2. Alone(a) /\ UNCHANGED <<store, cache, fill, overlap>>
      BY <1>3, <2>1, IsAlone DEF ScanToWithdraw, Start, parserVars
  <2>3. RequestOK(a)'
      BY <2>1, <2>2 DEF RequestOK, KindOK, DraftOK, ActiveOK, WithdrawOK, HasPack,
         Drafting, store
  <2> QED
      BY <2>1, <2>2, <2>3, CalmStep DEF Calm
<1>4. ASSUME NEW v, LoadDraft(a, p, v) PROVE AInv'
  <2>1. /\ Others(a) /\ at[a] = "idle" /\ at'[a] = "loaded"
        /\ job'[a].kind = "activate" /\ job'[a].version = v
      BY <1>4, LoadDraftDoes DEF IInv
  <2>2. Alone(a) /\ UNCHANGED <<store, cache, fill, overlap>>
      BY <1>4, <2>1, IsAlone DEF LoadDraft, Start, parserVars
  <2>3. v \in Version
    <3>1. <<p, v>> \in DOMAIN Shipped \cup DOMAIN trained
        BY <1>4 DEF LoadDraft, FindVersion
    <3> QED
        BY <3>1, ShippedAssumption DEF AInv, FilesTyped, Version
  <2>4. RequestOK(a)'
      BY <2>1, <2>3 DEF RequestOK, KindOK, DraftOK, ActiveOK, WithdrawOK
  <2> QED
      BY <2>1, <2>2, <2>4, CalmStep DEF Calm
<1>5. ASSUME NEW v, StartRollback(a, p, v) PROVE AInv'
  <2>1. /\ Others(a) /\ at[a] = "idle" /\ at'[a] = "recalled"
        /\ job'[a].kind = "rollback"
      BY <1>5, StartRollbackDoes DEF IInv
  <2>2. Alone(a) /\ UNCHANGED <<store, cache, fill, overlap>>
      BY <1>5, <2>1, IsAlone DEF StartRollback, Start, parserVars
  <2>3. RequestOK(a)'
      BY <2>1 DEF RequestOK, KindOK, DraftOK, ActiveOK, WithdrawOK, HasPack, Drafting
  <2> QED
      BY <2>1, <2>2, <2>3, CalmStep DEF Calm
<1> QED
    BY <1>1, <1>2, <1>3, <1>4, <1>5

LEMMA BuildDraftCalm ==
    ASSUME IInv, AInv, OneAtATime, OneAtATime', NEW a \in Admin, BuildDraft(a)
    PROVE  AInv'
<1>1. /\ Others(a) /\ at[a] = "scanned" /\ at'[a] = "drafted"
      /\ job'[a].kind = job[a].kind /\ job'[a].platform = job[a].platform
      /\ job'[a].pattern = job[a].pattern
      /\ job'[a].version = BumpPatch(Base(a).version)
      /\ job'[a].pack = [platform |-> job[a].platform,
                         version |-> BumpPatch(Base(a).version),
                         patterns |-> DraftPatterns(job[a], Base(a))]
    BY BuildDraftDoes DEF IInv
<1>2. Alone(a) /\ UNCHANGED <<store, cache, fill, overlap>> /\ CanDraft(a)
    BY <1>1, IsAlone DEF BuildDraft, parserVars, ghosts
<1>3. /\ job[a].files = trained /\ FilesTyped /\ KeysOK
      /\ job[a].kind \in {"compile", "withdraw"}
    BY <1>1 DEF AInv, RequestsOK, RequestOK, DraftOK, KindOK, IInv
<1>4. KindOK(a)' /\ ActiveOK(a)'
    BY <1>1, <1>3 DEF KindOK, ActiveOK
<1>5. DraftOK(a)'
  <2>1. job'[a].version \in Version
      BY <1>1, <1>2, <1>3, BaseIsChosen, BumpMoves
  <2>2. Inert(Key(job'[a]))
      BY <1>1, <1>2, <1>3, DraftIsInert DEF Key
  <2>3. Inert(Key(job[a]))'
      BY <1>2, <2>2 DEF Inert, store
  <2>4. Key(job'[a].pack) = Key(job'[a])
      BY <1>1 DEF Key
  <2> QED
      BY <1>1, <2>1, <2>3, <2>4 DEF DraftOK
<1>6. WithdrawOK(a)'
  <2>1. job[a].kind = "withdraw" =>
            \A q \in DraftPatterns(job[a], Base(a)) : q[1] # job[a].pattern
      BY DEF DraftPatterns
  <2> QED
      BY <1>1, <2>1 DEF WithdrawOK
<1> QED
    BY <1>1, <1>2, <1>4, <1>5, <1>6, CalmStep DEF RequestOK, Calm

LEMMA AppendCreatedCalm ==
    ASSUME IInv, AInv, OneAtATime, OneAtATime', NEW a \in Admin, AppendCreated(a)
    PROVE  AInv'
<1>1. at[a] = "written" /\ UNCHANGED <<store, cache, fill, overlap>>
    BY DEF AppendCreated, parserVars
<1>2. CASE job[a].kind = "compile"
  <2>1. Others(a) /\ at'[a] = "idle"
      BY <1>2, Ended DEF IInv, AppendCreated
  <2> QED
      BY <1>1, <2>1, IsAlone, IdleIsOKNext, CalmStep DEF Calm
<1>3. CASE job[a].kind # "compile"
  <2>1. Step(a, "written", "loaded") /\ job' = job
      BY <1>3 DEF AppendCreated
  <2>2. Others(a) /\ at'[a] = "loaded" /\ job'[a] = job[a]
      BY <2>1, MovedOn DEF IInv, Points
  <2>3. Alone(a)
      BY <1>1, <2>2, IsAlone
  <2>4. RequestOK(a)
      BY DEF AInv, RequestsOK
  <2>5. RequestOK(a)'
      BY <1>1, <1>3, <2>2, <2>4 DEF RequestOK, KindOK, DraftOK, ActiveOK, WithdrawOK,
         HasPack, Drafting
  <2> QED
      BY <1>1, <2>2, <2>3, <2>5, CalmStep DEF Calm
<1> QED
    BY <1>2, <1>3

LEMMA ReadRecordCalm ==
    ASSUME IInv, AInv, OneAtATime, OneAtATime', NEW a \in Admin, ReadRecord(a)
    PROVE  AInv'
<1>1. /\ Others(a) /\ at[a] = "loaded" /\ at'[a] = "ready"
      /\ job'[a].kind = job[a].kind /\ job'[a].platform = job[a].platform
      /\ job'[a].pattern = job[a].pattern /\ job'[a].version = job[a].version
      /\ job'[a].pack = job[a].pack
    BY ReadRecordDoes DEF IInv
<1>2. Alone(a) /\ UNCHANGED <<store, cache, fill, overlap>>
    BY <1>1, IsAlone DEF ReadRecord, parserVars
<1>3. RequestOK(a)
    BY DEF AInv, RequestsOK
<1>4. RequestOK(a)'
    BY <1>1, <1>3 DEF RequestOK, KindOK, DraftOK, ActiveOK, WithdrawOK, HasPack, Drafting
<1> QED
    BY <1>1, <1>2, <1>4, CalmStep DEF Calm

\* A request that ends with nothing open and nothing chosen but the cache cleared.
LEMMA EndsCalm ==
    ASSUME IInv, AInv, OneAtATime, OneAtATime', NEW a \in Admin, End(a),
           at[a] \in Calm \ {"idle"}, UNCHANGED <<store, cache, fill, overlap>>
    PROVE  AInv'
<1>1. Others(a) /\ at'[a] = "idle"
    BY Ended DEF IInv
<1> QED
    BY <1>1, IsAlone, IdleIsOKNext, CalmStep DEF Calm

LEMMA CalmEnds ==
    ASSUME IInv, AInv, OneAtATime, OneAtATime', NEW a \in Admin,
           NoDraft(a) \/ NoTarget(a) \/ AppendOutcome(a) \/ AppendRaises(a)
    PROVE  AInv'
    BY EndsCalm DEF NoDraft, NoTarget, AppendOutcome, AppendRaises, Raise, Calm,
       parserVars, ghosts

-----------------------------------------------------------------------------
(* The steps that write, choose and clear.                                 *)

\* A request's file is written: its version is one, and no other file is open.
LEMMA WriteIsSeen ==
    ASSUME AInv, NEW a \in Admin, Alone(a), NEW file,
           trained' = WithFile(trained, Key(job[a]), file), job'[a] = job[a],
           UNCHANGED <<cache, fill>>, job[a].version \in Version,
           file = Torn => at'[a] \in {"draft_open", "active_open"}
    PROVE  FilesTyped' /\ TornUnread'
<1> DEFINE k == Key(job[a])
<1>1. /\ DOMAIN trained' = DOMAIN trained \cup {k} /\ trained'[k] = file
      /\ \A i \in DOMAIN trained : i # k => trained'[i] = trained[i]
    BY DEF WithFile
<1>2. k[2] \in Version
    BY DEF Key
<1>3. FilesTyped'
    BY <1>1, <1>2 DEF AInv, FilesTyped
<1>4. \A i : i # k => ~Open(i)
    BY DEF Alone, Open
<1>5. file = Torn => Open(k)'
    BY DEF Open, Key
<1>6. TornUnread'
    BY <1>1, <1>4, <1>5 DEF AInv, TornUnread
<1> QED
    BY <1>3, <1>6

\* The draft's file decides nothing, so the reads stay good.
LEMMA DraftWriteReads ==
    ASSUME AInv, NEW a \in Admin, Alone(a), NEW file, file.status # "ACTIVE",
           trained' = WithFile(trained, Key(job[a]), file), pins' = pins,
           UNCHANGED <<cache, fill, overlap>>,
           at[a] \in {"drafted", "draft_open"}, at'[a] \in {"draft_open", "written"}
    PROVE  ReadsOK'
<1>1. Inert(Key(job[a]))
    BY DEF AInv, RequestsOK, RequestOK, DraftOK
<1>2. Choice' = Choice
  <2> DEFINE k == Key(job[a])
  <2>1. Inert(k) /\ trained' = WithFile(trained, k, file)
      BY <1>1
  <2> HIDE DEF k
  <2> QED
      BY <2>1, InertWrite
<1>3. ~Choosing /\ ~Choosing'
    BY DEF Alone, Choosing
<1> QED
    BY <1>2, <1>3 DEF AInv, ReadsOK

LEMMA OpenDraftAlone ==
    ASSUME IInv, AInv, OneAtATime, OneAtATime', NEW a \in Admin, OpenDraft(a)
    PROVE  AInv'
<1>1. Step(a, "drafted", "draft_open") /\ job' = job
    BY DEF OpenDraft
<1>2. Others(a) /\ at[a] = "drafted" /\ at'[a] = "draft_open" /\ job'[a] = job[a]
    BY <1>1, MovedOn DEF IInv, Points
<1>3. /\ Alone(a) /\ UNCHANGED <<pins, cache, fill, overlap>>
      /\ trained' = WithFile(trained, Key(job[a]), Torn)
    BY <1>2, IsAlone DEF OpenDraft, parserVars, ghosts
<1>4. RequestOK(a)
    BY DEF AInv, RequestsOK
<1>5. job[a].version \in Version /\ Inert(Key(job[a]))
    BY <1>2, <1>4 DEF RequestOK, DraftOK, HasPack, Drafting
<1>6. FilesTyped' /\ TornUnread'
    BY <1>2, <1>3, <1>5, WriteIsSeen
<1>7. ReadsOK'
    BY <1>2, <1>3, DraftWriteReads DEF Torn
<1>8. Inert(Key(job[a]))'
  <2>1. trained'[Key(job[a])].status # "ACTIVE"
      BY <1>3 DEF WithFile, Torn
  <2>2. Key(job'[a]) = Key(job[a]) /\ pins' = pins
      BY <1>2, <1>3
  <2> QED
      BY <1>5, <2>1, <2>2 DEF Inert
<1>9. RequestOK(a)'
    BY <1>2, <1>4, <1>8 DEF RequestOK, KindOK, DraftOK, ActiveOK, WithdrawOK, HasPack,
       Drafting
<1> QED
    BY <1>3, <1>6, <1>7, <1>9, MineIsAll DEF AInv

LEMMA FillDraftAlone ==
    ASSUME IInv, AInv, OneAtATime, OneAtATime', NEW a \in Admin, FillDraft(a)
    PROVE  AInv'
<1> DEFINE from == IF WholeWrites THEN "drafted" ELSE "draft_open"
<1>1. Step(a, from, "written") /\ job' = job
    BY DEF FillDraft
<1>2. Others(a) /\ at[a] = from /\ at'[a] = "written" /\ job'[a] = job[a]
    BY <1>1, MovedOn DEF IInv, Points
<1> DEFINE file == DraftFile(job[a])
<1>3. /\ Alone(a) /\ UNCHANGED <<pins, cache, fill, overlap>>
      /\ trained' = WithFile(trained, Key(job[a]), file)
    BY <1>2, IsAlone DEF FillDraft, parserVars
<1>4. RequestOK(a) /\ at[a] \in {"drafted", "draft_open"}
    BY <1>2 DEF AInv, RequestsOK
<1>5. job[a].version \in Version
    BY <1>4 DEF RequestOK, DraftOK, HasPack, Drafting
<1>6. file.status = "DRAFT" /\ file # Torn
    BY DEF DraftFile, File, Torn
<1>7. Key(job[a]) \in DOMAIN trained' /\ trained'[Key(job[a])] = file
    BY <1>3 DEF WithFile
<1>8. RequestOK(a)'
    BY <1>2, <1>4, <1>7 DEF RequestOK, KindOK, DraftOK, ActiveOK, WithdrawOK, HasPack,
       Drafting, DraftFile, Key
<1> HIDE DEF file
<1>9. FilesTyped' /\ TornUnread'
    BY <1>2, <1>3, <1>5, <1>6, WriteIsSeen
<1>10. ReadsOK'
    BY <1>2, <1>3, <1>4, <1>6, DraftWriteReads
<1> QED
    BY <1>3, <1>8, <1>9, <1>10, MineIsAll DEF AInv

\* While a choice is being made nothing is said of the reads.
LEMMA ChoosingReads ==
    ASSUME NEW a \in Admin, at'[a] \in {"active_open", "activated", "record_open", "saved"}
    PROVE  ReadsOK'
    BY DEF ReadsOK, Choosing

LEMMA OpenActiveAlone ==
    ASSUME IInv, AInv, OneAtATime, OneAtATime', NEW a \in Admin, OpenActive(a)
    PROVE  AInv'
<1>1. Step(a, "ready", "active_open") /\ job' = job
    BY DEF OpenActive
<1>2. Others(a) /\ at[a] = "ready" /\ at'[a] = "active_open" /\ job'[a] = job[a]
    BY <1>1, MovedOn DEF IInv, Points
<1>3. /\ Alone(a) /\ UNCHANGED <<pins, cache, fill, overlap>>
      /\ trained' = WithFile(trained, Key(job[a]), Torn)
    BY <1>2, IsAlone DEF OpenActive, parserVars, ghosts
<1>4. RequestOK(a)
    BY DEF AInv, RequestsOK
<1>5. job[a].version \in Version
    BY <1>2, <1>4 DEF RequestOK, DraftOK, HasPack, Drafting
<1>6. FilesTyped' /\ TornUnread'
    BY <1>2, <1>3, <1>5, WriteIsSeen
<1>7. RequestOK(a)'
    BY <1>2, <1>4 DEF RequestOK, KindOK, DraftOK, ActiveOK, WithdrawOK, HasPack, Drafting
<1> QED
    BY <1>2, <1>3, <1>6, <1>7, MineIsAll, ChoosingReads DEF AInv

LEMMA FillActiveAlone ==
    ASSUME IInv, AInv, OneAtATime, OneAtATime', NEW a \in Admin, FillActive(a)
    PROVE  AInv'
<1> DEFINE from == IF WholeWrites THEN "ready" ELSE "active_open"
<1>1. Step(a, from, "activated") /\ job' = job
    BY DEF FillActive
<1>2. Others(a) /\ at[a] = from /\ at'[a] = "activated" /\ job'[a] = job[a]
    BY <1>1, MovedOn DEF IInv, Points
<1> DEFINE file == File("ACTIVE", job[a].pack)
<1>3. /\ Alone(a) /\ UNCHANGED <<pins, cache, fill, overlap>>
      /\ trained' = WithFile(trained, Key(job[a]), file)
    BY <1>2, IsAlone DEF FillActive, parserVars, ghosts
<1>4. RequestOK(a)
    BY DEF AInv, RequestsOK
<1>5. job[a].version \in Version
    BY <1>2, <1>4 DEF RequestOK, DraftOK, HasPack, Drafting
<1>6. file # Torn
    BY DEF File, Torn
<1>7. Key(job[a]) \in DOMAIN trained' /\ trained'[Key(job[a])] = file
    BY <1>3 DEF WithFile
<1>8. RequestOK(a)'
    BY <1>2, <1>4, <1>7 DEF RequestOK, KindOK, DraftOK, ActiveOK, WithdrawOK, HasPack,
       Drafting, Key
<1> HIDE DEF file
<1>9. FilesTyped' /\ TornUnread'
    BY <1>2, <1>3, <1>5, <1>6, WriteIsSeen
<1> QED
    BY <1>2, <1>3, <1>8, <1>9, MineIsAll, ChoosingReads DEF AInv

\* The file just activated is whole: nobody else has opened it.
LEMMA NeverTornAlone ==
    ASSUME AInv, NEW a \in Admin
    PROVE  ~ReloadFails(a)
<1> SUFFICES ASSUME ReloadFails(a) PROVE FALSE
    OBVIOUS
<1>1. trained[Key(job[a])] = File("ACTIVE", job[a].pack)
    BY DEF ReloadFails, AInv, RequestsOK, RequestOK, ActiveOK
<1> QED
    BY <1>1 DEF ReloadFails, File, Torn

\* A step of a choice that leaves the files alone.
LEMMA ChoiceStep ==
    ASSUME AInv, NEW a \in Admin, Alone(a), trained' = trained,
           UNCHANGED <<cache, fill>>, RequestOK(a)',
           at[a] \notin {"draft_open", "active_open"},
           at'[a] \in {"activated", "record_open", "saved"}
    PROVE  AInv'
<1>1. FilesTyped'
    BY DEF AInv, FilesTyped
<1>2. \A k : ~Open(k)
    BY DEF Alone, Open
<1>3. TornUnread'
    BY <1>2 DEF AInv, TornUnread
<1> QED
    BY <1>1, <1>3, MineIsAll, ChoosingReads DEF AInv

LEMMA FindTargetAlone ==
    ASSUME IInv, AInv, OneAtATime, OneAtATime', NEW a \in Admin, FindTarget(a)
    PROVE  AInv'
<1>1. Step(a, "recalled", "activated") /\ job' = job
    BY DEF FindTarget
<1>2. Others(a) /\ at[a] = "recalled" /\ at'[a] = "activated" /\ job'[a] = job[a]
    BY <1>1, MovedOn DEF IInv, Points
<1>3. Alone(a) /\ trained' = trained /\ UNCHANGED <<cache, fill>>
    BY <1>2, IsAlone DEF FindTarget, parserVars, store
<1>4. job[a].kind = "rollback"
    BY <1>2 DEF AInv, RequestsOK, RequestOK, KindOK
<1>5. RequestOK(a)'
    BY <1>2, <1>4 DEF RequestOK, KindOK, DraftOK, ActiveOK, WithdrawOK, HasPack, Drafting
<1> QED
    BY <1>2, <1>3, <1>5, ChoiceStep

LEMMA OpenRecordAlone ==
    ASSUME IInv, AInv, OneAtATime, OneAtATime', NEW a \in Admin, OpenRecord(a)
    PROVE  AInv'
<1>1. Step(a, "activated", "record_open") /\ job' = job
    BY DEF OpenRecord
<1>2. Others(a) /\ at[a] = "activated" /\ at'[a] = "record_open" /\ job'[a] = job[a]
    BY <1>1, MovedOn DEF IInv, Points
<1>3. Alone(a) /\ trained' = trained /\ UNCHANGED <<cache, fill>>
    BY <1>2, IsAlone DEF OpenRecord, parserVars
<1>4. RequestOK(a)
    BY DEF AInv, RequestsOK
<1>5. RequestOK(a)'
    BY <1>2, <1>3, <1>4 DEF RequestOK, KindOK, DraftOK, ActiveOK, WithdrawOK, HasPack,
       Drafting
<1> QED
    BY <1>2, <1>3, <1>5, ChoiceStep

LEMMA SaveRecordAlone ==
    ASSUME IInv, AInv, OneAtATime, OneAtATime', NEW a \in Admin, SaveRecord(a)
    PROVE  AInv'
<1> DEFINE from == IF WholeWrites THEN "activated" ELSE "record_open"
<1>1. Step(a, from, "saved") /\ job' = job
    BY DEF SaveRecord
<1>2. Others(a) /\ at[a] = from /\ at'[a] = "saved" /\ job'[a] = job[a]
    BY <1>1, MovedOn DEF IInv, Points
<1>3. Alone(a) /\ trained' = trained /\ UNCHANGED <<cache, fill>>
    BY <1>2, IsAlone DEF SaveRecord, parserVars
<1>4. RequestOK(a)
    BY DEF AInv, RequestsOK
<1>5. job[a].platform \in DOMAIN pins' /\ pins'[job[a].platform] = job[a].version
    BY DEF SaveRecord, SavedPins, WithPin
<1>6. RequestOK(a)'
    BY <1>2, <1>3, <1>4, <1>5 DEF RequestOK, KindOK, DraftOK, ActiveOK, WithdrawOK,
       HasPack, Drafting
<1> QED
    BY <1>2, <1>3, <1>6, ChoiceStep

LEMMA ClearCacheAlone ==
    ASSUME IInv, AInv, OneAtATime, OneAtATime', NEW a \in Admin, ClearCache(a)
    PROVE  AInv'
<1>1. Step(a, "saved", "cleared") /\ job' = job
    BY DEF ClearCache
<1>2. Others(a) /\ at[a] = "saved" /\ at'[a] = "cleared" /\ job'[a] = job[a]
    BY <1>1, MovedOn DEF IInv, Points
<1>3. /\ Alone(a) /\ UNCHANGED <<store, fill>> /\ cache' = None
      /\ overlap' = (overlap \/ \E r \in Parser : fill[r] # None)
    BY <1>2, IsAlone DEF ClearCache, parserVars
<1>4. RequestOK(a)
    BY DEF AInv, RequestsOK
<1>5. RequestOK(a)'
    BY <1>2, <1>3, <1>4 DEF RequestOK, KindOK, DraftOK, ActiveOK, WithdrawOK, HasPack,
       Drafting, store
<1>6. FilesTyped'
    BY <1>3 DEF AInv, FilesTyped, store
<1>7. ReadsOK'
    BY <1>3 DEF ReadsOK
<1>8. TornUnread'
  <2>1. \A k : ~Open(k)
      BY <1>2, <1>3 DEF Alone, Open
  <2> QED
      BY <1>3, <2>1 DEF AInv, TornUnread, store
<1> QED
    BY <1>3, <1>5, <1>6, <1>7, <1>8, MineIsAll DEF AInv

-----------------------------------------------------------------------------
(* The parsers, a crash, and the whole.                                    *)

\* What a parser's step leaves to the requests.
LEMMA RequestsStay ==
    ASSUME AInv, UNCHANGED <<store, at, job>>
    PROVE  /\ RequestsOK' /\ FilesTyped' /\ Choice' = Choice
           /\ (Choosing' <=> Choosing) /\ \A k : Open(k)' <=> Open(k)
<1> USE DEF store
<1>1. \A a : RequestOK(a)' <=> RequestOK(a)
  <2> TAKE a
  <2>1. (KindOK(a)' <=> KindOK(a)) /\ (WithdrawOK(a)' <=> WithdrawOK(a))
      BY DEF KindOK, WithdrawOK
  <2>2. DraftOK(a)' <=> DraftOK(a)
      BY DEF DraftOK, Inert, Key, DraftFile
  <2>3. ActiveOK(a)' <=> ActiveOK(a)
      BY DEF ActiveOK, Key
  <2> QED
      BY <2>1, <2>2, <2>3 DEF RequestOK
<1>2. RequestsOK'
    BY <1>1 DEF AInv, RequestsOK
<1>3. FilesTyped' /\ Choice' = Choice
    BY DEF AInv, FilesTyped, Choice
<1>4. (Choosing' <=> Choosing) /\ \A k : Open(k)' <=> Open(k)
    BY DEF Choosing, Open, Key
<1> QED
    BY <1>2, <1>3, <1>4

LEMMA CacheHitAlone ==
    ASSUME AInv, NEW r \in Parser, CacheHit(r)
    PROVE  AInv'
<1>1. UNCHANGED <<store, at, job, cache, fill, overlap>>
    BY DEF CacheHit, ghosts
<1> QED
    BY <1>1, RequestsStay DEF AInv, ReadsOK, TornUnread, store

LEMMA CacheMissAlone ==
    ASSUME AInv, NEW r \in Parser, CacheMiss(r)
    PROVE  AInv'
<1>1. /\ UNCHANGED <<store, at, job, cache, overlap>> /\ Readable(trained)
      /\ fill' = [fill EXCEPT ![r] = [point |-> "scanned", read |-> trained]]
    BY DEF CacheMiss, ghosts
<1>2. /\ DOMAIN fill' = Parser
      /\ \A s \in Parser : s # r => fill'[s] = fill[s]
      /\ fill'[r].point = "scanned" /\ fill'[r].read = trained
    BY <1>1 DEF AInv
<1>3. ReadsOK'
  <2>1. pins' = pins /\ cache' = cache /\ overlap' = overlap
      BY <1>1 DEF store
  <2>2. Choice' = Choice /\ (Choosing' <=> Choosing)
      BY <1>1, RequestsStay
  <2> QED
      BY <1>2, <2>1, <2>2 DEF AInv, ReadsOK, Choice
<1>4. TornUnread'
    BY <1>1 DEF TornUnread, Readable, store
<1> QED
    BY <1>1, <1>2, <1>3, <1>4, RequestsStay DEF AInv

LEMMA ChooseAlone ==
    ASSUME AInv, NEW r \in Parser, Choose(r)
    PROVE  AInv'
<1> DEFINE packs == ActivePacks(fill[r].read, pins)
<1>1. /\ UNCHANGED <<store, at, job, cache, overlap>>
      /\ fill[r] # None /\ fill[r].point = "scanned"
      /\ \/ packs = Unloadable /\ fill' = [fill EXCEPT ![r] = None]
         \/ packs # Unloadable
            /\ fill' = [fill EXCEPT ![r] = [point |-> "chosen", read |-> packs]]
    BY DEF Choose, ghosts
<1>2. pins' = pins /\ trained' = trained
    BY <1>1 DEF store
<1>3. packs # Unloadable =>
          /\ packs = Chosen(Discovered(fill[r].read), pins)
          /\ Loads(Chosen(Discovered(fill[r].read), pins), pins)
    BY DEF ActivePacks, Loadable
<1> HIDE DEF packs
<1>4. /\ DOMAIN fill' = Parser
      /\ \A s \in Parser : s # r => fill'[s] = fill[s]
      /\ \/ packs = Unloadable /\ fill'[r] = None
         \/ packs # Unloadable /\ fill'[r].point = "chosen" /\ fill'[r].read = packs
    BY <1>1 DEF AInv
<1>5. ReadsOK'
  <2>1. cache' = cache /\ overlap' = overlap
      BY <1>1
  <2>2. Choice' = Choice /\ (Choosing' <=> Choosing)
      BY <1>1, RequestsStay
  <2> SUFFICES ASSUME ~overlap, ~Choosing
               PROVE  /\ cache # None => cache = Choice /\ Loads(Choice, pins)
                      /\ \A s \in Parser :
                            fill'[s] # None =>
                                /\ fill'[s].point = "scanned" =>
                                      Chosen(Discovered(fill'[s].read), pins) = Choice
                                /\ fill'[s].point = "chosen" =>
                                      fill'[s].read = Choice /\ Loads(Choice, pins)
      BY <1>2, <2>1, <2>2 DEF ReadsOK
  <2>3. Chosen(Discovered(fill[r].read), pins) = Choice
      BY <1>1 DEF AInv, ReadsOK
  <2>4. packs # Unloadable => packs = Choice /\ Loads(Choice, pins)
      BY <1>3, <2>3
  <2> QED
      BY <1>4, <2>4 DEF AInv, ReadsOK
<1>6. TornUnread'
  <2>1. \A k \in DOMAIN trained : trained[k] = Torn => Open(k)
      BY <1>1 DEF AInv, TornUnread
  <2> QED
      BY <1>1, <1>2, <2>1, RequestsStay DEF TornUnread
<1> QED
    BY <1>1, <1>4, <1>5, <1>6, RequestsStay DEF AInv

LEMMA InsertAlone ==
    ASSUME AInv, NEW r \in Parser, Insert(r)
    PROVE  AInv'
<1>1. /\ UNCHANGED <<store, at, job, overlap>>
      /\ fill[r] # None /\ fill[r].point = "chosen"
      /\ cache' = IF cache = None THEN fill[r].read ELSE cache
      /\ fill' = [fill EXCEPT ![r] = None]
    BY DEF Insert, ghosts
<1>2. pins' = pins /\ trained' = trained
    BY <1>1 DEF store
<1>3. /\ DOMAIN fill' = Parser /\ fill'[r] = None
      /\ \A s \in Parser : s # r => fill'[s] = fill[s]
    BY <1>1 DEF AInv
<1>4. ReadsOK'
  <2>1. Choice' = Choice /\ (Choosing' <=> Choosing)
      BY <1>1, RequestsStay
  <2> QED
      BY <1>1, <1>2, <1>3, <2>1 DEF AInv, ReadsOK
<1>5. TornUnread'
  <2>1. \A k \in DOMAIN trained : trained[k] = Torn => Open(k)
      BY <1>1 DEF AInv, TornUnread
  <2> QED
      BY <1>1, <1>2, <2>1, RequestsStay DEF TornUnread
<1> QED
    BY <1>1, <1>3, <1>4, <1>5, RequestsStay DEF AInv

LEMMA CrashAlone ==
    ASSUME AInv, Crash
    PROVE  AInv'
<1>1. /\ at' = [a \in Admin |-> "idle"] /\ fill' = [r \in Parser |-> None]
      /\ cache' = None /\ trained' = trained
    BY DEF Crash, store
<1>2. RequestsOK'
  <2>1. \A a \in Admin : at'[a] = "idle"
      BY <1>1
  <2> QED
      BY <2>1, IdleIsOKNext DEF RequestsOK
<1>3. FilesTyped'
    BY <1>1 DEF AInv, FilesTyped
<1>4. ReadsOK' /\ TornUnread'
    BY <1>1 DEF ReadsOK, TornUnread
<1> QED
    BY <1>1, <1>2, <1>3, <1>4 DEF AInv

LEMMA AInitially == Init => AInv
<1> SUFFICES ASSUME Init PROVE AInv
    OBVIOUS
<1>1. RequestsOK
  <2>1. \A a \in Admin : at[a] = "idle"
      BY DEF Init
  <2> QED
      BY <2>1, IdleIsOK DEF RequestsOK
<1>2. FilesTyped /\ ReadsOK /\ TornUnread
    BY DEF Init, FilesTyped, ReadsOK, TornUnread
<1> QED
    BY <1>1, <1>2 DEF AInv, Init

LEMMA AStep ==
    ASSUME IInv, AInv, OneAtATime, OneAtATime', [Next]_vars
    PROVE  AInv'
<1>1. CASE UNCHANGED vars
  <2>1. UNCHANGED <<store, at, job, cache, fill, overlap>>
      BY <1>1 DEF vars, parserVars, ghosts
  <2> QED
      BY <2>1, RequestsStay DEF AInv, ReadsOK, TornUnread, store
<1>2. ASSUME NEW a \in Admin, Request(a) PROVE AInv'
    BY <1>2, CalmStarts
<1>3. ASSUME NEW a \in Admin, Work(a) PROVE AInv'
  <2>1. CASE BuildDraft(a) \/ AppendCreated(a) \/ ReadRecord(a)
      BY <2>1, BuildDraftCalm, AppendCreatedCalm, ReadRecordCalm
  <2>2. CASE NoDraft(a) \/ NoTarget(a) \/ AppendOutcome(a) \/ AppendRaises(a)
      BY <2>2, CalmEnds
  <2>3. CASE OpenDraft(a) \/ FillDraft(a)
      BY <2>3, OpenDraftAlone, FillDraftAlone
  <2>4. CASE OpenActive(a) \/ FillActive(a) \/ ReloadFails(a)
      BY <2>4, OpenActiveAlone, FillActiveAlone, NeverTornAlone
  <2>5. CASE FindTarget(a) \/ OpenRecord(a) \/ SaveRecord(a) \/ ClearCache(a)
      BY <2>5, FindTargetAlone, OpenRecordAlone, SaveRecordAlone, ClearCacheAlone
  <2> QED
      BY <1>3, <2>1, <2>2, <2>3, <2>4, <2>5 DEF Work
<1>4. ASSUME NEW r \in Parser, Parse(r) PROVE AInv'
    BY <1>4, CacheHitAlone, CacheMissAlone, ChooseAlone, InsertAlone DEF Parse
<1> QED
    BY <1>1, <1>2, <1>3, <1>4, CrashAlone DEF Next

\* While requests come one at a time, each one's files, pins and pack are what
\* its point says, and what the parsers have read is what the disk chooses.
THEOREM AloneInvariance == Spec /\ []OneAtATime => []AInv
<1>1. IInv /\ AInv /\ OneAtATime /\ OneAtATime' /\ [Next]_vars => AInv'
    BY AStep
<1> QED
    BY <1>1, AInitially, Invariance, PTL DEF Spec

LEMMA CacheIsFresh == AInv => CacheFreshUnlessOverlap
<1> SUFFICES ASSUME AInv, AtRest, ~overlap, cache # None
             PROVE  Serves(cache) = Serves(Now)
    BY DEF CacheFreshUnlessOverlap
<1>1. ~Choosing /\ \A k : ~Open(k)
    BY DEF AtRest, Choosing, Open
<1>2. cache = Choice /\ Loads(Choice, pins)
    BY <1>1 DEF AInv, ReadsOK
<1>3. Readable(trained)
    BY <1>1 DEF AInv, TornUnread, Readable
<1>4. Now = Choice
    BY <1>2, <1>3 DEF Now, ActivePacks, Loadable, Choice
<1> QED
    BY <1>2, <1>4

\* Where requests come one at a time, the cache agrees with the disk at rest,
\* unless a parser was filling it while it was cleared: beside any parsers,
\* with files seen half-written, appends that raise and crashes
\* (api/ingest/packs.py, load_active_packs; api/train/service.py, activate_draft).
THEOREM CacheFresh == Spec /\ []OneAtATime => []CacheFreshUnlessOverlap
    BY AloneInvariance, CacheIsFresh, PTL

-----------------------------------------------------------------------------
(* One platform at a time.                                                 *)

\* Requests that come one at a time never hold the record together.
LEMMA StaysUncrossed ==
    ASSUME IInv, OneAtATime, OneAtATime', ~crossed, [Next]_vars
    PROVE  ~crossed'
<1>1. ASSUME NEW a \in Admin, Hold(a), Others(a), at'[a] # "idle" PROVE ~crossed'
  <2>1. \A b \in Admin : b # a => at[b] = "idle"
      BY <1>1, IsAlone DEF Alone
  <2> QED
      BY <1>1, <2>1 DEF Hold, Holding
<1>2. CASE UNCHANGED vars
    BY <1>2 DEF vars, ghosts
<1>3. ASSUME NEW a \in Admin, Request(a) PROVE ~crossed'
  <2>1. PICK p \in Platform :
            \/ \E e \in Example : ScanToCompile(a, p, e)
            \/ \E n \in PatternIds : ScanToWithdraw(a, p, n)
            \/ \E v : LoadDraft(a, p, v) \/ StartRollback(a, p, v)
      BY <1>3 DEF Request
  <2>2. ASSUME NEW v, StartRollback(a, p, v) PROVE ~crossed'
    <3>1. Others(a) /\ at'[a] = "recalled" /\ Hold(a)
        BY <2>2, StartRollbackDoes DEF IInv, StartRollback
    <3> QED
        BY <1>1, <3>1
  <2> QED
      BY <2>1, <2>2 DEF ScanToCompile, ScanToWithdraw, LoadDraft
<1>4. ASSUME NEW a \in Admin, Work(a) PROVE ~crossed'
  <2>1. CASE ReadRecord(a)
    <3>1. Others(a) /\ at'[a] = "ready" /\ Hold(a)
        BY <2>1, ReadRecordDoes DEF IInv, ReadRecord
    <3> QED
        BY <1>1, <3>1
  <2>2. CASE BuildDraft(a) \/ NoDraft(a) \/ OpenDraft(a) \/ FillDraft(a) \/ AppendCreated(a)
      BY <2>2 DEF BuildDraft, NoDraft, OpenDraft, FillDraft, AppendCreated, Raise, ghosts
  <2>3. CASE OpenActive(a) \/ FillActive(a) \/ ReloadFails(a) \/ FindTarget(a) \/ NoTarget(a)
      BY <2>3 DEF OpenActive, FillActive, ReloadFails, FindTarget, NoTarget, Raise, ghosts
  <2>4. CASE OpenRecord(a) \/ SaveRecord(a) \/ ClearCache(a) \/ AppendOutcome(a)
             \/ AppendRaises(a)
      BY <2>4 DEF OpenRecord, SaveRecord, ClearCache, AppendOutcome, AppendRaises, ghosts
  <2> QED
      BY <1>4, <2>1, <2>2, <2>3, <2>4 DEF Work
<1>5. ASSUME NEW r \in Parser, Parse(r) PROVE ~crossed'
    BY <1>5 DEF Parse, CacheHit, CacheMiss, Choose, Insert, ghosts
<1> QED
    BY <1>2, <1>3, <1>4, <1>5 DEF Next, Crash

THEOREM NeverCrossed == Spec /\ []OneAtATime => []~crossed
<1>1. Init => ~crossed
    BY DEF Init
<1>2. IInv /\ OneAtATime /\ OneAtATime' /\ ~crossed /\ [Next]_vars => ~crossed'
    BY StaysUncrossed
<1> QED
    BY <1>1, <1>2, Invariance, PTL DEF Spec

\* What is chosen for a platform depends on its own files and its own pin.
LEMMA ServingDependsOn ==
    ASSUME NEW p,
           \A k : k[1] = p =>
               /\ k \in DOMAIN trained' <=> k \in DOMAIN trained
               /\ k \in DOMAIN trained => trained'[k] = trained[k],
           p \in DOMAIN pins' <=> p \in DOMAIN pins,
           p \in DOMAIN pins => pins'[p] = pins[p]
    PROVE  Serving(p)' = Serving(p)
<1> DEFINE Own == {f \in Chosen(Discovered(trained), pins) : f.platform = p}
<1>1. ASSUME NEW f, f.platform = p PROVE f \in Discovered(trained)' <=> f \in Discovered(trained)
  <2>1. ASSUME NEW k, f = Pack(k, "trained", trained[k]) \/ f = Pack(k, "trained", trained'[k])
        PROVE  k[1] = p
      BY <1>1, <2>1 DEF Pack
  <2>2. (\E k \in DOMAIN trained' : f = Pack(k, "trained", trained'[k]))
            <=> \E k \in DOMAIN trained : f = Pack(k, "trained", trained[k])
      BY <2>1
  <2> QED
      BY <2>2 DEF Discovered
<1>2. Own' = Own
  <2>1. \A f : f \in Own' <=> f \in Own
      BY <1>1 DEF Chosen
  <2> HIDE DEF Own
  <2> QED
      BY <2>1 DEF Own
<1> QED
    BY <1>2 DEF Serving, Serves

LEMMA ServingFollowsChoice ==
    ASSUME NEW p, Choice' = Choice
    PROVE  Serving(p)' = Serving(p)
    BY DEF Serving, Serves, Choice

\* A step of a request whose files are seen whole.
LEMMA OwnPlatformOnly ==
    ASSUME IInv, AInv, OneAtATime, OneAtATime', ~crossed, WholeWrites,
           NEW a \in Admin, Request(a) \/ Work(a), NEW p,
           job[a].kind = "compile" \/ p # job[a].platform
    PROVE  Serving(p)' = Serving(p)
<1>1. CASE UNCHANGED store
    BY <1>1, ServingFollowsChoice DEF Choice, store
<1>2. CASE FillDraft(a)
  <2>1. /\ trained' = WithFile(trained, Key(job[a]), DraftFile(job[a])) /\ pins' = pins
        /\ at[a] = "drafted"
      BY <1>2 DEF FillDraft, Step
  <2>2. Inert(Key(job[a]))
      BY <2>1 DEF AInv, RequestsOK, RequestOK, DraftOK
  <2>3. DraftFile(job[a]).status # "ACTIVE"
      BY DEF DraftFile, File
  <2> DEFINE k == Key(job[a])
  <2> DEFINE file == DraftFile(job[a])
  <2>4. Inert(k) /\ file.status # "ACTIVE" /\ trained' = WithFile(trained, k, file)
      BY <2>1, <2>2, <2>3
  <2> HIDE DEF k, file
  <2>5. Choice' = Choice
      BY <2>1, <2>4, InertWrite
  <2> QED
      BY <2>5, ServingFollowsChoice
<1>3. CASE FillActive(a)
  <2>1. /\ trained' = WithFile(trained, Key(job[a]), File("ACTIVE", job[a].pack))
        /\ pins' = pins /\ at[a] = "ready"
      BY <1>3 DEF FillActive, Step
  <2>2. job[a].kind # "compile"
      BY <2>1 DEF AInv, RequestsOK, RequestOK, KindOK
  <2>3. Key(job[a])[1] # p
      BY <2>2 DEF Key
  <2>4. \A i : i[1] = p => /\ i \in DOMAIN trained' <=> i \in DOMAIN trained
                           /\ i \in DOMAIN trained => trained'[i] = trained[i]
      BY <2>1, <2>3 DEF WithFile
  <2> QED
      BY <2>1, <2>4, ServingDependsOn
<1>4. CASE SaveRecord(a)
  <2>1. /\ trained' = trained /\ at[a] = "activated"
        /\ pins' = WithPin(job[a].pins, job[a].platform, job[a].version)
      BY <1>4 DEF SaveRecord, SavedPins, Step
  <2>2. job[a].kind # "compile"
      BY <2>1 DEF AInv, RequestsOK, RequestOK, KindOK
  <2>3. job[a].pins = pins
      BY <2>1 DEF IInv, HeldAsRead, Holding
  <2>4. /\ p \in DOMAIN pins' <=> p \in DOMAIN pins
        /\ p \in DOMAIN pins => pins'[p] = pins[p]
      BY <2>1, <2>2, <2>3 DEF WithPin
  <2> QED
      BY <2>1, <2>4, ServingDependsOn
<1>5. CASE Request(a)
    BY <1>1, <1>5 DEF Request, ScanToCompile, ScanToWithdraw, LoadDraft, StartRollback, Start
<1>6. CASE BuildDraft(a) \/ NoDraft(a) \/ AppendCreated(a) \/ ReadRecord(a) \/ ReloadFails(a)
    BY <1>1, <1>6 DEF BuildDraft, NoDraft, AppendCreated, ReadRecord, ReloadFails, Raise
<1>7. CASE FindTarget(a) \/ NoTarget(a) \/ ClearCache(a) \/ AppendOutcome(a) \/ AppendRaises(a)
    BY <1>1, <1>7 DEF FindTarget, NoTarget, ClearCache, AppendOutcome, AppendRaises, Raise
<1>8. ~OpenDraft(a) /\ ~OpenActive(a) /\ ~OpenRecord(a)
    BY DEF OpenDraft, OpenActive, OpenRecord
<1> QED
    BY <1>2, <1>3, <1>4, <1>5, <1>6, <1>7, <1>8 DEF Work

LEMMA OthersStay ==
    ASSUME IInv, OneAtATime, OneAtATime', NEW b \in Admin, Request(b) \/ Work(b),
           NEW a \in Admin, a # b
    PROVE  at'[a] = at[a]
<1>1. \/ \E from, to : Step(b, from, to)
      \/ End(b)
    BY DEF Request, Work, ScanToCompile, ScanToWithdraw, LoadDraft, StartRollback, Start,
       BuildDraft, NoDraft, OpenDraft, FillDraft, AppendCreated, ReadRecord, OpenActive,
       FillActive, ReloadFails, FindTarget, NoTarget, OpenRecord, SaveRecord, ClearCache,
       AppendOutcome, AppendRaises, Raise
<1> QED
    BY <1>1 DEF Step, End, IInv, ShapeOK

\* Where requests come one at a time and files are seen whole, no step of a
\* compile changes what is chosen for any platform, and no step of another
\* request what is chosen for a platform it is not about, though each rewrites
\* the whole record (api/train/service.py, compile_confirmation;
\* api/ingest/pack_activation.py, ActivationRecord.save).
THEOREM OnlyOwnPlatform ==
    ASSUME WholeWrites
    PROVE  Spec /\ []OneAtATime => OnlyItsOwnPlatform
<1> DEFINE Own ==
        \A a \in Admin : at'[a] # at[a] /\ job[a] # None =>
            \A p \in Platform :
                job[a].kind = "compile" \/ p # job[a].platform => Serving(p)' = Serving(p)
<1>1. IInv /\ AInv /\ OneAtATime /\ OneAtATime' /\ ~crossed /\ [Next]_vars => [Own]_vars
  <2> SUFFICES ASSUME IInv, AInv, OneAtATime, OneAtATime', ~crossed, Next
               PROVE  Own
      OBVIOUS
  <2> SUFFICES ASSUME NEW a \in Admin, at'[a] # at[a], NEW p \in Platform,
                      job[a].kind = "compile" \/ p # job[a].platform
               PROVE  Serving(p)' = Serving(p)
      OBVIOUS
  <2>1. CASE Crash
      BY <2>1, ServingFollowsChoice DEF Crash, Choice, store
  <2>2. ASSUME NEW r \in Parser, Parse(r) PROVE FALSE
      BY <2>2 DEF Parse, CacheHit, CacheMiss, Choose, Insert
  <2>3. ASSUME NEW b \in Admin, Request(b) \/ Work(b) PROVE Serving(p)' = Serving(p)
    <3>1. a = b
        BY <2>3, OthersStay
    <3> QED
        BY <2>3, <3>1, OwnPlatformOnly
  <2> QED
      BY <2>1, <2>2, <2>3 DEF Next
<1>2. OnlyItsOwnPlatform <=> [][Own]_vars
    BY DEF OnlyItsOwnPlatform
<1> QED
    BY <1>1, <1>2, Invariance, AloneInvariance, NeverCrossed, PTL DEF Spec

-----------------------------------------------------------------------------
(* What was once active is kept.                                           *)

LEMMA LivedCalm ==
    ASSUME LivedOK, NEW a \in Admin, Alone(a), UNCHANGED <<trained, lived, failed>>,
           at[a] \notin {"draft_open", "active_open"},
           at'[a] \notin {"draft_open", "active_open"},
           FiledOnce /\ ~failed /\ LivedFiles => LivedJob(a)'
    PROVE  LivedOK'
<1> SUFFICES ASSUME FiledOnce', ~failed' PROVE LivedFiles' /\ \A b \in Admin : LivedJob(b)'
    BY DEF LivedOK
<1>1. FiledOnce /\ ~failed
    BY DEF FiledOnce
<1>2. \A k : ~Open(k)
    BY DEF Alone, Open
<1>3. LivedFiles /\ LivedFiles'
    BY <1>1, <1>2 DEF LivedOK, LivedFiles
<1>4. ASSUME NEW b \in Admin, b # a PROVE LivedJob(b)'
    BY <1>4 DEF Alone, LivedJob
<1> QED
    BY <1>1, <1>3, <1>4

\* A step that takes the request elsewhere than on the way to a choice.
LEMMA LivedElsewhere ==
    ASSUME LivedOK, NEW a \in Admin, Alone(a), UNCHANGED <<trained, lived, failed>>,
           at[a] \notin {"draft_open", "active_open"},
           at'[a] \notin {"written", "loaded", "ready", "draft_open", "active_open"}
    PROVE  LivedOK'
    BY LivedCalm DEF LivedJob

LEMMA LivedOnward ==
    ASSUME LivedOK, NEW a \in Admin, Alone(a), UNCHANGED <<trained, lived, failed>>,
           at[a] \in {"written", "loaded"}, at'[a] \in {"loaded", "ready"},
           job'[a].kind = job[a].kind, Key(job'[a]) = Key(job[a]),
           job'[a].pack = job[a].pack
    PROVE  LivedOK'
<1>1. LivedJob(a) => LivedJob(a)'
    BY DEF LivedJob, Kept, Key
<1> QED
    BY <1>1, LivedCalm DEF LivedOK

LEMMA LivedWrite ==
    ASSUME LivedOK, NEW a \in Admin, Alone(a), NEW file, failed' = failed,
           trained' = WithFile(trained, Key(job[a]), file), job'[a] = job[a],
           DOMAIN lived' = DOMAIN lived,
           \A k \in DOMAIN lived : k # Key(job[a]) => lived'[k] = lived[k],
           FiledOnce /\ ~failed /\ LivedFiles /\ LivedJob(a) =>
               /\ Kept(Key(job[a]))' =>
                     file.patterns = lived'[Key(job[a])].patterns \/ Open(Key(job[a]))'
               /\ LivedJob(a)'
    PROVE  LivedOK'
<1> DEFINE k == Key(job[a])
<1>1. /\ DOMAIN trained' = DOMAIN trained \cup {k} /\ trained'[k] = file
      /\ \A i \in DOMAIN trained : i # k => trained'[i] = trained[i]
    BY DEF WithFile
<1> SUFFICES ASSUME FiledOnce', ~failed' PROVE LivedFiles' /\ \A b \in Admin : LivedJob(b)'
    BY DEF LivedOK
<1>2. FiledOnce /\ ~failed
    BY <1>1 DEF FiledOnce
<1>3. LivedFiles /\ LivedJob(a)
    BY <1>2 DEF LivedOK
<1>4. \A i : i # k => ~Open(i)
    BY DEF Alone, Open
<1>5. LivedFiles'
  <2> SUFFICES ASSUME NEW i \in DOMAIN lived', lived'[i].kept
               PROVE  i \in DOMAIN trained' /\ (trained'[i].patterns = lived'[i].patterns
                                                \/ Open(i)')
      BY DEF LivedFiles
  <2>1. CASE i = k
      BY <1>1, <1>2, <1>3, <2>1 DEF Kept, Key
  <2>2. CASE i # k
      BY <1>1, <1>3, <1>4, <2>2 DEF LivedFiles
  <2> QED
      BY <2>1, <2>2
<1>6. ASSUME NEW b \in Admin, b # a PROVE LivedJob(b)'
    BY <1>6 DEF Alone, LivedJob
<1> QED
    BY <1>2, <1>3, <1>5, <1>6

LEMMA LivedRequest ==
    ASSUME IInv, AInv, LivedOK, OneAtATime, OneAtATime', NEW a \in Admin, Request(a)
    PROVE  LivedOK'
<1>1. PICK p \in Platform :
          \/ \E e \in Example : ScanToCompile(a, p, e)
          \/ \E n \in PatternIds : ScanToWithdraw(a, p, n)
          \/ \E v : LoadDraft(a, p, v) \/ StartRollback(a, p, v)
    BY DEF Request
<1>2. UNCHANGED <<trained, lived, failed>>
    BY DEF Request, ScanToCompile, ScanToWithdraw, LoadDraft, StartRollback, Start, store
<1>3. ASSUME NEW e, ScanToCompile(a, p, e) PROVE LivedOK'
    BY <1>2, <1>3, ScanToCompileDoes, IsAlone, LivedElsewhere DEF IInv
<1>4. ASSUME NEW n, ScanToWithdraw(a, p, n) PROVE LivedOK'
    BY <1>2, <1>4, ScanToWithdrawDoes, IsAlone, LivedElsewhere DEF IInv
<1>5. ASSUME NEW v, StartRollback(a, p, v) PROVE LivedOK'
    BY <1>2, <1>5, StartRollbackDoes, IsAlone, LivedElsewhere DEF IInv
<1>6. ASSUME NEW v, LoadDraft(a, p, v) PROVE LivedOK'
  <2> DEFINE k == <<p, v>>
  <2>1. /\ Others(a) /\ at[a] = "idle" /\ at'[a] = "loaded"
        /\ job'[a].kind = "activate" /\ Key(job'[a]) = k
        /\ job'[a].pack = FindVersion(trained, k)
      BY <1>6, LoadDraftDoes DEF IInv
  <2>2. Alone(a)
      BY <2>1, IsAlone
  <2>3. ASSUME FiledOnce, LivedFiles PROVE LivedJob(a)'
    <3> SUFFICES ASSUME Kept(k) PROVE job'[a].pack.patterns = lived[k].patterns
        BY <1>2, <2>1 DEF LivedJob, Kept, Key
    <3>1. ~Open(k)
        BY <2>1, <2>2 DEF Alone, Open
    <3>2. k \in DOMAIN trained /\ trained[k].patterns = lived[k].patterns
        BY <2>3, <3>1 DEF LivedFiles, Kept
    <3>3. k \notin DOMAIN Shipped
        BY <2>3, <3>2 DEF FiledOnce
    <3> QED
        BY <2>1, <3>2, <3>3 DEF FindVersion, Pack
  <2> QED
      BY <1>2, <2>1, <2>2, <2>3, LivedCalm
<1> QED
    BY <1>1, <1>3, <1>4, <1>5, <1>6

LEMMA LivedDrafting ==
    ASSUME IInv, AInv, LivedOK, OneAtATime, OneAtATime', NEW a \in Admin,
           BuildDraft(a) \/ AppendCreated(a) \/ ReadRecord(a)
    PROVE  LivedOK'
<1>1. UNCHANGED <<trained, lived, failed>>
    BY DEF BuildDraft, AppendCreated, ReadRecord, store, ghosts
<1>2. CASE BuildDraft(a)
    BY <1>1, <1>2, BuildDraftDoes, IsAlone, LivedElsewhere DEF IInv
<1>3. CASE ReadRecord(a)
  <2>1. /\ Others(a) /\ at[a] = "loaded" /\ at'[a] = "ready"
        /\ job'[a].kind = job[a].kind /\ Key(job'[a]) = Key(job[a])
        /\ job'[a].pack = job[a].pack
      BY <1>3, ReadRecordDoes DEF IInv, Key
  <2> QED
      BY <1>1, <2>1, IsAlone, LivedOnward
<1>4. CASE AppendCreated(a) /\ job[a].kind = "compile"
  <2>1. Others(a) /\ at[a] = "written" /\ at'[a] = "idle"
      BY <1>4, Ended DEF IInv, AppendCreated
  <2> QED
      BY <1>1, <2>1, IsAlone, LivedElsewhere
<1>5. CASE AppendCreated(a) /\ job[a].kind # "compile"
  <2>1. Step(a, "written", "loaded") /\ job' = job
      BY <1>5 DEF AppendCreated
  <2>2. Others(a) /\ at[a] = "written" /\ at'[a] = "loaded" /\ job'[a] = job[a]
      BY <2>1, MovedOn DEF IInv, Points
  <2> QED
      BY <1>1, <2>2, IsAlone, LivedOnward
<1> QED
    BY <1>2, <1>3, <1>4, <1>5

LEMMA LivedEnds ==
    ASSUME IInv, AInv, LivedOK, OneAtATime, OneAtATime', NEW a \in Admin,
           NoDraft(a) \/ NoTarget(a) \/ AppendOutcome(a)
    PROVE  LivedOK'
<1>1. UNCHANGED <<trained, lived, failed>> /\ End(a)
      /\ at[a] \in {"scanned", "recalled", "cleared"}
    BY DEF NoDraft, NoTarget, AppendOutcome, Raise, store, ghosts
<1>2. Others(a) /\ at'[a] = "idle"
    BY <1>1, Ended DEF IInv
<1> QED
    BY <1>1, <1>2, IsAlone, LivedElsewhere

LEMMA LivedOpens ==
    ASSUME IInv, AInv, LivedOK, OneAtATime, OneAtATime', NEW a \in Admin,
           OpenDraft(a) \/ OpenActive(a)
    PROVE  LivedOK'
<1>1. /\ trained' = WithFile(trained, Key(job[a]), Torn) /\ job' = job
      /\ UNCHANGED <<lived, failed>>
      /\ \/ Step(a, "drafted", "draft_open")
         \/ Step(a, "ready", "active_open")
    BY DEF OpenDraft, OpenActive, ghosts
<1>2. /\ Others(a) /\ job'[a] = job[a]
      /\ \/ at[a] = "drafted" /\ at'[a] = "draft_open"
         \/ at[a] = "ready" /\ at'[a] = "active_open"
    BY <1>1, MovedOn DEF IInv, Points
<1>3. Alone(a) /\ Open(Key(job[a]))'
    BY <1>2, IsAlone DEF Open, Key
<1>4. LivedJob(a) => LivedJob(a)'
    BY <1>1, <1>2 DEF LivedJob, Kept, Key
<1> QED
    BY <1>1, <1>2, <1>3, <1>4, LivedWrite

LEMMA LivedFillDraft ==
    ASSUME IInv, AInv, LivedOK, OneAtATime, OneAtATime', NEW a \in Admin, FillDraft(a)
    PROVE  LivedOK'
<1> DEFINE from == IF WholeWrites THEN "drafted" ELSE "draft_open"
<1>1. Step(a, from, "written") /\ job' = job
    BY DEF FillDraft
<1>2. Others(a) /\ at[a] = from /\ at'[a] = "written" /\ job'[a] = job[a]
    BY <1>1, MovedOn DEF IInv, Points
<1>3. /\ trained' = WithFile(trained, Key(job[a]), DraftFile(job[a]))
      /\ failed' = failed
      /\ lived' = [k \in DOMAIN lived |->
                     [patterns |-> lived[k].patterns,
                      kept |-> lived[k].kept /\ k # Key(job[a])]]
    BY DEF FillDraft
<1>4. Alone(a)
    BY <1>2, IsAlone
<1> DEFINE file == DraftFile(job[a])
<1> HIDE DEF file, from
<1>5. /\ DOMAIN lived' = DOMAIN lived /\ ~Kept(Key(job[a]))'
      /\ \A k \in DOMAIN lived :
            k # Key(job[a]) =>
                lived'[k].patterns = lived[k].patterns /\ (lived'[k].kept <=> lived[k].kept)
    BY <1>2, <1>3 DEF Kept, Key
<1>6. LivedJob(a)'
    BY <1>2, <1>5 DEF LivedJob, Key, Kept
<1> SUFFICES ASSUME FiledOnce', ~failed' PROVE LivedFiles' /\ \A b \in Admin : LivedJob(b)'
    BY DEF LivedOK
<1>7. /\ DOMAIN trained' = DOMAIN trained \cup {Key(job[a])}
      /\ \A i \in DOMAIN trained : i # Key(job[a]) => trained'[i] = trained[i]
    BY <1>3 DEF WithFile
<1>8. FiledOnce /\ LivedFiles
    BY <1>3, <1>7 DEF FiledOnce, LivedOK
<1>9. \A i : i # Key(job[a]) => ~Open(i)
    BY <1>4 DEF Alone, Open
<1>10. LivedFiles'
  <2> SUFFICES ASSUME NEW i \in DOMAIN lived', lived'[i].kept
               PROVE  i \in DOMAIN trained' /\ trained'[i].patterns = lived'[i].patterns
      BY DEF LivedFiles
  <2>1. i # Key(job[a])
      BY <1>2, <1>5 DEF Kept, Key
  <2>2. i \in DOMAIN lived /\ lived[i].kept /\ lived'[i].patterns = lived[i].patterns
      BY <1>5, <2>1
  <2>3. i \in DOMAIN trained /\ trained[i].patterns = lived[i].patterns
      BY <1>8, <1>9, <2>1, <2>2 DEF LivedFiles
  <2> QED
      BY <1>7, <2>1, <2>2, <2>3
<1>11. ASSUME NEW b \in Admin, b # a PROVE LivedJob(b)'
    BY <1>4, <1>11 DEF Alone, LivedJob
<1> QED
    BY <1>6, <1>10, <1>11

LEMMA LivedFillActive ==
    ASSUME IInv, AInv, LivedOK, OneAtATime, OneAtATime', NEW a \in Admin, FillActive(a)
    PROVE  LivedOK'
<1> DEFINE from == IF WholeWrites THEN "ready" ELSE "active_open"
<1>1. Step(a, from, "activated") /\ job' = job
    BY DEF FillActive
<1>2. Others(a) /\ at[a] = from /\ at'[a] = "activated" /\ job'[a] = job[a]
    BY <1>1, MovedOn DEF IInv, Points
<1> DEFINE file == File("ACTIVE", job[a].pack)
<1>3. /\ trained' = WithFile(trained, Key(job[a]), file)
      /\ UNCHANGED <<lived, failed>>
    BY DEF FillActive, ghosts
<1>4. Alone(a)
    BY <1>2, IsAlone
<1>5. LivedJob(a)'
    BY <1>2 DEF LivedJob
<1>6. LivedJob(a) /\ Kept(Key(job[a])) => file.patterns = lived[Key(job[a])].patterns
    BY <1>2 DEF LivedJob, File
<1> HIDE DEF file, from
<1> QED
    BY <1>2, <1>3, <1>4, <1>5, <1>6, LivedWrite DEF Kept, Key

LEMMA LivedChoosing ==
    ASSUME IInv, AInv, LivedOK, OneAtATime, OneAtATime', NEW a \in Admin,
           FindTarget(a) \/ OpenRecord(a) \/ ClearCache(a)
    PROVE  LivedOK'
<1>1. /\ job' = job /\ UNCHANGED <<trained, lived, failed>>
      /\ \/ Step(a, "recalled", "activated")
         \/ Step(a, "activated", "record_open")
         \/ Step(a, "saved", "cleared")
    BY DEF FindTarget, OpenRecord, ClearCache, store, ghosts
<1>2. /\ Others(a)
      /\ \/ at[a] = "recalled" /\ at'[a] = "activated"
         \/ at[a] = "activated" /\ at'[a] = "record_open"
         \/ at[a] = "saved" /\ at'[a] = "cleared"
    BY <1>1, MovedOn DEF IInv, Points
<1> QED
    BY <1>1, <1>2, IsAlone, LivedElsewhere

LEMMA LivedSaves ==
    ASSUME IInv, AInv, LivedOK, OneAtATime, OneAtATime', NEW a \in Admin, SaveRecord(a)
    PROVE  LivedOK'
<1> DEFINE from == IF WholeWrites THEN "activated" ELSE "record_open"
<1>1. Step(a, from, "saved") /\ job' = job
    BY DEF SaveRecord
<1>2. Others(a) /\ at[a] = from /\ at'[a] = "saved" /\ job'[a] = job[a]
    BY <1>1, MovedOn DEF IInv, Points
<1>3. Alone(a)
    BY <1>2, IsAlone
<1> DEFINE k == Key(job[a])
<1> DEFINE was == [patterns |-> job[a].pack.patterns, kept |-> TRUE]
<1>4. /\ UNCHANGED <<trained, failed>>
      /\ lived' = IF job[a].kind = "rollback" THEN lived ELSE WithFile(lived, k, was)
    BY DEF SaveRecord
<1>5. CASE job[a].kind = "rollback"
    BY <1>2, <1>3, <1>4, <1>5, LivedElsewhere
<1>6. CASE job[a].kind # "rollback"
  <2>1. /\ DOMAIN lived' = DOMAIN lived \cup {k} /\ lived'[k] = was
        /\ \A i \in DOMAIN lived : i # k => lived'[i] = lived[i]
      BY <1>4, <1>6 DEF WithFile
  <2>2. k \in DOMAIN trained /\ trained[k].patterns = was.patterns
    <3>1. ActiveOK(a) /\ at[a] \in {"activated", "record_open"}
        BY <1>2 DEF AInv, RequestsOK, RequestOK
    <3>2. k \in DOMAIN trained /\ trained[k] = File("ACTIVE", job[a].pack)
        BY <1>6, <3>1 DEF ActiveOK
    <3> QED
        BY <3>2 DEF File
  <2> HIDE DEF k, was
  <2> SUFFICES ASSUME FiledOnce', ~failed'
               PROVE  LivedFiles' /\ \A b \in Admin : LivedJob(b)'
      BY DEF LivedOK
  <2>3. LivedFiles /\ \A i : ~Open(i)
      BY <1>2, <1>3, <1>4 DEF LivedOK, FiledOnce, Alone, Open
  <2>4. LivedFiles'
      BY <1>4, <2>1, <2>2, <2>3 DEF LivedFiles
  <2>5. ASSUME NEW b \in Admin PROVE LivedJob(b)'
      BY <1>2, <1>3, <2>5 DEF Alone, LivedJob
  <2> QED
      BY <2>4, <2>5
<1> QED
    BY <1>5, <1>6

LEMMA LivedStays ==
    ASSUME LivedOK, UNCHANGED <<trained, lived, failed, at, job>>
    PROVE  LivedOK'
<1>1. FiledOnce' <=> FiledOnce
    BY DEF FiledOnce
<1>2. LivedFiles' <=> LivedFiles
    BY DEF LivedFiles, Open, Key
<1>3. \A a : LivedJob(a)' <=> LivedJob(a)
    BY DEF LivedJob, Kept, Key
<1> QED
    BY <1>1, <1>2, <1>3 DEF LivedOK

LEMMA LivedStep ==
    ASSUME IInv, AInv, LivedOK, OneAtATime, OneAtATime', [Next]_vars
    PROVE  LivedOK'
<1>1. CASE UNCHANGED vars
    BY <1>1, LivedStays DEF vars, store, ghosts
<1>2. ASSUME NEW a \in Admin, Request(a) PROVE LivedOK'
    BY <1>2, LivedRequest
<1>3. ASSUME NEW a \in Admin, Work(a) PROVE LivedOK'
  <2>1. CASE BuildDraft(a) \/ AppendCreated(a) \/ ReadRecord(a)
      BY <2>1, LivedDrafting
  <2>2. CASE NoDraft(a) \/ NoTarget(a) \/ AppendOutcome(a)
      BY <2>2, LivedEnds
  <2>3. CASE OpenDraft(a) \/ OpenActive(a) \/ FillDraft(a) \/ FillActive(a)
      BY <2>3, LivedOpens, LivedFillDraft, LivedFillActive
  <2>4. CASE FindTarget(a) \/ OpenRecord(a) \/ ClearCache(a) \/ SaveRecord(a)
      BY <2>4, LivedChoosing, LivedSaves
  <2>5. CASE AppendRaises(a)
      BY <2>5 DEF AppendRaises, LivedOK
  <2> QED
      BY <1>3, <2>1, <2>2, <2>3, <2>4, <2>5, NeverTornAlone DEF Work
<1>4. ASSUME NEW r \in Parser, Parse(r) PROVE LivedOK'
    BY <1>4, LivedStays DEF Parse, CacheHit, CacheMiss, Choose, Insert, store, ghosts
<1>5. CASE Crash
    BY <1>5 DEF Crash, LivedOK
<1> QED
    BY <1>1, <1>2, <1>3, <1>4, <1>5 DEF Next

\* While requests come one at a time, the file of a version that was once active
\* holds what it held then, unless a draft went over it.
THEOREM LivedInvariance == Spec /\ []OneAtATime => []LivedOK
<1>1. Init => LivedOK
    BY DEF Init, LivedOK, LivedFiles, LivedJob
<1>2. IInv /\ AInv /\ OneAtATime /\ OneAtATime' /\ LivedOK /\ [Next]_vars => LivedOK'
    BY LivedStep
<1> QED
    BY <1>1, <1>2, Invariance, AloneInvariance, PTL DEF Spec

-----------------------------------------------------------------------------
(* What the choices of requests that come one at a time are worth.         *)

\* The pack of a platform whose pin a request has just saved.
LEMMA PinnedServes ==
    ASSUME IInv, AInv, Loadable(trained, pins), NEW a \in Admin, at[a] \in {"saved", "cleared"}
    PROVE  /\ Now = Choice
           /\ \A f \in Now :
                 f.platform = job[a].platform =>
                     /\ f = PackOf(Now, job[a].platform)
                     /\ f.version = job[a].version
           /\ \E f \in Now : f.platform = job[a].platform
<1> DEFINE p == job[a].platform
<1>1. p \in DOMAIN pins /\ pins[p] = job[a].version
    BY DEF AInv, RequestsOK, RequestOK, ActiveOK
<1>2. Now = Choice /\ Loads(Choice, pins)
    BY DEF Now, ActivePacks, Loadable, Choice
<1>3. \A f, g \in Now : f.platform = g.platform => f = g
    BY <1>2 DEF Loads
<1>4. PICK g \in Now : g.platform = p
    BY <1>1, <1>2 DEF Loads
<1>5. PackOf(Now, p) \in Now /\ PackOf(Now, p).platform = p
    BY <1>4 DEF PackOf
<1>6. \A f \in Now : f.platform = p => f.version = job[a].version
    BY <1>1, <1>2 DEF Choice, Chosen
<1> QED
    BY <1>2, <1>3, <1>4, <1>5, <1>6

\* That of the file of the version it chose, where that is in the trained tree.
LEMMA PinnedServesFile ==
    ASSUME IInv, AInv, Loadable(trained, pins), NEW a \in Admin, at[a] \in {"saved", "cleared"},
           Key(job[a]) \in DOMAIN trained
    PROVE  PackOf(Now, job[a].platform) = Pack(Key(job[a]), "trained", trained[Key(job[a])])
<1> DEFINE k == Key(job[a])
<1> DEFINE f == Pack(k, "trained", trained[k])
<1>1. f \in Discovered(trained) /\ f.platform = job[a].platform /\ f.version = job[a].version
    BY DEF Discovered, Pack, Key
<1>2. job[a].platform \in DOMAIN pins /\ pins[job[a].platform] = job[a].version
    BY DEF AInv, RequestsOK, RequestOK, ActiveOK
<1> HIDE DEF f
<1>3. f \in Choice
    BY <1>1, <1>2 DEF Choice, Chosen
<1> QED
    BY <1>1, <1>3, PinnedServes DEF f

LEMMA AloneIsStill ==
    ASSUME OneAtATime, NEW a \in Admin, at[a] \in {"saved", "cleared"}
    PROVE  Still
    BY DEF OneAtATime, Still

LEMMA WithdrawalHolds ==
    ASSUME IInv, AInv
    PROVE  WithdrawnIsGone
<1> SUFFICES ASSUME NEW a \in Admin, at[a] = "saved", job[a].kind = "withdraw",
                    Loadable(trained, pins), NEW f \in Now, f.platform = job[a].platform,
                    NEW q \in f.patterns
             PROVE  q[1] # job[a].pattern
    BY DEF WithdrawnIsGone
<1>1. /\ Key(job[a]) \in DOMAIN trained
      /\ trained[Key(job[a])] = File("ACTIVE", job[a].pack)
    BY DEF AInv, RequestsOK, RequestOK, ActiveOK
<1>2. f = Pack(Key(job[a]), "trained", trained[Key(job[a])])
    BY <1>1, PinnedServes, PinnedServesFile
<1>3. f.patterns = job[a].pack.patterns
    BY <1>1, <1>2 DEF Pack, File
<1> QED
    BY <1>3 DEF AInv, RequestsOK, RequestOK, WithdrawOK

LEMMA RollbackHolds ==
    ASSUME IInv, AInv, LivedOK, OneAtATime, ~crossed, ~failed
    PROVE  RollbackRestores
<1> SUFFICES ASSUME NEW a \in Admin, at[a] = "saved", job[a].kind = "rollback", FiledOnce,
                    Key(job[a]) \in DOMAIN lived, lived[Key(job[a])].kept
             PROVE  Restores(Key(job[a]))
    BY DEF RollbackRestores
<1> DEFINE k == Key(job[a])
<1>1. Loadable(trained, pins)
    BY AloneIsStill, StillIsLoadable
<1>2. ~Open(k)
    BY DEF OneAtATime, Open
<1>3. k \in DOMAIN trained /\ trained[k].patterns = lived[k].patterns
    BY <1>2 DEF LivedOK, LivedFiles
<1>4. PackOf(Now, job[a].platform) = Pack(k, "trained", trained[k])
    BY <1>1, <1>3, PinnedServesFile
<1>5. k[1] = job[a].platform
    BY DEF Key
<1>6. PackOf(Now, k[1]).patterns = lived[k].patterns
    BY <1>3, <1>4, <1>5 DEF Pack
<1> QED
    BY <1>1, <1>6 DEF Restores

\* Where requests come one at a time, a platform whose withdrawal has saved its
\* choice is parsed without the withdrawn pattern, if it is parsed at all: even
\* after failed appends and crashes (api/train/service.py, withdraw_pattern).
THEOREM WithdrawnStaysGone == Spec /\ []OneAtATime => []WithdrawnIsGone
    BY WithdrawalHolds, Invariance, AloneInvariance, PTL

\* Where requests come one at a time and none fails, rolling back to a version
\* that was once active and not drafted over since finds one pack for every
\* platform, and for its own what it did then (api/train/activation.py, rollback).
THEOREM RollbackAlwaysRestores == Spec /\ []OneAtATime /\ []~failed => []RollbackRestores
    BY RollbackHolds, Invariance, AloneInvariance, LivedInvariance, NeverCrossed, PTL

\* Where requests come one at a time, none fails and no version is in both trees,
\* the next parse finds the pack that was just chosen: the version that ships is
\* the one way to break the promise (api/train/service.py, activate_draft).
THEOREM NextParseFindsIt ==
    Spec /\ []OneAtATime /\ []~failed /\ []FiledOnce => []NextParseUsesIt
<1>1. IInv /\ AInv /\ OneAtATime /\ ~crossed /\ ~failed /\ FiledOnce => NextParseUsesIt
  <2> SUFFICES ASSUME IInv, AInv, OneAtATime, ~crossed, ~failed, FiledOnce,
                      NEW a \in Admin, at[a] = "cleared"
               PROVE  /\ Loadable(trained, pins)
                      /\ PackOf(Now, job[a].platform).version = job[a].version
      BY DEF NextParseUsesIt
  <2>1. Loadable(trained, pins)
      BY AloneIsStill, StillIsLoadable
  <2> QED
      BY <2>1, PinnedServes
<1> QED
    BY <1>1, Invariance, AloneInvariance, NeverCrossed, PTL

-----------------------------------------------------------------------------
(* The review of one administrator: what compile showed is what activate    *)
(* makes active.                                                            *)

OneAdministrator == \A a, b \in Admin : a = b

LEMMA OneIsAlone ==
    ASSUME OneAdministrator
    PROVE  OneAtATime /\ OneAtATime'
    BY DEF OneAdministrator, OneAtATime

ShownAt(a) ==
    shown[a] # None => ShownFile(a, Key(shown[a])) /\ ShownJob(a, Key(shown[a]))

ShownInv == DOMAIN shown = Admin /\ ShownOK

\* What was shown, once no file is open and none is being attested.
ShownStands(a) ==
    /\ FiledOnce /\ ~failed /\ shown[a] # None
    /\ Key(shown[a]) \in DOMAIN trained
    /\ trained[Key(shown[a])].patterns = shown[a].patterns

LEMMA ShownCalm ==
    ASSUME OneAdministrator, ShownInv, NEW a \in Admin,
           UNCHANGED <<trained, shown, failed>>,
           at[a] \notin {"draft_open", "active_open"},
           ~(at[a] = "written" /\ job[a].kind = "compile"),
           ShownStands(a) /\ ShownAt(a) => ShownJob(a, Key(shown[a]))'
    PROVE  ShownInv'
<1> SUFFICES ASSUME FiledOnce', ~failed', shown'[a] # None
             PROVE  ShownFile(a, Key(shown[a]))' /\ ShownJob(a, Key(shown[a]))'
    BY DEF ShownInv, ShownOK, OneAdministrator
<1>1. FiledOnce /\ ~failed /\ shown[a] # None
    BY DEF FiledOnce
<1>2. ShownAt(a)
    BY <1>1 DEF ShownInv, ShownOK, ShownAt
<1>3. ~Open(Key(shown[a]))
    BY DEF OneAdministrator, Open
<1>4. ShownStands(a)
    BY <1>1, <1>2, <1>3 DEF ShownAt, ShownFile, ShownStands
<1>5. ShownFile(a, Key(shown[a]))'
    BY <1>4 DEF ShownStands, ShownFile, Key
<1> QED
    BY <1>2, <1>4, <1>5

LEMMA ShownElsewhere ==
    ASSUME OneAdministrator, ShownInv, NEW a \in Admin,
           UNCHANGED <<trained, shown, failed>>,
           at[a] \notin {"draft_open", "active_open", "written"},
           at'[a] \notin {"written", "loaded", "ready", "active_open", "activated"}
    PROVE  ShownInv'
    BY ShownCalm DEF ShownJob

LEMMA ShownOnward ==
    ASSUME OneAdministrator, ShownInv, NEW a \in Admin,
           UNCHANGED <<trained, shown, failed>>,
           at[a] \in {"written", "loaded"}, job[a].kind # "compile",
           job'[a].kind = job[a].kind, Key(job'[a]) = Key(job[a]),
           job'[a].pack = job[a].pack
    PROVE  ShownInv'
<1>1. ShownAt(a) /\ shown[a] # None => ShownJob(a, Key(shown[a]))'
    BY DEF ShownAt, ShownJob, Key
<1> QED
    BY <1>1, ShownCalm DEF ShownStands

LEMMA ShownRequest ==
    ASSUME IInv, OneAdministrator, ShownInv, NEW a \in Admin, Request(a)
    PROVE  ShownInv'
<1>1. PICK p \in Platform :
          \/ \E e \in Example : ScanToCompile(a, p, e)
          \/ \E n \in PatternIds : ScanToWithdraw(a, p, n)
          \/ \E v : LoadDraft(a, p, v) \/ StartRollback(a, p, v)
    BY DEF Request
<1>2. UNCHANGED <<trained, shown, failed>>
    BY DEF Request, ScanToCompile, ScanToWithdraw, LoadDraft, StartRollback, Start, store
<1>3. ASSUME NEW e, ScanToCompile(a, p, e) PROVE ShownInv'
    BY <1>2, <1>3, ScanToCompileDoes, ShownElsewhere DEF IInv
<1>4. ASSUME NEW n, ScanToWithdraw(a, p, n) PROVE ShownInv'
    BY <1>2, <1>4, ScanToWithdrawDoes, ShownElsewhere DEF IInv
<1>5. ASSUME NEW v, StartRollback(a, p, v) PROVE ShownInv'
    BY <1>2, <1>5, StartRollbackDoes, ShownElsewhere DEF IInv
<1>6. ASSUME NEW v, LoadDraft(a, p, v) PROVE ShownInv'
  <2>1. /\ at[a] = "idle" /\ at'[a] = "loaded"
        /\ job'[a].kind = "activate" /\ Key(job'[a]) = <<p, v>>
        /\ job'[a].pack = FindVersion(trained, <<p, v>>)
      BY <1>6, LoadDraftDoes DEF IInv
  <2>2. ASSUME ShownStands(a) PROVE ShownJob(a, Key(shown[a]))'
    <3> DEFINE k == <<p, v>>
    <3> SUFFICES ASSUME Key(shown[a]) = k
                 PROVE  shown[a].patterns = job'[a].pack.patterns
        BY <1>2, <2>1 DEF ShownJob, Key
    <3>1. k \in DOMAIN trained /\ trained[k].patterns = shown[a].patterns
        BY <2>2 DEF ShownStands
    <3>2. k \notin DOMAIN Shipped
        BY <2>2, <3>1 DEF ShownStands, FiledOnce
    <3> QED
        BY <2>1, <3>1, <3>2 DEF FindVersion, Pack
  <2> QED
      BY <1>2, <2>1, <2>2, ShownCalm
<1> QED
    BY <1>1, <1>3, <1>4, <1>5, <1>6

LEMMA ShownDrafting ==
    ASSUME IInv, AInv, OneAdministrator, ShownInv, NEW a \in Admin,
           BuildDraft(a) \/ AppendCreated(a) \/ ReadRecord(a)
    PROVE  ShownInv'
<1>1. UNCHANGED <<trained, failed>>
    BY DEF BuildDraft, AppendCreated, ReadRecord, store, ghosts
<1>2. CASE BuildDraft(a)
    BY <1>1, <1>2, BuildDraftDoes, ShownElsewhere DEF IInv, BuildDraft, ghosts
<1>3. CASE ReadRecord(a)
  <2>1. /\ at[a] = "loaded" /\ shown' = shown
        /\ job'[a].kind = job[a].kind /\ Key(job'[a]) = Key(job[a])
        /\ job'[a].pack = job[a].pack
      BY <1>3, ReadRecordDoes DEF IInv, Key, ReadRecord
  <2>2. job[a].kind # "compile"
      BY <2>1 DEF AInv, RequestsOK, RequestOK, KindOK
  <2> QED
      BY <1>1, <2>1, <2>2, ShownOnward
<1>4. CASE AppendCreated(a) /\ job[a].kind = "compile"
  <2>1. /\ at[a] = "written" /\ at'[a] = "idle"
        /\ shown' = [shown EXCEPT ![a] = job[a].pack]
      BY <1>4, Ended DEF IInv, AppendCreated
  <2>2. shown'[a] = job[a].pack /\ DOMAIN shown' = Admin
      BY <2>1 DEF ShownInv
  <2>3. /\ Key(job[a].pack) = Key(job[a]) /\ Key(job[a]) \in DOMAIN trained
        /\ trained[Key(job[a])] = DraftFile(job[a])
      BY <2>1 DEF AInv, RequestsOK, RequestOK, DraftOK
  <2>4. trained[Key(job[a])].patterns = job[a].pack.patterns
      BY <2>3 DEF DraftFile, File
  <2>5. ShownFile(a, Key(shown[a]))'
      BY <1>1, <2>2, <2>3, <2>4 DEF ShownFile, Key
  <2>6. ShownJob(a, Key(shown[a]))'
      BY <2>1 DEF ShownJob
  <2> QED
      BY <2>2, <2>5, <2>6 DEF ShownInv, ShownOK, OneAdministrator
<1>5. CASE AppendCreated(a) /\ job[a].kind # "compile"
  <2>1. at[a] = "written" /\ job' = job /\ shown' = shown
      BY <1>5 DEF AppendCreated
  <2> QED
      BY <1>1, <1>5, <2>1, ShownOnward
<1> QED
    BY <1>2, <1>3, <1>4, <1>5

\* The steps that end a request, or take it past its file.
LEMMA ShownPast ==
    ASSUME IInv, AInv, OneAdministrator, ShownInv, NEW a \in Admin,
           \/ NoDraft(a) \/ NoTarget(a) \/ AppendOutcome(a)
           \/ FindTarget(a) \/ OpenRecord(a) \/ SaveRecord(a) \/ ClearCache(a)
    PROVE  ShownInv'
<1>1. UNCHANGED <<trained, shown, failed>>
    BY DEF NoDraft, NoTarget, AppendOutcome, FindTarget, OpenRecord, SaveRecord, ClearCache,
       Raise, store, ghosts
<1>2. CASE FindTarget(a)
  <2>1. Step(a, "recalled", "activated") /\ job' = job
      BY <1>2 DEF FindTarget
  <2>2. at[a] = "recalled" /\ job'[a] = job[a]
      BY <2>1 DEF Step
  <2>3. job[a].kind = "rollback"
      BY <2>2 DEF AInv, RequestsOK, RequestOK, KindOK
  <2>4. ShownJob(a, Key(shown[a]))'
      BY <2>2, <2>3 DEF ShownJob
  <2> QED
      BY <1>1, <2>2, <2>4, ShownCalm
<1>3. CASE OpenRecord(a) \/ SaveRecord(a) \/ ClearCache(a)
  <2>1. /\ at[a] \in {"activated", "record_open", "saved"}
        /\ at'[a] \in {"record_open", "saved", "cleared"}
      BY <1>3 DEF OpenRecord, SaveRecord, ClearCache, Step, IInv, ShapeOK
  <2> QED
      BY <1>1, <2>1, ShownElsewhere
<1>4. CASE NoDraft(a) \/ NoTarget(a) \/ AppendOutcome(a)
  <2>1. at[a] \in {"scanned", "recalled", "cleared"} /\ End(a)
      BY <1>4 DEF NoDraft, NoTarget, AppendOutcome, Raise
  <2>2. at'[a] = "idle"
      BY <2>1, Ended DEF IInv
  <2> QED
      BY <1>1, <2>1, <2>2, ShownElsewhere
<1> QED
    BY <1>2, <1>3, <1>4

\* A step that writes the request's file.
LEMMA ShownWrite ==
    ASSUME OneAdministrator, ShownInv, NEW a \in Admin, NEW file, failed' = failed,
           trained' = WithFile(trained, Key(job[a]), file), job'[a] = job[a],
           shown' = shown, ~(at[a] = "written"),
           FiledOnce /\ ~failed /\ shown[a] # None /\ ShownAt(a) =>
               /\ Key(job[a]) = Key(shown[a]) => \/ file.patterns = shown[a].patterns
                                                 \/ ShownFile(a, Key(shown[a]))'
               /\ ShownJob(a, Key(shown[a]))'
    PROVE  ShownInv'
<1> DEFINE k == Key(job[a])
<1>1. /\ DOMAIN trained' = DOMAIN trained \cup {k} /\ trained'[k] = file
      /\ \A i \in DOMAIN trained : i # k => trained'[i] = trained[i]
    BY DEF WithFile
<1> SUFFICES ASSUME FiledOnce', ~failed', shown[a] # None
             PROVE  ShownFile(a, Key(shown[a]))' /\ ShownJob(a, Key(shown[a]))'
    BY DEF ShownInv, ShownOK, OneAdministrator
<1>2. FiledOnce /\ ~failed
    BY <1>1 DEF FiledOnce
<1>3. ShownAt(a)
    BY <1>2 DEF ShownInv, ShownOK, ShownAt
<1> DEFINE i == Key(shown[a])
<1>4. i' = i
    BY DEF Key
<1>5. CASE i = k
    BY <1>1, <1>2, <1>3, <1>4, <1>5 DEF ShownFile
<1>6. CASE i # k
  <2>1. ~Open(i)
      BY <1>6 DEF OneAdministrator, Open
  <2>2. i \in DOMAIN trained /\ trained[i].patterns = shown[a].patterns
      BY <1>3, <2>1 DEF ShownAt, ShownFile
  <2>3. i \in DOMAIN trained' /\ trained'[i].patterns = shown'[a].patterns
      BY <1>1, <1>6, <2>2
  <2> HIDE DEF k, i
  <2>4. ShownFile(a, i)'
      BY <1>4, <2>3 DEF ShownFile
  <2> QED
      BY <1>2, <1>3, <2>4 DEF i
<1> QED
    BY <1>5, <1>6

LEMMA ShownOpens ==
    ASSUME IInv, AInv, OneAdministrator, ShownInv, NEW a \in Admin,
           OpenDraft(a) \/ OpenActive(a)
    PROVE  ShownInv'
<1>1. /\ trained' = WithFile(trained, Key(job[a]), Torn) /\ job' = job
      /\ UNCHANGED <<shown, failed>>
      /\ \/ Step(a, "drafted", "draft_open")
         \/ Step(a, "ready", "active_open")
    BY DEF OpenDraft, OpenActive, ghosts
<1>2. /\ \/ at[a] = "drafted" /\ at'[a] = "draft_open"
         \/ at[a] = "ready" /\ at'[a] = "active_open"
    BY <1>1, MovedOn DEF IInv, Points
<1>3. Open(Key(job[a]))' /\ Key(job[a]) \in DOMAIN trained'
    BY <1>1, <1>2 DEF Open, Key, WithFile
<1>4. Key(job[a]) = Key(shown[a]) => ShownFile(a, Key(shown[a]))'
    BY <1>1, <1>3 DEF ShownFile, Key, Open
<1>5. shown[a] # None /\ ShownAt(a) => ShownJob(a, Key(shown[a]))'
    BY <1>1, <1>2 DEF ShownAt, ShownJob, Key
<1> QED
    BY <1>1, <1>2, <1>4, <1>5, ShownWrite

LEMMA ShownFillDraft ==
    ASSUME IInv, AInv, OneAdministrator, ShownInv, NEW a \in Admin, FillDraft(a)
    PROVE  ShownInv'
<1>1. /\ trained' = WithFile(trained, Key(job[a]), DraftFile(job[a])) /\ job' = job
      /\ failed' = failed
      /\ shown' = IF job[a].kind = "withdraw" /\ ShownAs(a, Key(job[a]))
                  THEN [shown EXCEPT ![a] = None]
                  ELSE shown
    BY DEF FillDraft
<1>2. at[a] \in {"drafted", "draft_open"} /\ at'[a] = "written"
    BY DEF FillDraft, Step, IInv, ShapeOK
<1>3. job[a].kind \in {"compile", "withdraw"}
    BY <1>2 DEF AInv, RequestsOK, RequestOK, KindOK
<1>4. CASE job[a].kind = "withdraw" /\ ShownAs(a, Key(job[a]))
  <2>1. DOMAIN shown' = Admin /\ shown'[a] = None
      BY <1>1, <1>4 DEF ShownInv
  <2> QED
      BY <2>1 DEF ShownInv, ShownOK, OneAdministrator
<1>5. CASE ~(job[a].kind = "withdraw" /\ ShownAs(a, Key(job[a])))
  <2>1. shown' = shown
      BY <1>1, <1>5
  <2>2. Key(job[a]) \in DOMAIN trained'
      BY <1>1 DEF WithFile
  <2>3. ASSUME shown[a] # None, Key(job[a]) = Key(shown[a])
        PROVE  ShownFile(a, Key(shown[a]))'
    <3>1. job[a].kind = "compile"
        BY <1>3, <1>5, <2>3 DEF ShownAs
    <3> QED
        BY <1>1, <1>2, <2>1, <2>2, <2>3, <3>1 DEF ShownFile, Key
  <2>4. shown[a] # None => ShownJob(a, Key(shown[a]))'
      BY <1>1, <1>3, <1>5, <2>1 DEF ShownJob, ShownAs, Key
  <2> DEFINE file == DraftFile(job[a])
  <2>5. trained' = WithFile(trained, Key(job[a]), file)
      BY <1>1
  <2> HIDE DEF file
  <2> QED
      BY <1>1, <1>2, <2>1, <2>3, <2>4, <2>5, ShownWrite
<1> QED
    BY <1>4, <1>5

LEMMA ShownFillActive ==
    ASSUME IInv, AInv, OneAdministrator, ShownInv, NEW a \in Admin, FillActive(a)
    PROVE  ShownInv'
<1> DEFINE file == File("ACTIVE", job[a].pack)
<1>1. /\ trained' = WithFile(trained, Key(job[a]), file) /\ job' = job
      /\ UNCHANGED <<shown, failed>>
    BY DEF FillActive, ghosts
<1>2. at[a] \in {"ready", "active_open"} /\ at'[a] = "activated"
    BY DEF FillActive, Step, IInv, ShapeOK
<1>3. job[a].kind \in {"activate", "withdraw"}
    BY <1>2 DEF AInv, RequestsOK, RequestOK, KindOK
<1>4. shown[a] # None /\ ShownAt(a) /\ Key(job[a]) = Key(shown[a]) =>
          file.patterns = shown[a].patterns
    BY <1>2, <1>3 DEF ShownAt, ShownJob, File
<1>5. shown[a] # None /\ ShownAt(a) => ShownJob(a, Key(shown[a]))'
    BY <1>1, <1>2 DEF ShownAt, ShownJob, Key
<1> HIDE DEF file
<1> QED
    BY <1>1, <1>2, <1>4, <1>5, ShownWrite

LEMMA ShownStays ==
    ASSUME ShownInv, UNCHANGED <<trained, shown, failed, at, job>>
    PROVE  ShownInv'
<1>1. FiledOnce' <=> FiledOnce
    BY DEF FiledOnce
<1>2. ASSUME NEW a, NEW k PROVE (ShownFile(a, k)' <=> ShownFile(a, k))
                                /\ (ShownJob(a, k)' <=> ShownJob(a, k))
    BY DEF ShownFile, ShownJob, Open, Key
<1>3. \A a : Key(shown[a])' = Key(shown[a])
    BY DEF Key
<1> QED
    BY <1>1, <1>2, <1>3 DEF ShownInv, ShownOK

LEMMA ShownStep ==
    ASSUME IInv, AInv, OneAdministrator, ShownInv, [Next]_vars
    PROVE  ShownInv'
<1>1. CASE UNCHANGED vars
    BY <1>1, ShownStays DEF vars, store, ghosts
<1>2. ASSUME NEW a \in Admin, Request(a) PROVE ShownInv'
    BY <1>2, ShownRequest
<1>3. ASSUME NEW a \in Admin, Work(a) PROVE ShownInv'
  <2>1. CASE BuildDraft(a) \/ AppendCreated(a) \/ ReadRecord(a)
      BY <2>1, ShownDrafting
  <2>2. CASE \/ NoDraft(a) \/ NoTarget(a) \/ AppendOutcome(a)
             \/ FindTarget(a) \/ OpenRecord(a) \/ SaveRecord(a) \/ ClearCache(a)
      BY <2>2, ShownPast
  <2>3. CASE OpenDraft(a) \/ OpenActive(a) \/ FillDraft(a) \/ FillActive(a)
      BY <2>3, ShownOpens, ShownFillDraft, ShownFillActive
  <2>4. CASE AppendRaises(a)
      BY <2>4 DEF AppendRaises, ShownInv, ShownOK
  <2> QED
      BY <1>3, <2>1, <2>2, <2>3, <2>4, NeverTornAlone DEF Work
<1>4. ASSUME NEW r \in Parser, Parse(r) PROVE ShownInv'
    BY <1>4, ShownStays DEF Parse, CacheHit, CacheMiss, Choose, Insert, store, ghosts
<1>5. CASE Crash
    BY <1>5 DEF Crash, ShownInv, ShownOK
<1> QED
    BY <1>1, <1>2, <1>3, <1>4, <1>5 DEF Next

\* With one administrator and nothing failing, an activation makes active the
\* patterns compile last showed under the number, a withdrawal all but the one it
\* is about, and a rollback those the version had when it was last active, in
\* any sequence of requests, of any length, on any platforms
\* (api/train/service.py, activate_draft, withdraw_pattern, rollback_pack).
THEOREM ChoicesAlwaysServe ==
    ASSUME OneAdministrator
    PROVE  Spec /\ []~failed => []ChoicesServeTheirPatterns
<1>1. OneAtATime /\ OneAtATime'
    BY OneIsAlone
<1>2. Init => ShownInv
    BY DEF Init, ShownInv, ShownOK
<1>3. IInv /\ AInv /\ ShownInv /\ [Next]_vars => ShownInv'
    BY ShownStep
<1>4. ~failed /\ ShownInv => ActivatesWhatWasShown
  <2> SUFFICES ASSUME ~failed, ShownInv, NEW a \in Admin, at[a] = "activated",
                      job[a].kind = "activate", FiledOnce, ShownAs(a, Key(job[a]))
               PROVE  shown[a].patterns = job[a].pack.patterns
      BY DEF ActivatesWhatWasShown
  <2>1. shown[a] # None /\ Key(shown[a]) = Key(job[a])
      BY DEF ShownAs
  <2> QED
      BY <2>1 DEF ShownInv, ShownOK, ShownJob
<1>5. IInv /\ AInv /\ LivedOK /\ OneAtATime /\ ~crossed /\ ~failed =>
          WithdrawnIsGone /\ RollbackRestores
    BY WithdrawalHolds, RollbackHolds
<1>6. ActivatesWhatWasShown /\ WithdrawnIsGone /\ RollbackRestores => ChoicesServeTheirPatterns
    BY DEF ChoicesServeTheirPatterns
<1> QED
    BY <1>1, <1>2, <1>3, <1>4, <1>5, <1>6, Invariance, AloneInvariance, LivedInvariance,
       NeverCrossed, PTL DEF Spec

=============================================================================
