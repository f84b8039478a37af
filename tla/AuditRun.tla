------------------------------ MODULE AuditRun ------------------------------
(***************************************************************************)
(* POST /audits (api/routers/audits.py) and the training queue around it:  *)
(* requests parse a stored configuration with the active pack, replace the *)
(* file's residue in the queue, store the run and its findings, and attest *)
(* the run; meanwhile administrators confirm what a queued line means and  *)
(* activate or withdraw the pattern compiled from it.                      *)
(*                                                                         *)
(* Connections are in autocommit mode (isolation_level=None), where        *)
(* conn.commit() and "with conn:" neither open nor end a transaction, so   *)
(* every INSERT and DELETE is a step of its own.  A line is the shape its  *)
(* signature gives it; the active packs are the shapes they recognise, and *)
(* PackLifecycle says how they come about.  An append is one step.         *)
(***************************************************************************)
EXTENDS Naturals, FiniteSets

CONSTANTS
    Auditor,        \* requests of POST /audits in flight
    Shape,          \* signatures of configuration lines
    Text,           \* file -> line number -> shape
    Taught,         \* bound: the shapes an administrator gets to decide on
    Selections,     \* the sets of rules a selection of frameworks leaves
    Mixed,          \* a file whose queue was written by overlapping requests
    Idle,           \* a request not in flight
    MayFail,        \* TRUE: a statement may raise and the process may die
    MaxAudits       \* bound on the audits of a behaviour

ASSUME TextAssumption ==
    /\ Taught \subseteq Shape
    /\ \A f \in DOMAIN Text : Text[f] \in [DOMAIN Text[f] -> Shape]

File == DOMAIN Text
Line == {<<f, n>> : f \in File, n \in UNION {DOMAIN Text[g] : g \in File}}

\* A request in flight: what run_audit_endpoint holds.
Requests ==
    [point : {"parsed", "cleared", "queued", "saving"}, id : Nat, file : File,
     known : SUBSET Shape, rows : SUBSET Line, results : Selections,
     overlapped : BOOLEAN]

ASSUME IdleAssumption == Idle \notin Requests

VARIABLES
    learned,    \* the shapes the active packs recognise
    queue,      \* unknown_line: <<file, line number>>
    runs,       \* audit_run, finding, finding_evidence: audit_id -> progress
    examples,   \* training_example: the shapes decided upon
    attested,   \* the audit chain: <<action, audit_id or shape>>
    job,        \* each request: Idle, or where it is and what it read
    deciding,   \* the decisions attested and not yet stored
    settled,    \* per file: what was learned at the parse the queue is from
    failed,     \* a statement has raised, or the process has died
    audits      \* audits so far

vars == <<learned, queue, runs, examples, attested, job, deciding, settled,
          failed, audits>>

Init ==
    /\ learned = {}
    /\ queue = {}
    /\ runs = [i \in {} |-> 0]
    /\ examples = {}
    /\ attested = {}
    /\ job = [a \in Auditor |-> Idle]
    /\ deciding = {}
    /\ settled = [f \in File |-> Mixed]
    /\ failed = FALSE
    /\ audits = 0

-----------------------------------------------------------------------------

\* The lines of f no pattern matches, as csm.residue.
Residue(f, known) == {<<f, n>> : n \in {m \in DOMAIN Text[f] : Text[f][m] \notin known}}

At(a, point) == job[a] # Idle /\ job[a].point = point

\* The requests between reading the pack for f and having queued its residue.
Queueing(f) ==
    {a \in Auditor : job[a] # Idle /\ job[a].file = f
                        /\ job[a].point \in {"parsed", "cleared"}}

\* find_pack, parse_configuration, build_csm and scope_selection.
Parse(a, f, results) ==
    /\ job[a] = Idle
    /\ audits < MaxAudits
    /\ audits' = audits + 1
    /\ job' = [b \in Auditor |->
          IF b = a THEN [point |-> "parsed", id |-> audits, file |-> f,
                         known |-> learned, rows |-> Residue(f, learned),
                         results |-> results, overlapped |-> Queueing(f) # {}]
          ELSE IF b \in Queueing(f) THEN [job[b] EXCEPT !.overlapped = TRUE]
          ELSE job[b]]
    /\ UNCHANGED <<learned, queue, runs, examples, attested, deciding, settled, failed>>

\* Mutant: INSERT OR REPLACE is trusted to replace.
ClearNothing(a) ==
    /\ At(a, "parsed")
    /\ settled' = [settled EXCEPT ![job[a].file] = Mixed]
    /\ job' = [job EXCEPT ![a].point = "cleared"]
    /\ UNCHANGED <<learned, queue, runs, examples, attested, deciding, failed, audits>>

\* clear_unknown_lines
Clear(a) ==
    /\ At(a, "parsed")
    /\ queue' = {q \in queue : q[1] # job[a].file}
    /\ settled' = [settled EXCEPT ![job[a].file] = Mixed]
    /\ job' = [job EXCEPT ![a].point = "cleared"]
    /\ UNCHANGED <<learned, runs, examples, attested, deciding, failed, audits>>

\* Mutant: the loop over the residue does not advance.
QueueAgain(a, q) ==
    /\ At(a, "cleared")
    /\ q \in job[a].rows
    /\ queue' = queue \cup {q}
    /\ UNCHANGED <<learned, runs, examples, attested, job, deciding, settled, failed, audits>>

\* record_unknown_lines, one INSERT OR REPLACE.
QueueLine(a, q) ==
    /\ At(a, "cleared")
    /\ q \in job[a].rows
    /\ \A p \in job[a].rows : q[2] <= p[2]
    /\ queue' = queue \cup {q}
    /\ job' = [job EXCEPT ![a].rows = @ \ {q}]
    /\ UNCHANGED <<learned, runs, examples, attested, deciding, settled, failed, audits>>

Queued(a) ==
    /\ At(a, "cleared")
    /\ job[a].rows = {}
    /\ job' = [job EXCEPT ![a].point = "queued"]
    /\ settled' = IF job[a].overlapped THEN settled
                  ELSE [settled EXCEPT ![job[a].file] = job[a].known]
    /\ UNCHANGED <<learned, queue, runs, examples, attested, deciding, failed, audits>>

\* 409: the selection leaves no rule to report on.
NoResults(a) ==
    /\ At(a, "queued")
    /\ job[a].results = {}
    /\ job' = [job EXCEPT ![a] = Idle]
    /\ UNCHANGED <<learned, queue, runs, examples, attested, deciding, settled,
                   failed, audits>>

-----------------------------------------------------------------------------
(* save_run: the run, then each finding followed by its evidence.          *)

Statements(results) == 2 * Cardinality(results)

InsertRun(a) ==
    /\ At(a, "queued")
    /\ job[a].results # {}
    /\ runs' = [i \in DOMAIN runs \cup {job[a].id} |->
                  IF i = job[a].id THEN [results |-> job[a].results, done |-> 0]
                  ELSE runs[i]]
    /\ job' = [job EXCEPT ![a].point = "saving"]
    /\ UNCHANGED <<learned, queue, examples, attested, deciding, settled, failed, audits>>

Whole(i) == runs[i].done = Statements(runs[i].results)

InsertFinding(a) ==
    /\ At(a, "saving")
    /\ ~Whole(job[a].id)
    /\ runs' = [runs EXCEPT ![job[a].id].done = @ + 1]
    /\ UNCHANGED <<learned, queue, examples, attested, job, deciding, settled,
                   failed, audits>>

\* Mutant: the run is attested once it has a row.
SavedARow(a) == At(a, "saving")
Saved(a) == At(a, "saving") /\ Whole(job[a].id)
RunRecord(a) == {<<"AUDIT_RUN", job[a].id>>}

\* append_system(AUDIT_RUN), and the response.
Attest(a) ==
    /\ Saved(a)
    /\ attested' = attested \cup RunRecord(a)
    /\ job' = [job EXCEPT ![a] = Idle]
    /\ UNCHANGED <<learned, queue, runs, examples, deciding, settled, failed, audits>>

\* A statement or the append raises (SQLITE_BUSY, a full disk): the request
\* fails, and what autocommit has stored stays.
Raise(a) ==
    /\ MayFail
    /\ job[a] # Idle
    /\ job' = [job EXCEPT ![a] = Idle]
    /\ failed' = TRUE
    /\ UNCHANGED <<learned, queue, runs, examples, attested, deciding, settled, audits>>

-----------------------------------------------------------------------------
(* The administrator.                                                      *)

\* Mutant: the example is stored before the decision is attested.
StoreFirst(s) ==
    /\ deciding' = deciding \cup {s}
    /\ examples' = examples \cup {s}
    /\ UNCHANGED <<learned, queue, runs, attested, job, settled, failed, audits>>

\* confirm: ADMIN_CONFIRMED is appended first, then the example stored.  The
\* queue is only asked which suggestions were shown.
Decide(s) ==
    /\ attested' = attested \cup {<<"ADMIN_CONFIRMED", s>>}
    /\ deciding' = deciding \cup {s}
    /\ UNCHANGED <<learned, queue, runs, examples, job, settled, failed, audits>>

StoreExample(s) ==
    /\ s \in deciding
    /\ examples' = examples \cup {s}
    /\ deciding' = deciding \ {s}
    /\ UNCHANGED <<learned, queue, runs, attested, job, settled, failed, audits>>

\* 422: TrainingExample refuses the field or the outcome, which are validated
\* only once the decision is attested.
RefuseExample(s) ==
    /\ s \in deciding
    /\ deciding' = deciding \ {s}
    /\ UNCHANGED <<learned, queue, runs, examples, attested, job, settled,
                   failed, audits>>

\* A pattern compiled from the example is activated; it is withdrawn.
Activate(s) ==
    /\ s \in examples \ learned
    /\ learned' = learned \cup {s}
    /\ UNCHANGED <<queue, runs, examples, attested, job, deciding, settled,
                   failed, audits>>

Withdraw(s) ==
    /\ s \in learned
    /\ learned' = learned \ {s}
    /\ UNCHANGED <<queue, runs, examples, attested, job, deciding, settled,
                   failed, audits>>

Crash ==
    /\ MayFail
    /\ job' = [a \in Auditor |-> Idle]
    /\ deciding' = {}
    /\ failed' = TRUE
    /\ UNCHANGED <<learned, queue, runs, examples, attested, settled, audits>>

-----------------------------------------------------------------------------

Work(a) ==
    \/ Clear(a) \/ Queued(a) \/ NoResults(a) \/ InsertRun(a) \/ InsertFinding(a)
    \/ Attest(a)
    \/ \E q \in File \X UNION {DOMAIN Text[f] : f \in File} : QueueLine(a, q)

Next ==
    \/ \E a \in Auditor :
          \/ \E f \in File, results \in Selections : Parse(a, f, results)
          \/ Work(a)
          \/ Raise(a)
    \/ \E s \in Taught :
          Decide(s) \/ StoreExample(s) \/ RefuseExample(s) \/ Activate(s) \/ Withdraw(s)
    \/ Crash

\* A request in flight keeps running.
Spec == Init /\ [][Next]_vars /\ \A a \in Auditor : WF_vars(Work(a))

-----------------------------------------------------------------------------

TypeOK ==
    /\ learned \subseteq Shape
    /\ examples \subseteq Shape
    /\ deciding \subseteq Shape
    /\ queue \subseteq Line
    /\ DOMAIN runs \subseteq Nat
    /\ \A i \in DOMAIN runs : runs[i] = [results |-> runs[i].results, done |-> runs[i].done]
    /\ job \in [Auditor -> Requests \cup {Idle}]
    /\ settled \in [File -> (SUBSET Shape) \cup {Mixed}]
    /\ failed \in BOOLEAN
    /\ audits \in Nat

\* "A decision in the database always points at the attestation that it
\* happened", and so does every pattern that is parsed with.
DecisionIsAttested ==
    \A s \in examples \cup learned : <<"ADMIN_CONFIRMED", s>> \in attested

\* The chain attests no run the database cannot show in full: neither a
\* finding nor its evidence is missing, whatever raised or died.  And unless
\* something failed, every stored run is whole and attested as soon as its
\* request has ended.
RunsAgreeWithTheChain ==
    /\ \A i \in DOMAIN runs \cup 0 .. MaxAudits :
          <<"AUDIT_RUN", i>> \in attested => i \in DOMAIN runs /\ Whole(i)
    /\ ~failed =>
          \A i \in DOMAIN runs :
              \/ \E a \in Auditor : job[a] # Idle /\ job[a].id = i
              \/ Whole(i) /\ <<"AUDIT_RUN", i>> \in attested

\* The queue of a file is what the last parse left unrecognised, with no line
\* of an earlier parse surviving "to be confirmed twice", unless two requests
\* audited the file at once or one of them failed.
QueueIsTheLastParse ==
    \A f \in File :
        settled[f] # Mixed => {q \in queue : q[1] = f} = Residue(f, settled[f])

\* A request that has started ends, with a response or an error.
EveryAuditEnds == \A a \in Auditor : job[a] # Idle ~> job[a] = Idle

=============================================================================
