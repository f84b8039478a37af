------------------------------- MODULE Fleet -------------------------------
(***************************************************************************)
(* GET /fleet/baseline over what uploads left behind.  An upload is taken  *)
(* for a platform once, by the packs active at its first ingestion; the    *)
(* baseline reads every stored file again, with the pack its platform has  *)
(* by then, and compares each device with its cohort, field by field       *)
(* (api/routers/fleet.py, api/prioritise/baseline.py).                     *)
(*                                                                         *)
(* What a pack finds in a line is a function from lines to values, one per *)
(* canonical field; how a field and its absence come to a state is module  *)
(* Verdicts.  The steps of an upload are module Ingestion, those of a pack *)
(* change PackLifecycle: each is one action here.  The baseline is not:    *)
(* its handler runs in a thread and asks for the pack of every row anew,   *)
(* so uploads, pack changes and lost blobs come between two rows.          *)
(***************************************************************************)
EXTENDS Verdicts, Detection

CONSTANTS
    PackOf,         \* platform -> the packs it may have, each a record
    Shipped,        \* the packs active on a fresh installation, by platform
    Batches,        \* what may be uploaded together: sequences of uploads
    Limits,         \* the values of the query parameter `limit'
    MinCohort,      \* MIN_COHORT_SIZE
    NoPage,         \* no request is in flight, no response was just given
    MaxUploads, MaxChanges, MaxLost     \* bounds on the run

ASSUME MinCohortAssumption == MinCohort \in Nat
ASSUME LimitsAssumption == Limits \subseteq Nat

\* A platform has a name, and so its place among them; weights count in
\* hundredths; a pattern for the host name captures that of the device.
ASSUME PackOfAssumption ==
    /\ Unidentified \notin DOMAIN PackOf
    /\ DOMAIN Shipped \subseteq DOMAIN PackOf
    /\ \A p \in DOMAIN Shipped : Shipped[p] \in PackOf[p]
    /\ IsFiniteSet(DOMAIN PackOf)
    /\ \A p \in DOMAIN PackOf : \A a \in PackOf[p] :
          /\ a.rank \in Nat
          /\ \A q \in DOMAIN PackOf \ {p} : \A b \in PackOf[q] : a.rank # b.rank
          /\ IsFiniteSet(a.detect)
          /\ \A s \in a.detect : s.weight \in Nat
          /\ a.hostname \in Seq(ToSet(a.hostname))
          /\ \A f \in DOMAIN a.fields :
                a.fields[f].capability.supported \in {"yes", "no", "undocumented"}
ASSUME BatchesAssumption ==
    \A batch \in Batches :
        /\ batch \in Seq(ToSet(batch))
        /\ \A i \in DOMAIN batch :
              LET upload == batch[i] IN
              /\ upload = [name |-> upload.name, host |-> upload.host, lines |-> upload.lines,
                           claims |-> upload.claims, wellFormed |-> upload.wellFormed]
              /\ upload.lines \in Seq(ToSet(upload.lines))
              /\ \A p \in DOMAIN PackOf : \A a \in PackOf[p] :
                    \A k \in DOMAIN a.hostname, l \in ToSet(upload.lines) :
                        l \in DOMAIN a.hostname[k] => a.hostname[k][l] \in {"", upload.host}

VARIABLES
    packs,      \* platform -> its active pack, where it has one
    files,      \* the rows of config_file, by first_seen_at
    judge,      \* ghost: row -> the packs that judged it
    lost,       \* the contents whose blob cannot be read
    reading,    \* the request in flight: rows, those read, what came of them
    page,       \* the response, while the step that gave it is the last one
    spent       \* uploads and pack changes so far, for the bounds

fleetVars == <<packs, files, judge, lost, reading, page, spent>>

Platforms == DOMAIN PackOf
Content(upload) ==
    [host |-> upload.host, lines |-> upload.lines, claims |-> upload.claims,
     wellFormed |-> upload.wellFormed]
Stored == {files[i].content : i \in DOMAIN files}

FleetInit ==
    /\ packs = Shipped
    /\ files = <<>> /\ judge = <<>>
    /\ lost = {}
    /\ reading = NoPage
    /\ page = NoPage
    /\ spent = [uploads |-> 0, changes |-> 0]

-----------------------------------------------------------------------------
(* What a device is, to the baseline.                                      *)

Fields(pack) == DOMAIN pack.fields

\* build_csm, for one field: what its patterns matched, or what the pack
\* claims of the absence.
FieldOf(pack, f, content) ==
    LET spec == pack.fields[f]
        hits == SelectSeq(content.lines, LAMBDA l : l \in DOMAIN spec.reads)
        matches == [i \in DOMAIN hits |-> spec.reads[hits[i]]]
    IN  Resolve(BuildField(matches, FALSE, spec.worst), spec.capability, spec.default)

\* Nothing sets peer_group, so a cohort is a platform.
CohortOf(row) == row.platform

Observation(row) ==
    LET pack == packs[row.platform] IN
    [id |-> row.content, cohort |-> CohortOf(row),
     label |-> HostName(pack, row.content), by |-> pack,
     states |-> [f \in Fields(pack) |-> FieldOf(pack, f, row.content).state]]

\* A row that is skipped: no pack for it today, or no blob.
Skipped(row) == row.platform \notin DOMAIN packs \/ row.content \in lost

-----------------------------------------------------------------------------
(* Baselines.  obs is a set of observations.                               *)

\* Mutant: whatever is not present is missing.
EveryState == {"PRESENT", "ABSENT_DEFAULT", "ABSENT_UNSUPPORTED", "UNKNOWN"}

DeterminableStates == {"PRESENT", "ABSENT_DEFAULT", "ABSENT_UNSUPPORTED"}

Members(obs, cohort) == {o \in obs : o.cohort = cohort}

\* states.get(field, UNKNOWN): packs may differ in the fields they know.
StateOf(o, f) == IF f \in DOMAIN o.states THEN o.states[f] ELSE "UNKNOWN"

Count(members, f, state) == Cardinality({o \in members : StateOf(o, f) = state})

Determinable(members, f) == {o \in members : StateOf(o, f) \in DeterminableStates}

\* build_baseline.  A tie for the majority is below three quarters, so which
\* of the tied states most_common(1) names is never seen.
Baseline(obs, cohort, f) ==
    LET members == Members(obs, cohort)
        read == Cardinality(Determinable(members, f))
        counts == [s \in DeterminableStates |-> Count(members, f, s)]
        top == CHOOSE s \in DeterminableStates :
                    \A t \in DeterminableStates : counts[t] <= counts[s]
        outcome ==
            CASE Cardinality(members) < MinCohort -> "cohort_too_small"
              [] Cardinality(members) >= MinCohort /\ read = 0 ->
                    "no_determinable_states"
              [] Cardinality(members) >= MinCohort /\ read # 0
                    /\ 4 * counts[top] < 3 * read -> "no_majority"
              [] OTHER -> "compared"
    IN  [cohort |-> cohort, field |-> f, outcome |-> outcome,
         size |-> Cardinality(members), determinable |-> read,
         majority |-> IF outcome = "compared" THEN top ELSE "",
         agreeing |-> IF outcome = "compared" THEN counts[top] ELSE 0]

\* baselines_for: every cohort and field, the refusals included.
Baselines(obs) ==
    UNION {{Baseline(obs, o.cohort, f) : f \in DOMAIN o.states} : o \in obs}

\* find_outliers: of a baseline that was compared, the members whose state is
\* determinable and another.
Outliers(obs) ==
    UNION {
        {[device |-> o, state |-> StateOf(o, b.field), baseline |-> b] :
            o \in {m \in Determinable(Members(obs, b.cohort), b.field) :
                      StateOf(m, b.field) # b.majority}}
        : b \in {c \in Baselines(obs) : c.outcome = "compared"}}

FleetBaseline(obs) == [baselines |-> Baselines(obs), outliers |-> Outliers(obs)]

-----------------------------------------------------------------------------
(* Actions.                                                                *)

\* The files of a batch that become rows: what is not refused, and its content
\* neither stored nor earlier in the batch.
Fresh(batch) ==
    {i \in DOMAIN batch :
        /\ ~FormatRefused(batch[i])
        /\ Content(batch[i]) \notin Stored
        /\ \A j \in 1 .. i - 1 : Content(batch[j]) # Content(batch[i])}

Nth(k, S) == CHOOSE i \in S : Cardinality({j \in S : j < i}) = k - 1

\* Each is judged by the packs that the request loaded.
Row(judges, upload) ==
    LET detection == DetectVendor(judges, upload)
    IN  [content |-> Content(upload), name |-> upload.name,
         outcome |-> detection.outcome, platform |-> detection.platform]

Upload(batch) ==
    /\ spent.uploads < MaxUploads
    /\ files' = files \o [k \in 1 .. Cardinality(Fresh(batch)) |-> Row(packs, batch[Nth(k, Fresh(batch))])]
    /\ judge' = [i \in DOMAIN files' |-> IF i \in DOMAIN judge THEN judge[i] ELSE packs]
    /\ spent' = [spent EXCEPT !.uploads = @ + 1]
    /\ page' = NoPage
    /\ UNCHANGED <<packs, lost, reading>>

\* A pack comes, goes or changes: a request in flight will have used both.
Overlap == reading' = IF reading = NoPage THEN NoPage ELSE [reading EXCEPT !.mixed = TRUE]

ActivatePack(p, pack) ==
    /\ spent.changes < MaxChanges
    /\ packs' = [q \in DOMAIN packs \cup {p} |-> IF q = p THEN pack ELSE packs[q]]
    /\ spent' = [spent EXCEPT !.changes = @ + 1]
    /\ Overlap
    /\ page' = NoPage
    /\ UNCHANGED <<files, judge, lost>>

Withdraw(p) ==
    /\ spent.changes < MaxChanges
    /\ packs' = [q \in DOMAIN packs \ {p} |-> packs[q]]
    /\ spent' = [spent EXCEPT !.changes = @ + 1]
    /\ Overlap
    /\ page' = NoPage
    /\ UNCHANGED <<files, judge, lost>>

\* A blob is removed or becomes unreadable.
LoseBlob(c) ==
    /\ Cardinality(lost) < MaxLost
    /\ lost' = lost \cup {c}
    /\ page' = NoPage
    /\ UNCHANGED <<packs, files, judge, reading, spent>>

\* The SELECT of _models: the first `limit' rows.
AskBaseline(limit) ==
    /\ reading = NoPage
    /\ reading' = [rows |-> SubSeq(files, 1, IF limit < Len(files) THEN limit ELSE Len(files)),
                   done |-> 0, devices |-> {}, skipped |-> 0, mixed |-> FALSE]
    /\ page' = NoPage
    /\ UNCHANGED <<packs, files, judge, lost, spent>>

\* One row becomes a model, or is counted as skipped.
ReadRow ==
    /\ reading # NoPage
    /\ reading.done < Len(reading.rows)
    /\ LET row == reading.rows[reading.done + 1] IN
       reading' = [reading EXCEPT
            !.done = @ + 1,
            !.skipped = IF Skipped(row) THEN @ + 1 ELSE @,
            !.devices = IF Skipped(row) THEN @ ELSE @ \cup {Observation(row)}]
    /\ page' = NoPage
    /\ UNCHANGED <<packs, files, judge, lost, spent>>

RespondBaseline ==
    /\ reading # NoPage
    /\ reading.done = Len(reading.rows)
    /\ LET found == FleetBaseline(reading.devices) IN
       page' = [rows |-> reading.rows, devices |-> reading.devices,
                skipped |-> reading.skipped, mixed |-> reading.mixed,
                baselines |-> found.baselines, outliers |-> found.outliers]
    /\ reading' = NoPage
    /\ UNCHANGED <<packs, files, judge, lost, spent>>

FleetNext ==
    \/ \E b \in Batches : Upload(b)
    \/ \E p \in Platforms : \E pack \in PackOf[p] : ActivatePack(p, pack)
    \/ \E p \in DOMAIN packs : Withdraw(p)
    \/ \E c \in Stored : LoseBlob(c)
    \/ \E n \in Limits : AskBaseline(n)
    \/ ReadRow \/ RespondBaseline

FleetSpec == FleetInit /\ [][FleetNext]_fleetVars

-----------------------------------------------------------------------------

AsUploaded(row) ==
    [name |-> row.name, host |-> row.content.host, lines |-> row.content.lines,
     claims |-> row.content.claims, wellFormed |-> row.content.wellFormed]

\* "Either identifies it or says UNKNOWN", with the reason: whatever the order
\* and the names of the packs, a stored platform reached the threshold and left
\* every rival the margin behind when it was first uploaded; where none did,
\* the recorded reason is the true one.  Nothing malformed is stored, and no
\* later upload or pack moves a file to another platform.
DetectionIsDecisive ==
    \A i \in DOMAIN files :
        LET row == files[i]
            score == [p \in DOMAIN judge[i] |-> ScorePack(judge[i][p], AsUploaded(row))]
            Decisive(p) ==
                /\ score[p] >= MinScore
                /\ \A q \in DOMAIN score \ {p} : score[p] >= score[q] + MinMargin
        IN  /\ ~FormatRefused(row.content)
            /\ \A p \in DOMAIN score : row.platform = p <=> Decisive(p)
            /\ row.outcome = "ambiguous" =>
                  \E p, q \in DOMAIN score :
                      /\ p # q /\ score[p] >= MinScore
                      /\ score[q] + MinMargin > score[p]
            /\ row.outcome = "below_threshold" =>
                  /\ \A p \in DOMAIN score : score[p] < MinScore
                  /\ \E p \in DOMAIN score : score[p] > 0

\* The state is read from lines of the device, or claimed by a source.
Witnessed(o, f) ==
    LET field == FieldOf(o.by, f, o.id) IN
    \/ field.state = "PRESENT" /\ field.evidence # {}
    \/ field.state \in {"ABSENT_DEFAULT", "ABSENT_UNSUPPORTED"} /\ field.citation

\* "Every outlier carries the arithmetic that produced it", and an abstention
\* is no deviation: an outlier and three times as many peers as there are
\* deviations were each read, or claimed by a source, out of a cohort of one
\* platform that is large enough; each went by its own name; all were read
\* with one pack unless a pack changed meanwhile; and every row asked for is
\* either a device or counted as skipped.
OutliersAreEvidenced ==
    page # NoPage =>
        /\ Cardinality(page.devices) + page.skipped = Len(page.rows)
        /\ \A o \in page.devices : \E i \in DOMAIN page.rows :
              page.rows[i].content = o.id /\ page.rows[i].platform = o.cohort
        /\ \A o \in page.devices : o.label \subseteq {o.id.host}
        /\ \A x \in page.outliers :
              LET f == x.baseline.field
                  cohort == Members(page.devices, x.device.cohort)
                  seen == {o \in cohort : f \in Fields(o.by) /\ Witnessed(o, f)}
                  differ == {o \in seen : o.states[f] # x.baseline.majority}
              IN  /\ x.device \in differ
                  /\ Cardinality(cohort) >= MinCohort
                  /\ Cardinality(seen \ differ) >= 3 * Cardinality(differ)
                  /\ ~page.mixed => \A o \in cohort : o.by = x.device.by

=============================================================================
