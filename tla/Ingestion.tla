----------------------------- MODULE Ingestion -----------------------------
(***************************************************************************)
(* POST /ingest/upload: api/ingest/service.py files every configuration of *)
(* a batch, or records why it does not.                                    *)
(*                                                                         *)
(* The handler is a coroutine that does not await once its files are read, *)
(* and the server has one event loop: batches are ingested one at a time.  *)
(* What interrupts one is the process dying or a statement, a write or an  *)
(* append raising.  A configuration is what its bytes are, by their hash;  *)
(* a transaction is one step, an append another, and a blob is a file that *)
(* is opened, and so truncated, before it is written.                      *)
(***************************************************************************)
EXTENDS Naturals, Sequences, FiniteSets

CONSTANTS
    Content,        \* configurations, by the hash of their bytes
    LinesOf,        \* configuration -> the sequence of its lines
    Batches,        \* what clients upload: sequences of uploads
    MaxBatchFiles,  \* limits.max_batch_files
    MaxBatches,     \* bound on the batches of a behaviour
    MayFail,        \* TRUE: a step may raise and the process may die
    Idle            \* no batch, no answer

\* What an upload may be.  An invalid file and a hostile archive are refused
\* with a ValidationError; a corrupt archive raises something else when one of
\* its members is read (a bad checksum, an encrypted entry).
Config(c) == [kind |-> "config", content |-> c, members |-> <<>>]
Invalid == [kind |-> "invalid", content |-> Idle, members |-> <<>>]
Archive(s) == [kind |-> "archive", content |-> Idle, members |-> s]
Hostile == [kind |-> "hostile", content |-> Idle, members |-> <<>>]
Corrupt == [kind |-> "corrupt", content |-> Idle, members |-> <<>>]

\* A member of an archive is read as a file of its own; an archive in an
\* archive is a file that cannot be decoded.
Member == {Config(c) : c \in Content} \cup {Invalid}
Upload == Member \cup {Hostile, Corrupt}
              \cup [kind : {"archive"}, content : {Idle}, members : Seq(Member)]

ASSUME BatchesAssumption == Batches \subseteq Seq(Upload)

ASSUME LinesAssumption == \A c \in Content : LinesOf[c] \in Seq(UNION {
    {LinesOf[d][i] : i \in DOMAIN LinesOf[d]} : d \in Content})

VARIABLES
    blobs,      \* the content-addressed store: "absent", "torn" or "whole"
    files,      \* config_file, config_line and device
    cache,      \* line_cache: line -> occurrence_count
    ingestion,  \* the rows of ingestion: status and content
    chain,      \* the audit chain: action and row
    job,        \* the batch being ingested
    answer,     \* the last response: the batch and the rows it reports
    cut,        \* contents whose blob was being written when a batch died
    failed,     \* something has raised that the batch did not cause
    batches     \* batches so far

Jobs ==
    [point : {"expand", "rejected", "file", "looked", "opened", "stored", "persisted"},
     batch : Seq(Upload), todo : Seq(Upload), items : Seq(Member), known : BOOLEAN,
     accepted : SUBSET Nat, rejected : SUBSET Nat, over : BOOLEAN]
Answers ==
    [batch : Seq(Upload), accepted : SUBSET Nat, rejected : SUBSET Nat, over : BOOLEAN]

ASSUME IdleAssumption == Idle \notin Jobs \cup Answers

vars == <<blobs, files, cache, ingestion, chain, job, answer, cut,
                   failed, batches>>

Line == UNION {{LinesOf[c][i] : i \in DOMAIN LinesOf[c]} : c \in Content}

Init ==
    /\ blobs = [c \in Content |-> "absent"]
    /\ files = {}
    /\ cache = [l \in Line |-> 0]
    /\ ingestion = <<>>
    /\ chain = <<>>
    /\ job = Idle
    /\ answer = Idle
    /\ cut = {}
    /\ failed = FALSE
    /\ batches = 0

-----------------------------------------------------------------------------

At(point) == job # Idle /\ job.point = point

\* The files of the batch are read; ingest_batch starts.
Receive(b) ==
    /\ job = Idle
    /\ batches < MaxBatches
    /\ batches' = batches + 1
    /\ job' = [point |-> "expand", batch |-> b, todo |-> b, items |-> <<>>,
               known |-> FALSE, accepted |-> {}, rejected |-> {}, over |-> FALSE]
    /\ UNCHANGED <<blobs, files, cache, ingestion, chain, answer, cut, failed>>

\* _expand: archives are replaced by their members.
Expand ==
    /\ At("expand")
    /\ job.todo # <<>>
    /\ Head(job.todo).kind \in {"config", "invalid", "archive"}
    /\ job' = [job EXCEPT
          !.todo = Tail(@),
          !.items = @ \o (IF Head(job.todo).kind = "archive" THEN Head(job.todo).members
                          ELSE <<Head(job.todo)>>)]
    /\ UNCHANGED <<blobs, files, cache, ingestion, chain, answer, cut,
                   failed, batches>>

\* The batch ends with an exception: a 500, and no report of any file.
Abort ==
    /\ job' = Idle
    /\ answer' = Idle

\* extract raises BadZipFile or RuntimeError for a member: nothing catches it.
ExpandRaises ==
    /\ At("expand")
    /\ job.todo # <<>>
    /\ Head(job.todo).kind = "corrupt"
    /\ Abort
    /\ UNCHANGED <<blobs, files, cache, ingestion, chain, cut, failed, batches>>

\* More files than a batch may have: one refusal, neither stored nor attested.
FileAll ==
    /\ At("expand")
    /\ job.todo = <<>>
    /\ job' = IF Len(job.items) > MaxBatchFiles
              THEN [job EXCEPT !.point = "file", !.items = <<>>, !.over = TRUE]
              ELSE [job EXCEPT !.point = "file"]
    /\ UNCHANGED <<blobs, files, cache, ingestion, chain, answer, cut,
                   failed, batches>>

-----------------------------------------------------------------------------
(* A refusal: the row, then the record.                                    *)

Expanding == job.todo # <<>>

Current == IF Expanding THEN Head(job.todo) ELSE Head(job.items)

\* check_size and decode, or extract, raise a ValidationError.
Refused ==
    \/ At("expand") /\ Expanding /\ Current.kind = "hostile"
    \/ At("file") /\ job.items # <<>> /\ Current.kind = "invalid"

InsertRejection ==
    /\ Refused
    /\ ingestion' = Append(ingestion, [status |-> "rejected", content |-> Idle])
    /\ job' = [job EXCEPT !.point = "rejected"]
    /\ UNCHANGED <<blobs, files, cache, chain, answer, cut, failed, batches>>

Attested(action) == Append(chain, [action |-> action, row |-> Len(ingestion)])

AppendRejection ==
    /\ At("rejected")
    /\ chain' = Attested("FILE_REJECTED")
    /\ job' = [job EXCEPT
          !.point = IF Expanding THEN "expand" ELSE "file",
          !.todo = IF Expanding THEN Tail(@) ELSE @,
          !.items = IF Expanding THEN @ ELSE Tail(@),
          !.rejected = @ \cup {Len(ingestion)}]
    /\ UNCHANGED <<blobs, files, cache, ingestion, answer, cut, failed, batches>>

-----------------------------------------------------------------------------
(* A configuration: its blob, its rows, its record.                        *)

\* already = SELECT 1 FROM config_file
LookUp ==
    /\ At("file")
    /\ job.items # <<>>
    /\ Current.kind = "config"
    /\ job' = [job EXCEPT !.point = "looked", !.known = Current.content \in files]
    /\ UNCHANGED <<blobs, files, cache, ingestion, chain, answer, cut,
                   failed, batches>>

\* blobs.store: path.is_file() is enough, whatever the file holds.
KeepBlob ==
    /\ At("looked")
    /\ blobs[Current.content] # "absent"
    /\ job' = [job EXCEPT !.point = "stored"]
    /\ UNCHANGED <<blobs, files, cache, ingestion, chain, answer, cut,
                   failed, batches>>

OpenBlob ==
    /\ At("looked")
    /\ blobs[Current.content] = "absent"
    /\ blobs' = [blobs EXCEPT ![Current.content] = "torn"]
    /\ job' = [job EXCEPT !.point = "opened"]
    /\ UNCHANGED <<files, cache, ingestion, chain, answer, cut, failed, batches>>

FillBlob ==
    /\ At("opened")
    /\ blobs' = [blobs EXCEPT ![Current.content] = "whole"]
    /\ job' = [job EXCEPT !.point = "stored"]
    /\ UNCHANGED <<files, cache, ingestion, chain, answer, cut, failed, batches>>

Occurrences(c, l) == Cardinality({i \in DOMAIN LinesOf[c] : LinesOf[c][i] = l})

\* Mutant: the lines of a file are folded into the cache at every upload.
CountAgain(c) == [l \in Line |-> cache[l] + Occurrences(c, l)]

\* store_lines, for a file that is not known.
Counted(c) ==
    IF job.known THEN cache ELSE [l \in Line |-> cache[l] + Occurrences(c, l)]

\* _persist, one transaction.
Persist ==
    /\ At("stored")
    /\ files' = files \cup {Current.content}
    /\ cache' = Counted(Current.content)
    /\ ingestion' = Append(ingestion,
          [status |-> IF job.known THEN "duplicate" ELSE "ingested",
           content |-> Current.content])
    /\ job' = [job EXCEPT !.point = "persisted"]
    /\ UNCHANGED <<blobs, chain, answer, cut, failed, batches>>

\* Mutants: a file that was known is not attested; an item is left unreported.
AttestOnlyNew ==
    /\ At("persisted")
    /\ chain' = IF job.known THEN chain ELSE Attested("FILE_INGESTED")
    /\ job' = [job EXCEPT !.point = "file", !.items = Tail(@),
                          !.accepted = @ \cup {Len(ingestion)}]
    /\ UNCHANGED <<blobs, files, cache, ingestion, answer, cut, failed, batches>>
ReportOnlyNew ==
    /\ At("persisted")
    /\ chain' = Attested("FILE_INGESTED")
    /\ job' = [job EXCEPT !.point = "file", !.items = Tail(@),
                          !.accepted = IF job.known THEN @ ELSE @ \cup {Len(ingestion)}]
    /\ UNCHANGED <<blobs, files, cache, ingestion, answer, cut, failed, batches>>

AppendIngested ==
    /\ At("persisted")
    /\ chain' = Attested("FILE_INGESTED")
    /\ job' = [job EXCEPT !.point = "file", !.items = Tail(@),
                          !.accepted = @ \cup {Len(ingestion)}]
    /\ UNCHANGED <<blobs, files, cache, ingestion, answer, cut, failed, batches>>

Respond ==
    /\ At("file")
    /\ job.items = <<>>
    /\ answer' = [batch |-> job.batch, accepted |-> job.accepted,
                  rejected |-> job.rejected, over |-> job.over]
    /\ job' = Idle
    /\ UNCHANGED <<blobs, files, cache, ingestion, chain, cut, failed, batches>>

-----------------------------------------------------------------------------

\* A write, a statement or an append raises, or the process dies: what has
\* been committed and appended stays, and a blob stays as far as it is written.
Interrupt ==
    /\ MayFail
    /\ job # Idle
    /\ Abort
    /\ cut' = IF job.point = "opened" THEN cut \cup {Current.content} ELSE cut
    /\ failed' = TRUE
    /\ UNCHANGED <<blobs, files, cache, ingestion, chain, batches>>

Work ==
    \/ Expand \/ ExpandRaises \/ FileAll \/ InsertRejection \/ AppendRejection
    \/ LookUp \/ KeepBlob \/ OpenBlob \/ FillBlob \/ Persist \/ AppendIngested
    \/ Respond

Next == (\E b \in Batches : Receive(b)) \/ Work \/ Interrupt

Spec == Init /\ [][Next]_vars

-----------------------------------------------------------------------------

TypeOK ==
    /\ blobs \in [Content -> {"absent", "torn", "whole"}]
    /\ files \subseteq Content
    /\ cache \in [Line -> Nat]
    /\ ingestion \in Seq([status : {"rejected", "duplicate", "ingested"},
                          content : Content \cup {Idle}])
    /\ chain \in Seq([action : {"FILE_REJECTED", "FILE_INGESTED"}, row : Nat])
    /\ job \in Jobs \cup {Idle}
    /\ answer \in Answers \cup {Idle}
    /\ cut \subseteq Content
    /\ failed \in BOOLEAN
    /\ batches \in Nat

\* "Audit last: a record is written only for work that actually committed",
\* once, and "the audit trail must not describe a refusal as a success"; unless
\* something failed, every committed row but the one in hand has its record.
ChainAgreesWithTables ==
    /\ \A n \in DOMAIN chain :
          /\ chain[n].row \in DOMAIN ingestion
          /\ chain[n].action = "FILE_REJECTED"
                <=> ingestion[chain[n].row].status = "rejected"
    /\ \A m, n \in DOMAIN chain : m < n => chain[m].row < chain[n].row
    /\ ~failed => \A n \in DOMAIN ingestion :
          \/ \E m \in DOMAIN chain : chain[m].row = n
          \/ n = Len(ingestion) /\ (At("rejected") \/ At("persisted"))

\* "Files are kept verbatim": what a config_file row points at is all of what
\* was uploaded, unless an earlier upload of it died writing the blob (a part of
\* StoredOnceAndWhole).
StoredVerbatim == \A c \in files : blobs[c] = "whole" \/ c \in cut

\* Where a line stands in a set of files.
Positions(stored, l) ==
    {p \in UNION {{c} \X DOMAIN LinesOf[c] : c \in stored} : LinesOf[p[1]][p[2]] = l}

\* "A file uploaded twice produces two ingestion rows and one config_file row",
\* and the fleet cache counts every position of a line once (the other part).
OneFileManyUploads ==
    /\ \A c \in Content :
          Cardinality({n \in DOMAIN ingestion :
              ingestion[n] = [status |-> "ingested", content |-> c]})
            = IF c \in files THEN 1 ELSE 0
    /\ \A l \in Line : cache[l] = Cardinality(Positions(files, l))

\* Blob, rows and line counts of a content after any repeats, interrupted
\* anywhere.
StoredOnceAndWhole == StoredVerbatim /\ OneFileManyUploads

FilesIn(u) == IF u.kind = "archive" THEN Len(u.members) ELSE 1
Parts(b) == UNION {{i} \X (1 .. FilesIn(b[i])) : i \in DOMAIN b}

\* A response reports every file of its batch, members of archives included,
\* once and as it was stored and attested; a batch over the limit stores none
\* of its configurations.
EveryFileAnswered ==
    answer # Idle =>
        /\ \A n \in answer.accepted \cup answer.rejected :
              /\ n \in answer.rejected <=> ingestion[n].status = "rejected"
              /\ \E m \in DOMAIN chain : chain[m].row = n
        /\ IF answer.over THEN answer.accepted = {}
           ELSE Cardinality(answer.accepted) + Cardinality(answer.rejected)
                  = Cardinality(Parts(answer.batch))

=============================================================================
