# Nirikshak in TLA+

Nirikshak audits network configurations offline: files are uploaded, parsed with
versioned vendor packs, judged against a rulepack, and reported on; everything an
operator or administrator decides goes into a hash-chained audit log. This
directory models it from the uploaded line to the ranked finding, with the stores,
accounts and requests around them, checks it with TLC on small instances and proves
most of its safety with TLAPS for every instance.

Commands, in this directory: `tlc -workers 2 -config X.cfg M` for a run,
`tlapm M.tla` for the proofs of a module `...Proofs`. `PROJECT.json` lists runs, source
lines of every definition, hazards, findings and theorems.

## The system

One uvicorn process. Synchronous handlers run in a thread pool and interleave;
`upload` is a coroutine and holds the one event loop. Two SQLite databases
(operational and audit, WAL, autocommit, `busy_timeout`), a blob directory, two
trees of pack files and an activation record. No lock spans two of these stores.

| Part | State | Operations | Talks to | What makes it correct |
|---|---|---|---|---|
| audit chain (`api/audit`) | `audit_log`, `audit_chain_head` | `append`, `verify_chain`, `reconcile_head` | called by every part that decides something | gapless, linked, head = tail, a returned seq is the record's, loss is always reported |
| packs (`api/ingest/packs`, `api/train/activation`) | pack files, `activation.yaml`, an `lru_cache` | compile, activate, roll back, withdraw, load | audits and uploads read the cache | what is parsed with was reviewed, chosen, on disk and attested |
| training (`api/train`, `api/db/training`) | queue of unread lines, training examples | record residue, confirm, reject | fed by audits, feeds compile | a decision is attested before it exists, the queue is the last parse |
| audit runs (`api/routers/audits`, `api/db/findings`) | runs, findings, evidence | `POST /audits`, reads | parser, engine, queue, chain | an attested run is whole, a run is attested |
| ingestion (`api/ingest`) | blobs, files, lines, line cache, ingestion rows | `POST /ingest/upload` | packs for detection, chain | verbatim, counted once, answered and attested file by file |
| detection (`api/ingest/*_detect`, `device_identity`) | none: text and packs to format, platform, identity | `detect_vendor`, `detect_format` | ingestion, audits | identifies beyond doubt or says why not |
| parser (`api/parse`) | none: text and pack to tree, fields, lists, residue | `parse_configuration` | normaliser | every line accounted for, in its block, no value without its lines, no list in part |
| normaliser (`api/normalise`) | none | `build_csm`, residue | engine, queue | absence means what a source says, or nothing; no secret leaves |
| engine (`api/comply`) | rulepack and framework indexes, cached for the process | `evaluate_device`, `scope_selection`, `run_framework_view` | audits, reports | a verdict rests on evidence or abstains; scope is stated |
| access-list analysis (`api/analyse`) | none | `analyse_acl` | reports | what is reported as dead decides no packet |
| prioritisation, remediation, reports (`api/prioritise`, `api/remediate`, `api/report`) | none | pure functions of a model and findings | audits | a rank is earned, a plan complete, a claim no wider than what was resolved |
| fleet (`api/routers/fleet`, `api/prioritise/baseline`) | none: reads every stored file | `GET /fleet/baseline` | detection, packs, blobs | an outlier carries its arithmetic, an abstention is no deviation |
| suggestions (`api/learn`, `api/train/queue`) | an index built per request | rank | training queue | never a verdict, never an opinion without a model |
| accounts (`api/routers/users`, `deps`) | users | create, disable, authenticate | every route | owners see their own; somebody can administer |
| migrations (`api/db/migrate`, `scripts/create_admin.py`) | `schema_migrations` | apply at start | every database | applied once, in order, unedited |

What is hard here: interleaved requests over stores that are not one transaction
(a row and its record, a file and its choice, a choice and the cache); crashes
between those steps; a cache filled while it is cleared; a review that is stale
when acted on; reads of one verification at several moments; retries of uploads
that half happened; what is shown later beside a verdict decided under other
rules; a caller disabled while its request runs; a script and a server migrating one
file; and, in the pipeline, the boundaries: a literal without end, a block that
closes two at once, an interval off by one, an entry that cannot be read, a pattern
made of a line that was scrubbed first. `PROJECT.json` has each at its line.

## Modules

| Module | Models | Stands on |
|---|---|---|
| `AttestationLog` | what the audit log promises: an event asked for is appended once at the end, or given up | |
| `ChainRecords` | the record `append` builds from the head, the two tables | |
| `AuditChain` | `append` in its `BEGIN IMMEDIATE` steps by several writers; busy timeout, rollback, crash; refines `AttestationLog` | `ChainRecords` |
| `ChainVerify` | what `verify_chain` concludes from what it read | `ChainRecords` |
| `ChainVerification` | the separate reads of `verify_chain` beside appends | `AuditChain`, `ChainVerify` |
| `ChainRecovery` | append, verification and `reconcile_head` after a damage to the stored chain | `ChainVerify` |
| `PackStore` | pack files on disk, discovery, choice of the active one, pins | |
| `PackLifecycle` | compile, activate, roll back, withdraw file by file beside parsers and the cache | `PackStore` |
| `AuditRun` | `POST /audits` statement by statement, decisions on queued lines, activation and withdrawal | |
| `Ingestion` | `POST /ingest/upload` file by file with its blob, rows and record | |
| `Detection` | format, platform and identity of an upload, from its text and the packs deployed | |
| `ParseTree` | the block parser, line by line, for its three surfaces; scopes | |
| `Structures` | interfaces and access lists out of a tree, and what drops a list | |
| `AclAnalysis` | coverage of one entry by another in three values; shadowed, redundant, permissive | `Structures` |
| `DeviceReading` | one file to the end: tree, matches, interfaces, lists, residue, observations | `ParseTree`, `AclAnalysis` |
| `Teaching` | a line left unread is scrubbed, answered, compiled into a pattern, and the file read again | `DeviceReading` |
| `Verdicts` | from matched values to a field, from an absent field to a state, from a field to a finding | |
| `Advice` | exposure, ranking, choice and order of remediation, the claims of a report | |
| `Assessment` | a device audited as its pack, the rules, the library and the selection change; what stored runs are shown with | `Verdicts`, `Advice` |
| `Fleet` | uploads, pack changes and lost blobs between the rows of a fleet baseline | `Verdicts`, `Detection` |
| `Startup` | the migration runner in a server and in `create_admin.py`, and the account the script makes | |
| `Access` | what every route answers whom, while accounts are created and disabled | |
| `Learning` | signatures, the labelled index, the ranking, the clusters of the queue | |
| `Desk` | the queue on an administrator's screen and the answer that comes back later | `Access`, `Learning` |
| `Console` | all of this in one server that starts, is killed and is upgraded | `Startup`, `Desk` |
| `AuditChainProofs` | theorems about `AuditChain`, and about `ChainVerification` beside it | TLAPS |
| `ChainRecoveryProofs` | theorems about `ChainRecovery` | TLAPS |
| `AuditRunProofs` | theorems about `AuditRun` | TLAPS |
| `IngestionProofs` | theorems about `Ingestion` | TLAPS |
| `PackLifecycleProofs` | theorems about `PackLifecycle` | TLAPS |
| `ConsoleProofs` | theorems about `Startup`, `Access`, `Learning` and `Desk`, in `Console` | TLAPS |
| `AssessmentProofs` | theorems about `Assessment`, and so `Verdicts` and `Advice`, and about `Fleet`, and so `Detection` | TLAPS |
| `DeviceReadingProofs` | theorems about `ParseTree`, `AclAnalysis`, `DeviceReading` and `Teaching` | TLAPS |

An action is one step the code cannot be interrupted in: a transaction, a
statement in autocommit, a file opened (and so truncated), a file filled, a cache
operation, an append, a line read by the parser, a row of a baseline. State machines
keep the names of the tables, files and fields they stand for; the pure parts are
operators with the names of the functions.

Data is abstracted to what the properties tell apart. Digests are tuples (SHA-256
taken to be injective); a record's hashed fields are one value, its event; a
configuration is its hash in `Ingestion`, its lines in `Detection`, and lines of
words in `ParseTree` and above; addresses and ports are small numbers, and constants
say which word denotes which; similarities are small numbers; a pack is its status
and trained patterns in `PackLifecycle`, its findings and claims in `Assessment`, its
signatures in `Detection`, its patterns in `DeviceReading`. In `DeviceReading` a line
also carries what it means to the device, which no code reads: the properties compare
the two.

Where a module treats another's work as one step, that other module says why it
may: `AuditRun` and `Ingestion` append in one step, which is what `AuditChain`
implements; `Assessment` and `Access` store a run in one, whose steps are in
`AuditRun`; `Fleet` uploads in one, whose steps are in `Ingestion`; `Teaching` goes from
the answer to the active pack in one, whose steps are in `Desk` and
`PackLifecycle`. `AuditRun` takes the active packs to be the shapes they read.

## Runs

Passing runs are exhaustive within the bounds of their cfg.

| Run | Question | Bounds and why they suffice |
|---|---|---|
| `audit_chain` | Does the committed chain verify, whoever appends, rolls back or dies; does every call end; what can verification say of it while it grows? | three writers, three records: one holding the lock, one waiting, one arriving; one reader of the whole chain or a range |
| `chain_recovery` | After a damage, is loss reported through anything appended and repaired? | one damage at any moment of a chain of four: tail, middle and head differ |
| `packs_one_admin` | Do reviewed, chosen and parsed patterns agree when requests do not overlap? | two platforms, four requests: compile, activate, compile again, then roll back or withdraw |
| `packs_two_admins` | What survives two administrators, torn files, crashes? | two platforms, two requests in flight, three in all: a choice lost, and the next request |
| `packs_activation` | Does the next parse use what was activated? No: see findings. | one platform, five requests |
| `audit_run` | What do queue, runs and chain say of one another, with failures? | two requests, two files sharing a shape, two findings a run |
| `ingestion` | What do blobs, rows, chain and responses say of one another? | three batches, up to three files of two configurations sharing a line, each interrupted anywhere: first, repeated and resumed |
| `assessment` | What does a verdict rest on, how does it move with knowledge, what is ranked, proposed and shown beside it? | seven packs that know more and less, two rulepacks under one label, three deployments (one library is circular), two editions, two audits |
| `device_reading` | Does what is read agree with what the file says, line, block, list and packet? | every file of a family of up to five lines over three platforms and three surfaces; lists of three entries, two lists in a file, filters of two terms, of one name in both families, with conditions stated once and again; six addresses of two families and four ports, so that intervals can touch, nest and miss |
| `acl_not_equal` | The same over lists with `neq`. Not so: see findings. | lists of an IOS device with such an entry |
| `console` | What is the schema, who administers, who is told what, what does a decision record? | server and script over fresh and old databases, four releases (one later, one that edits a migration, one with two files of one version), two accounts, four rows stored or processes killed |
| `fleet` | What is a file taken for, and what does a baseline claim? | nine configurations, two uploads of up to six files, two pack changes and one lost blob, between any two rows; five peers make a cohort |

`CHECK_DEADLOCK FALSE` is set where the bound on requests lets the modelled system
finish: nothing is left to do, which is no fault. Elsewhere deadlock is checked.
Symmetry is used in `console` alone, over the two accounts, which no definition tells
apart; that run checks no liveness.

The rest of this section says what the properties of each run show.

**The chain.** `ChainLinked` and `HeadMatchesLog` say that a verification of the
committed state passes at every moment. `ReplyIsAttested` protects the `audit_seq`
that training examples and patterns cite. The refinement of `AttestationLog`
(`ImplementsAttestationLog`) adds that nothing is moved and that an event is attested
once. `UntouchedIsUnaccused` bounds the false alarms of a verification read in
separate statements beside appends: it accuses no record, reports no truncation
because the head is read before `MAX(seq)`, and fails only if something committed
after the head was read. `EveryCallEnds` holds because of `busy_timeout`.
`LossIsReported` says that whatever is appended or reconciled after one damage, a
missing or altered record is reported; `ReconcileIsSound` that repair refuses only
what is damaged and that a repaired head serves verification and append again.

**Packs.** `ChoicesServeTheirPatterns`: what is activated under a version is what
compile last showed under it; what is withdrawn is in no pack of its platform that is
parsed with; a rollback finds one pack for each platform and restores what the version
did when it was last active, unless a request drafted over its file since. Without that
exception, which the docstring of `rollback` does not make, it is false. Two ghosts
remember what these speak of: `shown`, the draft an administrator was shown, and
`lived`, what a version held when active and whether its file still does.
`OnlyItsOwnPlatform`: a compile changes nothing that is parsed with, and no request the
choice of another platform, though each rewrites the whole record.
`CacheFreshUnlessOverlap`: the cache is stale only if a parser was filling it while it
was cleared. `OnePackEach` and `ChoicesAttested` hold for two administrators, torn files
and crashes, with the exceptions they name. One is `crossed`: two requests had both read
the record before either saved it, so one choice is lost; its pack stays ACTIVE on disk
beside the one that ships, and with no pin to choose, every load is refused.

**Audits.** `DecisionIsAttested`: no training example and no pattern without its
attestation, the order the code states. `RunsAgreeWithTheChain`: the chain names no run
that is not there in full, although `save_run` is not atomic, because the append
comes last; a stored run is whole and attested unless something failed.
`QueueIsTheLastParse`: the same for the queue, but for two requests on one file.
`EveryAuditEnds`: a request that started ends.

**Ingestion.** `ChainAgreesWithTables`: rows and records correspond one to one and say
the same, but for failures. `StoredOnceAndWhole`: a blob is whole unless an upload died
writing it (then it stays torn for good, since a later upload keeps any file there
is), with one row and one count per line after any repeats. `EveryFileAnswered`: a
response accounts for every file, members of archives included.

**Reading.** `TreeFollowsTheFile`: a line is a node in the block the file puts it in, or
accounted for, never both. `FactsAreOfTheirBlock`: a value counts for the block of its
line and in the unit of its platform. `ListsAreWhole`: a list is kept in full and in
order, or reported, with all its lines left in the residue, but for those of a dropped
filter in braces whose name another, kept filter has. `EntriesSayTheirLines`: an
entry, as it was read, lets through the packets its lines do, in whichever of the three
dialects, so that what is said of entries is said of the device. An entry that is read
in part (`ReadInPart`: a JunOS condition stated again, a prefix list left undefined
beside one that is defined) lets through no more than its lines; one that is misread
(`Misread`: `except` in the set form, `gt` the highest port, `lt` the lowest) is excepted.
`ReportedEntriesDecideNothing` and `SilenceMeansReachable` compare the analysis with
first-match filtering of every packet of the family of a list, for every content of the
groups a file leaves undefined. What is reported of an entry read in part, or because of
a misread one, may be wrong, and is excepted: `from source-address` stated for two
networks is read as the second, and the term is called shadowed where only that one is.
Silence is held to where `intervals.py` means to find coverage (`Comparable`): not by
several networks together, and not of `any` by 0.0.0.0/0, since `any` is compared as the
networks of both families. Every exception was taken out in turn, and TLC then finds the
property violated by a file of the run. `TaughtLineIsRead`: what an administrator
teaches is read on its line and those that say the same, on no other, and takes nothing
away; the two exceptions are in its comment and below.

**Verdicts and advice.** `VerdictIsJustified`: a verdict cites the lines that set its
field, or a sourced claim where there is no line, and never settles a disagreement the
merge policy does not name. `KnowledgeOnlySettles`: a pack that knows strictly more
turns UNKNOWN into verdicts and changes no other. `EveryRuleAccountedFor`: a rule that
applies is reported on or named as left out, never both. `ViewAgreesWithRun`: what is
looked up beside a stored run is what decided it, or is withheld. `RanksAreEarned`: a
rank is given exactly where the file settles the exposure, and severity orders only
among equals in reach. `PlanIsComplete`: each failure is one step, with the commands of
its rule and platform, after its prerequisites.

**Console.** `SchemaIsItsHistory`: a server answers on exactly the migrations of its
release, whoever else was migrating. `AdminRemainsUnlessLate`: an administrator is left
unless a disabling was answered after its caller was disabled in turn.
`OthersLearnNothing`: what is not one's own does not exist, for every route and status.
`DecisionsAreWhatWasSeen`: the suggestion recorded as accepted is the one recorded at
that rank, although it is computed anew when the answer arrives.

**Fleet.** `DetectionIsDecisive`: a stored platform reached the threshold and left every
rival behind, or the recorded reason is the true one, whatever the order of packs.
`OutliersAreEvidenced`: an outlier and its peers were each read or claimed by a source,
in one cohort that is large enough, with one pack unless a pack changed meanwhile, and
every row asked for is a device or counted as skipped.

Each passing property has a mutant in `PROJECT.json`: a plausible bug in one mapped
definition that makes the run fail.

### Fairness

`AuditChain` assumes weak fairness of `Enter(w)` and `Work(w)` for each writer: a thread
inside `append` is scheduled, and SQLite answers `BEGIN IMMEDIATE` within
`busy_timeout`, with the lock or with `SQLITE_BUSY`. Callers need not call, processes may
die, and the lock may always go to others; the waiter then raises. A reader gets no
fairness. `AuditRun` assumes weak fairness of `Work(a)`: a request in flight keeps its
thread. Nothing else is assumed anywhere.

## Findings

| Run | What the code does |
|---|---|
| `packs_activation` | activating the version that ships writes it into the trained tree too; the next parse of every platform raises `DuplicateActivePackError` (`api/train/service.py:312`) |
| `acl_not_equal` | `neq p` is read as the interval `p..p` (`api/models/acl.py:104`), so an entry that decides packets is reported as shadowed |

Weaknesses met while modelling that no run states, most of them a hazard in
`PROJECT.json` and an exception in a property:

- Chain. An append between the reads of `verify_chain` makes an untouched chain fail as
  lagging. A verified range trusts the record before it. After one damage `append`
  raises for ever where ADR 0007 says appends continue; with two damages a head rebuilt
  forward can hide a lost record.
- Packs. Two administrators can lose each other's choice, since `activation.yaml` is
  rewritten whole. Compile after a rollback drafts a version that exists and overwrites
  its file (`api/train/activation.py:209`), so that rolling forward again parses with a
  draft nobody activated. A compile that lands after the activation of its own version
  overwrites the active file. A torn file stops every load. Rollback accepts a DRAFT.
  The draft of a deprecated builtin can take the version of another.
- Audits and uploads. `with conn:` on an autocommit connection opens no transaction, so
  half a run is visible and stays after a failure. An unreadable archive member raises
  past `_expand` after some of the batch was recorded. A file unidentified at its first
  upload is refused by audits for ever; the record of a duplicate carries today's
  detection while the row keeps the first. The scope of a stored run is recomputed with
  the release of the first upload, although ADR 0054 says the two cannot disagree.
- Accounts. Two administrators may disable each other, and no route enables. Who
  uploads second is listed a file that they can neither read nor audit.
- Training. A confirmation is attested before it is validated. A rejected shape stays
  in the queue. The top three suggestions are cut before fields are made distinct. The
  suggestions recorded are recomputed, not those on the screen. A pattern taught from a
  line with a secret outside the captured word is compiled of `<redacted>` and never
  reads a line, though every check passes; a value its cast refuses is found out at
  the next reading only; a scope matches by prefix, so deeper blocks are read too.
- Lists. A JunOS condition stated again replaces the first, in both forms
  (`api/parse/structures.py:661`), and the entry may then be called dead although it
  decides packets. Prefix lists that are not defined are passed over beside one that is.
  In the set form a prefix list with `except` is read as the list. `gt 65535` and `lt 0`
  are read as that port. The lines of a dropped filter in braces leave the residue when a
  filter of its name was kept, say of the other family (`structures.py:1223`), where the
  docstring above says they stay. `any` under 0.0.0.0/0 is reported as neither covered
  nor undetermined. Protocols are compared by name, so `6` is not `tcp`. Outside braces
  only IPv4 lists are looked for: `ipv6 access-list`, numbered and standard lists and
  `family inet6` in the set form stay in the residue and are not reported as failures.
  A numbered `remark` drops an IOS list. `is_permit_any_any` ignores the source port. A
  brace followed by a comment opens no block. `_build_junos_entry` is never called.
- Advice. A device with only disabled or non-management interfaces scores 0, so ranks
  fall back to rule order. A report denies mappings that are only withheld because the
  rulepack changed, and says nothing was scored although the audit was ranked. A
  remediation is looked up by rule, whichever rulepack decided.
- Fleet. `limit` drops further files without a word. The floor of a cohort counts
  abstainers, and an abstention can turn 3 against 2 into a drift of 3 against 1. Each
  edit of a configuration is a peer. A pack change during a request reads one cohort
  with two packs. One stored file that does not parse fails the endpoint.
- Start. A lower version that fills a gap is applied out of order and without a word;
  `create_admin.py` checks nothing when the table of accounts exists.

## Proofs

Each theorem holds for any values of the constants (requests, writers, files, packs,
rules, releases, bounds) that satisfy the named assumptions of its module, and any
interleaving, failure and crash the module has. The pattern is one: an inductive
invariant `IInv`, a lemma that the initial states satisfy it, a lemma per action that
the step keeps it, `Invariance`, and each property as a consequence. TLC checked every
`IInv` on the runs above before it was proved. Why an invariant needed strengthening
is what the proof says about the code.

**`AuditChainProofs`: append.** Type correctness, `HeadMatchesLog`, `ChainLinked`,
`ReplyIsAttested`, `RepliesDistinct`, `AppendOnly`, and that `AuditChain` implements
`AttestationLog`. Assumed: `Nobody` is no writer, and the events that cannot be attested
are events. `Commit` publishes a draft built three steps earlier from a head that might
have moved. `IInv` adds what excludes that: a writer inside a transaction is the one
that holds the lock (`LockOK`); a writer inside `append` has an admissible event
(`ReqOK`); its draft is still the next record of the committed head, which only the
holder could have moved (`DraftOK`); between COMMIT and return the record is in the log
(`CommittedOK`); no two writers hold, or are about to be handed, the same record
(`OneHolder`). For the refinement, `CommitAttests` maps COMMIT to `Attest`, `CallAsks`
the call to `Ask`, `AbandonRefines` rollback, timeout and crash to `GiveUp` or a stutter,
and `InnerStepHides` the rest to stutters.

**`AuditChainProofs`: verification beside it.** `UntouchedIsUnaccused`, and
`ReadersChangeNothing`: with readers the chain is still an `AuditChain`, so the theorems
above hold beside them. `VInv` says what a reader holds between its statements: rows
that are still there and have no gap above the start (`FetchedOK`), a tail no older than
the head it read before (`TopOK`), and a count that is right if nothing committed since
(`CountOK`). Had the tail been read before the head, `TopOK` would fail, and with it the
theorem.

**`ChainRecoveryProofs`.** `LossAlwaysReported`: until a second damage, whatever is
appended and repaired, verification fails whenever a record is gone or altered.
`ReconcileAlwaysSound`, under `MaxDamage` 0 or 1. `UndamagedAlwaysVerifies`: what is
reported is owed to a damage. `IInv` lists what one damage can have left: the whole log
under the head of some prefix or none (`Standing`), a head that counts one more than
there are rows and is not behind them (`Lost`), or a row that does not hash (`Altered`);
an append or repair keeps each. One damage is the code's own limit: with two, a head
rebuilt forward hides a loss, and the theorem is false.

**`AuditRunProofs`.** Type correctness, `DecisionIsAttested`, `RunsAgreeWithTheChain`,
`QueueIsTheLastParse`. `IInv` follows an audit between its statements: an id is nobody
else's and names a stored run from the moment its request says so (`IdsOK`), the chain
names whole runs only (`AttestedIsWhole`), two requests on one file each know of the
other (`OverlapKnown`), and from clearing the queue to its last line the queue holds
exactly what has been queued so far (`QueueGrows`).

**`IngestionProofs`.** Type correctness, `ChainAgreesWithTables`, `StoredOnceAndWhole`,
`EveryFileAnswered`. `IInv` says what is in hand at each point of the handler (`InHand`),
that only the last row may be without its record (`RowInHand`, `RowsAttested`), that what
was looked up is still so when used (`KnownOK`), and the sum behind "every file is
answered" (`Counting`): reported, in hand and still to be expanded are the files of the
batch. The lemmas about `Parts` count the members of archives.

**`PackLifecycleProofs`: any requests.** `OnePackEach` and `ChoicesAttested`, for any
number of administrators and parsers. Assumed: each platform ships with one ACTIVE version
(`ShippedAssumption`). `activation.yaml` is rewritten whole from what was read of it, so
`IInv` is about what requests hold: it is on disk (`HeldOnDisk`) and attested or on its
way there (`ChoicesSettled`); unless two requests crossed, one at a time holds the
record, as it is (`HeldAsRead`); a file is torn only while open (`TornIsOpen`); and a
trained ACTIVE pack is pinned or about to be (`ActiveIsPinned`), which is what lets the
loader choose.

**`PackLifecycleProofs`: requests one at a time.** What one request promises another can
break, so these theorems have the form `Spec /\ []OneAtATime => []P`: no two requests are
in flight, whoever sends them, beside any parsers. A second invariant, `AInv`, follows the
contents: what each request holds of files and record is what is there (`RequestsOK`), and
what a parser has read is what the disk chooses, but while a choice is being made or
after the cache was cleared under it (`ReadsOK`).
`CacheFresh`, `WithdrawnStaysGone` and, where a file is seen whole (`WholeWrites`),
`OnlyOwnPlatform` hold through torn files, failed appends and crashes.
`RollbackAlwaysRestores` and `NextParseFindsIt` also assume `[]~failed`, since a request
that died half way leaves no promise; the first rests on `LivedOK`, that the file of a
version once active holds what it held then until it is drafted over. `NextParseFindsIt`
assumes besides that no version is in both trees (`[]FiledOnce`): with the run
`packs_activation`, that makes the version that ships the only way to break the promise.
`ChoicesAlwaysServe` is for one administrator (`OneAdministrator`), because a review is:
`ShownOK` says that the draft one was shown is still what its file holds, which somebody
else's compile of the same number would change between two requests that never overlap.

**`ConsoleProofs`.** `SchemaIsItsHistory`, `AdminRemainsUnlessLate`,
`OthersLearnNothing`, `DecisionsAreWhatWasSeen`. Assumed: versions of an unambiguous
release are 1 to n, as they are in the repository (`ReleaseAssumption`), an old database
stopped at some migration (`LegacyAssumption`), lines and fields are among the known
(`DeskAssumption`), and no line is more similar to a text than the text is to itself
(`LearningAssumption`), which is so of cosines of normalised vectors. A process applies
migrations from a list it read before others applied some of them: `ReadOK` says that the
list is the rest of the release from some version on and that all before is recorded, by
whomever. For accounts, a request in flight is of an account enabled when it was
authenticated, in the role it still has (`CallsOK`), and a run is of a file its owner may
read (`RunsOK`). For the desk, what is stored was checked when it was stored and what is
on a screen is of lines and fields there are (`DeskInv`); the rest of the proof is about
the ranking: who is placed first, and that what was taught of a line outranks all that
does not embed like it.

**`AssessmentProofs`: audits.** `VerdictIsJustified`, `KnowledgeOnlySettles`,
`EveryRuleAccountedFor`, `ViewAgreesWithRun`, `RanksAreEarned`, `PlanIsComplete`. Assumed:
what `load_rulepack` checks (`RulepacksAssumption`), that a pack's values come from lines
and its interfaces are finitely many (`PacksAssumption`), and that the files of a library
carry an identifier, which they do not depend on themselves, and a platform
(`LibrariesAssumption`); a library may still be circular. `IInv` says that a stored run
is what an audit of its own pack, rules and release gives, whatever is deployed later; the
work is in the lemmas about the operators. A field rests on the lines that set it or on a
sourced claim (`FieldIsGrounded`), and a settled field stays under more knowledge
(`SettledFieldsStay`). A finding's place among the ranked is how many come before it, so
that ranks are 1 to n needs no sort, only that the order is total. `RanksAlwaysEarned`
assumes `FewManaged`, at most two thousand management interfaces in a file: a score is
rounded to four places, and above that two severities can round to one score. That a plan
has each failure once and no step before its prerequisites is an induction on the number
of failures still to be placed.

**`AssessmentProofs`: the fleet.** `DetectionIsDecisive` and `OutliersAreEvidenced`, for
any packs, uploads, changes and lost blobs. Assumed: platforms have distinct places in the
order of packs and weights are naturals (`PackOfAssumption`), and uploads are sequences of
lines (`BatchesAssumption`). `FleetInv` says that every row is what its upload and the
packs of that moment made of it (`FilesOK`), and that a request in flight has read the
first rows, each a device with a pack its platform has had, or skipped (`ReadingOK`).
`DetectionAlwaysDecisive` assumes `MinMargin <= MinScore`. The defaults satisfy it (.25
and .60, `api/config.py`), nothing checks it, and it is needed: a platform
without a rival is compared with a score of zero, and were the margin above the threshold
it could be called ambiguous with nobody.

**`DeviceReadingProofs`: the tree.** `TreeFollowsTheFile`, for any file on each of the
three surfaces. The property looks from a line upwards for the block that encloses it; the
parser keeps a stack, a word that ends a literal and a flag for a comment. `IInv` says
that the two agree at every line: `StackOK` (each open block lies in the one before),
`ProseOK`, `CommentOK`, `IndentOK` (what was closed was ended by a line that is not
deeper) and `BraceOK`: the balance of braces since an open block is the number of blocks
open in it, and that of a closed one stays below. Assumed: `FilesAssumption`, the shape
of a lexed line.

**`DeviceReadingProofs`: values.** `FactsAlwaysOfTheirBlock` adds `TopOK`: a node below
the outermost level stands under the last node of that level before it. It assumes
`TimeoutsCount`, that a timeout pattern reads the seconds its platform counts, which is
the choice a pack makes between two casts. `TaughtLineAlwaysRead` adds `ReadOK`, that the
facts are those of the pack and what is left is what no fact is about; the rest is what a
pattern made of a line does with that line, and with another: its scope, words and
capture, word by word. It assumes that no pattern of the pack is about the field that is
taught (`NewField`), without which a value could be somebody else's.

**`DeviceReadingProofs`: access lists.** `CoversIsSound` and `ReportsAreCovered`: an entry
reported as dead decides no packet, however the undefined groups are filled;
`NoIsNoCover`: where the answer is no and `Comparable` holds, a packet of the family that
is near any packet of the entry below passes the one above by. `any` is the networks of
both families, disjoint and not empty (`FamiliesAssumption`), and packets are of one: an
address that escapes must be found in the family of the list, which is why `any` under
the network of that whole family is left out (`SomeAddressEscapes`). These lemmas are
about entries as read, and become statements about devices with `ObservedOK`, that what is
reported is the analysis of a list that was kept, and with `WhatEntriesSay`:
`ReportedEntriesAlwaysDecideNothing` and `SilenceAlwaysMeansReachable` hold wherever
entries say what their lines do (`[]EntriesSayTheirLines`, which `device_reading` checks
over lists that say `any` in either family). The entries excepted are those of the
properties: only the half of a misread or partial entry that is true is used.
That hypothesis is where the finding `acl_not_equal` lies: an entry with `neq` does not
say what its line does, and nothing else is wrong with the analysis of such a list. The
second theorem also needs packets to exist of each entry: `EntriesAreProper` says that
networks are not empty and of one family, intervals not reversed, and that only an entry
for TCP asks for `established`. The reader does not refuse the last on a line of another
protocol; devices do. All of it holds of the files of `device_reading`.

Only model-checked, and why:

- `EveryCallEnds`, `EveryAuditEnds`: liveness needs ENABLED.
- `ListsAreWhole`, `EntriesSayTheirLines`: what a word of a list denotes is given by the
  constants of an instance, and the lists are sorted and filtered by library operators
  the provers cannot unfold.
- `NextParseUsesIt` without its hypotheses and `ReportedEntriesDecideNothing` over
  `neq`: they are false, and the runs show it.
- What verification says after two damages, beyond that it may miss a loss.


## Not modelled, and why

Layout, wording and PDF of reports are output. The web interface renders answers. The
offline evaluation harness and the calibration of similarities are arithmetic over a
labelled corpus, outside the running system. Embeddings and password hashing are
libraries, of which a similarity and a right password are what is left. Which words of
a line the scrubber's expressions match, which words are numbers or services, and what
an expression of a pack finds in a line are constants; what the code does with the
answer is modelled. Rule, pack and framework files are assumed valid at load. TextFSM
templates are used by no pack. `PROJECT.json` gives the reason part by part.

## State of the project

Modelled: the chain with its refinement; packs; audit runs; ingestion; verdicts; the
pipeline from text to observations; advice; accounts, migrations and the training desk;
the fleet. Proved: every safety invariant a passing run checks, but for the two named
above, and the action properties, under the hypotheses each theorem states.

What would come next: a specification of the surface syntax of access lists, apart from
the words an instance gives, against which `EntriesSayTheirLines` could be proved; and
`ListsAreWhole` over lists built by a fold that the provers can unfold.
