---------------------------- MODULE PackLifecycle ----------------------------
(***************************************************************************)
(* The pack lifecycle of api/train: administrators compile, activate, roll *)
(* back and withdraw, each request in a thread of its own, while parsers   *)
(* fetch the active packs through the process-wide lru_cache.              *)
(*                                                                         *)
(* No lock orders any of this, so a step is one file read in whole, one    *)
(* tree scan, one file opened (truncated), one file filled, one cache      *)
(* operation or one append to the audit chain.  WholeWrites says that a    *)
(* file is never seen between its truncation and its filling, which the    *)
(* code does not ensure: it is TRUE where a run is about something else.   *)
(* A draft's patterns always pass validate(): compile_pattern has run the  *)
(* same check.                                                             *)
(***************************************************************************)
EXTENDS PackStore

CONSTANTS
    Admin,          \* requests of administrators in flight
    Parser,         \* requests that parse: audits, fleet baselines, uploads
    Example,        \* confirmed training examples
    None,           \* no value: an empty cache, nothing shown, no job
    WholeWrites,    \* TRUE: write_bytes and write_text are observed whole
    MayFail,        \* TRUE: the process may die, and an append may raise
    PatternIds,     \* the numbers of the patterns withdraw is asked about
    MaxOps          \* bound on the requests of a behaviour

VARIABLES
    trained,    \* packs/trained: <<platform, version>> -> pack or Torn
    pins,       \* activation.yaml: platform -> version
    chain,      \* <<action, platform, version>> attested in the audit chain
    cache,      \* _cached_active: None or a set of packs
    at,         \* where each administrator's request is
    job,        \* its local variables
    fill,       \* a parser's load_active_packs: its point and what it read
    served,     \* what load_active_packs last gave each parser
    shown,      \* the draft compile last showed each administrator, until the
                \* administrator's own withdrawal drafts under that number
    lived,      \* what each version held when it was last made the active one,
                \* and whether its file was kept since, no draft over it
    overlap,    \* a parser was filling the cache while it was cleared
    crossed,    \* two requests had read the record and not yet saved it
    failed,     \* the process has died, or an append has raised
    ops         \* requests so far

store == <<trained, pins>>
parserVars == <<fill, served>>
ghosts == <<shown, lived, overlap, crossed, failed>>
vars == <<store, chain, cache, at, job, parserVars, ghosts, ops>>

Kinds == {"compile", "activate", "rollback", "withdraw"}
Key(j) == <<j.platform, j.version>>
File(status, pack) == [status |-> status, patterns |-> pack.patterns]

Now == ActivePacks(trained, pins)
AtRest == \A a \in Admin : at[a] = "idle"

-----------------------------------------------------------------------------

Init ==
    /\ trained = [k \in {} |-> Torn]
    /\ pins = NoPins
    /\ chain = {}
    /\ cache = None
    /\ at = [a \in Admin |-> "idle"]
    /\ job = [a \in Admin |-> None]
    /\ fill = [r \in Parser |-> None]
    /\ served = [r \in Parser |-> None]
    /\ shown = [a \in Admin |-> None]
    /\ lived = [k \in {} |-> {}]
    /\ overlap = FALSE
    /\ crossed = FALSE
    /\ failed = FALSE
    /\ ops = 0

\* A request moves from one point to the next.
Step(a, from, to) ==
    /\ at[a] = from
    /\ at' = [at EXCEPT ![a] = to]

\* It ends: with a response, or with the exception its guard names.
End(a) ==
    /\ at' = [at EXCEPT ![a] = "idle"]
    /\ job' = [job EXCEPT ![a] = None]

Raise(a) ==
    /\ End(a)
    /\ UNCHANGED <<store, chain, cache, parserVars, ghosts, ops>>

Job(kind, p) ==
    [kind |-> kind, platform |-> p, version |-> None, example |-> None,
     pattern |-> None, files |-> None, pins |-> None, pack |-> None]

Start(a, point, j) ==
    /\ ops < MaxOps
    /\ ops' = ops + 1
    /\ Step(a, "idle", point)
    /\ job' = [job EXCEPT ![a] = j]
    /\ UNCHANGED <<store, chain, cache, parserVars, shown, lived, overlap, failed>>

\* Where a request holds what it read of the record, to write it back.
Holding == {"recalled", "ready", "active_open", "activated", "record_open"}

Hold(a) == crossed' = (crossed \/ \E b \in Admin \ {a} : at[b] \in Holding)

-----------------------------------------------------------------------------
(* Drafting: load_active_packs(use_cache=False), then the draft.           *)

\* discover_packs; a torn file anywhere makes the request raise.
ScanToCompile(a, p, e) ==
    /\ Readable(trained)
    /\ Start(a, "scanned",
             [Job("compile", p) EXCEPT !.files = trained, !.example = e])
    /\ UNCHANGED crossed

ScanToWithdraw(a, p, n) ==
    /\ Readable(trained)
    /\ Start(a, "scanned",
             [Job("withdraw", p) EXCEPT !.files = trained, !.pattern = n])
    /\ UNCHANGED crossed

\* The record is read, and the platform's active pack is the base.
Base(a) ==
    LET active == ActivePacks(job[a].files, pins) IN
    IF active = Unloadable THEN NoPack ELSE PackOf(active, job[a].platform)

CanDraft(a) ==
    /\ Base(a) # NoPack
    /\ job[a].kind = "withdraw" => \E q \in Base(a).patterns : q[1] = job[a].pattern

\* draft_with_pattern or draft_without_pattern.
DraftPatterns(j, base) ==
    IF j.kind = "compile"
    THEN base.patterns \cup {<<NextPatternId(base.patterns), j.example>>}
    ELSE {q \in base.patterns : q[1] # j.pattern}

BuildDraft(a) ==
    /\ Step(a, "scanned", "drafted")
    /\ CanDraft(a)
    /\ LET j == job[a]
           draft == [platform |-> j.platform,
                     version |-> BumpPatch(Base(a).version),
                     patterns |-> DraftPatterns(j, Base(a))]
       IN job' = [job EXCEPT ![a].version = draft.version,
                             ![a].pack = draft, ![a].files = None]
    /\ UNCHANGED <<store, chain, cache, parserVars, ghosts, ops>>

\* PackLoadError, or ActivationError: no active pack, no such pattern.
NoDraft(a) ==
    /\ at[a] = "scanned"
    /\ ~CanDraft(a)
    /\ Raise(a)

\* write_pack of the draft.
OpenDraft(a) ==
    /\ ~WholeWrites
    /\ Step(a, "drafted", "draft_open")
    /\ trained' = WithFile(trained, Key(job[a]), Torn)
    /\ UNCHANGED <<pins, chain, cache, job, parserVars, ghosts, ops>>

\* Mutant: the draft is written without the pattern it is about.
DraftWithout(j) ==
    [status |-> "DRAFT", patterns |-> {q \in j.pack.patterns : q[2] # j.example}]

DraftFile(j) == File("DRAFT", j.pack)

ShownAs(a, k) == shown[a] # None /\ Key(shown[a]) = k

FillDraft(a) ==
    /\ Step(a, IF WholeWrites THEN "drafted" ELSE "draft_open", "written")
    /\ trained' = WithFile(trained, Key(job[a]), DraftFile(job[a]))
    /\ lived' = [k \in DOMAIN lived |->
                    [patterns |-> lived[k].patterns,
                     kept |-> lived[k].kept /\ k # Key(job[a])]]
    /\ shown' = IF job[a].kind = "withdraw" /\ ShownAs(a, Key(job[a]))
                THEN [shown EXCEPT ![a] = None]
                ELSE shown
    /\ UNCHANGED <<pins, chain, cache, job, parserVars, overlap, crossed, failed,
                   ops>>

\* PACK_CREATED.  compile answers with the draft; withdraw goes on to
\* activate the draft it holds in memory.
AppendCreated(a) ==
    /\ at[a] = "written"
    /\ chain' = chain \cup {<<"PACK_CREATED", job[a].platform, job[a].version>>}
    /\ IF job[a].kind = "compile"
       THEN /\ End(a)
            /\ shown' = [shown EXCEPT ![a] = job[a].pack]
       ELSE /\ Step(a, "written", "loaded")
            /\ UNCHANGED <<job, shown>>
    /\ UNCHANGED <<store, cache, parserVars, lived, overlap, crossed, failed, ops>>

-----------------------------------------------------------------------------
(* Activating: load_draft, validate, then activate().                      *)

LoadDraft(a, p, v) ==
    LET pack == FindVersion(trained, <<p, v>>) IN
    /\ ~MeetsTorn(trained, <<p, v>>)
    /\ pack # NoPack
    /\ Start(a, "loaded", [Job("activate", p) EXCEPT !.version = v, !.pack = pack])
    /\ UNCHANGED crossed

\* ActivationRecord.load, in activate() and in rollback().
ReadRecord(a) ==
    /\ Step(a, "loaded", "ready")
    /\ job' = [job EXCEPT ![a].pins = pins]
    /\ Hold(a)
    /\ UNCHANGED <<store, chain, cache, parserVars, shown, lived, overlap, failed,
                   ops>>

\* write_pack of the same patterns, as ACTIVE.
OpenActive(a) ==
    /\ ~WholeWrites
    /\ Step(a, "ready", "active_open")
    /\ trained' = WithFile(trained, Key(job[a]), Torn)
    /\ UNCHANGED <<pins, chain, cache, job, parserVars, ghosts, ops>>

FillActive(a) ==
    /\ Step(a, IF WholeWrites THEN "ready" ELSE "active_open", "activated")
    /\ trained' = WithFile(trained, Key(job[a]), File("ACTIVE", job[a].pack))
    /\ UNCHANGED <<pins, chain, cache, job, parserVars, ghosts, ops>>

\* load_pack(path) raises: somebody else has the file open.
ReloadFails(a) ==
    /\ at[a] = "activated"
    /\ job[a].kind # "rollback"
    /\ trained[Key(job[a])] = Torn
    /\ Raise(a)

-----------------------------------------------------------------------------
(* Rolling back: the record, then find_version.                            *)

StartRollback(a, p, v) ==
    /\ Start(a, "recalled", [Job("rollback", p) EXCEPT !.version = v, !.pins = pins])
    /\ Hold(a)

Target(a) ==
    IF MeetsTorn(trained, Key(job[a])) THEN NoPack
    ELSE FindVersion(trained, Key(job[a]))

FindTarget(a) ==
    /\ Step(a, "recalled", "activated")
    /\ Target(a) # NoPack
    /\ UNCHANGED <<store, chain, cache, job, parserVars, ghosts, ops>>

NoTarget(a) ==
    /\ at[a] = "recalled"
    /\ Target(a) = NoPack
    /\ Raise(a)

-----------------------------------------------------------------------------
(* Both end the same way: save the record, clear the cache, attest.        *)

CanSave(a) ==
    job[a].kind # "rollback" => trained[Key(job[a])] # Torn

OpenRecord(a) ==
    /\ ~WholeWrites
    /\ Step(a, "activated", "record_open")
    /\ CanSave(a)
    /\ pins' = NoPins
    /\ UNCHANGED <<trained, chain, cache, job, parserVars, ghosts, ops>>

\* Mutant: the record is saved with one platform in it.
OwnPinOnly(j) == WithPin(NoPins, j.platform, j.version)

SavedPins(j) == WithPin(j.pins, j.platform, j.version)

\* The file gets what this request read, with its own platform changed.
SaveRecord(a) ==
    LET j == job[a] IN
    /\ Step(a, IF WholeWrites THEN "activated" ELSE "record_open", "saved")
    /\ WholeWrites => CanSave(a)
    /\ pins' = SavedPins(j)
    /\ lived' = IF j.kind = "rollback" THEN lived
                ELSE WithFile(lived, Key(j), [patterns |-> j.pack.patterns, kept |-> TRUE])
    /\ UNCHANGED <<trained, chain, cache, job, parserVars, shown, overlap,
                   crossed, failed, ops>>

\* Mutant: nobody clears the cache.
ClearNothing(a) ==
    /\ Step(a, "saved", "cleared")
    /\ overlap' = (overlap \/ \E r \in Parser : fill[r] # None)
    /\ UNCHANGED <<store, chain, cache, job, parserVars, shown, lived, crossed,
                   failed, ops>>

ClearCache(a) ==
    /\ Step(a, "saved", "cleared")
    /\ cache' = None
    /\ overlap' = (overlap \/ \E r \in Parser : fill[r] # None)
    /\ UNCHANGED <<store, chain, job, parserVars, shown, lived, crossed, failed,
                   ops>>

\* Mutant: a rollback is not attested.
AttestsActivations(j) ==
    IF j.kind = "rollback" THEN {} ELSE {<<"PACK_ACTIVATED", j.platform, j.version>>}

Outcome(j) ==
    {<<IF j.kind = "rollback" THEN "PACK_ROLLED_BACK" ELSE "PACK_ACTIVATED",
       j.platform, j.version>>}

AppendOutcome(a) ==
    /\ at[a] = "cleared"
    /\ chain' = chain \cup Outcome(job[a])
    /\ End(a)
    /\ UNCHANGED <<store, cache, parserVars, ghosts, ops>>

\* sqlite3.OperationalError out of append(): the request fails, what it has
\* already written stays.
AppendRaises(a) ==
    /\ MayFail
    /\ at[a] \in {"written", "cleared"}
    /\ End(a)
    /\ failed' = TRUE
    /\ UNCHANGED <<store, chain, cache, parserVars, shown, lived, overlap, crossed,
                   ops>>

-----------------------------------------------------------------------------
(* load_active_packs.  lru_cache calls _cached_active without a lock: a    *)
(* miss scans, reads the record, and inserts unless another has inserted.  *)

CacheHit(r) ==
    /\ fill[r] = None
    /\ cache # None
    /\ served' = [served EXCEPT ![r] = cache]
    /\ UNCHANGED <<store, chain, cache, at, job, fill, ghosts, ops>>

CacheMiss(r) ==
    /\ fill[r] = None
    /\ cache = None
    /\ Readable(trained)
    /\ fill' = [fill EXCEPT ![r] = [point |-> "scanned", read |-> trained]]
    /\ UNCHANGED <<store, chain, cache, at, job, served, ghosts, ops>>

\* The record is read and the packs are chosen; an error is not cached.
Choose(r) ==
    LET packs == ActivePacks(fill[r].read, pins) IN
    /\ fill[r] # None /\ fill[r].point = "scanned"
    /\ IF packs = Unloadable
       THEN /\ fill' = [fill EXCEPT ![r] = None]
            /\ served' = [served EXCEPT ![r] = Unloadable]
       ELSE /\ fill' = [fill EXCEPT ![r] = [point |-> "chosen", read |-> packs]]
            /\ UNCHANGED served
    /\ UNCHANGED <<store, chain, cache, at, job, ghosts, ops>>

Insert(r) ==
    /\ fill[r] # None /\ fill[r].point = "chosen"
    /\ cache' = IF cache = None THEN fill[r].read ELSE cache
    /\ served' = [served EXCEPT ![r] = fill[r].read]
    /\ fill' = [fill EXCEPT ![r] = None]
    /\ UNCHANGED <<store, chain, at, job, ghosts, ops>>

-----------------------------------------------------------------------------

\* The process dies and is restarted: files and chain stay.
Crash ==
    /\ MayFail
    /\ at' = [a \in Admin |-> "idle"]
    /\ job' = [a \in Admin |-> None]
    /\ fill' = [r \in Parser |-> None]
    /\ cache' = None
    /\ failed' = TRUE
    /\ UNCHANGED <<store, chain, served, shown, lived, overlap, crossed, ops>>

Work(a) ==
    \/ BuildDraft(a) \/ NoDraft(a) \/ OpenDraft(a) \/ FillDraft(a)
    \/ AppendCreated(a) \/ ReadRecord(a) \/ OpenActive(a) \/ FillActive(a)
    \/ ReloadFails(a) \/ FindTarget(a) \/ NoTarget(a) \/ OpenRecord(a)
    \/ SaveRecord(a) \/ ClearCache(a) \/ AppendOutcome(a) \/ AppendRaises(a)

\* A request may also name a version nobody has drafted yet.
Known(p) == {k[2] : k \in {j \in DOMAIN Shipped \cup DOMAIN trained : j[1] = p}}

Request(a) ==
    \E p \in Platform :
        \/ \E e \in Example : ScanToCompile(a, p, e)
        \/ \E n \in PatternIds : ScanToWithdraw(a, p, n)
        \/ \E v \in Known(p) : LoadDraft(a, p, v) \/ StartRollback(a, p, v)
        \/ \E v \in Known(p) : StartRollback(a, p, BumpPatch(v))

Parse(r) == CacheHit(r) \/ CacheMiss(r) \/ Choose(r) \/ Insert(r)

Next ==
    \/ \E a \in Admin : Request(a) \/ Work(a)
    \/ \E r \in Parser : Parse(r)
    \/ Crash

Spec == Init /\ [][Next]_vars

-----------------------------------------------------------------------------

\* What a set of active packs does to a configuration, however it is filed.
Serves(packs) ==
    IF packs = Unloadable THEN Unloadable
    ELSE {<<f.platform, f.version, f.patterns>> : f \in packs}

\* At rest, each choice of this deployment is attested in the audit chain,
\* unless a request died or its append raised between save() and append().
ChoicesAttested ==
    AtRest /\ ~failed =>
        \A p \in DOMAIN pins :
            \/ <<"PACK_ACTIVATED", p, pins[p]>> \in chain
            \/ <<"PACK_ROLLED_BACK", p, pins[p]>> \in chain

\* At rest the cache agrees with the disk ("the next parse uses it"), unless a
\* parser was filling the cache while clear_pack_cache ran.
CacheFreshUnlessOverlap ==
    AtRest /\ ~overlap /\ cache # None => Serves(cache) = Serves(Now)

\* No version is in both trees: bump_patch may name one that ships too, and the
\* activation of a version that ships writes it into the trained tree.
FiledOnce == DOMAIN trained \cap DOMAIN Shipped = {}

\* The version an administrator activates holds the patterns compile last
\* showed under its number: the review between the two calls, across whatever
\* is rolled back and withdrawn meanwhile.
ActivatesWhatWasShown ==
    \A a \in Admin :
        at[a] = "activated" /\ job[a].kind = "activate" /\ FiledOnce
                /\ ShownAs(a, Key(job[a])) =>
            shown[a].patterns = job[a].pack.patterns

Serving(p) ==
    Serves({f \in Chosen(Discovered(trained), pins) : f.platform = p})

\* "Draft only. Nothing here changes how a single device is parsed until
\* somebody calls activate_draft": no step of a compile changes what is chosen
\* for a platform, and no step of another request what is chosen for one it is
\* not about, though each rewrites the whole record.
OnlyItsOwnPlatform ==
    [][\A a \in Admin : at'[a] # at[a] /\ job[a] # None =>
          \A p \in Platform :
              job[a].kind = "compile" \/ p # job[a].platform => Serving(p)' = Serving(p)]_vars

\* Once a withdrawal has saved its choice, no device of the platform is parsed
\* with the withdrawn pattern.
WithdrawnIsGone ==
    \A a \in Admin :
        at[a] = "saved" /\ job[a].kind = "withdraw" /\ Loadable(trained, pins) =>
            \A f \in Now :
                f.platform = job[a].platform =>
                    \A q \in f.patterns : q[1] # job[a].pattern

\* The record never names a version that is nowhere on disk, wherever requests
\* interleave and the process dies (the first part of OnePackEach).
ChoicesOnDisk ==
    \A p \in DOMAIN pins : <<p, pins[p]>> \in DOMAIN trained \cup DOMAIN Shipped

\* At rest the loader finds one pack for every platform, whatever was compiled,
\* activated, rolled back (to a draft, too) and withdrawn: two files may call
\* themselves ACTIVE only while the record says which is.  Two requests that had
\* both read the record before either saved it may lose a choice between them,
\* and then two ACTIVE packs refuse every parse.
OnePackEach ==
    /\ ChoicesOnDisk
    /\ AtRest /\ ~failed /\ ~crossed /\ FiledOnce => Loadable(trained, pins)

\* What a rollback to version k restores when k was once the active one.
Restores(k) ==
    /\ Loadable(trained, pins)
    /\ PackOf(Now, k[1]).patterns = lived[k].patterns

\* "Restores the earlier parse behaviour exactly, because no pack file was ever
\* modified": rolling back to a version that was once active restores what it
\* did then, unless a request has drafted over the file of that version since,
\* which write_pack permits after an earlier rollback.
RollbackRestores ==
    \A a \in Admin :
        at[a] = "saved" /\ job[a].kind = "rollback" /\ FiledOnce
                /\ Key(job[a]) \in DOMAIN lived /\ lived[Key(job[a])].kept =>
            Restores(Key(job[a]))

\* A choice serves the patterns it stands for, in any sequence of choices:
\* activation those that were reviewed, withdrawal all but one, rollback those
\* of that time.
ChoicesServeTheirPatterns ==
    ActivatesWhatWasShown /\ WithdrawnIsGone /\ RollbackRestores

\* "Validate and activate a DRAFT. The next parse uses it - no restart": of one
\* administrator at a time.
NextParseUsesIt ==
    \A a \in Admin :
        at[a] = "cleared" =>
            /\ Loadable(trained, pins)
            /\ PackOf(Now, job[a].platform).version = job[a].version

=============================================================================
