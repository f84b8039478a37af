------------------------------- MODULE Access -------------------------------
(***************************************************************************)
(* Who may ask for what (api/routers, api/db/users.py, api/models/auth.py) *)
(* while accounts are created and disabled.  A request reads its account   *)
(* once, when it is authenticated, and is answered by that reading:        *)
(* requests run in a pool of threads, and any number of others may be      *)
(* answered in between.  A file belongs to whoever uploaded it first,      *)
(* however often it is uploaded; a run to whoever asked for it; what was   *)
(* stored before there were accounts belongs to nobody.                    *)
(*                                                                         *)
(* A handler is an operator that gives the status of its answer to account *)
(* u; one that stores something is an action as well.                      *)
(***************************************************************************)
EXTENDS Naturals, Sequences, FiniteSets, Functions

CONSTANTS
    User,       \* usernames
    File,       \* configurations that may be uploaded, by their hash
    Missing,    \* an identifier that nothing has
    NoOne,      \* the owner of what nobody owns
    NoCall      \* an account without a request in flight

ASSUME AccessAssumption == NoOne \notin User /\ Missing \notin File

VARIABLES
    accounts,   \* app_user: username -> role, disabled
    uploads,    \* ingestion: file -> its uploaders, oldest first
    runs,       \* audit_run: the file and the owner of every run
    caller,     \* each account: NoCall, or its row as authenticated
    late        \* an account was disabled by one itself disabled meanwhile

accessVars == <<accounts, uploads, runs, caller, late>>

Role == {"admin", "user"}

AccessInit(old) ==
    /\ accounts = [u \in {} |-> 0]
    /\ uploads = [f \in File |-> IF old THEN <<NoOne>> ELSE <<>>]
    /\ runs = <<>>
    /\ caller = [u \in User |-> NoCall]
    /\ late = FALSE

(* authenticate gives no account to a disabled one; a request is then in    *)
(* flight until it is answered.                                             *)
Authenticate(u) ==
    /\ caller[u] = NoCall
    /\ u \in DOMAIN accounts /\ ~accounts[u].disabled
    /\ caller' = [caller EXCEPT ![u] = accounts[u]]
    /\ UNCHANGED <<accounts, uploads, runs, late>>

InFlight(u) == caller[u] # NoCall
IsAdmin(u) == caller[u].role = "admin"
Done(u) == caller' = [caller EXCEPT ![u] = NoCall]

MayAccess(u, owner) ==
    /\ ~caller[u].disabled
    /\ IsAdmin(u) \/ owner = u

(* require_access: an id the caller may not see is an id that is not there. *)
FileOwners(f) == IF f \in File THEN uploads[f] ELSE <<>>
RunOwner(i) == IF i \in DOMAIN runs THEN <<runs[i].owner>> ELSE <<>>
RequireAccess(u, owners, status) ==
    IF owners # <<>> /\ MayAccess(u, Head(owners)) THEN status ELSE 404

(* What an answer may depend on besides the tables: whether the frameworks  *)
(* asked for have a catalogue, the file has a platform, a pack and rules,   *)
(* its lines were written, and the PDF runtime is installed.                *)
Environment == [sourced : BOOLEAN, auditable : BOOLEAN, lines : BOOLEAN, pdf : BOOLEAN]

FileLines(u, f, env) == RequireAccess(u, FileOwners(f), IF env.lines THEN 200 ELSE 404)
FrameworksForDevice(u, f) == RequireAccess(u, FileOwners(f), 200)
RunAudit(u, f, env) ==
    IF ~env.sourced THEN 400
    ELSE RequireAccess(u, FileOwners(f), IF env.auditable THEN 201 ELSE 409)

GetAudit(u, i) == RequireAccess(u, RunOwner(i), 200)
GetFindings(u, i) == RequireAccess(u, RunOwner(i), 200)
Authorise(u, i, status) == RequireAccess(u, RunOwner(i), status)
HtmlReport(u, i) == Authorise(u, i, 200)
PdfProbedFirst(u, i, env) == IF ~env.pdf THEN 503 ELSE Authorise(u, i, 200)
PdfReport(u, i, env) == Authorise(u, i, IF env.pdf THEN 200 ELSE 503)
RemediationPlan(u, i) == Authorise(u, i, 200)

(* Listings: everything for an administrator; otherwise the files and       *)
(* devices one has uploaded at any time, and the runs one asked for.        *)
ListFiles(u) == {f \in File : uploads[f] # <<>> /\ (IsAdmin(u) \/ u \in Range(uploads[f]))}
ListDevices(u) == {f \in File : uploads[f] # <<>> /\ (IsAdmin(u) \/ u \in Range(uploads[f]))}
ListAudits(u) == {i \in DOMAIN runs : IsAdmin(u) \/ runs[i].owner = u}

AdminOnly(u, status) == IF IsAdmin(u) THEN status ELSE 403
Stats(u) == AdminOnly(u, 200)
ListUsers(u) == AdminOnly(u, 200)
Create(u, name) == AdminOnly(u, IF name \in DOMAIN accounts THEN 409 ELSE 201)
AnyTarget(u, name) == AdminOnly(u, IF name \notin DOMAIN accounts THEN 404 ELSE 200)
Disable(u, name) ==
    AdminOnly(u, IF name = u THEN 409 ELSE IF name \notin DOMAIN accounts THEN 404 ELSE 200)

(* A request that stores nothing, or is refused.                            *)
Answer(u) ==
    /\ InFlight(u)
    /\ Done(u)
    /\ UNCHANGED <<accounts, uploads, runs, late>>

NewAccount(name, role) == [n \in DOMAIN accounts \cup {name} |->
    IF n = name THEN [role |-> role, disabled |-> FALSE] ELSE accounts[n]]

CreateUser(u) ==
    /\ InFlight(u)
    /\ \E name \in User, role \in Role :
          Create(u, name) = 201 /\ accounts' = NewAccount(name, role)
    /\ Done(u)
    /\ UNCHANGED <<uploads, runs, late>>

DisableUser(u) ==
    /\ InFlight(u)
    /\ \E name \in User :
          /\ Disable(u, name) = 200
          /\ accounts' = [accounts EXCEPT ![name].disabled = TRUE]
    /\ late' = (late \/ accounts[u].disabled)
    /\ Done(u)
    /\ UNCHANGED <<uploads, runs>>

(* A file is stored once; every upload adds a row that names the uploader.  *)
Upload(u) ==
    /\ InFlight(u)
    /\ \E f \in File : uploads' = [uploads EXCEPT ![f] = Append(@, u)]
    /\ Done(u)
    /\ UNCHANGED <<accounts, runs, late>>

Audit(u) ==
    /\ InFlight(u)
    /\ \E f \in File, env \in Environment :
          /\ RunAudit(u, f, env) = 201
          /\ runs' = Append(runs, [file |-> f, owner |-> u])
    /\ Done(u)
    /\ UNCHANGED <<accounts, uploads, late>>

(* scripts/create_admin.py, at its prompt.                                  *)
CreateByScript ==
    /\ \E name \in User \ DOMAIN accounts, role \in Role : accounts' = NewAccount(name, role)
    /\ UNCHANGED <<uploads, runs, caller, late>>

(* The process dies with the requests in flight.                            *)
DropCalls ==
    /\ caller' = [u \in User |-> NoCall]
    /\ UNCHANGED <<accounts, uploads, runs, late>>

AccessStep(u) ==
    Authenticate(u) \/ Answer(u) \/ CreateUser(u) \/ DisableUser(u) \/ Upload(u) \/ Audit(u)

-----------------------------------------------------------------------------

(* Administration is never lost by an order the code refuses: once there is *)
(* an administrator one of them is enabled, whoever disables whom, as long  *)
(* as no disabling is answered after its caller was disabled in turn        *)
(* (api/routers/users.py:82-98 refuses one's own account for this reason,   *)
(* and reads the caller before the others are written).                     *)
AdminRemainsUnlessLate ==
    (~late /\ \E u \in DOMAIN accounts : accounts[u].role = "admin")
        => \E u \in DOMAIN accounts : accounts[u].role = "admin" /\ ~accounts[u].disabled

(* What account u is answered about a file and about a run.                *)
FileReplies(u, f, env) == {FileLines(u, f, env), FrameworksForDevice(u, f), RunAudit(u, f, env)}
RunReplies(u, i, env) ==
    {GetAudit(u, i), GetFindings(u, i), HtmlReport(u, i), PdfReport(u, i, env), RemediationPlan(u, i)}

(* Others learn nothing (api/routers/deps.py:134-143, reports.py:67-80):    *)
(* about a file or a run that is not one's own every handler answers that   *)
(* there is no such thing, whatever runtime, catalogue or pack the machine  *)
(* has and whoever uploaded the file since (an audit with frameworks that   *)
(* have no catalogue is refused before its file is looked up, for any id);  *)
(* a run is of a file that its owner may read; and what one may read is     *)
(* listed, what counts everybody's is for administrators.                   *)
OthersLearnNothing ==
    /\ \A u \in User : InFlight(u) =>
          /\ \A env \in Environment, f \in File \cup {Missing} :
                \/ f \in File /\ uploads[f] # <<>> /\ (accounts[u].role = "admin" \/ Head(uploads[f]) = u)
                \/ FileReplies(u, f, env) \subseteq (IF env.sourced THEN {404} ELSE {404, 400})
          /\ \A env \in Environment, i \in DOMAIN runs :
                \/ accounts[u].role = "admin" \/ runs[i].owner = u
                \/ RunReplies(u, i, env) = {404}
          /\ {i \in DOMAIN runs : GetAudit(u, i) = 200} = ListAudits(u)
          /\ {f \in File : FrameworksForDevice(u, f) = 200} \subseteq ListFiles(u) \cap ListDevices(u)
          /\ accounts[u].role = "user" => {Stats(u), ListUsers(u)} = {403}
    /\ \A i \in DOMAIN runs :
          accounts[runs[i].owner].role = "admin" \/ Head(uploads[runs[i].file]) = runs[i].owner

=============================================================================
