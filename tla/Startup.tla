------------------------------ MODULE Startup ------------------------------
(***************************************************************************)
(* The schema comes before the service: the server (api/main.py lifespan)  *)
(* brings the operational and then the audit database up to date before it *)
(* answers anything, and scripts/create_admin.py brings the operational    *)
(* one up to date when there is no table of accounts yet.  Both run        *)
(* api/db/migrate.py: check that what is recorded as applied is still what *)
(* the files say, read what is pending, and apply it, one migration to a   *)
(* BEGIN IMMEDIATE transaction.  What is pending is read before the first  *)
(* of these transactions, so two processes may set out to apply the same.  *)
(***************************************************************************)
EXTENDS Naturals, Sequences, FiniteSets

CONSTANTS
    Database,       \* the databases, in the order the server migrates them
    Release,        \* release -> database -> its files: [version, edition]
    AccountsSince,  \* the migration of the first database that adds app_user
    Legacy          \* what an old installation has applied of the first one

VersionsOf(migrations) == {m.version : m \in migrations}
Unambiguous(files) == \A m, n \in files : m.version = n.version => m = n

(* Files are numbered from one without a gap, as those of the repository.   *)
ASSUME DatabaseAssumption == Database \in Seq(STRING) /\ Database # <<>>
ASSUME ReleaseAssumption ==
    \A r \in DOMAIN Release : \A d \in DOMAIN Database :
        /\ IsFiniteSet(Release[r][d])
        /\ Unambiguous(Release[r][d]) => VersionsOf(Release[r][d]) = 1 .. Cardinality(Release[r][d])

(* An old installation stopped at some release.                             *)
ASSUME LegacyAssumption ==
    /\ Legacy \in Seq(UNION {Release[r][1] : r \in DOMAIN Release})
    /\ \A i \in DOMAIN Legacy : Legacy[i].version = i

VARIABLES
    disk,       \* the release whose files are installed
    recorded,   \* per database, the rows of schema_migrations
    built,      \* per database, the migrations whose statements took effect
    proc,       \* what the server and the script are doing
    kills       \* how many processes have been killed

schemaVars == <<disk, recorded, built, proc, kills>>

Process == {"server", "script"}
Down == [at |-> "down", db |-> 1, pending |-> {}]
Reach(p, at) == proc' = [proc EXCEPT ![p].at = at]

(* A database is fresh, or has the migrations of before there were owners.  *)
SchemaInit(old) ==
    /\ disk \in DOMAIN Release
    /\ recorded = [d \in DOMAIN Database |-> IF old /\ d = 1 THEN {Legacy[i] : i \in DOMAIN Legacy} ELSE {}]
    /\ built = [d \in DOMAIN Database |-> IF old /\ d = 1 THEN Legacy ELSE <<>>]
    /\ proc = [p \in Process |-> Down]
    /\ kills = 0

CurrentVersion(d) == LET v == VersionsOf(recorded[d])
                     IN IF v = {} THEN 0 ELSE CHOOSE n \in v : \A o \in v : o <= n
HasAccounts == AccountsSince \in VersionsOf(recorded[1])

(* Two files of one version are an error, whatever is pending.              *)
Discovered(d) == Release[disk][d]
Pending(d) == {m \in Discovered(d) : m.version \notin VersionsOf(recorded[d])}

StartServer ==
    /\ proc["server"] = Down
    /\ Reach("server", "verify")
    /\ UNCHANGED <<disk, recorded, built, kills>>

(* The script asks for a password at once when there are accounts.          *)
StartScript ==
    /\ proc["script"] = Down
    /\ Reach("script", IF HasAccounts THEN "prompt" ELSE "verify")
    /\ UNCHANGED <<disk, recorded, built, kills>>

Refuse(p) ==
    /\ proc' = [proc EXCEPT ![p] = Down]
    /\ UNCHANGED <<disk, recorded, built, kills>>

(* verify_applied: every recorded migration is on disk, unedited.           *)
Verified(d) == Unambiguous(Discovered(d)) /\ recorded[d] \subseteq Discovered(d)

VerifyApplied(p) ==
    /\ proc[p].at = "verify"
    /\ IF Verified(proc[p].db)
       THEN Reach(p, "read") /\ UNCHANGED <<disk, recorded, built, kills>>
       ELSE Refuse(p)

ReadPending(p) ==
    /\ proc[p].at = "read"
    /\ proc' = [proc EXCEPT ![p].at = "apply", ![p].pending = Pending(proc[p].db)]
    /\ UNCHANGED <<disk, recorded, built, kills>>

Lowest(migrations) == CHOOSE m \in migrations : \A n \in migrations : m.version <= n.version

(* The statements of a migration and its row are one transaction: a table   *)
(* that exists, or a version already recorded, rolls all of it back and     *)
(* ends the process.                                                        *)
BuildBeforeRecording(p) ==
    LET d == proc[p].db  m == Lowest(proc[p].pending) IN
    /\ built' = [built EXCEPT ![d] = Append(@, m)]
    /\ IF m.version \in VersionsOf(recorded[d])
       THEN proc' = [proc EXCEPT ![p] = Down] /\ UNCHANGED recorded
       ELSE /\ recorded' = [recorded EXCEPT ![d] = @ \cup {m}]
            /\ proc' = [proc EXCEPT ![p].pending = @ \ {m}]

Migrate(p) ==
    LET d == proc[p].db  m == Lowest(proc[p].pending) IN
    IF m.version \in VersionsOf(recorded[d])
    THEN proc' = [proc EXCEPT ![p] = Down] /\ UNCHANGED <<recorded, built>>
    ELSE /\ built' = [built EXCEPT ![d] = Append(@, m)]
         /\ recorded' = [recorded EXCEPT ![d] = @ \cup {m}]
         /\ proc' = [proc EXCEPT ![p].pending = @ \ {m}]

Apply(p) ==
    /\ proc[p].at = "apply"
    /\ proc[p].pending # {}
    /\ Migrate(p)
    /\ UNCHANGED <<disk, kills>>

(* The server goes on to its next database and then serves; the script      *)
(* knows the operational database only.                                     *)
Migrated(p) ==
    /\ proc[p].at = "apply"
    /\ proc[p].pending = {}
    /\ IF p = "server" /\ proc[p].db < Len(Database)
       THEN proc' = [proc EXCEPT ![p] = [at |-> "verify", db |-> @.db + 1, pending |-> {}]]
       ELSE Reach(p, IF p = "server" THEN "up" ELSE "prompt")
    /\ UNCHANGED <<disk, recorded, built, kills>>

Kill(p) ==
    /\ proc[p] # Down
    /\ kills' = kills + 1
    /\ proc' = [proc EXCEPT ![p] = Down]
    /\ UNCHANGED <<disk, recorded, built>>

(* Another release is installed while nothing runs.                         *)
Deploy ==
    /\ \A p \in Process : proc[p] = Down
    /\ disk' \in DOMAIN Release \ {disk}
    /\ UNCHANGED <<recorded, built, proc, kills>>

Serving == proc["server"].at = "up"

SchemaStep(p) == VerifyApplied(p) \/ ReadPending(p) \/ Apply(p) \/ Migrated(p)

(* The schema is its history (api/db/migrate.py:114-134, 137-164): however  *)
(* the server and the script overlap, are refused or are killed, a version  *)
(* takes effect once, what took effect is what is recorded, and a server    *)
(* that answers does so on exactly the migrations of its release, applied   *)
(* in their order.                                                          *)
SchemaIsItsHistory ==
    \A d \in DOMAIN Database :
        /\ recorded[d] = {built[d][i] : i \in DOMAIN built[d]}
        /\ Cardinality(VersionsOf(recorded[d])) = Len(built[d])
        /\ Serving => /\ recorded[d] = Discovered(d)
                      /\ \A i \in DOMAIN built[d] : built[d][i].version = i
                      /\ CurrentVersion(d) = Len(built[d])

=============================================================================
