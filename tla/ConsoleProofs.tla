---------------------------- MODULE ConsoleProofs ----------------------------
(***************************************************************************)
(* Theorems about Console, for any releases, databases, accounts and       *)
(* files: the schema is its history, an administrator remains, others      *)
(* learn nothing and decisions are what was seen, wherever the server and  *)
(* the script overlap or are killed.                                       *)
(***************************************************************************)
EXTENDS Console, FiniteSetTheorems, SequenceTheorems, WellFoundedInduction, TLAPS

-----------------------------------------------------------------------------
(* The inductive invariant of the schema.                                  *)

Migration == UNION {Release[r][d] : r \in DOMAIN Release, d \in DOMAIN Database}

Points == {"down", "verify", "read", "apply", "up", "prompt"}

SchemaOK ==
    /\ disk \in DOMAIN Release
    /\ recorded \in [DOMAIN Database -> SUBSET Migration]
    /\ built \in [DOMAIN Database -> Seq(Migration)]
    /\ proc \in [Process -> [at : Points, db : DOMAIN Database, pending : SUBSET Migration]]

\* What took effect is recorded, in the order of its versions.
InOrder ==
    \A d \in DOMAIN Database :
        /\ recorded[d] = {built[d][i] : i \in DOMAIN built[d]}
        /\ \A i \in DOMAIN built[d] : built[d][i].version = i

\* Once verified, what is recorded is of the release; what is pending is the
\* rest of it from some version on, and all before is recorded, by whomever.
ReadOK ==
    \A p \in Process :
        LET d == proc[p].db IN
        /\ proc[p].at \in {"read", "apply"} =>
              Unambiguous(Discovered(d)) /\ recorded[d] \subseteq Discovered(d)
        /\ proc[p].at = "apply" =>
              \E v \in 1 .. Cardinality(Discovered(d)) + 1 :
                  /\ proc[p].pending = {m \in Discovered(d) : m.version >= v}
                  /\ \A m \in Discovered(d) : m.version < v => m \in recorded[d]

\* The databases the server has done with are those of the release.
UpToDate ==
    \A d \in DOMAIN Database :
        d < proc["server"].db \/ Serving =>
            Unambiguous(Discovered(d)) /\ recorded[d] = Discovered(d)

SchemaInv == SchemaOK /\ InOrder /\ ReadOK /\ UpToDate

-----------------------------------------------------------------------------
(* The inductive invariant of the accounts.                                *)

AccessOK ==
    /\ DOMAIN accounts \subseteq User
    /\ accounts \in [DOMAIN accounts -> [role : Role, disabled : BOOLEAN]]
    /\ uploads \in [File -> Seq(User \cup {NoOne})]
    /\ runs \in Seq([file : File, owner : User])
    /\ DOMAIN caller = User

\* A request in flight is of an account that was enabled, in the role it has.
CallsOK ==
    \A u \in User : InFlight(u) =>
        /\ u \in DOMAIN accounts
        /\ caller[u].role = accounts[u].role
        /\ ~caller[u].disabled

\* A run is of a file that its owner may read.
RunsOK ==
    \A i \in DOMAIN runs :
        /\ runs[i].owner \in DOMAIN accounts
        /\ uploads[runs[i].file] # <<>>
        /\ \/ accounts[runs[i].owner].role = "admin"
           \/ Head(uploads[runs[i].file]) = runs[i].owner

AccessInv == AccessOK /\ CallsOK /\ RunsOK /\ AdminRemainsUnlessLate

-----------------------------------------------------------------------------
(* The inductive invariant of the desk.                                    *)

Texts == ToSet(TextOrder)

\* What is stored is of a line and a field there are, and was checked when it
\* was stored; what is on a screen is of a line and of fields there are.
DeskInv ==
    /\ examples \in Seq(ToSet(examples))
    /\ \A i \in DOMAIN examples : /\ examples[i].line \in Texts
                                  /\ examples[i].field \in Fields \cup {NoField}
                                  /\ Valid(examples[i])
    /\ DOMAIN seen = User
    /\ \A u \in User : seen[u] # NotRead =>
          /\ seen[u].line \in Texts
          /\ \A k \in DOMAIN seen[u].shown : seen[u].shown[k] \in Fields

IInv == SchemaInv /\ AccessInv /\ DeskInv

-----------------------------------------------------------------------------
(* Migrations are numbered as they are applied.                            *)

LEMMA ReleaseVersions ==
    ASSUME SchemaOK, NEW d \in DOMAIN Database, Unambiguous(Discovered(d))
    PROVE  /\ Cardinality(Discovered(d)) \in Nat
           /\ \A m \in Discovered(d) : m.version \in 1 .. Cardinality(Discovered(d))
           /\ \A v \in 1 .. Cardinality(Discovered(d)) : \E m \in Discovered(d) : m.version = v
           /\ \A m, n \in Discovered(d) : m.version = n.version => m = n
           /\ Discovered(d) \subseteq Migration
<1>1. /\ IsFiniteSet(Discovered(d))
      /\ VersionsOf(Discovered(d)) = 1 .. Cardinality(Discovered(d))
    BY ReleaseAssumption DEF SchemaOK, Discovered
<1>2. Cardinality(Discovered(d)) \in Nat
    BY <1>1, FS_CardinalityType
<1> QED
    BY <1>1, <1>2 DEF VersionsOf, Unambiguous, Discovered, Migration, SchemaOK

\* What is recorded has the versions from one on.
LEMMA RecordedVersions ==
    ASSUME SchemaOK, InOrder, NEW d \in DOMAIN Database
    PROVE  VersionsOf(recorded[d]) = 1 .. Len(built[d])
<1>1. DOMAIN built[d] = 1 .. Len(built[d])
    BY DEF SchemaOK
<1>2. /\ recorded[d] = {built[d][i] : i \in 1 .. Len(built[d])}
      /\ \A i \in 1 .. Len(built[d]) : built[d][i].version = i
    BY <1>1 DEF InOrder
<1>3. \A m \in recorded[d] : m.version \in 1 .. Len(built[d])
    BY <1>2
<1>4. \A v \in 1 .. Len(built[d]) : \E m \in recorded[d] : m.version = v
    BY <1>2
<1> QED
    BY <1>3, <1>4 DEF VersionsOf

LEMMA InitSchema ==
    ASSUME NEW old \in BOOLEAN, SchemaInit(old)
    PROVE  SchemaInv
<1> USE DEF SchemaInit
<1>1. 1 \in DOMAIN Database /\ DOMAIN Database \subseteq Nat
    BY DatabaseAssumption
<1>2. Legacy \in Seq(Migration)
  <2>1. UNION {Release[r][1] : r \in DOMAIN Release} \subseteq Migration
      BY <1>1 DEF Migration
  <2> QED
      BY <2>1, LegacyAssumption
<1>3. <<>> \in Seq(Migration)
    OBVIOUS
<1>4. {Legacy[i] : i \in DOMAIN Legacy} \subseteq Migration
    BY <1>2
<1>5. SchemaOK
  <2>1. built \in [DOMAIN Database -> Seq(Migration)]
      BY <1>2, <1>3
  <2>2. recorded \in [DOMAIN Database -> SUBSET Migration]
      BY <1>4
  <2>3. proc \in [Process -> [at : Points, db : DOMAIN Database, pending : SUBSET Migration]]
      BY <1>1 DEF Down, Points
  <2> QED
      BY <2>1, <2>2, <2>3 DEF SchemaOK
<1>6. InOrder
    BY LegacyAssumption DEF InOrder
<1>7. \A p \in Process : proc[p].at = "down" /\ proc[p].db = 1
    BY DEF Down
<1>8. ReadOK
    BY <1>7 DEF ReadOK
<1>9. UpToDate
    BY <1>1, <1>7 DEF UpToDate, Serving, Process
<1> QED
    BY <1>5, <1>6, <1>8, <1>9 DEF SchemaInv

-----------------------------------------------------------------------------
(* Every step of the server and of the script keeps the schema.            *)

\* A process moves within the file it has read, and nothing is written.
LEMMA ProcessStep ==
    ASSUME SchemaInv, NEW p \in Process, UNCHANGED <<disk, recorded, built>>,
           NEW at \in Points, NEW db \in DOMAIN Database, NEW pending \in SUBSET Migration,
           proc' = [proc EXCEPT ![p] = [at |-> at, db |-> db, pending |-> pending]],
           at \in {"read", "apply"} =>
              Unambiguous(Discovered(db)) /\ recorded[db] \subseteq Discovered(db),
           at = "apply" =>
              \E v \in 1 .. Cardinality(Discovered(db)) + 1 :
                  /\ pending = {m \in Discovered(db) : m.version >= v}
                  /\ \A m \in Discovered(db) : m.version < v => m \in recorded[db],
           p = "server" =>
              \A d \in DOMAIN Database : d < db \/ at = "up" =>
                  Unambiguous(Discovered(d)) /\ recorded[d] = Discovered(d)
    PROVE  SchemaInv'
<1> DEFINE j == [at |-> at, db |-> db, pending |-> pending]
<1> USE DEF SchemaInv
<1>1. /\ proc' \in [Process -> [at : Points, db : DOMAIN Database, pending : SUBSET Migration]]
      /\ proc'[p] = j /\ \A q \in Process : q # p => proc'[q] = proc[q]
    BY DEF SchemaOK
<1>2. SchemaOK'
    BY <1>1 DEF SchemaOK, Discovered
<1>3. InOrder'
    BY DEF InOrder
<1>4. ReadOK'
  <2> SUFFICES ASSUME NEW q \in Process
               PROVE  LET d == proc'[q].db IN
                      /\ proc'[q].at \in {"read", "apply"} =>
                            Unambiguous(Discovered(d)) /\ recorded[d] \subseteq Discovered(d)
                      /\ proc'[q].at = "apply" =>
                            \E v \in 1 .. Cardinality(Discovered(d)) + 1 :
                                /\ proc'[q].pending = {m \in Discovered(d) : m.version >= v}
                                /\ \A m \in Discovered(d) : m.version < v => m \in recorded[d]
      BY DEF ReadOK, Discovered
  <2>1. CASE q = p
      BY <1>1, <2>1
  <2>2. CASE q # p
      BY <1>1, <2>2 DEF ReadOK
  <2> QED
      BY <2>1, <2>2
<1>5. UpToDate'
  <2>1. CASE p = "server"
      BY <1>1, <2>1 DEF UpToDate, Serving, Discovered
  <2>2. CASE p # "server"
    <3>1. proc'["server"] = proc["server"]
        BY <1>1, <2>2 DEF Process
    <3> QED
        BY <3>1 DEF UpToDate, Serving, Discovered
  <2> QED
      BY <2>1, <2>2
<1> QED
    BY <1>2, <1>3, <1>4, <1>5

\* What a process knows, and what it knows when a part of that changes.
LEMMA ProcFields ==
    ASSUME NEW p \in Process, SchemaOK, NEW x, NEW y
    PROVE  LET r == proc[p] IN
           /\ [r EXCEPT !.at = x] = [at |-> x, db |-> r.db, pending |-> r.pending]
           /\ [r EXCEPT !.at = x, !.pending = y] = [at |-> x, db |-> r.db, pending |-> y]
           /\ [r EXCEPT !.pending = y] = [at |-> r.at, db |-> r.db, pending |-> y]
<1> DEFINE r == proc[p]
<1>1. r \in [at : Points, db : DOMAIN Database, pending : SUBSET Migration]
    BY DEF SchemaOK
<1> HIDE DEF r
<1>2. [r EXCEPT !.at = x] = [at |-> x, db |-> r.db, pending |-> r.pending]
    BY <1>1
<1> DEFINE s == [r EXCEPT !.at = x]
<1>3. [r EXCEPT !.at = x, !.pending = y] = [at |-> x, db |-> r.db, pending |-> y]
  <2>1. [r EXCEPT !.at = x, !.pending = y] = [s EXCEPT !.pending = y]
      OBVIOUS
  <2>2. s = [at |-> x, db |-> r.db, pending |-> r.pending]
      BY <1>2
  <2> HIDE DEF s
  <2> QED
      BY <2>1, <2>2
<1>4. [r EXCEPT !.pending = y] = [at |-> r.at, db |-> r.db, pending |-> y]
    BY <1>1
<1> QED
    BY <1>2, <1>3, <1>4 DEF r

\* It starts over, from nothing.
LEMMA DownStep ==
    ASSUME SchemaInv, NEW p \in Process, UNCHANGED <<disk, recorded, built>>,
           proc' = [proc EXCEPT ![p] = Down]
    PROVE  SchemaInv'
<1>1. 1 \in DOMAIN Database /\ \A d \in DOMAIN Database : ~(d < 1)
    BY DatabaseAssumption
<1> DEFINE at == "down"  db == 1  pending == {}
<1>2. proc' = [proc EXCEPT ![p] = [at |-> at, db |-> db, pending |-> pending]]
    BY DEF Down
<1>3. /\ at \in Points \ {"read", "apply", "up"}
      /\ db \in DOMAIN Database /\ pending \in SUBSET Migration
      /\ \A d \in DOMAIN Database : ~(d < db)
    BY <1>1 DEF Points
<1> HIDE DEF at, db, pending
<1> QED
    BY <1>2, <1>3, ProcessStep

\* It reaches a point where nothing is known of the database yet, or where it
\* is known already.
LEMMA ReachStep ==
    ASSUME SchemaInv, NEW p \in Process, NEW at \in Points \ {"apply", "up"},
           Reach(p, at), UNCHANGED <<disk, recorded, built>>,
           at = "read" => Verified(proc[p].db)
    PROVE  SchemaInv'
<1> DEFINE db == proc[p].db  pending == proc[p].pending
<1>1. proc' = [proc EXCEPT ![p] = [at |-> at, db |-> db, pending |-> pending]]
  <2>1. proc' = [proc EXCEPT ![p] = [proc[p] EXCEPT !.at = at]]
      BY DEF Reach, SchemaInv, SchemaOK
  <2>2. [proc[p] EXCEPT !.at = at] = [at |-> at, db |-> db, pending |-> pending]
      BY ProcFields DEF SchemaInv
  <2> QED
      BY <2>1, <2>2
<1>2. db \in DOMAIN Database /\ pending \in SUBSET Migration
    BY DEF SchemaInv, SchemaOK
<1>3. p = "server" =>
          \A d \in DOMAIN Database : d < db => Unambiguous(Discovered(d)) /\ recorded[d] = Discovered(d)
    BY DEF SchemaInv, UpToDate
<1>4. at \in {"read", "apply"} =>
          Unambiguous(Discovered(db)) /\ recorded[db] \subseteq Discovered(db)
    BY DEF Verified
<1> HIDE DEF db, pending
<1> QED
    BY <1>1, <1>2, <1>3, <1>4, ProcessStep

LEMMA VerifyAppliedStep ==
    ASSUME SchemaInv, NEW p \in Process, VerifyApplied(p)
    PROVE  SchemaInv'
<1>1. CASE Verified(proc[p].db)
    BY <1>1, ReachStep DEF VerifyApplied, Points
<1>2. CASE ~Verified(proc[p].db)
    BY <1>2, DownStep DEF VerifyApplied, Refuse
<1> QED
    BY <1>1, <1>2

LEMMA ReadPendingStep ==
    ASSUME SchemaInv, NEW p \in Process, ReadPending(p)
    PROVE  SchemaInv'
<1> DEFINE db == proc[p].db  pending == Pending(proc[p].db)
<1>1. proc[p].at = "read" /\ UNCHANGED <<disk, recorded, built>>
    BY DEF ReadPending
<1>2. proc' = [proc EXCEPT ![p] = [at |-> "apply", db |-> db, pending |-> pending]]
  <2>1. proc' = [proc EXCEPT ![p].at = "apply", ![p].pending = pending]
      BY DEF ReadPending
  <2> HIDE DEF pending
  <2>2. proc' = [proc EXCEPT ![p] = [proc[p] EXCEPT !.at = "apply", !.pending = pending]]
      BY <2>1 DEF SchemaInv, SchemaOK
  <2>3. [proc[p] EXCEPT !.at = "apply", !.pending = pending]
           = [at |-> "apply", db |-> db, pending |-> pending]
      BY ProcFields DEF SchemaInv
  <2> QED
      BY <2>2, <2>3
<1>3. db \in DOMAIN Database
    BY DEF SchemaInv, SchemaOK
<1>4. Unambiguous(Discovered(db)) /\ recorded[db] \subseteq Discovered(db)
    BY <1>1 DEF SchemaInv, ReadOK
<1>5. pending \in SUBSET Migration
    BY <1>3, <1>4, ReleaseVersions DEF Pending, SchemaInv
<1>6. \E v \in 1 .. Cardinality(Discovered(db)) + 1 :
          /\ pending = {m \in Discovered(db) : m.version >= v}
          /\ \A m \in Discovered(db) : m.version < v => m \in recorded[db]
  <2> DEFINE k == Len(built[db])  c == Cardinality(Discovered(db))
  <2>1. VersionsOf(recorded[db]) = 1 .. k /\ k \in Nat
      BY <1>3, RecordedVersions DEF SchemaInv, SchemaOK
  <2>2. c \in Nat /\ \A m \in Discovered(db) : m.version \in 1 .. c
      BY <1>3, <1>4, ReleaseVersions DEF SchemaInv
  <2>3. k <= c
    <3>1. CASE k = 0
        BY <2>2, <3>1
    <3>2. CASE k # 0
      <4>1. PICK m \in recorded[db] : m.version = k
          BY <2>1, <3>2 DEF VersionsOf
      <4> QED
          BY <1>4, <2>1, <2>2, <4>1
    <3> QED
        BY <3>1, <3>2
  <2>4. pending = {m \in Discovered(db) : m.version \notin 1 .. k}
      BY <2>1 DEF Pending
  <2>5. \A m \in Discovered(db) : m.version < k + 1 => m \in recorded[db]
    <3> SUFFICES ASSUME NEW m \in Discovered(db), m.version < k + 1
                 PROVE  m \in recorded[db]
        OBVIOUS
    <3>1. m.version \in 1 .. k
        BY <2>1, <2>2
    <3>2. PICK n \in recorded[db] : n.version = m.version
        BY <2>1, <3>1 DEF VersionsOf
    <3> QED
        BY <1>4, <3>2 DEF Unambiguous
  <2> HIDE DEF k, c, pending
  <2>6. k + 1 \in 1 .. c + 1
      BY <2>1, <2>2, <2>3
  <2>7. pending = {m \in Discovered(db) : m.version >= k + 1}
      BY <2>1, <2>2, <2>4
  <2> QED
      BY <2>5, <2>6, <2>7 DEF c
<1>7. p = "server" =>
          \A d \in DOMAIN Database : d < db => Unambiguous(Discovered(d)) /\ recorded[d] = Discovered(d)
    BY DEF SchemaInv, UpToDate
<1> HIDE DEF db, pending
<1> QED
    BY <1>1, <1>2, <1>3, <1>4, <1>5, <1>6, <1>7, ProcessStep DEF Points

\* What was pending is all applied: what is recorded is the release.
LEMMA AllApplied ==
    ASSUME SchemaInv, NEW p \in Process, proc[p].at = "apply", proc[p].pending = {}
    PROVE  LET d == proc[p].db IN
           d \in DOMAIN Database /\ Unambiguous(Discovered(d)) /\ recorded[d] = Discovered(d)
<1> DEFINE d == proc[p].db  c == Cardinality(Discovered(d))
<1>1. d \in DOMAIN Database /\ Unambiguous(Discovered(d)) /\ recorded[d] \subseteq Discovered(d)
    BY DEF SchemaInv, SchemaOK, ReadOK
<1>2. PICK v \in 1 .. c + 1 :
          /\ {} = {m \in Discovered(d) : m.version >= v}
          /\ \A m \in Discovered(d) : m.version < v => m \in recorded[d]
    BY DEF SchemaInv, ReadOK
<1>3. c \in Nat /\ \A m \in Discovered(d) : m.version \in 1 .. c
    BY <1>1, ReleaseVersions DEF SchemaInv
<1>4. \A m \in Discovered(d) : m.version < v
  <2> HIDE DEF c
  <2> QED
      BY <1>2, <1>3
<1> QED
    BY <1>1, <1>2, <1>4

LEMMA MigratedStep ==
    ASSUME SchemaInv, NEW p \in Process, Migrated(p)
    PROVE  SchemaInv'
<1> DEFINE d == proc[p].db
<1>1. proc[p].at = "apply" /\ proc[p].pending = {} /\ UNCHANGED <<disk, recorded, built>>
    BY DEF Migrated
<1>2. d \in DOMAIN Database /\ Unambiguous(Discovered(d)) /\ recorded[d] = Discovered(d)
    BY <1>1, AllApplied
<1>3. p = "server" =>
          \A e \in DOMAIN Database : e < d => Unambiguous(Discovered(e)) /\ recorded[e] = Discovered(e)
    BY DEF SchemaInv, UpToDate
<1>4. DOMAIN Database = 1 .. Len(Database) /\ Len(Database) \in Nat
    BY DatabaseAssumption
<1>5. CASE p = "server" /\ d < Len(Database)
  <2>1. proc' = [proc EXCEPT ![p] = [at |-> "verify", db |-> d + 1, pending |-> {}]]
      BY <1>5 DEF Migrated, SchemaInv, SchemaOK
  <2>2. d + 1 \in DOMAIN Database
      BY <1>2, <1>4, <1>5
  <2>3. \A e \in DOMAIN Database : e < d + 1 => Unambiguous(Discovered(e)) /\ recorded[e] = Discovered(e)
    <3> SUFFICES ASSUME NEW e \in DOMAIN Database, e < d + 1
                 PROVE  Unambiguous(Discovered(e)) /\ recorded[e] = Discovered(e)
        OBVIOUS
    <3>1. e = d \/ e < d
        BY <1>2, <1>4
    <3> QED
        BY <1>2, <1>3, <1>5, <3>1
  <2> HIDE DEF d
  <2> QED
      BY <1>1, <2>1, <2>2, <2>3, ProcessStep DEF Points
<1>6. CASE p = "server" /\ ~(d < Len(Database))
  <2>1. proc' = [proc EXCEPT ![p] = [at |-> "up", db |-> d, pending |-> {}]]
    <3>1. Reach(p, "up")
        BY <1>6 DEF Migrated
    <3>2. proc' = [proc EXCEPT ![p] = [proc[p] EXCEPT !.at = "up"]]
        BY <3>1 DEF Reach, SchemaInv, SchemaOK
    <3>3. [proc[p] EXCEPT !.at = "up"] = [at |-> "up", db |-> d, pending |-> {}]
        BY <1>1, ProcFields DEF SchemaInv
    <3> QED
        BY <3>2, <3>3
  <2>2. \A e \in DOMAIN Database : Unambiguous(Discovered(e)) /\ recorded[e] = Discovered(e)
    <3> SUFFICES ASSUME NEW e \in DOMAIN Database
                 PROVE  Unambiguous(Discovered(e)) /\ recorded[e] = Discovered(e)
        OBVIOUS
    <3>1. e = d \/ e < d
        BY <1>2, <1>4, <1>6
    <3> QED
        BY <1>2, <1>3, <1>6, <3>1
  <2> HIDE DEF d
  <2> QED
      BY <1>1, <1>2, <2>1, <2>2, ProcessStep DEF Points
<1>7. CASE p # "server"
  <2>1. Reach(p, "prompt")
      BY <1>7 DEF Migrated
  <2> QED
      BY <1>1, <2>1, ReachStep DEF Points
<1> QED
    BY <1>5, <1>6, <1>7

\* The lowest pending migration is the first pending version.
LEMMA LowestPending ==
    ASSUME SchemaInv, NEW p \in Process, proc[p].at = "apply", proc[p].pending # {},
           NEW v \in 1 .. Cardinality(Discovered(proc[p].db)) + 1,
           proc[p].pending = {m \in Discovered(proc[p].db) : m.version >= v}
    PROVE  LET m == Lowest(proc[p].pending) IN
           m \in proc[p].pending /\ m.version = v
<1> DEFINE d == proc[p].db  c == Cardinality(Discovered(d))
<1>1. d \in DOMAIN Database /\ Unambiguous(Discovered(d))
    BY DEF SchemaInv, SchemaOK, ReadOK
<1>2. /\ c \in Nat /\ \A m \in Discovered(d) : m.version \in 1 .. c
      /\ \A n \in 1 .. c : \E m \in Discovered(d) : m.version = n
    BY <1>1, ReleaseVersions DEF SchemaInv
<1> HIDE DEF c
<1>3. v \in 1 .. c
  <2>1. PICK m \in Discovered(d) : m.version >= v
      OBVIOUS
  <2> QED
      BY <1>2, <2>1 DEF c
<1>4. PICK n \in Discovered(d) : n.version = v
    BY <1>2, <1>3
<1>5. n \in proc[p].pending /\ \A o \in proc[p].pending : n.version <= o.version
    BY <1>2, <1>3, <1>4
<1>6. LET m == Lowest(proc[p].pending) IN
      m \in proc[p].pending /\ \A o \in proc[p].pending : m.version <= o.version
    BY <1>5 DEF Lowest
<1> DEFINE m == Lowest(proc[p].pending)
<1>7. m \in Discovered(d) /\ m.version >= v /\ m.version <= v
    BY <1>4, <1>5, <1>6
<1> HIDE DEF m
<1>8. m.version = v
    BY <1>2, <1>3, <1>7
<1> QED
    BY <1>6, <1>8 DEF m

\* One migration takes effect: the next version.
LEMMA AppliedStep ==
    ASSUME SchemaInv, NEW p \in Process, proc[p].at = "apply", proc[p].pending # {},
           Migrate(p), UNCHANGED disk,
           Lowest(proc[p].pending).version \notin VersionsOf(recorded[proc[p].db])
    PROVE  SchemaInv'
<1> DEFINE d == proc[p].db  c == Cardinality(Discovered(d))  k == Len(built[d])
           m == Lowest(proc[p].pending)
<1>1. d \in DOMAIN Database /\ Unambiguous(Discovered(d)) /\ recorded[d] \subseteq Discovered(d)
    BY DEF SchemaInv, SchemaOK, ReadOK
<1>2. PICK v \in 1 .. c + 1 :
          /\ proc[p].pending = {n \in Discovered(d) : n.version >= v}
          /\ \A n \in Discovered(d) : n.version < v => n \in recorded[d]
    BY DEF SchemaInv, ReadOK
<1>3. m \in proc[p].pending /\ m.version = v
    BY <1>2, LowestPending
<1>4. /\ c \in Nat /\ \A n \in Discovered(d) : n.version \in 1 .. c
      /\ \A w \in 1 .. c : \E n \in Discovered(d) : n.version = w
      /\ \A n, o \in Discovered(d) : n.version = o.version => n = o
      /\ Discovered(d) \subseteq Migration
    BY <1>1, ReleaseVersions DEF SchemaInv
<1>5. VersionsOf(recorded[d]) = 1 .. k /\ k \in Nat
    BY <1>1, RecordedVersions DEF SchemaInv, SchemaOK
<1>6. m \in Discovered(d) /\ m \in Migration
    BY <1>2, <1>3, <1>4
<1>7. /\ built' = [built EXCEPT ![d] = Append(@, m)]
      /\ recorded' = [recorded EXCEPT ![d] = @ \cup {m}]
      /\ proc' = [proc EXCEPT ![p].pending = @ \ {m}]
    BY DEF Migrate
<1>8. v = k + 1
  <2>1. v \in Nat /\ v # 0 /\ v \notin 1 .. k
      BY <1>3, <1>4, <1>5
  <2>2. CASE v = 1
      BY <1>5, <2>1, <2>2
  <2>3. CASE v # 1
    <3>1. v - 1 \in 1 .. c
        BY <1>4, <2>1, <2>3
    <3>2. PICK n \in Discovered(d) : n.version = v - 1
        BY <1>4, <3>1
    <3>3. n \in recorded[d]
        BY <1>2, <2>1, <3>2
    <3>4. v - 1 \in 1 .. k
        BY <1>5, <3>2, <3>3 DEF VersionsOf
    <3> QED
        BY <1>5, <2>1, <3>4
  <2> QED
      BY <2>2, <2>3
<1>9. proc' = [proc EXCEPT ![p] = [at |-> "apply", db |-> d, pending |-> proc[p].pending \ {m}]]
  <2> DEFINE y == proc[p].pending \ {m}
  <2>1. proc' = [proc EXCEPT ![p] = [proc[p] EXCEPT !.pending = y]]
      BY <1>7 DEF SchemaInv, SchemaOK
  <2> HIDE DEF y
  <2>2. [proc[p] EXCEPT !.pending = y] = [at |-> proc[p].at, db |-> d, pending |-> y]
      BY ProcFields DEF SchemaInv
  <2> QED
      BY <2>1, <2>2 DEF y
<1> HIDE DEF m, Migrate
<1>10. /\ recorded'[d] = recorded[d] \cup {m}
       /\ built'[d] = Append(built[d], m)
       /\ \A e \in DOMAIN Database : e # d => recorded'[e] = recorded[e] /\ built'[e] = built[e]
    BY <1>1, <1>7 DEF SchemaInv, SchemaOK
<1>11. /\ proc'[p] = [at |-> "apply", db |-> d, pending |-> proc[p].pending \ {m}]
       /\ \A q \in Process : q # p => proc'[q] = proc[q]
    BY <1>9 DEF SchemaInv, SchemaOK
<1>12. SchemaOK'
  <2>1. built' \in [DOMAIN Database -> Seq(Migration)]
    <3>1. Append(built[d], m) \in Seq(Migration)
        BY <1>1, <1>6 DEF SchemaInv, SchemaOK
    <3> QED
        BY <1>7, <3>1 DEF SchemaInv, SchemaOK
  <2>2. recorded' \in [DOMAIN Database -> SUBSET Migration]
      BY <1>6, <1>7 DEF SchemaInv, SchemaOK
  <2>3. proc' \in [Process -> [at : Points, db : DOMAIN Database, pending : SUBSET Migration]]
      BY <1>1, <1>9 DEF SchemaInv, SchemaOK, Points
  <2> QED
      BY <2>1, <2>2, <2>3 DEF SchemaInv, SchemaOK
<1>13. InOrder'
  <2>1. /\ DOMAIN built'[d] = 1 .. k + 1 /\ DOMAIN built[d] = 1 .. k
        /\ built'[d][k + 1] = m /\ \A i \in 1 .. k : built'[d][i] = built[d][i]
      BY <1>1, <1>5, <1>6, <1>10 DEF SchemaInv, SchemaOK
  <2>2. /\ recorded[d] = {built[d][i] : i \in 1 .. k}
        /\ \A i \in 1 .. k : built[d][i].version = i
      BY <1>1, <2>1 DEF SchemaInv, InOrder
  <2> HIDE DEF k
  <2>3. 1 .. k + 1 = (1 .. k) \cup {k + 1}
      BY <1>5
  <2>4. /\ recorded'[d] = {built'[d][i] : i \in DOMAIN built'[d]}
        /\ \A i \in DOMAIN built'[d] : built'[d][i].version = i
      BY <1>3, <1>8, <1>10, <2>1, <2>2, <2>3
  <2>5. ASSUME NEW e \in DOMAIN Database, e # d
        PROVE  /\ recorded'[e] = {built'[e][i] : i \in DOMAIN built'[e]}
               /\ \A i \in DOMAIN built'[e] : built'[e][i].version = i
      BY <1>10, <2>5 DEF SchemaInv, InOrder
  <2> HIDE DEF d
  <2> QED
      BY <2>4, <2>5 DEF InOrder
<1>14. ReadOK'
  <2> SUFFICES ASSUME NEW q \in Process
               PROVE  LET e == proc'[q].db IN
                      /\ proc'[q].at \in {"read", "apply"} =>
                            Unambiguous(Discovered(e)) /\ recorded'[e] \subseteq Discovered(e)
                      /\ proc'[q].at = "apply" =>
                            \E w \in 1 .. Cardinality(Discovered(e)) + 1 :
                                /\ proc'[q].pending = {n \in Discovered(e) : n.version >= w}
                                /\ \A n \in Discovered(e) : n.version < w => n \in recorded'[e]
      BY DEF ReadOK, Discovered
  <2>1. CASE q = p
    <3>1. v + 1 \in 1 .. c + 1
        BY <1>3, <1>4, <1>6
    <3>2. proc[p].pending \ {m} = {n \in Discovered(d) : n.version >= v + 1}
      <4>1. \A n \in Discovered(d) : n.version >= v + 1 <=> n.version >= v /\ n # m
          BY <1>3, <1>4, <1>6
      <4> QED
          BY <1>2, <4>1
    <3>3. \A n \in Discovered(d) : n.version < v + 1 => n \in recorded'[d]
      <4>1. \A n \in Discovered(d) : n.version < v + 1 => n.version < v \/ n = m
          BY <1>3, <1>4, <1>6
      <4> QED
          BY <1>2, <1>10, <4>1
    <3> QED
        BY <1>1, <1>6, <1>10, <1>11, <2>1, <3>1, <3>2, <3>3
  <2>2. CASE q # p
    <3> DEFINE e == proc[q].db
    <3>1. proc'[q] = proc[q] /\ e \in DOMAIN Database
        BY <1>11, <2>2 DEF SchemaInv, SchemaOK
    <3>2. recorded[e] \subseteq recorded'[e] /\ recorded'[e] \subseteq recorded[e] \cup Discovered(e)
        BY <1>6, <1>10, <3>1
    <3>3. proc[q].at \in {"read", "apply"} =>
              Unambiguous(Discovered(e)) /\ recorded'[e] \subseteq Discovered(e)
        BY <3>2 DEF SchemaInv, ReadOK
    <3>4. ASSUME proc[q].at = "apply"
          PROVE  \E w \in 1 .. Cardinality(Discovered(e)) + 1 :
                     /\ proc[q].pending = {n \in Discovered(e) : n.version >= w}
                     /\ \A n \in Discovered(e) : n.version < w => n \in recorded'[e]
      <4>1. PICK w \in 1 .. Cardinality(Discovered(e)) + 1 :
                /\ proc[q].pending = {n \in Discovered(e) : n.version >= w}
                /\ \A n \in Discovered(e) : n.version < w => n \in recorded[e]
          BY <3>4 DEF SchemaInv, ReadOK
      <4> QED
          BY <3>2, <4>1
    <3> QED
        BY <3>1, <3>3, <3>4
  <2> QED
      BY <2>1, <2>2
<1>15. UpToDate'
  <2>1. /\ proc'["server"].db = proc["server"].db
        /\ proc'["server"].at = proc["server"].at
      BY <1>11 DEF Process
  <2>2. recorded[d] # Discovered(d)
      BY <1>3, <1>6 DEF VersionsOf, m
  <2> QED
      BY <1>1, <1>10, <2>1, <2>2 DEF SchemaInv, UpToDate, Serving, Discovered
<1> QED
    BY <1>12, <1>13, <1>14, <1>15 DEF SchemaInv

LEMMA ApplyStep ==
    ASSUME SchemaInv, NEW p \in Process, Apply(p)
    PROVE  SchemaInv'
<1>1. CASE Lowest(proc[p].pending).version \in VersionsOf(recorded[proc[p].db])
  <2>1. proc' = [proc EXCEPT ![p] = Down] /\ UNCHANGED <<disk, recorded, built>>
      BY <1>1 DEF Apply, Migrate
  <2> QED
      BY <2>1, DownStep
<1>2. CASE Lowest(proc[p].pending).version \notin VersionsOf(recorded[proc[p].db])
    BY <1>2, AppliedStep DEF Apply
<1> QED
    BY <1>1, <1>2

LEMMA StartStep ==
    ASSUME SchemaInv, StartServer \/ StartScript
    PROVE  SchemaInv'
<1>1. CASE StartServer
    BY <1>1, ReachStep DEF StartServer, Process, Points
<1>2. CASE StartScript
    BY <1>2, ReachStep DEF StartScript, Process, Points
<1> QED
    BY <1>1, <1>2

\* Nothing runs while another release is installed.
LEMMA DeployStep ==
    ASSUME SchemaInv, Deploy
    PROVE  SchemaInv'
<1> USE DEF SchemaInv, Deploy
<1>1. \A p \in Process : proc'[p].at = "down" /\ proc'[p].db = 1
    BY DEF Down
<1>2. SchemaOK' /\ InOrder'
    BY DEF SchemaOK, InOrder
<1>3. ReadOK'
    BY <1>1 DEF ReadOK
<1>4. \A d \in DOMAIN Database : ~(d < 1)
    BY DatabaseAssumption
<1>5. UpToDate'
    BY <1>1, <1>4 DEF UpToDate, Serving, Process
<1> QED
    BY <1>2, <1>3, <1>5

LEMMA SchemaUnmoved ==
    ASSUME SchemaInv, UNCHANGED <<disk, recorded, built, proc>>
    PROVE  SchemaInv'
    BY DEF SchemaInv, SchemaOK, InOrder, ReadOK, UpToDate, Discovered, Serving

\* Every step keeps the schema.
LEMMA SchemaStepwise ==
    ASSUME SchemaInv, [Next]_vars
    PROVE  SchemaInv'
<1>1. CASE UNCHANGED vars
    BY <1>1, SchemaUnmoved DEF vars, schemaVars
<1>2. CASE Prepare
    BY <1>2, StartStep, DeployStep, VerifyAppliedStep, ReadPendingStep, ApplyStep,
       MigratedStep DEF Prepare, SchemaStep
<1>3. CASE FirstAdmin
    BY <1>3, DownStep DEF FirstAdmin, Refuse, Process
<1>4. CASE Serve
    BY <1>4, SchemaUnmoved DEF Serve, schemaVars
<1>5. ASSUME NEW p \in Process, Die(p) PROVE SchemaInv'
    BY <1>5, DownStep DEF Die, Kill
<1> QED
    BY <1>1, <1>2, <1>3, <1>4, <1>5 DEF Next

LEMMA SchemaSummary ==
    ASSUME SchemaInv
    PROVE  SchemaIsItsHistory
<1> SUFFICES ASSUME NEW d \in DOMAIN Database
             PROVE  /\ recorded[d] = {built[d][i] : i \in DOMAIN built[d]}
                    /\ Cardinality(VersionsOf(recorded[d])) = Len(built[d])
                    /\ Serving => /\ recorded[d] = Discovered(d)
                                  /\ \A i \in DOMAIN built[d] : built[d][i].version = i
                                  /\ CurrentVersion(d) = Len(built[d])
    BY DEF SchemaIsItsHistory
<1> DEFINE k == Len(built[d])
<1>1. VersionsOf(recorded[d]) = 1 .. k /\ k \in Nat
    BY RecordedVersions DEF SchemaInv, SchemaOK
<1>2. Cardinality(VersionsOf(recorded[d])) = k
  <2>1. Cardinality(1 .. k) = k
    <3> HIDE DEF k
    <3>1. Cardinality(1 .. k) = IF 1 > k THEN 0 ELSE k - 1 + 1
        BY <1>1, FS_Interval
    <3> QED
        BY <1>1, <3>1
  <2> QED
      BY <1>1, <2>1
<1>3. CurrentVersion(d) = k
  <2> HIDE DEF k
  <2>1. CASE k = 0
      BY <1>1, <2>1 DEF CurrentVersion
  <2>2. CASE k # 0
      BY <1>1, <2>2 DEF CurrentVersion
  <2> QED
      BY <2>1, <2>2
<1>4. /\ recorded[d] = {built[d][i] : i \in DOMAIN built[d]}
      /\ \A i \in DOMAIN built[d] : built[d][i].version = i
    BY DEF SchemaInv, InOrder
<1>5. Serving => recorded[d] = Discovered(d)
    BY DEF SchemaInv, UpToDate
<1> QED
    BY <1>2, <1>3, <1>4, <1>5

-----------------------------------------------------------------------------
(* Accounts, files and runs.                                               *)

LEMMA InitAccess ==
    ASSUME NEW old \in BOOLEAN, AccessInit(old)
    PROVE  AccessInv
<1> USE DEF AccessInit
<1>1. uploads \in [File -> Seq(User \cup {NoOne})]
  <2>1. <<>> \in Seq(User \cup {NoOne}) /\ <<NoOne>> \in Seq(User \cup {NoOne})
      OBVIOUS
  <2> QED
      BY <2>1
<1>2. runs \in Seq([file : File, owner : User]) /\ DOMAIN runs = {}
  <2>1. <<>> \in Seq([file : File, owner : User])
      OBVIOUS
  <2> QED
      BY <2>1
<1>3. DOMAIN accounts = {} /\ accounts \in [{} -> [role : Role, disabled : BOOLEAN]]
    OBVIOUS
<1>4. AccessOK
    BY <1>1, <1>2, <1>3 DEF AccessOK
<1>5. CallsOK
    BY DEF CallsOK, InFlight
<1>6. RunsOK /\ AdminRemainsUnlessLate
    BY <1>2, <1>3 DEF RunsOK, AdminRemainsUnlessLate
<1> QED
    BY <1>4, <1>5, <1>6 DEF AccessInv

\* Calls are answered or dropped, and nothing is stored.
LEMMA CallsEnd ==
    ASSUME AccessInv, UNCHANGED <<accounts, uploads, runs, late>>,
           DOMAIN caller' = User,
           \A u \in User : caller'[u] \in {caller[u], NoCall}
    PROVE  AccessInv'
<1> USE DEF AccessInv
<1>1. AccessOK' /\ RunsOK' /\ AdminRemainsUnlessLate'
    BY DEF AccessOK, RunsOK, AdminRemainsUnlessLate
<1>2. CallsOK'
    BY DEF CallsOK, InFlight
<1> QED
    BY <1>1, <1>2

\* The answer to a call ends it and no other.
LEMMA OneDone ==
    ASSUME AccessOK, NEW u \in User, Done(u)
    PROVE  /\ DOMAIN caller' = User
           /\ \A w \in User : caller'[w] \in {caller[w], NoCall}
    BY DEF AccessOK, Done

LEMMA AuthenticateStep ==
    ASSUME AccessInv, NEW u \in User, Authenticate(u)
    PROVE  AccessInv'
<1> USE DEF AccessInv, Authenticate
<1>1. AccessOK' /\ RunsOK' /\ AdminRemainsUnlessLate'
    BY DEF AccessOK, RunsOK, AdminRemainsUnlessLate
<1>2. CallsOK'
    BY DEF AccessOK, CallsOK, InFlight
<1> QED
    BY <1>1, <1>2

\* An account is added: nobody else's changes.
LEMMA AccountAdded ==
    ASSUME AccessInv, NEW name \in User \ DOMAIN accounts, NEW role \in Role,
           accounts' = NewAccount(name, role),
           UNCHANGED <<uploads, runs, late>>,
           DOMAIN caller' = User,
           \A u \in User : caller'[u] \in {caller[u], NoCall}
    PROVE  AccessInv'
<1> USE DEF AccessInv
<1>1. /\ DOMAIN accounts' = DOMAIN accounts \cup {name}
      /\ accounts' \in [DOMAIN accounts' -> [role : Role, disabled : BOOLEAN]]
      /\ accounts'[name] = [role |-> role, disabled |-> FALSE]
      /\ \A u \in DOMAIN accounts : accounts'[u] = accounts[u]
    BY DEF NewAccount, AccessOK
<1>2. AccessOK'
    BY <1>1 DEF AccessOK
<1>3. CallsOK'
    BY <1>1 DEF CallsOK, InFlight
<1>4. RunsOK'
    BY <1>1 DEF RunsOK
<1>5. AdminRemainsUnlessLate'
  <2>1. accounts'[name].role = role /\ ~accounts'[name].disabled
      BY <1>1
  <2> QED
      BY <1>1, <2>1 DEF AdminRemainsUnlessLate
<1> QED
    BY <1>2, <1>3, <1>4, <1>5

LEMMA CreateUserStep ==
    ASSUME AccessInv, NEW u \in User, CreateUser(u)
    PROVE  AccessInv'
<1>1. PICK name \in User, role \in Role :
          Create(u, name) = 201 /\ accounts' = NewAccount(name, role)
    BY DEF CreateUser
<1>2. name \notin DOMAIN accounts
    BY <1>1 DEF Create, AdminOnly
<1>3. DOMAIN caller' = User /\ \A w \in User : caller'[w] \in {caller[w], NoCall}
    BY OneDone DEF CreateUser, AccessInv
<1> QED
    BY <1>1, <1>2, <1>3, AccountAdded DEF CreateUser

LEMMA CreateByScriptStep ==
    ASSUME AccessInv, CreateByScript
    PROVE  AccessInv'
    BY AccountAdded DEF CreateByScript, AccessInv, AccessOK

\* Who disables another is an administrator and stays one, enabled unless late.
LEMMA DisableUserStep ==
    ASSUME AccessInv, NEW u \in User, DisableUser(u)
    PROVE  AccessInv'
<1> USE DEF AccessInv
<1>1. PICK name \in User :
          /\ Disable(u, name) = 200
          /\ accounts' = [accounts EXCEPT ![name].disabled = TRUE]
    BY DEF DisableUser
<1>2. IsAdmin(u) /\ name # u /\ name \in DOMAIN accounts
    BY <1>1 DEF Disable, AdminOnly
<1>3. u \in DOMAIN accounts /\ accounts[u].role = "admin"
    BY <1>2 DEF DisableUser, CallsOK, IsAdmin
<1>4. /\ DOMAIN accounts' = DOMAIN accounts
      /\ accounts' \in [DOMAIN accounts -> [role : Role, disabled : BOOLEAN]]
      /\ \A w \in DOMAIN accounts : accounts'[w].role = accounts[w].role
      /\ accounts'[u] = accounts[u]
  <2>1. accounts \in [DOMAIN accounts -> [role : Role, disabled : BOOLEAN]]
      BY DEF AccessOK
  <2>2. accounts' = [accounts EXCEPT ![name] = [accounts[name] EXCEPT !.disabled = TRUE]]
      BY <1>1, <1>2, <2>1
  <2>3. [accounts[name] EXCEPT !.disabled = TRUE] = [role |-> accounts[name].role, disabled |-> TRUE]
    <3> DEFINE r == accounts[name]  yes == TRUE
    <3>1. r \in [role : Role, disabled : BOOLEAN]
        BY <1>2, <2>1
    <3> HIDE DEF r, yes
    <3>2. [r EXCEPT !.disabled = yes] = [role |-> r.role, disabled |-> yes]
        BY <3>1
    <3> QED
        BY <3>2 DEF r, yes
  <2>4. accounts' = [accounts EXCEPT ![name] = [role |-> accounts[name].role, disabled |-> TRUE]]
      BY <2>2, <2>3
  <2>5. /\ DOMAIN accounts' = DOMAIN accounts
        /\ accounts'[name] = [role |-> accounts[name].role, disabled |-> TRUE]
        /\ \A w \in DOMAIN accounts : w # name => accounts'[w] = accounts[w]
      BY <1>2, <2>1, <2>4
  <2>6. accounts[name].role \in Role
      BY <1>2, <2>1
  <2>7. accounts' \in [DOMAIN accounts -> [role : Role, disabled : BOOLEAN]]
      BY <1>2, <2>1, <2>4, <2>6
  <2> QED
      BY <1>2, <1>3, <2>5, <2>7
<1>5. DOMAIN caller' = User /\ \A w \in User : caller'[w] \in {caller[w], NoCall}
    BY OneDone DEF DisableUser
<1>6. UNCHANGED <<uploads, runs>> /\ late' = (late \/ accounts[u].disabled)
    BY DEF DisableUser
<1>7. AccessOK'
    BY <1>4, <1>5, <1>6 DEF AccessOK
<1>8. CallsOK'
    BY <1>4, <1>5 DEF CallsOK, InFlight
<1>9. RunsOK'
    BY <1>4, <1>6 DEF RunsOK
<1>10. AdminRemainsUnlessLate'
    BY <1>3, <1>4, <1>6 DEF AdminRemainsUnlessLate
<1> QED
    BY <1>7, <1>8, <1>9, <1>10

\* Another row of a file does not change whose it is.
LEMMA UploadStep ==
    ASSUME AccessInv, NEW u \in User, Upload(u)
    PROVE  AccessInv'
<1> USE DEF AccessInv
<1>1. PICK f \in File : uploads' = [uploads EXCEPT ![f] = Append(@, u)]
    BY DEF Upload
<1>2. uploads[f] \in Seq(User \cup {NoOne})
    BY DEF AccessOK
<1>3. /\ Append(uploads[f], u) \in Seq(User \cup {NoOne})
      /\ Append(uploads[f], u) # <<>>
      /\ uploads[f] # <<>> => Head(Append(uploads[f], u)) = Head(uploads[f])
  <2> DEFINE s == uploads[f]
  <2> HIDE DEF s
  <2>1. s \in Seq(User \cup {NoOne})
      BY <1>2 DEF s
  <2>2. /\ Append(s, u) \in Seq(User \cup {NoOne}) /\ Append(s, u) # <<>>
        /\ Len(Append(s, u)) = Len(s) + 1
        /\ \A i \in 1 .. Len(s) : Append(s, u)[i] = s[i]
      BY <2>1, AppendProperties
  <2>3. ASSUME s # <<>> PROVE Head(Append(s, u)) = Head(s)
    <3>1. 1 \in 1 .. Len(s)
        BY <2>1, <2>3
    <3> QED
        BY <2>1, <2>2, <3>1
  <2> QED
      BY <2>2, <2>3 DEF s
<1>4. /\ uploads' \in [File -> Seq(User \cup {NoOne})]
      /\ \A g \in File : uploads[g] # <<>> =>
            uploads'[g] # <<>> /\ Head(uploads'[g]) = Head(uploads[g])
    BY <1>1, <1>3 DEF AccessOK
<1>5. DOMAIN caller' = User /\ \A w \in User : caller'[w] \in {caller[w], NoCall}
    BY OneDone DEF Upload
<1>6. UNCHANGED <<accounts, runs, late>>
    BY DEF Upload
<1>7. AccessOK'
    BY <1>4, <1>5, <1>6 DEF AccessOK
<1>8. CallsOK'
    BY <1>5, <1>6 DEF CallsOK, InFlight
<1>9. RunsOK'
  <2>1. \A i \in DOMAIN runs : runs[i].file \in File
    <3> DEFINE R == [file : File, owner : User]
    <3>1. \A r \in R : r.file \in File
        OBVIOUS
    <3> HIDE DEF R
    <3>2. runs \in Seq(R) /\ DOMAIN runs = 1 .. Len(runs)
        BY DEF AccessOK, R
    <3> QED
        BY <3>1, <3>2, ElementOfSeq
  <2> QED
      BY <1>4, <1>6, <2>1 DEF RunsOK
<1>10. AdminRemainsUnlessLate'
    BY <1>6 DEF AdminRemainsUnlessLate
<1> QED
    BY <1>7, <1>8, <1>9, <1>10

\* A run is asked for by one who may read its file.
LEMMA AuditStep ==
    ASSUME AccessInv, NEW u \in User, Audit(u)
    PROVE  AccessInv'
<1> USE DEF AccessInv
<1>1. PICK f \in File, env \in Environment :
          /\ RunAudit(u, f, env) = 201
          /\ runs' = Append(runs, [file |-> f, owner |-> u])
    BY DEF Audit
<1>2. uploads[f] # <<>> /\ MayAccess(u, Head(uploads[f]))
    BY <1>1 DEF RunAudit, RequireAccess, FileOwners
<1>3. u \in DOMAIN accounts /\ (accounts[u].role = "admin" \/ Head(uploads[f]) = u)
    BY <1>2 DEF MayAccess, IsAdmin, Audit, CallsOK
<1>4. DOMAIN caller' = User /\ \A w \in User : caller'[w] \in {caller[w], NoCall}
    BY OneDone DEF Audit
<1>5. UNCHANGED <<accounts, uploads, late>>
    BY DEF Audit
<1> DEFINE r == [file |-> f, owner |-> u]
<1>6. r \in [file : File, owner : User] /\ r.file = f /\ r.owner = u
    OBVIOUS
<1> HIDE DEF r
<1>7. runs \in Seq([file : File, owner : User]) /\ runs' = Append(runs, r)
    BY <1>1 DEF AccessOK, r
<1>8. /\ runs' \in Seq([file : File, owner : User])
      /\ \A i \in DOMAIN runs' : runs'[i] = r \/ (i \in DOMAIN runs /\ runs'[i] = runs[i])
    BY <1>6, <1>7
<1>9. AccessOK'
    BY <1>4, <1>5, <1>8 DEF AccessOK
<1>10. CallsOK'
    BY <1>4, <1>5 DEF CallsOK, InFlight
<1>11. RunsOK'
  <2> SUFFICES ASSUME NEW i \in DOMAIN runs'
               PROVE  /\ runs'[i].owner \in DOMAIN accounts
                      /\ uploads[runs'[i].file] # <<>>
                      /\ \/ accounts[runs'[i].owner].role = "admin"
                         \/ Head(uploads[runs'[i].file]) = runs'[i].owner
      BY <1>5 DEF RunsOK
  <2>1. CASE runs'[i] = r
      BY <1>2, <1>3, <1>6, <2>1
  <2>2. CASE i \in DOMAIN runs /\ runs'[i] = runs[i]
      BY <2>2 DEF RunsOK
  <2> QED
      BY <1>8, <2>1, <2>2
<1>12. AdminRemainsUnlessLate'
    BY <1>5 DEF AdminRemainsUnlessLate
<1> QED
    BY <1>9, <1>10, <1>11, <1>12

LEMMA AccessStepwise ==
    ASSUME AccessInv, [Next]_vars
    PROVE  AccessInv'
<1>1. CASE UNCHANGED accessVars
  <2>1. DOMAIN caller' = User /\ \A u \in User : caller'[u] \in {caller[u], NoCall}
      BY <1>1 DEF accessVars, AccessInv, AccessOK
  <2> QED
      BY <1>1, <2>1, CallsEnd DEF accessVars
<1>2. CASE FirstAdmin
    BY <1>2, CreateByScriptStep DEF FirstAdmin
<1>3. ASSUME NEW u \in User, AccessStep(u) PROVE AccessInv'
  <2>1. CASE Answer(u)
      BY <2>1, OneDone, CallsEnd DEF Answer, AccessInv
  <2> QED
      BY <1>3, <2>1, AuthenticateStep, CreateUserStep, DisableUserStep, UploadStep,
         AuditStep DEF AccessStep
<1>4. ASSUME NEW u \in User, DeskStep(u) PROVE AccessInv'
  <2>1. Done(u) /\ UNCHANGED <<accounts, uploads, runs, late>>
      BY <1>4 DEF DeskStep, ReadQueue, Confirm
  <2> QED
      BY <2>1, OneDone, CallsEnd DEF AccessInv
<1>5. CASE DropCalls
    BY <1>5, CallsEnd DEF DropCalls
<1> QED
    BY <1>1, <1>2, <1>3, <1>4, <1>5 DEF Next, Prepare, Serve, Die, vars

\* What one is answered is decided by one's role and by whose the thing is.
LEMMA MayAccessMeans ==
    ASSUME AccessInv, NEW u \in User, InFlight(u), NEW owner
    PROVE  /\ IsAdmin(u) <=> accounts[u].role = "admin"
           /\ MayAccess(u, owner) <=> accounts[u].role = "admin" \/ owner = u
    BY DEF AccessInv, CallsOK, IsAdmin, MayAccess

LEMMA AccessSummary ==
    ASSUME AccessInv
    PROVE  OthersLearnNothing
<1>1. ASSUME NEW u \in User, InFlight(u), NEW env \in Environment, NEW f \in File \cup {Missing}
      PROVE  \/ f \in File /\ uploads[f] # <<>> /\ (accounts[u].role = "admin" \/ Head(uploads[f]) = u)
             \/ FileReplies(u, f, env) \subseteq (IF env.sourced THEN {404} ELSE {404, 400})
  <2> SUFFICES ASSUME ~(f \in File /\ uploads[f] # <<>>
                        /\ (accounts[u].role = "admin" \/ Head(uploads[f]) = u))
               PROVE  FileReplies(u, f, env) \subseteq (IF env.sourced THEN {404} ELSE {404, 400})
      OBVIOUS
  <2>1. \A status : RequireAccess(u, FileOwners(f), status) = 404
      BY <1>1, MayAccessMeans DEF RequireAccess, FileOwners
  <2>2. FileLines(u, f, env) = 404 /\ FrameworksForDevice(u, f) = 404
      BY <2>1 DEF FileLines, FrameworksForDevice
  <2>3. RunAudit(u, f, env) = IF env.sourced THEN 404 ELSE 400
      BY <2>1 DEF RunAudit
  <2> QED
      BY <2>2, <2>3 DEF FileReplies
<1>2. ASSUME NEW u \in User, InFlight(u), NEW env \in Environment, NEW i \in DOMAIN runs
      PROVE  accounts[u].role = "admin" \/ runs[i].owner = u \/ RunReplies(u, i, env) = {404}
  <2> SUFFICES ASSUME accounts[u].role # "admin", runs[i].owner # u
               PROVE  RunReplies(u, i, env) = {404}
      OBVIOUS
  <2>1. \A status : RequireAccess(u, RunOwner(i), status) = 404
      BY <1>2, MayAccessMeans DEF RequireAccess, RunOwner
  <2> QED
      BY <2>1 DEF RunReplies, GetAudit, GetFindings, HtmlReport, PdfReport, RemediationPlan,
                  Authorise
<1>3. ASSUME NEW u \in User, InFlight(u)
      PROVE  {i \in DOMAIN runs : GetAudit(u, i) = 200} = ListAudits(u)
  <2>1. \A i \in DOMAIN runs : GetAudit(u, i) = 200 <=> IsAdmin(u) \/ runs[i].owner = u
      BY <1>3, MayAccessMeans DEF GetAudit, RequireAccess, RunOwner
  <2> QED
      BY <2>1 DEF ListAudits
<1>4. ASSUME NEW u \in User, InFlight(u)
      PROVE  {f \in File : FrameworksForDevice(u, f) = 200} \subseteq ListFiles(u) \cap ListDevices(u)
  <2> SUFFICES ASSUME NEW f \in File, FrameworksForDevice(u, f) = 200
               PROVE  f \in ListFiles(u) \cap ListDevices(u)
      OBVIOUS
  <2>1. uploads[f] # <<>> /\ MayAccess(u, Head(uploads[f]))
      BY DEF FrameworksForDevice, RequireAccess, FileOwners
  <2>2. IsAdmin(u) \/ Head(uploads[f]) = u
      BY <1>4, <2>1, MayAccessMeans
  <2>3. Head(uploads[f]) \in Range(uploads[f])
    <3>1. uploads[f] \in Seq(User \cup {NoOne})
        BY DEF AccessInv, AccessOK
    <3>2. 1 \in DOMAIN uploads[f] /\ Head(uploads[f]) = uploads[f][1]
        BY <2>1, <3>1
    <3> QED
        BY <3>2 DEF Range
  <2> QED
      BY <2>1, <2>2, <2>3 DEF ListFiles, ListDevices
<1>5. ASSUME NEW u \in User, InFlight(u), accounts[u].role = "user"
      PROVE  {Stats(u), ListUsers(u)} = {403}
    BY <1>5, MayAccessMeans DEF Stats, ListUsers, AdminOnly
<1>6. \A i \in DOMAIN runs :
          accounts[runs[i].owner].role = "admin" \/ Head(uploads[runs[i].file]) = runs[i].owner
    BY DEF AccessInv, RunsOK
<1> QED
    BY <1>1, <1>2, <1>3, <1>4, <1>5, <1>6 DEF OthersLearnNothing

-----------------------------------------------------------------------------
(* The entry at a place of an order.                                       *)

LEMMA LeastOf ==
    ASSUME NEW S, S # {}, NEW n \in [S -> Nat]
    PROVE  \E a \in S : \A b \in S : n[a] <= n[b]
<1> DEFINE T == {n[a] : a \in S}
           R == OpToRel(<, Nat)
<1>1. T \subseteq Nat /\ T # {}
    OBVIOUS
<1>2. PICK m \in T : \A k \in T : ~(<<k, m>> \in R)
  <2>1. IsWellFoundedOn(R, Nat)
      BY NatLessThanWellFounded
  <2> QED BY <1>1, <2>1, WFMin
<1>3. \A k \in T : m <= k
  <2> SUFFICES ASSUME NEW k \in T, ~(m <= k) PROVE <<k, m>> \in R
      BY <1>2
  <2>1. k \in Nat /\ m \in Nat
      BY <1>1
  <2> HIDE DEF T
  <2> QED
      BY <2>1 DEF OpToRel
<1> QED
    BY <1>2, <1>3

\* Who is before a in an order B of S, and who is not after it.
Preceding(S, B, a) == {b \in S : <<b, a>> \in B}
UpTo(S, B, a) == {b \in S : <<a, b>> \notin B}

\* Of finitely many that are ordered, though some may tie, one stands at each
\* place: as many are before it, and no more are after it.
LEMMA PlacesAreTaken ==
    ASSUME NEW S, IsFiniteSet(S), NEW B,
           \A a, b \in S : <<a, b>> \in B => <<b, a>> \notin B,
           \A a, b, c \in S : <<a, c>> \in B => <<a, b>> \in B \/ <<b, c>> \in B,
           NEW k \in 1 .. Cardinality(S)
    PROVE  \E a \in S : /\ Cardinality(Preceding(S, B, a)) < k
                       /\ k <= Cardinality(UpTo(S, B, a))
<1> DEFINE before(a) == {b \in S : <<b, a>> \in B}
           upto(a) == {b \in S : <<a, b>> \notin B}
           n == [a \in S |-> Cardinality(before(a))]
           s == Cardinality(S)
<1>1. s \in Nat /\ k \in 1 .. s
    BY FS_CardinalityType
<1>2. \A a \in S : /\ IsFiniteSet(before(a)) /\ IsFiniteSet(upto(a))
                  /\ n[a] = Cardinality(before(a))
                  /\ n[a] \in 0 .. s /\ Cardinality(upto(a)) \in Nat
  <2> SUFFICES ASSUME NEW a \in S
               PROVE  /\ IsFiniteSet(before(a)) /\ IsFiniteSet(upto(a))
                      /\ n[a] = Cardinality(before(a))
                      /\ n[a] \in 0 .. s /\ Cardinality(upto(a)) \in Nat
      OBVIOUS
  <2>1. before(a) \subseteq S /\ upto(a) \subseteq S
      OBVIOUS
  <2>2. /\ IsFiniteSet(before(a)) /\ Cardinality(before(a)) <= s
        /\ IsFiniteSet(upto(a))
      BY <2>1, FS_Subset
  <2>3. Cardinality(before(a)) \in Nat /\ Cardinality(upto(a)) \in Nat
      BY <2>2, FS_CardinalityType
  <2>4. n[a] = Cardinality(before(a))
      OBVIOUS
  <2> HIDE DEF s, n, before, upto
  <2> QED
      BY <1>1, <2>2, <2>3, <2>4
\* Who is before another has fewer before it.
<1>3. \A a, b \in S : <<a, b>> \in B => n[a] < n[b]
  <2> SUFFICES ASSUME NEW a \in S, NEW b \in S, <<a, b>> \in B
               PROVE  n[a] < n[b]
      OBVIOUS
  <2>1. before(a) \subseteq before(b) /\ a \in before(b) /\ a \notin before(a)
      OBVIOUS
  <2>2. before(a) # before(b)
      BY <2>1
  <2> HIDE DEF before, n
  <2>3. Cardinality(before(a)) <= Cardinality(before(b))
        /\ Cardinality(before(a)) # Cardinality(before(b))
      BY <1>2, <2>1, <2>2, FS_Subset
  <2> DEFINE p == Cardinality(before(a))
             q == Cardinality(before(b))
  <2>4. p \in Nat /\ q \in Nat /\ n[a] = p /\ n[b] = q
      BY <1>2, FS_CardinalityType
  <2>5. p <= q /\ p # q
      BY <2>3
  <2> HIDE DEF p, q
  <2> QED
      BY <2>4, <2>5
<1> DEFINE G == {a \in S : n[a] < k}
<1>4. G # {}
  <2>1. S # {}
      BY <1>1, FS_EmptySet
  <2>2. n \in [S -> Nat]
    <3>1. \A a \in S : n[a] \in Nat
      <4>1. \A a \in S : n[a] \in 0 .. s
          BY <1>2
      <4> HIDE DEF s, n
      <4> QED BY <1>1, <4>1
    <3>2. n = [a \in S |-> n[a]]
        OBVIOUS
    <3> HIDE DEF n
    <3> QED BY <3>1, <3>2
  <2> HIDE DEF n, before, upto
  <2>3. PICK a \in S : \A b \in S : n[a] <= n[b]
      BY <2>1, <2>2, LeastOf
  <2>4. before(a) = {}
    <3>1. \A b \in S : ~(<<b, a>> \in B)
        BY <1>3, <2>2, <2>3
    <3> QED
        BY <3>1 DEF before
  <2>5. n[a] = 0
      BY <1>2, <2>4, FS_EmptySet
  <2> HIDE DEF s
  <2> QED
      BY <1>1, <2>5
<1> HIDE DEF n, before, upto
<1>5. PICK a \in G : \A b \in G : n[b] <= n[a]
  <2> DEFINE d == [b \in G |-> s - n[b]]
  <2> HIDE DEF s
  <2>1. d \in [G -> Nat]
      BY <1>1, <1>2
  <2>2. \A b \in G : d[b] = s - n[b]
      OBVIOUS
  <2> HIDE DEF d
  <2>3. PICK a \in G : \A b \in G : d[a] <= d[b]
    <3> HIDE DEF G
    <3> QED BY <1>4, <2>1, LeastOf
  <2>4. \A b \in G : s - n[a] <= s - n[b]
      BY <2>2, <2>3
  <2> QED
      BY <1>1, <1>2, <2>4
<1>6. k <= Cardinality(upto(a))
  <2> SUFFICES ASSUME Cardinality(upto(a)) < k
               PROVE  FALSE
    <3> HIDE DEF s
    <3> QED BY <1>1, <1>2
  <2> DEFINE F == {b \in S : <<a, b>> \in B}
  <2>1. F # {}
    <3> SUFFICES ASSUME F = {} PROVE FALSE
        OBVIOUS
    <3>1. upto(a) = S
        BY DEF upto
    <3> HIDE DEF F
    <3>2. Cardinality(upto(a)) = s
        BY <3>1
    <3> HIDE DEF s
    <3> QED BY <1>1, <3>2
  <2> DEFINE m == [b \in F |-> n[b]]
  <2>2. PICK b \in F : \A c \in F : n[b] <= n[c]
    <3>1. m \in [F -> Nat]
      <4> HIDE DEF s
      <4> QED BY <1>1, <1>2
    <3>2. \A c \in F : m[c] = n[c]
        OBVIOUS
    <3> HIDE DEF F, m
    <3>3. PICK b \in F : \A c \in F : m[b] <= m[c]
        BY <2>1, <3>1, LeastOf
    <3> QED BY <3>2, <3>3
  <2>3. before(b) \subseteq upto(a)
    <3> SUFFICES ASSUME NEW c \in S, <<c, b>> \in B, <<a, c>> \in B PROVE FALSE
        BY DEF before, upto
    <3>1. n[c] < n[b] /\ n[b] <= n[c]
        BY <1>3, <2>2
    <3> HIDE DEF s
    <3> QED BY <1>1, <1>2, <2>2, <3>1
  <2>4. n[b] <= Cardinality(upto(a))
      BY <1>2, <2>2, <2>3, FS_Subset
  <2>5. b \in G
    <3> HIDE DEF s
    <3> QED BY <1>1, <1>2, <2>2, <2>4
  <2>6. n[a] < n[b] /\ n[b] <= n[a]
      BY <1>3, <1>5, <2>2, <2>5
  <2> HIDE DEF s
  <2> QED BY <1>1, <1>2, <2>2, <2>6
<1>7. a \in S /\ n[a] = Cardinality(before(a)) /\ n[a] < k
    BY <1>2
<1>8. Preceding(S, B, a) = before(a) /\ UpTo(S, B, a) = upto(a)
    BY DEF before, upto, Preceding, UpTo
<1> QED
    BY <1>6, <1>7, <1>8

\* Each place among a set of numbers is one of them, the first place is 1 if it
\* is among them.
LEMMA PlacesOfNumbers ==
    ASSUME NEW n \in Nat, NEW S \in SUBSET (1 .. n), NEW k \in 1 .. Cardinality(S)
    PROVE  /\ AtPlace(k, S, <) \in S
           /\ 1 \in S => AtPlace(1, S, <) = 1
<1> DEFINE B == {p \in S \X S : p[1] < p[2]}
           before(a) == {b \in S : b < a}
           upto(a) == {b \in S : ~(a < b)}
<1>1. S \subseteq 1 .. n /\ IsFiniteSet(S)
  <2>1. S \subseteq 1 .. n
      OBVIOUS
  <2>2. IsFiniteSet(1 .. n)
      BY FS_Interval
  <2> QED
      BY <2>1, <2>2, FS_Subset
<1>2. \A a, b \in S : <<a, b>> \in B <=> a < b
    OBVIOUS
<1>3. \A a \in S : Preceding(S, B, a) = before(a) /\ UpTo(S, B, a) = upto(a)
    BY <1>2 DEF Preceding, UpTo
<1> HIDE DEF B
<1>4. \A j \in 1 .. Cardinality(S) :
          \E a \in S : Cardinality(before(a)) < j /\ j <= Cardinality(upto(a))
  <2> SUFFICES ASSUME NEW j \in 1 .. Cardinality(S)
               PROVE  \E a \in S : Cardinality(before(a)) < j /\ j <= Cardinality(upto(a))
      OBVIOUS
  <2>1. \A a, b \in S : <<a, b>> \in B => <<b, a>> \notin B
      BY <1>1, <1>2
  <2>2. \A a, b, c \in S : <<a, c>> \in B => <<a, b>> \in B \/ <<b, c>> \in B
      BY <1>1, <1>2
  <2>3. IsFiniteSet(S)
      BY <1>1
  <2>4. \E a \in S : /\ Cardinality(Preceding(S, B, a)) < j
                     /\ j <= Cardinality(UpTo(S, B, a))
      BY <2>1, <2>2, <2>3, PlacesAreTaken
  <2> QED
      BY <1>3, <2>4
<1>5. \A j \in 1 .. Cardinality(S) :
          /\ AtPlace(j, S, <) \in S
          /\ Cardinality(before(AtPlace(j, S, <))) < j
    BY <1>4 DEF AtPlace
<1>6. ASSUME 1 \in S PROVE AtPlace(1, S, <) = 1
  <2> DEFINE a == AtPlace(1, S, <)
  <2>1. 1 \in 1 .. Cardinality(S)
      BY <1>1, FS_CardinalityType
  <2>2. a \in S /\ Cardinality(before(a)) < 1
      BY <1>5, <2>1
  <2> HIDE DEF a
  <2>3. IsFiniteSet(before(a)) /\ Cardinality(before(a)) \in Nat
      BY <1>1, FS_Subset, FS_CardinalityType
  <2>4. Cardinality(before(a)) = 0
    <3> HIDE DEF before
    <3> QED BY <2>2, <2>3
  <2>5. before(a) = {}
      BY <2>3, <2>4, FS_EmptySet
  <2>6. ~(1 < a)
      BY <1>6, <2>5
  <2>7. a = 1
      BY <1>1, <2>2, <2>6
  <2> QED BY <2>7 DEF a
<1> QED
    BY <1>5, <1>6

-----------------------------------------------------------------------------
(* Suggestions and decisions.                                              *)

Indexed(index) ==
    /\ IsFiniteSet(index)
    /\ \A e \in index : e.field \in Fields /\ e.text \in Texts

LEMMA RanksAreNumbers ==
    /\ \A f \in Fields : Rank(FieldOrder, f) \in Int
    /\ \A t \in Texts : Rank(TextOrder, t) \in Int
<1>1. ASSUME NEW order, order \in Seq(ToSet(order)), NEW x \in ToSet(order)
      PROVE  Rank(order, x) \in Int
  <2>1. DOMAIN order \subseteq Int
      BY <1>1
  <2>2. \E i \in DOMAIN order : order[i] = x
      BY <1>1 DEF ToSet
  <2> QED
      BY <2>1, <2>2 DEF Rank
<1>2. FieldOrder \in Seq(ToSet(FieldOrder)) /\ TextOrder \in Seq(ToSet(TextOrder))
    BY LearningAssumption
<1> QED
    BY <1>1, <1>2 DEF Fields, Texts

\* The candidates are entries of the index, and none is closer than the first.
LEMMA CandidatesAreOfTheIndex ==
    ASSUME NEW query \in Texts, NEW index, Indexed(index), index # {}
    PROVE  LET c == RankCandidates(query, index) IN
           /\ \E n \in 1 .. 3 : DOMAIN c = 1 .. n
           /\ \A k \in DOMAIN c : c[k] \in index
           /\ \A b \in index : ~Closer(query, b, c[1])
<1> DEFINE Before(a, b) == Closer(query, a, b)
           size == Cardinality(index)
           n == IF size < MaxSuggestions THEN size ELSE MaxSuggestions
           c == RankCandidates(query, index)
           B == {p \in index \X index : Closer(query, p[1], p[2])}
<1>1. IsFiniteSet(index) /\ size \in Nat \ {0}
    BY FS_CardinalityType, FS_EmptySet DEF Indexed
<1>2. n \in 1 .. 3 /\ n <= size
  <2> HIDE DEF size
  <2> QED BY <1>1 DEF MaxSuggestions
<1>3. c = [k \in 1 .. n |-> AtPlace(k, index, Before)]
    BY DEF RankCandidates
<1> HIDE DEF n, c
<1>4. \A a, b \in index : <<a, b>> \in B <=> Closer(query, a, b)
    OBVIOUS
<1>5. \A a \in index : /\ Preceding(index, B, a) = {b \in index : Closer(query, b, a)}
                      /\ UpTo(index, B, a) = {b \in index : ~Closer(query, a, b)}
    BY <1>4 DEF Preceding, UpTo
<1> HIDE DEF B
<1> DEFINE s == [a \in index |-> Cosine[query][a.text]]
           f == [a \in index |-> Rank(FieldOrder, a.field)]
           t == [a \in index |-> Rank(TextOrder, a.text)]
<1>6. s \in [index -> Int] /\ f \in [index -> Int] /\ t \in [index -> Int]
    BY LearningAssumption, RanksAreNumbers DEF Indexed, Texts
<1>7. \A a, b \in index :
          <<a, b>> \in B <=> \/ s[a] > s[b]
                             \/ s[a] = s[b] /\ f[a] < f[b]
                             \/ s[a] = s[b] /\ f[a] = f[b] /\ t[a] < t[b]
  <2> SUFFICES ASSUME NEW a \in index, NEW b \in index
               PROVE  <<a, b>> \in B <=> \/ s[a] > s[b]
                                         \/ s[a] = s[b] /\ f[a] < f[b]
                                         \/ s[a] = s[b] /\ f[a] = f[b] /\ t[a] < t[b]
      OBVIOUS
  <2>1. /\ s[a] = Cosine[query][a.text] /\ s[b] = Cosine[query][b.text]
        /\ f[a] = Rank(FieldOrder, a.field) /\ f[b] = Rank(FieldOrder, b.field)
        /\ t[a] = Rank(TextOrder, a.text) /\ t[b] = Rank(TextOrder, b.text)
      OBVIOUS
  <2> HIDE DEF s, f, t
  <2>2. Closer(query, a, b) <=> \/ s[a] > s[b]
                                \/ s[a] = s[b] /\ f[a] < f[b]
                                \/ s[a] = s[b] /\ f[a] = f[b] /\ t[a] < t[b]
      BY <2>1, Zenon DEF Closer
  <2> QED
      BY <1>4, <2>2
<1> HIDE DEF s, f, t
<1>8. \A a, b \in index : <<a, b>> \in B => <<b, a>> \notin B
    BY <1>6, <1>7
<1>9. \A a, b, d \in index : <<a, d>> \in B => <<a, b>> \in B \/ <<b, d>> \in B
  <2> SUFFICES ASSUME NEW a \in index, NEW b \in index, NEW d \in index
               PROVE  <<a, d>> \in B => <<a, b>> \in B \/ <<b, d>> \in B
      OBVIOUS
  <2>1. /\ s[a] \in Int /\ f[a] \in Int /\ t[a] \in Int
        /\ s[b] \in Int /\ f[b] \in Int /\ t[b] \in Int
        /\ s[d] \in Int /\ f[d] \in Int /\ t[d] \in Int
      BY <1>6
  <2>2. \/ ~ \/ s[a] > s[d]
             \/ s[a] = s[d] /\ f[a] < f[d]
             \/ s[a] = s[d] /\ f[a] = f[d] /\ t[a] < t[d]
        \/ s[a] > s[b]
        \/ s[a] = s[b] /\ f[a] < f[b]
        \/ s[a] = s[b] /\ f[a] = f[b] /\ t[a] < t[b]
        \/ s[b] > s[d]
        \/ s[b] = s[d] /\ f[b] < f[d]
        \/ s[b] = s[d] /\ f[b] = f[d] /\ t[b] < t[d]
      BY <2>1
  <2> QED
      BY <1>7, <2>2
<1>10. ASSUME NEW k \in 1 .. n
       PROVE  /\ c[k] \in index
              /\ Cardinality({b \in index : Closer(query, b, c[k])}) < k
  <2>1. k \in 1 .. Cardinality(index)
    <3> HIDE DEF size
    <3>1. k \in 1 .. size
        BY <1>1, <1>2
    <3> QED BY <3>1 DEF size
  <2>2. PICK a \in index : /\ Cardinality(Preceding(index, B, a)) < k
                           /\ k <= Cardinality(UpTo(index, B, a))
      BY <1>1, <1>8, <1>9, <2>1, PlacesAreTaken
  <2>3. /\ Cardinality({b \in index : Before(b, a)}) < k
        /\ k <= Cardinality({b \in index : ~Before(a, b)})
      BY <1>5, <2>2
  <2>4. /\ AtPlace(k, index, Before) \in index
        /\ Cardinality({b \in index : Before(b, AtPlace(k, index, Before))}) < k
      BY <2>3 DEF AtPlace
  <2>5. c[k] = AtPlace(k, index, Before)
      BY <1>3
  <2> QED
      BY <2>4, <2>5
<1>11. \A b \in index : ~Closer(query, b, c[1])
  <2> DEFINE closer == {b \in index : Closer(query, b, c[1])}
  <2>1. Cardinality(closer) < 1
      BY <1>2, <1>10
  <2>2. IsFiniteSet(closer) /\ Cardinality(closer) \in Nat
      BY <1>1, FS_Subset, FS_CardinalityType
  <2>3. Cardinality(closer) = 0
    <3> HIDE DEF closer
    <3> QED BY <2>1, <2>2
  <2>4. closer = {}
      BY <2>2, <2>3, FS_EmptySet
  <2> QED BY <2>4
<1>12. DOMAIN c = 1 .. n
    BY <1>3
<1> QED
    BY <1>2, <1>10, <1>11, <1>12 DEF c

\* Fields that the index labels a line with are suggested, and first one of the
\* entries closest to the query.
LEMMA SuggestionsAreLabels ==
    ASSUME NEW query \in Texts, NEW index, Indexed(index)
    PROVE  LET shown == Suggest(query, index) IN
           /\ index = {} => shown = <<>>
           /\ index # {} => shown # <<>>
           /\ \A k \in DOMAIN shown : \E e \in index : shown[k] = e.field
           /\ index # {} => \E e \in index : /\ shown[1] = e.field
                                           /\ \A b \in index : ~Closer(query, b, e)
<1>1. CASE index = {}
    BY <1>1 DEF Suggest
<1>2. CASE index # {}
  <2> DEFINE c == RankCandidates(query, index)
             first == {i \in DOMAIN c : \A j \in 1 .. i - 1 : c[j].field # c[i].field}
             shown == Suggest(query, index)
  <2>1. /\ \E n \in 1 .. 3 : DOMAIN c = 1 .. n
        /\ \A k \in DOMAIN c : c[k] \in index
        /\ \A b \in index : ~Closer(query, b, c[1])
      BY <1>2, CandidatesAreOfTheIndex
  <2>2. shown = [k \in 1 .. Cardinality(first) |-> c[AtPlace(k, first, <)].field]
      BY <1>2 DEF Suggest, ToSuggestions
  <2> HIDE DEF c, shown
  <2>3. PICK n \in 1 .. 3 : DOMAIN c = 1 .. n
      BY <2>1
  <2>4. 1 \in first /\ first \subseteq 1 .. n
      BY <2>3
  <2> HIDE DEF first
  <2>5. 1 \in 1 .. Cardinality(first)
    <3>1. IsFiniteSet(first)
      <4>1. IsFiniteSet(1 .. n)
          BY FS_Interval
      <4> QED BY <2>4, <4>1, FS_Subset
    <3>2. Cardinality(first) \in Nat /\ Cardinality(first) # 0
        BY <2>4, <3>1, FS_CardinalityType, FS_EmptySet
    <3> QED BY <3>2
  <2>6. /\ \A k \in 1 .. Cardinality(first) : AtPlace(k, first, <) \in first
        /\ AtPlace(1, first, <) = 1
    <3>1. n \in Nat /\ first \in SUBSET (1 .. n)
        BY <2>4
    <3> QED BY <2>4, <2>5, <3>1, PlacesOfNumbers
  <2>7. DOMAIN shown = 1 .. Cardinality(first)
      BY <2>2
  <2>8. shown # <<>>
    <3> SUFFICES ASSUME shown = <<>> PROVE FALSE
        OBVIOUS
    <3>1. DOMAIN shown = {}
        OBVIOUS
    <3> QED BY <2>5, <2>7, <3>1
  <2>9. shown[1] = c[1].field
      BY <2>2, <2>5, <2>6
  <2>10. \A k \in DOMAIN shown : \E e \in index : shown[k] = e.field
      BY <2>1, <2>2, <2>3, <2>4, <2>6, <2>7
  <2>11. c[1] \in index
      BY <2>1, <2>3
  <2> QED
      BY <1>2, <2>1, <2>8, <2>9, <2>10, <2>11 DEF shown
<1> QED
    BY <1>1, <1>2

\* The labelled lines are finitely many, of lines and fields there are.
LEMMA IndexIsIndexed ==
    ASSUME DeskInv
    PROVE  Indexed(Index(examples))
<1> DEFINE N == {j \in DOMAIN examples : examples[j].field # NoField}
           label(i) == [text |-> examples[i].line, field |-> examples[i].field, origin |-> <<"admin", i>>]
<1>1. IsFiniteSet(N)
  <2>1. DOMAIN examples = 1 .. Len(examples) /\ Len(examples) \in Nat
      BY DEF DeskInv
  <2>2. IsFiniteSet(1 .. Len(examples))
      BY <2>1, FS_Interval
  <2> QED
      BY <2>1, <2>2, FS_Subset
<1>2. Labelled(examples) = {label(i) : i \in N}
    BY DEF Labelled
<1>3. IsFiniteSet(Labelled(examples))
  <2> DEFINE f == [i \in N |-> label(i)]
  <2>1. f \in Surjection(N, Labelled(examples))
      BY <1>2 DEF Surjection
  <2> HIDE DEF f, N
  <2> QED BY <1>1, <2>1, FS_Surjection
<1>4. \A e \in Labelled(examples) : e.field \in Fields /\ e.text \in Texts
    BY DEF Labelled, DeskInv
<1>5. IsFiniteSet(Seeds) /\ \A e \in Seeds : e.field \in Fields /\ e.text \in Texts
    BY LearningAssumption DEF Fields, Texts
<1>6. IsFiniteSet(Index(examples))
    BY <1>3, <1>5, FS_Union DEF Index
<1> QED
    BY <1>4, <1>5, <1>6 DEF Index, Indexed

\* The line shown of a shape is one of its lines.
LEMMA ExemplarIsAMember ==
    ASSUME AccessInv, NEW files \in SUBSET File, NEW cluster \in Clusters(UnknownLines(files))
    PROVE  Exemplar(Members(UnknownLines(files), cluster)).text \in Texts
<1> DEFINE lines == UnknownLines(files)
           M == Members(lines, cluster)
<1>1. \A l \in lines : l.file \in Nat /\ l.number \in Nat /\ l.text \in Texts
  <2> SUFFICES ASSUME NEW l \in lines
               PROVE  l.file \in Nat /\ l.number \in Nat /\ l.text \in Texts
      OBVIOUS
  <2>1. PICK f \in files : \E n \in DOMAIN Residue[f] :
            l = [file |-> f, number |-> n, text |-> Residue[f][n]]
      BY DEF UnknownLines
  <2>4. PICK n \in DOMAIN Residue[f] : l = [file |-> f, number |-> n, text |-> Residue[f][n]]
      BY <2>1
  <2>2. f \in Nat /\ Residue[f] \in Seq(ToSet(Residue[f])) /\ ToSet(Residue[f]) \subseteq Texts
      BY DeskAssumption DEF Texts
  <2>3. n \in Nat /\ Residue[f][n] \in Texts
      BY <2>2 DEF ToSet
  <2> QED
      BY <2>2, <2>3, <2>4
<1> HIDE DEF lines
<1>2. M # {} /\ M \subseteq lines
    BY DEF Clusters, Members, lines
<1> HIDE DEF M
<1>3. PICK a \in M : \A b \in M : a.file <= b.file
  <2> DEFINE n == [b \in M |-> b.file]
  <2>1. n \in [M -> Nat] /\ \A b \in M : n[b] = b.file
      BY <1>1, <1>2
  <2> HIDE DEF n
  <2>2. PICK a \in M : \A b \in M : n[a] <= n[b]
      BY <1>2, <2>1, LeastOf
  <2> QED
      BY <2>1, <2>2
<1> DEFINE F == {b \in M : b.file = a.file}
<1>4. PICK l \in F : \A b \in F : l.number <= b.number
  <2> DEFINE n == [b \in F |-> b.number]
  <2>1. n \in [F -> Nat] /\ F # {} /\ \A b \in F : n[b] = b.number
      BY <1>1, <1>2
  <2> HIDE DEF n, F
  <2>2. PICK l \in F : \A b \in F : n[l] <= n[b]
      BY <2>1, LeastOf
  <2> QED
      BY <2>1, <2>2
<1>5. \A k \in M : l.file < k.file \/ (l.file = k.file /\ l.number <= k.number)
    BY <1>1, <1>2, <1>3, <1>4
<1>6. Exemplar(M) \in M
    BY <1>4, <1>5 DEF Exemplar
<1> QED
    BY <1>1, <1>2, <1>6 DEF M, lines

\* What an entry of the queue shows is what the index labels.
LEMMA EntriesShowLabels ==
    ASSUME AccessInv, DeskInv, NEW files \in SUBSET File,
           NEW cluster \in Clusters(UnknownLines(files)), NEW embeds
    PROVE  LET entry == Entry(UnknownLines(files), cluster, Index(examples), embeds) IN
           /\ entry.line \in Texts
           /\ (entry.state = "ranked") = (entry.shown # <<>>)
           /\ \A k \in DOMAIN entry.shown : \E e \in Index(examples) : entry.shown[k] = e.field
           /\ entry.state = "ranked" =>
                 \E e \in Index(examples) :
                     /\ entry.shown[1] = e.field
                     /\ \A b \in Index(examples) : ~Closer(entry.line, b, e)
<1> DEFINE index == Index(examples)
           lines == UnknownLines(files)
           query == Exemplar(Members(lines, cluster)).text
           shown == Suggest(query, index)
           entry == Entry(lines, cluster, index, embeds)
<1>1. Indexed(index) /\ query \in Texts
    BY IndexIsIndexed, ExemplarIsAMember
<1> HIDE DEF index, lines, query
<1>2. /\ index = {} => shown = <<>>
      /\ index # {} => shown # <<>>
      /\ \A k \in DOMAIN shown : \E e \in index : shown[k] = e.field
      /\ index # {} => \E e \in index : /\ shown[1] = e.field
                                      /\ \A b \in index : ~Closer(query, b, e)
    BY <1>1, SuggestionsAreLabels
<1>3. /\ entry.line = query
      /\ entry.state = "ranked" => shown # <<>>
      /\ entry.shown = IF entry.state = "ranked" THEN shown ELSE <<>>
    BY DEF Entry, query
<1> HIDE DEF shown, entry
<1>4. \A k \in DOMAIN entry.shown : k \in DOMAIN shown /\ entry.shown[k] = shown[k]
    BY <1>3
<1>5. \A k \in DOMAIN entry.shown : \E e \in index : entry.shown[k] = e.field
    BY <1>2, <1>4
<1>6. entry.state = "ranked" => entry.shown = shown /\ index # {}
    BY <1>2, <1>3
<1>7. (entry.state = "ranked") = (entry.shown # <<>>)
    BY <1>3
<1> QED
    BY <1>1, <1>2, <1>3, <1>5, <1>6, <1>7 DEF entry, index, lines

LEMMA InitDesk == DeskInit => DeskInv
<1> SUFFICES ASSUME DeskInit PROVE DeskInv
    OBVIOUS
<1>1. examples = <<>> /\ seen = [u \in User |-> NotRead]
    BY DEF DeskInit
<1>2. examples \in Seq(ToSet(examples)) /\ DOMAIN examples = {}
    BY <1>1
<1> QED
    BY <1>1, <1>2 DEF DeskInv

LEMMA ReadQueueStep ==
    ASSUME AccessInv, DeskInv, NEW u \in User, ReadQueue(u)
    PROVE  DeskInv'
<1>1. PICK files \in {File} \cup {{f} : f \in File}, embeds \in BOOLEAN :
          \E cluster \in Clusters(UnknownLines(files)) :
              LET entry == Entry(UnknownLines(files), cluster, Index(examples), embeds) IN
              seen' = [seen EXCEPT ![u] = [cluster |-> cluster, line |-> entry.line, shown |-> entry.shown]]
    BY DEF ReadQueue
<1>2. files \in SUBSET File
    BY <1>1
<1>3. PICK cluster \in Clusters(UnknownLines(files)) :
          LET entry == Entry(UnknownLines(files), cluster, Index(examples), embeds) IN
          seen' = [seen EXCEPT ![u] = [cluster |-> cluster, line |-> entry.line, shown |-> entry.shown]]
    BY <1>1
<1> DEFINE entry == Entry(UnknownLines(files), cluster, Index(examples), embeds)
           screen == [cluster |-> cluster, line |-> entry.line, shown |-> entry.shown]
<1>4. /\ entry.line \in Texts
      /\ \A k \in DOMAIN entry.shown : \E e \in Index(examples) : entry.shown[k] = e.field
    BY <1>2, EntriesShowLabels
<1>5. \A e \in Index(examples) : e.field \in Fields
    BY IndexIsIndexed DEF Indexed
<1>6. seen' = [seen EXCEPT ![u] = screen] /\ examples' = examples
    BY <1>3 DEF ReadQueue
<1> HIDE DEF entry
<1>7. screen.line \in Texts /\ \A k \in DOMAIN screen.shown : screen.shown[k] \in Fields
    BY <1>4, <1>5
<1> HIDE DEF screen
<1>8. DOMAIN seen' = User /\ \A v \in User : seen'[v] = seen[v] \/ seen'[v] = screen
    BY <1>6 DEF DeskInv
<1> QED
    BY <1>6, <1>7, <1>8 DEF DeskInv, Valid

LEMMA ConfirmStep ==
    ASSUME AccessInv, DeskInv, NEW u \in User, Confirm(u)
    PROVE  DeskInv'
<1>1. PICK answer \in Answers(seen[u]), embeds \in BOOLEAN :
          LET example == [line |-> seen[u].line, cluster |-> seen[u].cluster, field |-> answer.field,
                          outcome |-> answer.outcome, shown |-> SuggestedNow(seen[u].cluster, embeds)]
          IN examples' = IF Valid(example) THEN Append(examples, example) ELSE examples
    BY DEF Confirm
<1> DEFINE example == [line |-> seen[u].line, cluster |-> seen[u].cluster, field |-> answer.field,
                       outcome |-> answer.outcome, shown |-> SuggestedNow(seen[u].cluster, embeds)]
<1>2. seen[u] # NotRead /\ seen' = seen
    BY DEF Confirm
<1>3. answer.field \in Fields \cup {NoField}
    BY <1>2 DEF Answers, DeskInv
<1>4. seen[u].line \in Texts
    BY <1>2 DEF DeskInv
<1>5. CASE ~Valid(example)
  <2>1. examples' = examples
      BY <1>1, <1>5
  <2> QED
      BY <1>2, <2>1 DEF DeskInv, Valid
<1>6. CASE Valid(example)
  <2>1. example.line \in Texts /\ example.field \in Fields \cup {NoField}
      BY <1>3, <1>4
  <2>2. examples' = Append(examples, example)
      BY <1>1, <1>6
  <2> DEFINE S == ToSet(examples) \cup {example}
             n == Len(examples)
  <2> HIDE DEF example
  <2>3. examples \in Seq(S)
      BY DEF DeskInv, ToSet
  <2> HIDE DEF S
  <2>4. n \in Nat /\ DOMAIN examples = 1 .. n
      BY <2>3
  <2>5. example \in S
      BY DEF S
  <2>6. /\ examples' \in Seq(S)
        /\ DOMAIN examples' = 1 .. n + 1
        /\ \A i \in 1 .. n : examples'[i] = examples[i]
        /\ examples'[n + 1] = example
      BY <2>2, <2>3, <2>5
  <2>7. examples' \in Seq(ToSet(examples'))
    <3>1. \A i \in 1 .. n + 1 : examples'[i] \in ToSet(examples')
        BY <2>6 DEF ToSet
    <3>2. examples' = [i \in 1 .. n + 1 |-> examples'[i]] /\ n + 1 \in Nat
        BY <2>4, <2>6
    <3> QED
        BY <3>1, <3>2
  <2>8. \A i \in DOMAIN examples' : i \in DOMAIN examples \/ i = n + 1
      BY <2>4, <2>6
  <2>9. \A i \in DOMAIN examples' : /\ examples'[i].line \in Texts
                                   /\ examples'[i].field \in Fields \cup {NoField}
                                   /\ Valid(examples'[i])
      BY <1>6, <2>1, <2>4, <2>6, <2>8 DEF DeskInv
  <2> QED
      BY <1>2, <2>7, <2>9 DEF DeskInv, Valid
<1> QED
    BY <1>5, <1>6

LEMMA DeskStepwise ==
    ASSUME AccessInv, DeskInv, [Next]_vars
    PROVE  DeskInv'
<1>1. CASE UNCHANGED deskVars
    BY <1>1 DEF deskVars, DeskInv, Valid
<1>2. ASSUME NEW u \in User, DeskStep(u) PROVE DeskInv'
    BY <1>2, ReadQueueStep, ConfirmStep DEF DeskStep
<1> QED
    BY <1>1, <1>2 DEF Next, Prepare, FirstAdmin, Serve, Die, vars

\* Of entries none closer than the first suggested, one the model cannot tell
\* from the query would be.
LEMMA DeskSummary ==
    ASSUME AccessInv, DeskInv
    PROVE  DecisionsAreWhatWasSeen
<1>1. \A i \in DOMAIN examples :
          LET e == examples[i] IN
          e.outcome \in 1 .. 3 => e.outcome \in DOMAIN e.shown /\ e.shown[e.outcome] = e.field
    BY DEF DeskInv, Valid
<1>2. ASSUME NEW cluster \in Clusters(UnknownLines(File))
      PROVE  LET entry == Entry(UnknownLines(File), cluster, Index(examples), TRUE) IN
             /\ (entry.state = "ranked") = (entry.shown # <<>>)
             /\ ToSet(entry.shown) \subseteq {e.field : e \in Index(examples)}
             /\ entry.state = "ranked" /\ Taught(entry.line) # {} => entry.shown[1] \in Taught(entry.line)
  <2> DEFINE entry == Entry(UnknownLines(File), cluster, Index(examples), TRUE)
             index == Index(examples)
             line == entry.line
  <2>1. /\ entry.line \in Texts
        /\ (entry.state = "ranked") = (entry.shown # <<>>)
        /\ \A k \in DOMAIN entry.shown : \E e \in index : entry.shown[k] = e.field
        /\ entry.state = "ranked" =>
              \E e \in index : entry.shown[1] = e.field /\ \A b \in index : ~Closer(entry.line, b, e)
      BY EntriesShowLabels
  <2> HIDE DEF entry
  <2>2. ToSet(entry.shown) \subseteq {e.field : e \in index}
      BY <2>1 DEF ToSet
  <2>3. ASSUME entry.state = "ranked", Taught(line) # {}
        PROVE  entry.shown[1] \in Taught(line)
    <3>1. PICK e \in index : entry.shown[1] = e.field /\ \A b \in index : ~Closer(line, b, e)
        BY <2>1, <2>3
    <3>2. PICK b \in index : Cosine[line][b.text] = Cosine[line][line]
        BY <2>3 DEF Taught
    <3>3. e.text \in Texts /\ line \in Texts
        BY <2>1, IndexIsIndexed DEF Indexed
    <3>4. /\ Cosine[line][e.text] \in Int /\ Cosine[line][line] \in Int
          /\ Cosine[line][e.text] <= Cosine[line][line]
        BY <3>3, LearningAssumption DEF Texts
    <3>5. ~(Cosine[line][b.text] > Cosine[line][e.text])
        BY <3>1, <3>2, Zenon DEF Closer
    <3>6. Cosine[line][e.text] = Cosine[line][line]
        BY <3>2, <3>4, <3>5
    <3> QED
        BY <3>1, <3>6 DEF Taught
  <2> QED
      BY <2>1, <2>2, <2>3 DEF entry
<1> QED
    BY <1>1, <1>2 DEF DecisionsAreWhatWasSeen

-----------------------------------------------------------------------------

LEMMA Initially == Init => IInv
    BY InitSchema, InitAccess, InitDesk DEF Init, IInv

LEMMA Stepwise == IInv /\ [Next]_vars => IInv'
    BY SchemaStepwise, AccessStepwise, DeskStepwise DEF IInv

\* The invariant holds of every behaviour of the console.
THEOREM Invariance == Spec => []IInv
    BY Initially, Stepwise, PTL DEF Spec

\* However the server and the script overlap, are refused or are killed, and
\* whatever releases are installed, what took effect is what is recorded, once
\* each and in order, and a server that answers does so on the migrations of its
\* release (api/db/migrate.py, migrate and verify_applied).
THEOREM SchemaAlwaysItsHistory == Spec => []SchemaIsItsHistory
<1>1. IInv => SchemaIsItsHistory
    BY SchemaSummary DEF IInv
<1> QED
    BY <1>1, Invariance, PTL

\* Once there is an administrator one of them stays enabled, unless a disabling
\* was answered after its caller was disabled (api/routers/users.py:82-98).
THEOREM AdminAlwaysRemains == Spec => []AdminRemainsUnlessLate
<1>1. IInv => AdminRemainsUnlessLate
    BY DEF IInv, AccessInv
<1> QED
    BY <1>1, Invariance, PTL

\* Every handler answers about what is not one's own as about what is not there,
\* and lists what one may read (api/routers/deps.py:134-143).
THEOREM OthersAlwaysLearnNothing == Spec => []OthersLearnNothing
<1>1. IInv => OthersLearnNothing
    BY AccessSummary DEF IInv
<1> QED
    BY <1>1, Invariance, PTL

\* A decision recorded as accepted is the suggestion recorded at its rank, and
\* the queue proposes what was labelled, first what the line was taught, for any
\* lines, labels and similarities (api/train/queue.py:165, api/learn/suggest.py:71).
THEOREM DecisionsAlwaysWhatWasSeen == Spec => []DecisionsAreWhatWasSeen
<1>1. IInv => DecisionsAreWhatWasSeen
    BY DeskSummary DEF IInv
<1> QED
    BY <1>1, Invariance, PTL

=============================================================================
