-------------------------- MODULE AssessmentProofs --------------------------
(***************************************************************************)
(* Theorems about Assessment, for any packs, rules, editions, libraries    *)
(* and any number of runs: what a verdict rests on, how it moves with what *)
(* a pack knows, that no rule is lost, what a stored run is shown with, in *)
(* which order its findings are ranked and what is proposed for them.      *)
(* Theorems about Fleet, which shares Verdicts with it: what a file is     *)
(* taken for, and what a baseline reports of a fleet.                      *)
(***************************************************************************)
EXTENDS Assessment, Fleet, FiniteSetTheorems, FunctionTheorems, SequenceTheorems,
        WellFoundedInduction, TLAPS

-----------------------------------------------------------------------------
(* Fields and findings.                                                    *)

\* The lines of the file that settle a control settle it to one value.
Settled(p, c) ==
    LET lines == p.found[c] IN
    \/ c \in Multi
    \/ WorstCase[c] \in {lines[i] : i \in DOMAIN lines}
    \/ \A i, j \in DOMAIN lines : lines[i] = lines[j]

\* What a field can be, and what it then rests on.
Grounded(p, c, f) ==
    LET lines == p.found[c] IN
    \/ /\ f.state = "PRESENT"
       /\ lines # <<>> /\ f.evidence = DOMAIN lines /\ f.evidence # {}
       /\ Settled(p, c) /\ f.value # Nothing /\ f.reason = NoReason
    \/ /\ f.state = "UNKNOWN" /\ f.value = Nothing /\ f.reason # NoReason
    \/ /\ f.state = "ABSENT_DEFAULT" /\ lines = <<>>
       /\ p.capability[c].supported = "yes" /\ p.default[c].sourced
       /\ f.evidence = {} /\ f.citation = TRUE /\ f.reason = NoReason
    \/ /\ f.state = "ABSENT_UNSUPPORTED" /\ lines = <<>> /\ f.value = Nothing
       /\ p.capability[c].supported = "no" /\ p.capability[c].sourced
       /\ f.evidence = {} /\ f.citation = TRUE /\ f.reason = NoReason

\* Lines that hold one value hold the same: the only place where a cardinality
\* decides a field.
LEMMA OneValue ==
    ASSUME NEW S, NEW s \in Seq(S), Cardinality({s[i] : i \in DOMAIN s}) = 1
    PROVE  \A i, j \in DOMAIN s : s[i] = s[j]
<1> DEFINE T == {s[i] : i \in DOMAIN s}
<1>1. IsFiniteSet(DOMAIN s)
  <2>1. DOMAIN s = 1 .. Len(s) /\ Len(s) \in Nat
    OBVIOUS
  <2> QED BY <2>1, FS_Interval
<1>2. IsFiniteSet(T)
  <2> DEFINE f == [i \in DOMAIN s |-> s[i]]
  <2>1. f \in Surjection(DOMAIN s, T)
    BY DEF Surjection
  <2> HIDE DEF f, T
  <2> QED BY <2>1, <1>1, FS_Surjection
<1>3. \E x : T = {x}
  <2> HIDE DEF T
  <2>1. Cardinality(T) = 1
    BY DEF T
  <2> QED BY <2>1, <1>2, FS_Singleton
<1> QED BY <1>3

\* build_field and _resolve_absences: a field is grounded.
LEMMA FieldIsGrounded ==
    ASSUME NEW p \in Packs, NEW c \in Control
    PROVE  Grounded(p, c, Field(p, c))
<1> DEFINE lines == p.found[c]
           S == {lines[i] : i \in DOMAIN lines} \ {Nothing}
           built == BuildField(lines, c \in Multi, WorstCase[c])
<1>1. /\ lines \in Seq(S)
      /\ p.capability[c].supported \in {"yes", "no", "undocumented"}
  BY PacksAssumption
<1>2. Field(p, c) = Resolve(built, p.capability[c], p.default[c])
  BY DEF Field
<1>3. \A i \in DOMAIN lines : lines[i] # Nothing
  <2>1. \A i \in DOMAIN lines : lines[i] \in S
    <3> HIDE DEF S, lines
    <3> QED BY <1>1
  <2> QED BY <2>1
<1>4. ASSUME NEW why, NEW cited, Field(p, c) = Unknown(why, cited), why # NoReason
      PROVE  Grounded(p, c, Field(p, c))
  BY <1>4 DEF Grounded, Unknown
<1>5. CASE lines = <<>>
  <2>1. built = Unknown("no_match", {})
    BY <1>5 DEF BuildField
  <2>2. Field(p, c) = Absent(p.capability[c], p.default[c])
    BY <1>2, <2>1 DEF Resolve, Unknown
  <2>3. CASE \/ p.capability[c].supported = "undocumented"
             \/ p.capability[c].supported = "no" /\ ~p.capability[c].sourced
    <3>1. Field(p, c) = Unknown("capability_unknown", {})
      BY <2>2, <2>3 DEF Absent
    <3> QED BY <1>4, <3>1 DEF NoReason
  <2>4. CASE p.capability[c].supported = "no" /\ p.capability[c].sourced
    <3>1. Field(p, c) = ClaimedAbsent("ABSENT_UNSUPPORTED", Nothing)
      BY <2>2, <2>4 DEF Absent
    <3> QED BY <3>1, <2>4, <1>5 DEF Grounded, ClaimedAbsent
  <2>5. CASE p.capability[c].supported = "yes" /\ ~p.default[c].sourced
    <3>1. Field(p, c) = Unknown("no_match", {})
      BY <2>2, <2>5 DEF Absent
    <3> QED BY <1>4, <3>1 DEF NoReason
  <2>6. CASE p.capability[c].supported = "yes" /\ p.default[c].sourced
    <3>1. Field(p, c) = ClaimedAbsent("ABSENT_DEFAULT", p.default[c].value)
      BY <2>2, <2>6 DEF Absent
    <3> QED BY <3>1, <2>6, <1>5 DEF Grounded, ClaimedAbsent
  <2> QED BY <1>1, <2>3, <2>4, <2>5, <2>6
<1>6. CASE lines # <<>>
  <2>1. DOMAIN lines # {} /\ 1 \in DOMAIN lines
    <3> HIDE DEF lines, S
    <3>1. DOMAIN lines = 1 .. Len(lines) /\ Len(lines) \in Nat /\ Len(lines) # 0
      BY <1>1, <1>6
    <3> QED BY <3>1
  <2>2. ASSUME NEW v, v # Nothing, built = Present(v, DOMAIN lines), Settled(p, c)
        PROVE  Grounded(p, c, Field(p, c))
    <3>1. Field(p, c) = Present(v, DOMAIN lines)
      BY <1>2, <2>2 DEF Resolve, Present
    <3> QED BY <3>1, <2>1, <2>2, <1>6 DEF Grounded, Present
  <2>3. CASE c \in Multi
    <3>1. built = Present(List(lines), DOMAIN lines)
      BY <1>6, <2>3 DEF BuildField
    <3>2. List(lines) # Nothing
      BY DEF List, Nothing
    <3>3. Settled(p, c)
      BY <2>3 DEF Settled
    <3> QED BY <3>1, <3>2, <3>3, <2>2
  <2>4. CASE c \notin Multi /\ Cardinality({lines[i] : i \in DOMAIN lines}) = 1
    <3>1. built = Present(lines[1], DOMAIN lines)
      BY <1>6, <2>4 DEF BuildField
    <3>2. Settled(p, c)
      BY <1>1, <2>4, OneValue DEF Settled
    <3> QED BY <3>1, <3>2, <2>2, <1>3, <2>1
  <2>5. CASE /\ c \notin Multi /\ Cardinality({lines[i] : i \in DOMAIN lines}) # 1
             /\ WorstCase[c] \in {lines[i] : i \in DOMAIN lines}
    <3>1. built = Present(WorstCase[c], DOMAIN lines)
      BY <1>6, <2>5 DEF BuildField
    <3>2. WorstCase[c] # Nothing /\ Settled(p, c)
      BY <2>5, <1>3 DEF Settled
    <3> QED BY <3>1, <3>2, <2>2
  <2>6. CASE /\ c \notin Multi /\ Cardinality({lines[i] : i \in DOMAIN lines}) # 1
             /\ WorstCase[c] \notin {lines[i] : i \in DOMAIN lines}
    <3>1. built = Unknown("conflicting_evidence", DOMAIN lines)
      BY <1>6, <2>6 DEF BuildField
    <3>2. Field(p, c) = Unknown("conflicting_evidence", DOMAIN lines)
      BY <1>2, <3>1 DEF Resolve, Unknown
    <3> QED BY <1>4, <3>2 DEF NoReason
  <2> QED BY <2>3, <2>4, <2>5, <2>6
<1> QED BY <1>5, <1>6

\* _evaluate_rule: a verdict rests on what its field rests on, and no field of
\* which nothing is known has one.
LEMMA VerdictIsGrounded ==
    ASSUME NEW p, NEW c, NEW f, Grounded(p, c, f), NEW r,
           {r.onDefault, r.onUnsupported} \subseteq AbsenceAction
    PROVE  LET x == Evaluate(r, f) IN
           /\ ValidField(f)
           /\ ValidFinding(x)
           /\ x.evidence = f.evidence
           /\ f.state = "UNKNOWN" => x.status = "unknown"
<1> DEFINE x == Evaluate(r, f)
           action == Action(r, f.state)
<1>1. Grounded(p, c, f)
  OBVIOUS
<1>2. ValidField(f)
  BY <1>1 DEF Grounded, ValidField
<1>3. ASSUME NEW why, x = Abstain(why, f), why # NoReason
      PROVE  ValidFinding(x) /\ x.evidence = f.evidence /\ x.status = "unknown"
  BY <1>3 DEF Abstain, ValidFinding
<1>4. ASSUME NEW status \in {"pass", "fail", "not_applicable"}, x = Found(status, f),
             f.state # "UNKNOWN", f.evidence # {} \/ f.citation
      PROVE  ValidFinding(x) /\ x.evidence = f.evidence
  BY <1>4 DEF Found, ValidFinding
<1>5. CASE x = Judged(r, f) /\ f.state # "UNKNOWN"
  <2>1. CASE \E c1 \in r.conditions : ~Meaningful(c1, f.value)
    <3>1. x = Abstain("rule_type_mismatch", f)
      BY <1>5, <2>1 DEF Judged
    <3> QED BY <3>1, <1>3, <1>2, <1>5 DEF NoReason
  <2>2. CASE /\ ~ \E c1 \in r.conditions : ~Meaningful(c1, f.value)
             /\ f.evidence = {} /\ ~f.citation
    <3>1. x = Abstain("no_evidence", f)
      BY <1>5, <2>2 DEF Judged
    <3> QED BY <3>1, <1>3, <1>2, <1>5 DEF NoReason
  <2>3. CASE /\ ~ \E c1 \in r.conditions : ~Meaningful(c1, f.value)
             /\ f.evidence # {} \/ f.citation
    <3>1. PICK status \in {"pass", "fail"} : x = Found(status, f)
      BY <1>5, <2>3 DEF Judged
    <3> QED BY <3>1, <1>4, <1>2, <1>5, <2>3
  <2> QED BY <2>1, <2>2, <2>3
<1>6. CASE f.state = "PRESENT"
  <2>1. x = Judged(r, f)
    BY <1>6 DEF Evaluate
  <2> QED BY <2>1, <1>5, <1>6
<1>7. CASE f.state = "UNKNOWN"
  <2>1. action = "unknown"
    BY <1>7 DEF Action
  <2>2. f.reason # NoReason
    BY <1>1, <1>7 DEF Grounded
  <2>3. x = Abstain(f.reason, f)
    BY <1>7, <2>1, <2>2 DEF Evaluate
  <2> QED BY <2>3, <2>2, <1>3, <1>2
<1>8. CASE f.state \in {"ABSENT_DEFAULT", "ABSENT_UNSUPPORTED"}
  <2>1. action \in AbsenceAction
    BY <1>8 DEF Action
  <2>2. f.reason = NoReason /\ f.citation = TRUE
    BY <1>1, <1>8 DEF Grounded
  <2>3. CASE action = "evaluate"
    <3>1. x = Judged(r, f)
      BY <1>8, <2>3 DEF Evaluate
    <3> QED BY <3>1, <1>5, <1>8
  <2>4. CASE action \in {"pass", "fail", "not_applicable"}
    <3>1. x = Found(action, f)
      BY <1>8, <2>4 DEF Evaluate
    <3> QED BY <3>1, <2>4, <2>2, <1>4, <1>2, <1>8
  <2>5. CASE action = "unknown"
    <3>1. x = Abstain("capability_unknown", f)
      BY <1>8, <2>5, <2>2 DEF Evaluate
    <3> QED BY <3>1, <1>3, <1>2, <1>8 DEF NoReason
  <2> QED BY <2>1, <2>3, <2>4, <2>5 DEF AbsenceAction
<1>9. f.state \in {"PRESENT", "UNKNOWN", "ABSENT_DEFAULT", "ABSENT_UNSUPPORTED"}
  BY <1>1 DEF Grounded
<1> QED BY <1>6, <1>7, <1>8, <1>9

-----------------------------------------------------------------------------
(* The inductive invariant.  Nothing of a stored run is read off the state *)
(* that stored it: a run carries its pack, its rules and its release, and  *)
(* is what an audit of them gives.                                         *)

Deployed == \E d \in Deployments : rulepack = d.rulepack /\ library = d.library

\* The device row is there once, with the release some pack read, and no run
\* is stored before.
RowOK ==
    \/ release = {} /\ runs = <<>>
    \/ \E p \in Packs : release = {p.release}

Made(run, rp) ==
    /\ run.rules = rp.rules
    /\ run.findings = Findings(rp, run.pack, run.effective)
    /\ run.leftOut = LeftOut(rp, run.selection, run.pack.release)

RunOK(run) ==
    /\ run.pack \in Packs
    /\ run.effective = Effective(run.selection, run.pack.release)
    /\ run.findings # {}
    /\ run.ranking = Prioritise(run.pack, run.findings)
    /\ \E d \in Deployments : Made(run, d.rulepack)

RunsOK ==
    /\ runs \in Seq({runs[n] : n \in DOMAIN runs})
    /\ \A n \in DOMAIN runs : RunOK(runs[n])

IInv == pack \in Packs /\ Deployed /\ RowOK /\ RunsOK

LEMMA InitIInv == Init => IInv
<1> SUFFICES ASSUME Init PROVE IInv
  OBVIOUS
<1>1. runs \in Seq({runs[n] : n \in DOMAIN runs})
  <2> DEFINE S == {runs[n] : n \in DOMAIN runs}
  <2> HIDE DEF S
  <2>1. <<>> \in Seq(S)
    OBVIOUS
  <2> QED BY <2>1 DEF Init, S
<1>2. DOMAIN runs = {}
  BY DEF Init
<1> QED BY <1>1, <1>2 DEF Init, IInv, Deployed, RowOK, RunsOK

\* A sequence that grows holds what it held, and what was added.
LEMMA Grown ==
    ASSUME NEW S, NEW s \in Seq(S), NEW e
    PROVE  LET t == Append(s, e) IN
           /\ t \in Seq({t[n] : n \in DOMAIN t})
           /\ \A n \in DOMAIN t : t[n] = e \/ (n \in DOMAIN s /\ t[n] = s[n])
<1> DEFINE t == Append(s, e)
           T == {t[n] : n \in DOMAIN t}
           U == S \cup {e}
<1>1. s \in Seq(U) /\ e \in U
  <2> HIDE DEF U
  <2>1. S \subseteq U
    BY DEF U
  <2> QED BY <2>1 DEF U
<1>2. /\ t \in Seq(U)
      /\ Len(t) = Len(s) + 1
      /\ \A n \in 1 .. Len(s) : t[n] = s[n]
      /\ t[Len(s) + 1] = e
  <2> HIDE DEF U
  <2> QED BY <1>1, AppendProperties
<1> HIDE DEF t, U
<1>3. /\ Len(s) \in Nat /\ DOMAIN s = 1 .. Len(s)
      /\ Len(t) \in Nat /\ DOMAIN t = 1 .. Len(t)
      /\ t = [n \in 1 .. Len(t) |-> t[n]]
  BY <1>2
<1>4. \A n \in DOMAIN t : t[n] = e \/ (n \in DOMAIN s /\ t[n] = s[n])
  <2> DEFINE k == Len(s)
             l == Len(t)
  <2>1. l = k + 1 /\ k \in Nat /\ DOMAIN s = 1 .. k /\ DOMAIN t = 1 .. l
    BY <1>2, <1>3
  <2>2. t[k + 1] = e /\ \A n \in 1 .. k : t[n] = s[n]
    BY <1>2
  <2> HIDE DEF k, l
  <2>3. \A n \in 1 .. l : n = k + 1 \/ n \in 1 .. k
    BY <2>1
  <2> QED BY <2>1, <2>2, <2>3
<1>5. t \in Seq(T)
  <2>1. \A n \in 1 .. Len(t) : t[n] \in T
    BY <1>3
  <2> HIDE DEF T
  <2>2. t \in [1 .. Len(t) -> T]
    BY <1>3, <2>1
  <2> QED BY <1>3, <2>2, SeqDef
<1> QED BY <1>4, <1>5 DEF t

LEMMA AuditIInv ==
    ASSUME IInv, NEW selection \in SUBSET Framework, Audit(selection)
    PROVE  IInv'
<1> DEFINE e == [version |-> rulepack.version, rules |-> rulepack.rules, pack |-> pack,
                selection |-> selection, effective |-> Effective(selection, pack.release),
                leftOut |-> LeftOut(rulepack, selection, pack.release),
                findings |-> Findings(rulepack, pack, Effective(selection, pack.release)),
                ranking |-> Prioritise(pack,
                    Findings(rulepack, pack, Effective(selection, pack.release)))]
<1>1. /\ runs' = Append(runs, e) /\ release # {} /\ e.findings # {}
      /\ UNCHANGED <<pack, rulepack, library, release>>
  BY DEF Audit
<1>2. RunOK(e)
  <2>1. Made(e, rulepack)
    BY DEF Made
  <2>2. /\ e.pack = pack /\ e.effective = Effective(e.selection, e.pack.release)
        /\ e.ranking = Prioritise(e.pack, e.findings)
    OBVIOUS
  <2> HIDE DEF e
  <2> QED BY <1>1, <2>1, <2>2 DEF RunOK, IInv, Deployed
<1> HIDE DEF e
<1>3. RunsOK'
  <2>1. /\ runs' \in Seq({runs'[n] : n \in DOMAIN runs'})
        /\ \A n \in DOMAIN runs' :
              runs'[n] = e \/ (n \in DOMAIN runs /\ runs'[n] = runs[n])
    <3> DEFINE S == {runs[n] : n \in DOMAIN runs}
    <3>1. runs \in Seq(S)
      BY DEF IInv, RunsOK
    <3> HIDE DEF S
    <3> QED BY <3>1, <1>1, Grown
  <2>2. \A n \in DOMAIN runs' : RunOK(runs'[n])
    BY <2>1, <1>2 DEF IInv, RunsOK
  <2> QED BY <2>1, <2>2 DEF RunsOK
<1>4. RowOK'
  BY <1>1 DEF IInv, RowOK
<1> QED BY <1>1, <1>3, <1>4 DEF IInv, Deployed

LEMMA NextIInv == IInv /\ [Next]_vars => IInv'
<1> SUFFICES ASSUME IInv, [Next]_vars PROVE IInv'
  OBVIOUS
<1>1. CASE Ingest
  <2>1. RowOK'
    BY <1>1 DEF Ingest, IInv, RowOK
  <2> QED BY <1>1, <2>1 DEF Ingest, IInv, Deployed, RunsOK
<1>2. ASSUME NEW p \in Packs, ChangePack(p) PROVE IInv'
  BY <1>2 DEF ChangePack, IInv, Deployed, RowOK, RunsOK
<1>3. ASSUME NEW d \in Deployments, Restart(d) PROVE IInv'
  BY <1>3 DEF Restart, IInv, Deployed, RowOK, RunsOK
<1>4. ASSUME NEW selection \in SUBSET Framework, Audit(selection) PROVE IInv'
  BY <1>4, AuditIInv
<1>5. CASE UNCHANGED vars
  BY <1>5 DEF vars, IInv, Deployed, RowOK, RunsOK
<1> QED BY <1>1, <1>2, <1>3, <1>4, <1>5 DEF Next

\* Stored runs are what audits of their own packs and rules give, whatever was
\* activated, released or restarted since.
THEOREM Invariance == Spec => []IInv
<1> QED BY InitIInv, NextIInv, PTL DEF Spec

-----------------------------------------------------------------------------
(* Verdicts.                                                               *)

\* What the engine makes of the field of a rule.
Decided(r, p) ==
    IF r.field \in p.declared THEN Evaluate(r, Field(p, r.field))
    ELSE Abstain("no_match", NoField)

\* r is the rule of rp that finding x, made with pack p, is of.
IsOf(x, r, rp, p) ==
    /\ x.rule = r.id
    /\ \A s \in rp.rules : s.id = x.rule => s = r
    /\ {r.onDefault, r.onUnsupported} \subseteq AbsenceAction
    /\ x.finding = Decided(r, p)

\* A finding is of one rule of the run, the one its identifier names, and is
\* what the engine makes of the field of that rule.
LEMMA FindingIsOfARule ==
    ASSUME NEW d \in Deployments, NEW p, NEW effective,
           NEW x \in Findings(d.rulepack, p, effective)
    PROVE  \E r \in d.rulepack.rules : IsOf(x, r, d.rulepack, p)
<1>1. PICK r \in Evaluated(d.rulepack, effective) :
         x = [rule |-> r.id, severity |-> r.severity, field |-> r.field,
              finding |-> Decided(r, p)]
  BY DEF Findings, Decided
<1>2. r \in d.rulepack.rules
  BY DEF Evaluated
<1>3. \A s \in d.rulepack.rules : s.id = r.id => s = r
  BY <1>2, RulepacksAssumption
<1>4. {r.onDefault, r.onUnsupported} \subseteq AbsenceAction
  BY <1>2, RulepacksAssumption
<1>5. x.rule = r.id
  BY <1>1
<1>6. \A s \in d.rulepack.rules : s.id = x.rule => s = r
  BY <1>3, <1>5
<1>7. x.finding = Decided(r, p)
  BY <1>1
<1> QED BY <1>2, <1>4, <1>5, <1>6, <1>7 DEF IsOf

\* A control the pack does not declare is abstained on.
LEMMA UndeclaredIsUnknown ==
    LET x == Abstain("no_match", NoField) IN ValidFinding(x) /\ x.status = "unknown"
BY DEF Abstain, NoField, ValidFinding, NoReason

LEMMA JustifiedFromIInv == IInv => VerdictIsJustified
<1> SUFFICES ASSUME IInv, NEW n \in RunIndex, NEW x \in runs[n].findings
             PROVE  LET rule == CHOOSE r \in runs[n].rules : r.id = x.rule
                        c == rule.field
                        p == runs[n].pack
                        lines == p.found[c]
                    IN  /\ ValidFinding(x.finding)
                        /\ c \in p.declared => ValidField(Field(p, c))
                        /\ x.finding.status # "unknown" =>
                              /\ c \in p.declared
                              /\ IF lines = <<>>
                                 THEN \/ p.capability[c].supported = "yes" /\ p.default[c].sourced
                                      \/ p.capability[c].supported = "no" /\ p.capability[c].sourced
                                 ELSE /\ x.finding.evidence = DOMAIN lines
                                      /\ Settled(p, c)
  BY DEF VerdictIsJustified, Settled
<1>1. RunOK(runs[n])
  BY DEF IInv, RunsOK, RunIndex
<1>2. PICK d \in Deployments : Made(runs[n], d.rulepack)
  BY <1>1 DEF RunOK
<1> DEFINE p == runs[n].pack
<1>3. p \in Packs /\ runs[n].rules = d.rulepack.rules
  BY <1>1, <1>2 DEF RunOK, Made
<1>4. x \in Findings(d.rulepack, p, runs[n].effective)
  BY <1>2 DEF Made
<1>5. PICK r \in d.rulepack.rules : IsOf(x, r, d.rulepack, p)
  <2> HIDE DEF p
  <2> QED BY <1>4, FindingIsOfARule
<1>6. r = CHOOSE s \in runs[n].rules : s.id = x.rule
  BY <1>3, <1>5 DEF IsOf
<1> DEFINE c == r.field
<1>7. CASE c \notin p.declared
  <2>1. x.finding = Abstain("no_match", NoField)
    BY <1>5, <1>7 DEF IsOf, Decided
  <2>2. ValidFinding(x.finding) /\ x.finding.status = "unknown"
    BY <2>1, UndeclaredIsUnknown
  <2> QED BY <2>2, <1>6, <1>7
<1>8. CASE c \in p.declared
  <2>1. c \in Control
    BY <1>3, <1>8, PacksAssumption
  <2> DEFINE f == Field(p, c)
  <2>2. Grounded(p, c, f)
    BY <1>3, <2>1, FieldIsGrounded
  <2>3. x.finding = Evaluate(r, f)
    BY <1>5, <1>8 DEF IsOf, Decided
  <2> HIDE DEF f, p
  <2>4. /\ ValidField(f)
        /\ ValidFinding(x.finding)
        /\ x.finding.evidence = f.evidence
        /\ f.state = "UNKNOWN" => x.finding.status = "unknown"
    <3>1. {r.onDefault, r.onUnsupported} \subseteq AbsenceAction
      BY <1>5 DEF IsOf
    <3>2. LET y == Evaluate(r, f) IN
          /\ ValidField(f)
          /\ ValidFinding(y)
          /\ y.evidence = f.evidence
          /\ f.state = "UNKNOWN" => y.status = "unknown"
      BY <2>2, <3>1, VerdictIsGrounded
    <3> QED BY <2>3, <3>2
  <2>5. x.finding.status # "unknown" =>
           IF p.found[c] = <<>>
           THEN \/ p.capability[c].supported = "yes" /\ p.default[c].sourced
                \/ p.capability[c].supported = "no" /\ p.capability[c].sourced
           ELSE x.finding.evidence = DOMAIN p.found[c] /\ Settled(p, c)
    BY <2>2, <2>4 DEF Grounded
  <2> QED BY <2>4, <2>5, <1>6, <1>8 DEF f, p
<1> QED BY <1>7, <1>8

\* Rules 1 to 3 of the engine: a verdict rests on every line of its control,
\* which then agree or are settled by the merge policy, or on a sourced claim
\* of the pack where there is no line; every other answer abstains with a reason.
THEOREM VerdictsAlwaysJustified == Spec => []VerdictIsJustified
<1>1. IInv => VerdictIsJustified
  BY JustifiedFromIInv
<1> QED BY <1>1, Invariance, PTL

\* Of what two packs find alike and the first claims with a source, the second
\* claims the same: a field that is settled stays what it is.
LEMMA SettledFieldsStay ==
    ASSUME NEW p \in Packs, NEW q \in Packs, NEW c \in Control, Knows(q, p)
    PROVE  Field(p, c).state = "UNKNOWN" \/ Field(p, c) = Field(q, c)
<1> DEFINE lines == p.found[c]
           built == BuildField(lines, c \in Multi, WorstCase[c])
<1>1. /\ q.found[c] = lines
      /\ p.capability[c].supported = "yes" => q.capability[c].supported = "yes"
      /\ p.capability[c].supported = "no" /\ p.capability[c].sourced =>
            q.capability[c] = p.capability[c]
      /\ p.default[c].sourced => q.default[c] = p.default[c]
  BY DEF Knows
<1>2. /\ Field(p, c) = Resolve(built, p.capability[c], p.default[c])
      /\ Field(q, c) = Resolve(built, q.capability[c], q.default[c])
  BY <1>1 DEF Field
<1>3. CASE ~(built.state = "UNKNOWN" /\ built.reason = "no_match")
  BY <1>2, <1>3 DEF Resolve
<1>4. CASE built.state = "UNKNOWN" /\ built.reason = "no_match"
  <2>1. /\ Field(p, c) = Absent(p.capability[c], p.default[c])
        /\ Field(q, c) = Absent(q.capability[c], q.default[c])
    BY <1>2, <1>4 DEF Resolve
  <2>2. Grounded(p, c, Field(p, c))
    BY FieldIsGrounded
  <2>3. CASE Field(p, c).state = "ABSENT_DEFAULT"
    <3>1. p.capability[c].supported = "yes" /\ p.default[c].sourced
      BY <2>2, <2>3 DEF Grounded
    <3>2. Absent(p.capability[c], p.default[c]) =
             ClaimedAbsent("ABSENT_DEFAULT", p.default[c].value)
      BY <3>1 DEF Absent
    <3>3. Absent(q.capability[c], q.default[c]) =
             ClaimedAbsent("ABSENT_DEFAULT", p.default[c].value)
      BY <3>1, <1>1 DEF Absent
    <3> QED BY <2>1, <3>2, <3>3
  <2>4. CASE Field(p, c).state = "ABSENT_UNSUPPORTED"
    <3>1. p.capability[c].supported = "no" /\ p.capability[c].sourced
      BY <2>2, <2>4 DEF Grounded
    <3>2. \A claim, default : claim.supported = "no" /\ claim.sourced =>
             Absent(claim, default) = ClaimedAbsent("ABSENT_UNSUPPORTED", Nothing)
      BY DEF Absent
    <3> QED BY <2>1, <3>1, <3>2, <1>1
  <2>5. Field(p, c).state # "PRESENT"
    <3>1. CASE lines = <<>>
      <4>1. p.capability[c].supported \in {"yes", "no", "undocumented"}
        BY PacksAssumption
      <4> QED BY <2>2, <3>1 DEF Grounded
    <3>2. CASE lines # <<>>
      <4>1. \/ built = Unknown("conflicting_evidence", DOMAIN lines)
            \/ \E v : built = Present(v, DOMAIN lines)
        BY <3>2 DEF BuildField
      <4>2. ASSUME NEW cited PROVE Unknown("conflicting_evidence", cited).reason # "no_match"
        BY DEF Unknown
      <4>3. ASSUME NEW v, NEW cited PROVE Present(v, cited).state # "UNKNOWN"
        BY DEF Present
      <4> HIDE DEF built
      <4> QED BY <4>1, <4>2, <4>3, <1>4
    <3> QED BY <3>1, <3>2
  <2>6. Field(p, c).state \in {"PRESENT", "UNKNOWN", "ABSENT_DEFAULT", "ABSENT_UNSUPPORTED"}
    BY <2>2 DEF Grounded
  <2> QED BY <2>3, <2>4, <2>5, <2>6
<1> QED BY <1>3, <1>4

LEMMA KnowledgeFromIInv == IInv => KnowledgeOnlySettles
<1> SUFFICES ASSUME IInv, NEW m \in RunIndex, NEW n \in RunIndex,
                    runs[m].rules = runs[n].rules, Knows(runs[n].pack, runs[m].pack),
                    NEW x \in runs[m].findings, NEW y \in runs[n].findings,
                    x.rule = y.rule
             PROVE  x.finding.status \in {"unknown", y.finding.status}
  BY DEF KnowledgeOnlySettles
<1> DEFINE p == runs[m].pack
           q == runs[n].pack
<1>1. RunOK(runs[m]) /\ RunOK(runs[n])
  BY DEF IInv, RunsOK, RunIndex
<1>2. PICK d1 \in Deployments : Made(runs[m], d1.rulepack)
  BY <1>1 DEF RunOK
<1>3. PICK d2 \in Deployments : Made(runs[n], d2.rulepack)
  BY <1>1 DEF RunOK
<1>4. p \in Packs /\ q \in Packs /\ Knows(q, p) /\ d1.rulepack.rules = d2.rulepack.rules
  BY <1>1, <1>2, <1>3 DEF RunOK, Made
<1>5. /\ x \in Findings(d1.rulepack, p, runs[m].effective)
      /\ y \in Findings(d2.rulepack, q, runs[n].effective)
  BY <1>2, <1>3 DEF Made
<1> HIDE DEF p, q
<1>6. PICK r \in d1.rulepack.rules : IsOf(x, r, d1.rulepack, p)
  BY <1>5, FindingIsOfARule
<1>7. PICK s \in d2.rulepack.rules : IsOf(y, s, d2.rulepack, q)
  BY <1>5, FindingIsOfARule
<1>8. r = s
  BY <1>4, <1>6, <1>7 DEF IsOf
<1>9. /\ {r.onDefault, r.onUnsupported} \subseteq AbsenceAction
      /\ x.finding = Decided(r, p) /\ y.finding = Decided(r, q)
  BY <1>6, <1>7, <1>8 DEF IsOf
<1> DEFINE c == r.field
<1>10. CASE c \notin p.declared
  <2>1. x.finding = Abstain("no_match", NoField)
    BY <1>9, <1>10 DEF Decided
  <2>2. x.finding.status = "unknown"
    BY <2>1, UndeclaredIsUnknown
  <2> QED BY <2>2
<1>11. CASE c \in p.declared
  <2>1. c \in Control /\ c \in q.declared
    BY <1>4, <1>11, PacksAssumption DEF Knows
  <2>2. x.finding = Evaluate(r, Field(p, c)) /\ y.finding = Evaluate(r, Field(q, c))
    BY <1>9, <1>11, <2>1 DEF Decided
  <2>3. CASE Field(p, c) = Field(q, c)
    BY <2>2, <2>3
  <2>4. CASE Field(p, c).state = "UNKNOWN"
    <3> DEFINE f == Field(p, c)
    <3>1. Grounded(p, c, f)
      BY <1>4, <2>1, FieldIsGrounded
    <3>2. f.state = "UNKNOWN" => Evaluate(r, f).status = "unknown"
      <4> HIDE DEF f
      <4> QED BY <3>1, <1>9, VerdictIsGrounded
    <3> QED BY <3>2, <2>2, <2>4
  <2> QED BY <2>1, <2>3, <2>4, <1>4, SettledFieldsStay
<1> QED BY <1>10, <1>11

\* Learning more of a platform turns answers that abstained into verdicts and
\* changes no verdict, whichever rules and packs: undocumented is never read as
\* unsupported, nor a lack of lines as a default nobody documented.
THEOREM KnowledgeAlwaysOnlySettles == Spec => []KnowledgeOnlySettles
<1>1. IInv => KnowledgeOnlySettles
  BY KnowledgeFromIInv
<1> QED BY <1>1, Invariance, PTL

-----------------------------------------------------------------------------
(* No rule is lost.                                                        *)

LEMMA AccountedFromIInv == IInv => EveryRuleAccountedFor
<1> SUFFICES ASSUME IInv, NEW n \in RunIndex
             PROVE  LET reported == {x.rule : x \in runs[n].findings} IN
                    /\ reported # {}
                    /\ reported \cap runs[n].leftOut = {}
                    /\ reported \cup runs[n].leftOut =
                          {r.id : r \in {s \in runs[n].rules : s.applies}}
  BY DEF EveryRuleAccountedFor
<1>1. RunOK(runs[n])
  BY DEF IInv, RunsOK, RunIndex
<1>2. PICK d \in Deployments : Made(runs[n], d.rulepack)
  BY <1>1 DEF RunOK
<1> DEFINE rules == d.rulepack.rules
           effective == Effective(runs[n].selection, runs[n].pack.release)
           reported == {x.rule : x \in runs[n].findings}
<1>3. reported = {r.id : r \in Evaluated(d.rulepack, effective)}
  <2>1. runs[n].findings = Findings(d.rulepack, runs[n].pack, effective)
    BY <1>1, <1>2 DEF RunOK, Made
  <2> DEFINE finding(r) == IF r.field \in runs[n].pack.declared
                           THEN Evaluate(r, Field(runs[n].pack, r.field))
                           ELSE Abstain("no_match", NoField)
  <2>2. runs[n].findings =
           {[rule |-> r.id, severity |-> r.severity, field |-> r.field,
             finding |-> finding(r)] : r \in Evaluated(d.rulepack, effective)}
    BY <2>1 DEF Findings
  <2> DEFINE E == Evaluated(d.rulepack, effective)
  <2> HIDE DEF finding, E
  <2>3. \A x \in runs[n].findings : \E r \in E : x.rule = r.id
    BY <2>2 DEF E
  <2>4. ASSUME NEW r \in E PROVE \E x \in runs[n].findings : x.rule = r.id
    <3> DEFINE x == [rule |-> r.id, severity |-> r.severity, field |-> r.field,
                     finding |-> finding(r)]
    <3>1. x \in runs[n].findings /\ x.rule = r.id
      BY <2>2 DEF E
    <3> QED BY <3>1
  <2> QED BY <2>3, <2>4 DEF E
<1>4. runs[n].leftOut = {r.id : r \in {s \in rules :
                            s.applies /\ effective # {} /\ s.frameworks \cap effective = {}}}
  BY <1>2 DEF Made, LeftOut
<1>5. Evaluated(d.rulepack, effective) =
         {r \in rules : r.applies /\ (effective = {} \/ r.frameworks \cap effective # {})}
  BY DEF Evaluated
<1>6. \A r, s \in rules : r.id = s.id => r = s
  BY RulepacksAssumption
<1>7. runs[n].rules = rules
  BY <1>2 DEF Made
<1>8. reported # {}
  BY <1>1 DEF RunOK
<1> HIDE DEF rules, effective, reported
<1>9. reported \cap runs[n].leftOut = {}
  BY <1>3, <1>4, <1>5, <1>6
<1>10. reported \cup runs[n].leftOut = {r.id : r \in {s \in rules : s.applies}}
  BY <1>3, <1>4, <1>5
<1> QED BY <1>7, <1>8, <1>9, <1>10 DEF reported

\* For any selection of frameworks: a rule that applies to the device is
\* reported on or named as left out, never both, and no stored run is empty.
THEOREM EveryRuleAlwaysAccountedFor == Spec => []EveryRuleAccountedFor
<1>1. IInv => EveryRuleAccountedFor
  BY AccountedFromIInv
<1> QED BY <1>1, Invariance, PTL

-----------------------------------------------------------------------------
(* What a stored run is shown with.                                        *)

\* In a table with one entry for each rule, the entry of a rule is its own.
LEMMA EntryOfARule ==
    ASSUME NEW d \in Deployments, NEW r \in d.rulepack.rules, NEW g, NEW rel
    PROVE  Of({[rule |-> s.id, frameworks |-> Refs(g[s], rel)] : s \in d.rulepack.rules}, r.id)
              = Refs(g[r], rel)
<1> DEFINE table == {[rule |-> s.id, frameworks |-> Refs(g[s], rel)] : s \in d.rulepack.rules}
           entry == [rule |-> r.id, frameworks |-> Refs(g[r], rel)]
<1>1. entry \in table
  OBVIOUS
<1>2. ASSUME NEW x \in table, x.rule = r.id PROVE x = entry
  <2>1. PICK s \in d.rulepack.rules : x = [rule |-> s.id, frameworks |-> Refs(g[s], rel)]
    OBVIOUS
  <2>2. s.id = r.id
    BY <2>1, <1>2
  <2>3. s = r
    BY <2>2, RulepacksAssumption
  <2> QED BY <2>1, <2>3
<1>3. entry.rule = r.id /\ entry.frameworks = Refs(g[r], rel)
  OBVIOUS
<1> HIDE DEF table, entry
<1>4. {y \in table : y.rule = r.id} = {entry}
  BY <1>1, <1>2, <1>3
<1>5. Of(table, r.id) = UNION {x.frameworks : x \in {entry}}
  BY <1>4 DEF Of
<1>6. UNION {x.frameworks : x \in {entry}} = entry.frameworks
  OBVIOUS
<1> QED BY <1>3, <1>5, <1>6 DEF table

\* Beside a finding stand the references of its rule, if the rules of the day
\* are those that decided it, and none otherwise.
LEMMA ShownWithAFinding ==
    ASSUME IInv, NEW n \in RunIndex, NEW x \in runs[n].findings
    PROVE  \E r \in runs[n].rules :
              /\ r.id = x.rule
              /\ \A s \in runs[n].rules : s.id = x.rule => s = r
              /\ r.frameworks \cap r.declines = {}
              /\ Of(View(runs[n]).mappings, x.rule) =
                    IF Attached(runs[n]) THEN Refs(r.frameworks, Release) ELSE {}
              /\ Of(View(runs[n]).declined, x.rule) =
                    IF Attached(runs[n]) THEN Refs(r.declines, Release) ELSE {}
<1> DEFINE run == runs[n]
<1>1. RunOK(run)
  BY DEF IInv, RunsOK, RunIndex
<1>2. PICK d \in Deployments : Made(run, d.rulepack)
  BY <1>1 DEF RunOK
<1>3. run.rules = d.rulepack.rules
      /\ x \in Findings(d.rulepack, run.pack, run.effective)
  BY <1>2 DEF Made
<1>4. PICK r \in d.rulepack.rules : IsOf(x, r, d.rulepack, run.pack)
  <2> DEFINE p == run.pack
             effective == run.effective
  <2>1. x \in Findings(d.rulepack, p, effective)
    BY <1>3
  <2> HIDE DEF p, effective
  <2>2. \E r \in d.rulepack.rules : IsOf(x, r, d.rulepack, p)
    BY <2>1, FindingIsOfARule
  <2> QED BY <2>2 DEF p
<1>5. r.id = x.rule /\ \A s \in run.rules : s.id = x.rule => s = r
  BY <1>3, <1>4 DEF IsOf
<1>6. r.frameworks \cap r.declines = {}
  BY RulepacksAssumption
<1> HIDE DEF run
<1>7. CASE ~Attached(run)
  <2>1. View(run).mappings = {} /\ View(run).declined = {}
    BY <1>7 DEF View
  <2>2. Of({}, x.rule) = {}
    BY DEF Of
  <2> QED BY <2>1, <2>2, <1>3, <1>5, <1>6, <1>7 DEF run
<1>8. CASE Attached(run)
  <2>1. rulepack.rules = d.rulepack.rules
    BY <1>3, <1>8 DEF Attached
  <2> DEFINE maps == [s \in d.rulepack.rules |-> s.frameworks]
             declines == [s \in d.rulepack.rules |-> s.declines]
  <2>2. View(run).mappings =
           {[rule |-> s.id, frameworks |-> Refs(maps[s], Release)] : s \in d.rulepack.rules}
    BY <2>1, <1>8 DEF View, Mappings
  <2>3. View(run).declined =
           {[rule |-> s.id, frameworks |-> Refs(declines[s], Release)] : s \in d.rulepack.rules}
    BY <2>1, <1>8 DEF View
  <2>4. maps[r] = r.frameworks /\ declines[r] = r.declines
    OBVIOUS
  <2> HIDE DEF maps, declines
  <2>5. /\ Of(View(run).mappings, r.id) = Refs(r.frameworks, Release)
        /\ Of(View(run).declined, r.id) = Refs(r.declines, Release)
    <3> DEFINE rel == Release
    <3> HIDE DEF rel
    <3>1. \A g : Of({[rule |-> s.id, frameworks |-> Refs(g[s], rel)] :
                       s \in d.rulepack.rules}, r.id) = Refs(g[r], rel)
      BY EntryOfARule
    <3> QED BY <2>2, <2>3, <2>4, <3>1 DEF rel
  <2> QED BY <2>5, <1>3, <1>5, <1>6, <1>8 DEF run
<1> QED BY <1>7, <1>8

LEMMA AnswersAgree ==
    ASSUME IInv, NEW n \in RunIndex, NEW x \in Answer(runs[n])
    PROVE  /\ x.frameworks # {} =>
                 \E r \in runs[n].rules : r.id = x.rule /\ x.frameworks \subseteq r.frameworks
           /\ x.frameworks \cap x.declined = {}
           /\ (x.frameworks \cup x.declined) \cap {a.framework : a \in Absence(Release)} = {}
<1> DEFINE run == runs[n]
<1>1. PICK y \in run.findings :
         x = [rule |-> y.rule, severity |-> y.severity, finding |-> y.finding,
              frameworks |-> Of(View(run).mappings, y.rule),
              declined |-> Of(View(run).declined, y.rule),
              remedy |-> Remedy(y)]
  BY DEF Answer
<1>2. PICK r \in run.rules :
         /\ r.id = y.rule
         /\ r.frameworks \cap r.declines = {}
         /\ Of(View(run).mappings, y.rule) =
               IF Attached(run) THEN Refs(r.frameworks, Release) ELSE {}
         /\ Of(View(run).declined, y.rule) =
               IF Attached(run) THEN Refs(r.declines, Release) ELSE {}
  BY ShownWithAFinding
<1>3. x.rule = r.id /\ x.frameworks = Of(View(run).mappings, y.rule)
      /\ x.declined = Of(View(run).declined, y.rule)
  BY <1>1, <1>2
<1>4. /\ x.frameworks \subseteq Refs(r.frameworks, Release)
      /\ x.declined \subseteq Refs(r.declines, Release)
  BY <1>2, <1>3
<1>5. ASSUME NEW a \in Absence(Release) PROVE ~Covered(a.framework, Release)
  BY DEF Absence
<1>6. \A fs : \A f \in Refs(fs, Release) : f \in fs /\ Covered(f, Release)
  BY DEF Refs
<1>7. (x.frameworks \cup x.declined) \cap {a.framework : a \in Absence(Release)} = {}
  BY <1>4, <1>5, <1>6
<1>8. x.frameworks \subseteq r.frameworks /\ x.declined \subseteq r.declines
  BY <1>4, <1>6
<1> QED BY <1>2, <1>3, <1>7, <1>8

\* A report of the rules of the day denies mappings when none holds.
LEMMA DenialIsTrue ==
    ASSUME IInv, NEW n \in RunIndex, Attached(runs[n])
    PROVE  "no_mappings" \in Document(runs[n]).disclosures <=>
              \A x \in runs[n].findings, r \in runs[n].rules :
                 r.id = x.rule => Refs(r.frameworks, Release) = {}
<1> DEFINE run == runs[n]
           shown(x) == Of(View(run).mappings, x.rule)
           entry(x) == [rule |-> x.rule, severity |-> x.severity,
                        status |-> x.finding.status, reason |-> x.finding.reason,
                        frameworks |-> shown(x), remedy |-> Remedy(x)]
           reported == {entry(x) : x \in run.findings}
           cited == UNION {x.frameworks : x \in reported}
<1>1. run.findings # {}
  BY DEF IInv, RunsOK, RunIndex, RunOK
<1>2. Document(run).disclosures = Disclosures(reported, cited, Framework, library)
  BY DEF Document
<1>3. reported # {}
  BY <1>1
<1>4. "no_mappings" \in Disclosures(reported, cited, Framework, library) <=> cited = {}
  <2> HIDE DEF reported, cited
  <2> QED BY <1>3 DEF Disclosures
<1>5. \A x \in run.findings : entry(x).frameworks = shown(x)
  OBVIOUS
<1>6. cited = {} <=> \A x \in run.findings : shown(x) = {}
  <2> HIDE DEF shown, entry
  <2>1. \A x \in run.findings : entry(x) \in reported
    OBVIOUS
  <2>2. \A z \in reported : \E x \in run.findings : z = entry(x)
    OBVIOUS
  <2>3. cited = {} <=> \A z \in reported : z.frameworks = {}
    <3> HIDE DEF reported
    <3> QED OBVIOUS
  <2> HIDE DEF reported, cited
  <2> QED BY <2>1, <2>2, <2>3, <1>5
<1>7. ASSUME NEW x \in run.findings
      PROVE  shown(x) = {} <=> \A r \in run.rules : r.id = x.rule => Refs(r.frameworks, Release) = {}
  <2>1. PICK r \in run.rules :
           /\ r.id = x.rule
           /\ \A s \in run.rules : s.id = x.rule => s = r
           /\ shown(x) = IF Attached(run) THEN Refs(r.frameworks, Release) ELSE {}
    BY ShownWithAFinding
  <2>2. shown(x) = Refs(r.frameworks, Release)
    BY <2>1
  <2> HIDE DEF shown
  <2> QED BY <2>1, <2>2
<1> HIDE DEF shown, reported, cited
<1> QED BY <1>2, <1>4, <1>6, <1>7

LEMMA ViewAgreesFromIInv == IInv => ViewAgreesWithRun
<1> SUFFICES ASSUME IInv, NEW n \in RunIndex
             PROVE  LET run == runs[n] IN
                    Attached(run) /\ Release = run.pack.release =>
                       /\ View(run).effective = run.effective
                       /\ View(run).leftOut = run.leftOut
                       /\ \A o \in Offered(Release) : o.framework \in run.selection =>
                             (o.describes <=> o.framework \in run.effective)
  BY AnswersAgree, DenialIsTrue DEF ViewAgreesWithRun
<1> DEFINE run == runs[n]
<1> SUFFICES ASSUME Attached(run), Release = run.pack.release
             PROVE  /\ View(run).effective = run.effective
                    /\ View(run).leftOut = run.leftOut
                    /\ \A o \in Offered(Release) : o.framework \in run.selection =>
                          (o.describes <=> o.framework \in run.effective)
  OBVIOUS
<1>1. RunOK(run)
  BY DEF IInv, RunsOK, RunIndex
<1>2. PICK d \in Deployments : Made(run, d.rulepack)
  BY <1>1 DEF RunOK
<1>3. run.effective = Effective(run.selection, Release)
  BY <1>1 DEF RunOK
<1>4. View(run).effective = run.effective
  BY <1>3 DEF View
<1>5. View(run).leftOut = run.leftOut
  <2>1. View(run).leftOut = LeftOut(rulepack, run.selection, Release)
    BY DEF View
  <2>2. run.leftOut = LeftOut(d.rulepack, run.selection, Release)
    BY <1>2 DEF Made
  <2>3. rulepack.rules = d.rulepack.rules
    BY <1>2 DEF Made, Attached
  <2> QED BY <2>1, <2>2, <2>3 DEF LeftOut
<1>6. ASSUME NEW o \in Offered(Release), o.framework \in run.selection
      PROVE  o.describes <=> o.framework \in run.effective
  <2>1. PICK f \in Sourced : o = [framework |-> f, describes |-> Covered(f, Release)]
    BY DEF Offered
  <2>2. o.framework = f /\ o.describes = Covered(f, Release)
    BY <2>1
  <2> QED BY <2>2, <1>3, <1>6 DEF Effective
<1> QED BY <1>4, <1>5, <1>6

\* For any rules, editions and releases: identifiers and scope are shown beside
\* a verdict only when the rules shown are those that decided it, and then they
\* are what the audit used, unless the row holds another release than it read.
THEOREM ViewsAlwaysAgree == Spec => []ViewAgreesWithRun
<1>1. IInv => ViewAgreesWithRun
  BY ViewAgreesFromIInv
<1> QED BY <1>1, Invariance, PTL

-----------------------------------------------------------------------------
(* Ranks.                                                                  *)

\* A strict linear order, as a set of pairs.
Linear(D, R) ==
    /\ \A x \in D : <<x, x>> \notin R
    /\ \A x, y, z \in D : <<x, y>> \in R /\ <<y, z>> \in R => <<x, z>> \in R
    /\ \A x, y \in D : x = y \/ <<x, y>> \in R \/ <<y, x>> \in R

Before(D, R, x) == {y \in D : <<y, x>> \in R}

\* Counting what comes before gives each member of a finite linear order its
\* own number, with none left over, and the order of the numbers is the order.
LEMMA RanksOfALinearOrder ==
    ASSUME NEW D, IsFiniteSet(D), NEW R, Linear(D, R)
    PROVE  LET rank == [x \in D |-> 1 + Cardinality(Before(D, R, x))] IN
           /\ rank \in [D -> 1 .. Cardinality(D)]
           /\ {rank[x] : x \in D} = 1 .. Cardinality(D)
           /\ \A x, y \in D : <<x, y>> \in R <=> rank[x] < rank[y]
<1> DEFINE rank == [x \in D |-> 1 + Cardinality(Before(D, R, x))]
           N == Cardinality(D)
<1>1. N \in Nat
  BY FS_CardinalityType
<1>2. ASSUME NEW x \in D
      PROVE  /\ IsFiniteSet(Before(D, R, x)) /\ Cardinality(Before(D, R, x)) \in Nat
             /\ Cardinality(Before(D, R, x)) < N
  <2>1. Before(D, R, x) \in SUBSET D /\ x \notin Before(D, R, x)
    BY DEF Before, Linear
  <2>2. /\ IsFiniteSet(Before(D, R, x)) /\ Cardinality(Before(D, R, x)) <= N
        /\ Cardinality(D) = Cardinality(Before(D, R, x)) => D = Before(D, R, x)
    BY <2>1, FS_Subset
  <2>3. Cardinality(Before(D, R, x)) \in Nat
    BY <2>2, FS_CardinalityType
  <2>4. Cardinality(Before(D, R, x)) # N
    BY <2>1, <2>2
  <2> HIDE DEF N
  <2> QED BY <1>1, <2>2, <2>3, <2>4
<1>3. rank \in [D -> 1 .. N]
  <2>1. ASSUME NEW x \in D PROVE 1 + Cardinality(Before(D, R, x)) \in 1 .. N
    <3> DEFINE k == Cardinality(Before(D, R, x))
    <3>1. k \in Nat /\ k < N
      BY <1>2
    <3> HIDE DEF k, N
    <3> QED BY <1>1, <3>1 DEF k
  <2> QED BY <2>1
<1>4. ASSUME NEW x \in D, NEW y \in D, <<x, y>> \in R PROVE rank[x] < rank[y]
  <2>1. Before(D, R, x) \in SUBSET Before(D, R, y)
    BY <1>4 DEF Before, Linear
  <2>2. x \in Before(D, R, y) /\ x \notin Before(D, R, x)
    BY <1>4 DEF Before, Linear
  <2>3. /\ Cardinality(Before(D, R, x)) <= Cardinality(Before(D, R, y))
        /\ Cardinality(Before(D, R, x)) # Cardinality(Before(D, R, y))
    BY <1>2, <2>1, <2>2, FS_Subset
  <2> DEFINE k == Cardinality(Before(D, R, x))
             l == Cardinality(Before(D, R, y))
  <2>4. k \in Nat /\ l \in Nat /\ k <= l /\ k # l
    BY <1>2, <2>3
  <2>5. rank[x] = 1 + k /\ rank[y] = 1 + l
    OBVIOUS
  <2> HIDE DEF k, l, rank
  <2> QED BY <2>4, <2>5
<1> HIDE DEF rank, N
<1>5. ASSUME NEW x \in D, NEW y \in D PROVE <<x, y>> \in R <=> rank[x] < rank[y]
  <2>1. rank[x] \in Nat /\ rank[y] \in Nat
    BY <1>1, <1>3
  <2>2. x = y \/ <<x, y>> \in R \/ <<y, x>> \in R
    BY DEF Linear
  <2>3. x = y => <<x, y>> \notin R
    BY DEF Linear
  <2> QED BY <2>1, <2>2, <2>3, <1>4
<1>6. rank \in Surjection(D, 1 .. N)
  <2>1. rank \in Injection(D, 1 .. N)
    <3>1. ASSUME NEW x \in D, NEW y \in D, rank[x] = rank[y] PROVE x = y
      <4>1. rank[x] \in Nat
        BY <1>1, <1>3
      <4> QED BY <4>1, <3>1, <1>5 DEF Linear
    <3> QED BY <1>3, <3>1 DEF Injection, IsInjective
  <2>2. IsFiniteSet(1 .. N) /\ Cardinality(1 .. N) = N
    <3>1. 0 \in Int /\ N \in Int /\ 1 \in Int
      BY <1>1
    <3> QED BY <1>1, <3>1, FS_Interval
  <2>3. Cardinality(D) = Cardinality(1 .. N)
    BY <2>2 DEF N
  <2> QED BY <2>1, <2>2, <2>3, FS_Injection
<1>7. {rank[x] : x \in D} = 1 .. N
  BY <1>3, <1>6 DEF Surjection
<1> QED BY <1>3, <1>5, <1>7 DEF rank, N

LEMMA SeverityIsPlace ==
    ASSUME NEW s \in Range(Severities)
    PROVE  /\ Severity(s) \in 1 .. 5
           /\ Weight(s) = <<10, 8, 5, 3, 1>>[Severity(s)]
<1>1. DOMAIN Severities = 1 .. 5
  BY DEF Severities
<1>2. \E i \in DOMAIN Severities : Severities[i] = s
  BY DEF Range
<1>3. Severity(s) \in 1 .. 5
  BY <1>1, <1>2 DEF Severity
<1> QED BY <1>3 DEF Weight

\* Weights differ by two tenths, which four places of a fraction with a
\* denominator up to 2000 do not round away.
LEMMA RoundingKeepsOrder ==
    ASSUME NEW n \in Nat, NEW r \in Nat, 0 < r, r <= n, n <= 2000,
           NEW v \in Nat, NEW w \in Nat, v + 2 <= w
    PROVE  (2000 * r * v + n) \div (2 * n) < (2000 * r * w + n) \div (2 * n)
<1> DEFINE d == 2 * n
           a == 2000 * r * v + n
           b == 2000 * r * w + n
<1>1. d \in Nat /\ 0 < d /\ a \in Nat /\ b \in Nat
  OBVIOUS
<1>2. a + d <= b
  <2>1. n <= 2000 * r
    OBVIOUS
  <2>2. r * v + 2 * r <= r * w
    <3>1. r * w - (r * v + 2 * r) = r * (w - (v + 2))
      OBVIOUS
    <3>2. r * (w - (v + 2)) >= 0
      OBVIOUS
    <3>3. r * w \in Int /\ r * v \in Int /\ 2 * r \in Int
      OBVIOUS
    <3> QED BY <3>1, <3>2, <3>3
  <2> DEFINE rv == r * v
             rw == r * w
  <2>3. rv \in Nat /\ rw \in Nat /\ rv + 2 * r <= rw
    BY <2>2
  <2>4. 2000 * r * v = 2000 * rv /\ 2000 * r * w = 2000 * rw
    OBVIOUS
  <2> HIDE DEF rv, rw
  <2> QED BY <2>1, <2>3, <2>4
<1> HIDE DEF d, a, b
<1>3. ASSUME NEW x \in Nat
      PROVE  x \div d \in Int /\ d * (x \div d) <= x /\ x < d * (x \div d) + d
  BY <1>1
<1> DEFINE i == a \div d
           j == b \div d
<1>4. i \in Int /\ j \in Int /\ d * i <= a /\ b < d * j + d
  BY <1>1, <1>3
<1> HIDE DEF i, j
<1>5. d * i < d * j
  BY <1>1, <1>2, <1>4
<1>6. i < j
  <2>1. SUFFICES ASSUME j <= i PROVE FALSE
    BY <1>4
  <2>2. d * i - d * j = d * (i - j)
    BY <1>1, <1>4
  <2>3. d * (i - j) >= 0
    BY <1>1, <1>4, <2>1
  <2> QED BY <1>1, <1>4, <1>5, <2>2, <2>3
<1> QED BY <1>6 DEF i, j, a, b, d

\* How many interfaces are managed, and how many of those can be reached.
LEMMA InterfaceCounts ==
    ASSUME NEW interfaces, IsFiniteSet(interfaces)
    PROVE  LET management == Management(interfaces)
               n == Cardinality(management)
               r == Cardinality(Reachable(management))
           IN  n \in Nat /\ r \in Nat /\ r <= n /\ (Reachable(management) # {} => 0 < r)
<1> DEFINE management == Management(interfaces)
           reached == Reachable(management)
<1>1. management \in SUBSET interfaces /\ reached \in SUBSET management
  BY DEF Management, Reachable
<1>2. IsFiniteSet(management) /\ Cardinality(management) \in Nat
  BY <1>1, FS_Subset, FS_CardinalityType
<1>3. /\ IsFiniteSet(reached) /\ Cardinality(reached) \in Nat
      /\ Cardinality(reached) <= Cardinality(management)
  BY <1>1, <1>2, FS_Subset, FS_CardinalityType
<1>4. reached # {} => 0 < Cardinality(reached)
  BY <1>3, FS_EmptySet
<1> QED BY <1>2, <1>3, <1>4

LEMMA ScoreIsANumber ==
    ASSUME NEW model, IsFiniteSet(model.interfaces), NEW s \in Range(Severities)
    PROVE  Score(model, s) \in Nat
<1> DEFINE n == Cardinality(Management(model.interfaces))
           r == Cardinality(Reachable(Management(model.interfaces)))
           w == Weight(s)
<1>1. n \in Nat /\ r \in Nat
  BY InterfaceCounts
<1>2. w \in Nat
  BY SeverityIsPlace
<1>3. Score(model, s) = IF n = 0 THEN 0 ELSE (2000 * r * w + n) \div (2 * n)
  BY DEF Score
<1> HIDE DEF n, r, w
<1>4. n # 0 => (2000 * r * w + n) \div (2 * n) \in Nat
  <2> SUFFICES ASSUME n # 0 PROVE (2000 * r * w + n) \div (2 * n) \in Nat
    OBVIOUS
  <2> DEFINE a == 2000 * r * w + n
             d == 2 * n
  <2>1. a \in Nat /\ d \in Nat /\ 0 < d
    <3>1. r * w \in Nat
      BY <1>1, <1>2
    <3>2. 2000 * (r * w) \in Nat /\ 2000 * r * w = 2000 * (r * w)
      BY <1>1, <1>2, <3>1
    <3> QED BY <1>1, <3>1, <3>2
  <2> HIDE DEF a, d
  <2>2. a \div d \in Nat
    BY <2>1
  <2> QED BY <2>2 DEF a, d
<1> QED BY <1>3, <1>4

\* Where the management plane can be reached, through no more than 2000
\* interfaces, the more severe control scores higher.
LEMMA SeverityRaisesScore ==
    ASSUME NEW model, IsFiniteSet(model.interfaces),
           Cardinality(Management(model.interfaces)) <= 2000,
           Reachable(Management(model.interfaces)) # {},
           NEW s \in Range(Severities), NEW t \in Range(Severities),
           Severity(s) < Severity(t)
    PROVE  Score(model, t) < Score(model, s)
<1> DEFINE n == Cardinality(Management(model.interfaces))
           r == Cardinality(Reachable(Management(model.interfaces)))
           v == Weight(t)
           w == Weight(s)
<1>1. n \in Nat /\ r \in Nat /\ r <= n /\ 0 < r /\ n <= 2000
  BY InterfaceCounts
<1>2. v \in Nat /\ w \in Nat /\ v + 2 <= w
  BY SeverityIsPlace
<1>3. /\ Score(model, s) = IF n = 0 THEN 0 ELSE (2000 * r * w + n) \div (2 * n)
      /\ Score(model, t) = IF n = 0 THEN 0 ELSE (2000 * r * v + n) \div (2 * n)
  BY DEF Score
<1> HIDE DEF n, r, v, w
<1>4. n # 0
  BY <1>1
<1>5. (2000 * r * v + n) \div (2 * n) < (2000 * r * w + n) \div (2 * n)
  BY <1>1, <1>2, RoundingKeepsOrder
<1> QED BY <1>3, <1>4, <1>5

\* Findings of an audit: finitely many, one of a rule.
FewFindings(F) ==
    /\ IsFiniteSet(F)
    /\ \A x \in F : x.rule \in Nat /\ x.severity \in Range(Severities)
    /\ \A x, y \in F : x.rule = y.rule => x = y

LEMMA FindingsAreFew ==
    ASSUME NEW d \in Deployments, NEW p, NEW effective
    PROVE  FewFindings(Findings(d.rulepack, p, effective))
<1> DEFINE E == Evaluated(d.rulepack, effective)
           entry == [r \in E |->
                       [rule |-> r.id, severity |-> r.severity, field |-> r.field,
                        finding |-> Decided(r, p)]]
           F == Findings(d.rulepack, p, effective)
<1>1. F = {entry[r] : r \in E}
  BY DEF Findings, Decided
<1>2. E \in SUBSET d.rulepack.rules
  BY DEF Evaluated
<1>3. /\ IsFiniteSet(d.rulepack.rules)
      /\ \A r \in d.rulepack.rules : r.id \in Nat /\ r.severity \in Range(Severities)
      /\ \A r, s \in d.rulepack.rules : r.id = s.id => r = s
  BY RulepacksAssumption
<1>4. \A r \in E : entry[r].rule = r.id /\ entry[r].severity = r.severity
  OBVIOUS
<1> HIDE DEF E, entry, F
<1>5. IsFiniteSet(F)
  <2>1. IsFiniteSet(E)
    BY <1>2, <1>3, FS_Subset
  <2>2. entry \in Surjection(E, F)
    BY <1>1 DEF Surjection, entry
  <2> QED BY <2>1, <2>2, FS_Surjection
<1>6. \A x \in F : x.rule \in Nat /\ x.severity \in Range(Severities)
  BY <1>1, <1>2, <1>3, <1>4
<1>7. \A x, y \in F : x.rule = y.rule => x = y
  BY <1>1, <1>2, <1>3, <1>4
<1> QED BY <1>5, <1>6, <1>7 DEF FewFindings, F

Determined(model, F) == {x \in F : Determinacy(model, x.field) = "determined"}

Exposed(model, D) == {q \in D \X D : MoreExposed(model, q[1], q[2])}

LEMMA ExposureIsLinear ==
    ASSUME NEW model, IsFiniteSet(model.interfaces), NEW F, FewFindings(F)
    PROVE  LET D == Determined(model, F) IN
           IsFiniteSet(D) /\ Linear(D, Exposed(model, D))
<1> DEFINE D == Determined(model, F)
<1>1. D \in SUBSET F
  BY DEF Determined
<1>2. \A x \in D : Score(model, x.severity) \in Nat /\ x.rule \in Nat
  BY <1>1, ScoreIsANumber DEF FewFindings
<1>3. \A x, y \in D : x.rule = y.rule => x = y
  BY <1>1 DEF FewFindings
<1>4. IsFiniteSet(D)
  BY <1>1, FS_Subset DEF FewFindings
<1> HIDE DEF D
<1>5. \A x, y \in D : <<x, y>> \in Exposed(model, D) <=> MoreExposed(model, x, y)
  BY DEF Exposed
<1>6. \A x \in D : ~MoreExposed(model, x, x)
  BY <1>2 DEF MoreExposed
<1>7. \A x, y, z \in D : MoreExposed(model, x, y) /\ MoreExposed(model, y, z) =>
                            MoreExposed(model, x, z)
  BY <1>2 DEF MoreExposed
<1>8. \A x, y \in D : x = y \/ MoreExposed(model, x, y) \/ MoreExposed(model, y, x)
  BY <1>2, <1>3 DEF MoreExposed
<1>9. Linear(D, Exposed(model, D))
  BY <1>5, <1>6, <1>7, <1>8 DEF Linear
<1> QED BY <1>4, <1>9 DEF D

\* The ranked entries of a ranking are those of the findings whose exposure is
\* determined, each with its number in the order of exposure.
LEMMA RankingOfFindings ==
    ASSUME NEW model, IsFiniteSet(model.interfaces), NEW F, FewFindings(F)
    PROVE  LET D == Determined(model, F)
               ranking == Prioritise(model, F)
               ranked == {x \in ranking : x.rank # 0}
           IN  /\ {x.rank : x \in ranked} = 1 .. Cardinality(ranked)
               /\ \A x \in ranked : \E y \in D : x.field = y.field
               /\ \A x \in ranking : \/ x \in ranked
                                     \/ Determinacy(model, x.field) # "determined"
               /\ \A x, y \in ranked : x.rank < y.rank =>
                     \E a, b \in D : /\ x.severity = a.severity /\ y.severity = b.severity
                                     /\ MoreExposed(model, a, b)
<1> DEFINE D == Determined(model, F)
           R == Exposed(model, D)
           rank == [x \in D |-> 1 + Cardinality(Before(D, R, x))]
           N == Cardinality(D)
           entry == [x \in F |->
                       [rule |-> x.rule, severity |-> x.severity, field |-> x.field,
                        exposure |-> Determinacy(model, x.field),
                        rank |-> IF x \in D THEN rank[x] ELSE 0]]
           ranking == Prioritise(model, F)
           ranked == {x \in ranking : x.rank # 0}
<1>1. IsFiniteSet(D) /\ Linear(D, R)
  BY ExposureIsLinear
<1>2. \A x \in D : Before(D, R, x) = {y \in D : MoreExposed(model, y, x)}
  <2> HIDE DEF D
  <2> QED BY DEF Before, Exposed
<1>3. ranking = {entry[x] : x \in F}
  <2>1. D = {x \in F : Determinacy(model, x.field) = "determined"}
    BY DEF Determined
  <2> HIDE DEF D
  <2>2. ranking = {[rule |-> x.rule, severity |-> x.severity, field |-> x.field,
                    exposure |-> Determinacy(model, x.field),
                    rank |-> IF x \in D
                             THEN 1 + Cardinality({y \in D : MoreExposed(model, y, x)})
                             ELSE 0] : x \in F}
    BY <2>1 DEF Prioritise
  <2>3. \A x \in F : entry[x] =
           [rule |-> x.rule, severity |-> x.severity, field |-> x.field,
            exposure |-> Determinacy(model, x.field),
            rank |-> IF x \in D
                     THEN 1 + Cardinality({y \in D : MoreExposed(model, y, x)})
                     ELSE 0]
    BY <1>2
  <2> HIDE DEF entry, ranking, R, rank
  <2> QED BY <2>2, <2>3
<1>4. /\ rank \in [D -> 1 .. N]
      /\ {rank[x] : x \in D} = 1 .. N
      /\ \A x, y \in D : <<x, y>> \in R <=> rank[x] < rank[y]
  <2> HIDE DEF D, R
  <2> QED BY <1>1, RanksOfALinearOrder
<1>5. /\ D \in SUBSET F
      /\ \A x \in F : x \in D <=> Determinacy(model, x.field) = "determined"
      /\ \A x, y \in F : x.rule = y.rule => x = y
      /\ \A x, y \in D : <<x, y>> \in R <=> MoreExposed(model, x, y)
  BY DEF Determined, Exposed, FewFindings
<1>6. \A x \in F : /\ entry[x].rule = x.rule /\ entry[x].severity = x.severity
                   /\ entry[x].field = x.field
                   /\ entry[x].rank = IF x \in D THEN rank[x] ELSE 0
  OBVIOUS
<1>7. N \in Nat
  BY <1>1, FS_CardinalityType
<1> HIDE DEF D, R, rank, N, entry, ranking
<1>8. \A x \in D : rank[x] \in Nat /\ rank[x] # 0
  BY <1>4, <1>7
<1>9. ranked = {entry[x] : x \in D}
  BY <1>3, <1>5, <1>6, <1>8
<1>10. \A x \in D : entry[x].rank = rank[x]
  BY <1>5, <1>6
<1>11. Cardinality(ranked) = N
  <2> DEFINE f == [x \in D |-> entry[x]]
  <2>1. f \in Surjection(D, ranked)
    BY <1>9 DEF Surjection
  <2>2. f \in Injection(D, ranked)
    <3>1. ASSUME NEW x \in D, NEW y \in D, entry[x] = entry[y] PROVE x = y
      BY <3>1, <1>5, <1>6
    <3>2. f \in [D -> ranked]
      BY <1>9
    <3> HIDE DEF ranked
    <3> QED BY <3>1, <3>2 DEF Injection, IsInjective
  <2> HIDE DEF f, ranked
  <2>3. IsFiniteSet(ranked) /\ (Cardinality(ranked) = Cardinality(D) <=> f \in Injection(D, ranked))
    BY <1>1, <2>1, FS_Surjection
  <2> QED BY <2>2, <2>3 DEF N
<1>12. {x.rank : x \in ranked} = 1 .. Cardinality(ranked)
  <2>1. {x.rank : x \in ranked} = {rank[x] : x \in D}
    BY <1>9, <1>10
  <2> QED BY <2>1, <1>4, <1>11
<1>13. \A x \in ranked : \E y \in D : x.field = y.field
  BY <1>5, <1>6, <1>9
<1>14. \A x \in ranking : x \in ranked \/ Determinacy(model, x.field) # "determined"
  BY <1>3, <1>5, <1>6, <1>9
<1>15. ASSUME NEW x \in ranked, NEW y \in ranked, x.rank < y.rank
       PROVE  \E a, b \in D : /\ x.severity = a.severity /\ y.severity = b.severity
                              /\ MoreExposed(model, a, b)
  <2>1. PICK a \in D : x = entry[a]
    BY <1>9
  <2>2. PICK b \in D : y = entry[b]
    BY <1>9
  <2>3. rank[a] < rank[b]
    BY <2>1, <2>2, <1>10, <1>15
  <2> QED BY <2>1, <2>2, <2>3, <1>4, <1>5, <1>6
<1> QED BY <1>12, <1>13, <1>14, <1>15 DEF D, ranking

\* In no pack does a file manage a device through more than 2000 interfaces,
\* above which four places round two severities to one score.
FewManaged == \A p \in Packs : Cardinality(Management(p.interfaces)) <= 2000

LEMMA RanksFromIInv == IInv /\ FewManaged => RanksAreEarned
<1> SUFFICES ASSUME IInv, FewManaged, NEW n \in RunIndex
             PROVE  LET model == runs[n].pack
                        ranking == runs[n].ranking
                        ranked == {x \in ranking : x.rank # 0}
                    IN  /\ {x.rank : x \in ranked} = 1 .. Cardinality(ranked)
                        /\ ranked # {} =>
                              /\ model.acls /\ model.interfaces # {}
                              /\ \/ \E i \in model.interfaces : i.management = "yes"
                                 \/ \A i \in model.interfaces : i.management = "no"
                              /\ ranked = {x \in ranking : x.field \in ExposureRelevant}
                        /\ Reachable(Management(model.interfaces)) # {} =>
                              \A x, y \in ranked :
                                 x.rank < y.rank => Severity(x.severity) <= Severity(y.severity)
  BY DEF RanksAreEarned
<1> DEFINE model == runs[n].pack
           F == runs[n].findings
           D == Determined(model, F)
           ranking == Prioritise(model, F)
           ranked == {x \in ranking : x.rank # 0}
<1>1. RunOK(runs[n])
  BY DEF IInv, RunsOK, RunIndex
<1>2. model \in Packs /\ runs[n].ranking = ranking
  BY <1>1 DEF RunOK
<1>3. /\ IsFiniteSet(model.interfaces)
      /\ \A i \in model.interfaces : i.management \in {"yes", "no", "unknown"}
      /\ Cardinality(Management(model.interfaces)) <= 2000
  BY <1>2, PacksAssumption DEF FewManaged
<1>4. FewFindings(F)
  <2>1. PICK d \in Deployments : Made(runs[n], d.rulepack)
    BY <1>1 DEF RunOK
  <2>2. F = Findings(d.rulepack, model, runs[n].effective)
    BY <2>1 DEF Made
  <2> DEFINE p == model
             effective == runs[n].effective
  <2> HIDE DEF p, effective, F
  <2>3. FewFindings(Findings(d.rulepack, p, effective))
    BY FindingsAreFew
  <2> QED BY <2>2, <2>3 DEF p, effective
<1>5. F = runs[n].findings
  OBVIOUS
<1> HIDE DEF model, F, ranking
<1>6. /\ {x.rank : x \in ranked} = 1 .. Cardinality(ranked)
      /\ \A x \in ranked : \E y \in D : x.field = y.field
      /\ \A x \in ranking : x \in ranked \/ Determinacy(model, x.field) # "determined"
      /\ \A x, y \in ranked : x.rank < y.rank =>
            \E a, b \in D : /\ x.severity = a.severity /\ y.severity = b.severity
                            /\ MoreExposed(model, a, b)
  BY <1>3, <1>4, RankingOfFindings DEF ranking
<1>7. ASSUME ranked # {}
      PROVE  /\ model.acls /\ model.interfaces # {}
             /\ \/ \E i \in model.interfaces : i.management = "yes"
                \/ \A i \in model.interfaces : i.management = "no"
             /\ ranked = {x \in ranking : x.field \in ExposureRelevant}
  <2>1. PICK z \in D : TRUE
    BY <1>6, <1>7
  <2>2. Determinacy(model, z.field) = "determined"
    BY DEF Determined
  <2>3. /\ z.field \in ExposureRelevant /\ model.interfaces # {} /\ model.acls
        /\ Management(model.interfaces) # {} \/ Indeterminate(model.interfaces) = {}
    BY <2>2 DEF Determinacy
  <2>4. \/ \E i \in model.interfaces : i.management = "yes"
        \/ \A i \in model.interfaces : i.management = "no"
    BY <2>3, <1>3 DEF Management, Indeterminate
  <2>5. \A f : Determinacy(model, f) = "determined" <=> f \in ExposureRelevant
    BY <2>3 DEF Determinacy
  <2>6. ranked = {x \in ranking : x.field \in ExposureRelevant}
    <3>1. \A y \in D : Determinacy(model, y.field) = "determined"
      BY DEF Determined
    <3> QED BY <3>1, <2>5, <1>6
  <2> QED BY <2>3, <2>4, <2>6
<1>8. ASSUME Reachable(Management(model.interfaces)) # {}, NEW x \in ranked, NEW y \in ranked,
             x.rank < y.rank
      PROVE  Severity(x.severity) <= Severity(y.severity)
  <2>1. PICK a \in D, b \in D : /\ x.severity = a.severity /\ y.severity = b.severity
                                /\ MoreExposed(model, a, b)
    BY <1>6, <1>8
  <2>2. a.severity \in Range(Severities) /\ b.severity \in Range(Severities)
    BY <1>4 DEF Determined, FewFindings
  <2>3. Severity(a.severity) \in 1 .. 5 /\ Severity(b.severity) \in 1 .. 5
    BY <2>2, SeverityIsPlace
  <2>4. Score(model, a.severity) \in Nat /\ Score(model, b.severity) \in Nat
    BY <2>2, <1>3, ScoreIsANumber
  <2>5. Score(model, a.severity) >= Score(model, b.severity)
    BY <2>1, <2>4 DEF MoreExposed
  <2>6. ~ Severity(b.severity) < Severity(a.severity)
    BY <2>2, <2>4, <2>5, <1>3, <1>8, SeverityRaisesScore
  <2> QED BY <2>1, <2>3, <2>6
<1> QED BY <1>2, <1>6, <1>7, <1>8 DEF model

\* "Severity alone must not determine remediation order", for any rules and any
\* interfaces: ranks are 1 to the number of the ranked, each given once and only
\* where the file settles the exposure, to every control whose exposure counts;
\* where the management plane can be reached, the more severe comes first.
THEOREM RanksAlwaysEarned ==
    ASSUME FewManaged
    PROVE  Spec => []RanksAreEarned
<1>1. IInv => RanksAreEarned
  BY RanksFromIInv
<1> QED BY <1>1, Invariance, PTL

-----------------------------------------------------------------------------
(* The order of the commands.                                              *)

\* What holds of 0 and of the successor of each number it holds of.
LEMMA ByCounting ==
    ASSUME NEW T, 0 \in T, \A n \in Nat : n \in T => n + 1 \in T
    PROVE  \A n \in Nat : n \in T
<1> DEFINE R == OpToRel(<, Nat)
           C == {n \in Nat : n \notin T}
<1> SUFFICES ASSUME C # {} PROVE FALSE
  OBVIOUS
<1>1. PICK m \in C : \A n \in C : ~(<<n, m>> \in R)
  <2>1. IsWellFoundedOn(R, Nat)
    BY NatLessThanWellFounded
  <2>2. C \in SUBSET Nat
    OBVIOUS
  <2> HIDE DEF R, C
  <2> QED BY <2>1, <2>2, WFMin
<1>2. m \in Nat /\ m # 0 /\ m - 1 \in Nat /\ (m - 1) + 1 = m
  OBVIOUS
<1>3. m - 1 \in T
  <2> SUFFICES ASSUME m - 1 \notin T PROVE FALSE
    OBVIOUS
  <2>1. m - 1 \in C
    BY <1>2
  <2>2. <<m - 1, m>> \in R
    BY <1>2 DEF OpToRel
  <2> QED BY <1>1, <2>1, <2>2
<1> QED BY <1>2, <1>3

\* A set of numbers has its least member.
LEMMA LeastIsAMember ==
    ASSUME NEW S \in SUBSET Nat, S # {}
    PROVE  Min(S) \in S
<1> DEFINE R == OpToRel(<, Nat)
<1>1. PICK x \in S : \A y \in S : ~(<<y, x>> \in R)
  <2>1. IsWellFoundedOn(R, Nat)
    BY NatLessThanWellFounded
  <2> HIDE DEF R
  <2> QED BY <2>1, WFMin
<1>2. \A y \in S : x <= y
  <2> SUFFICES ASSUME NEW y \in S, ~(x <= y) PROVE <<y, x>> \in R
    BY <1>1
  <2>1. y < x
    OBVIOUS
  <2> QED BY <2>1 DEF OpToRel
<1> QED BY <1>2 DEF Min

LEMMA FirstOfALinearOrder ==
    ASSUME NEW D, IsFiniteSet(D), D # {}, NEW R, Linear(D, R)
    PROVE  \E x \in D : \A y \in D \ {x} : <<x, y>> \in R
<1> DEFINE rank == [x \in D |-> 1 + Cardinality(Before(D, R, x))]
           N == Cardinality(D)
<1>1. N \in Nat /\ N # 0
  BY FS_CardinalityType, FS_EmptySet
<1>2. /\ rank \in [D -> 1 .. N]
      /\ {rank[x] : x \in D} = 1 .. N
      /\ \A x, y \in D : <<x, y>> \in R <=> rank[x] < rank[y]
  BY RanksOfALinearOrder
<1> HIDE DEF rank, N
<1>3. 1 \in 1 .. N
  BY <1>1
<1>4. PICK x \in D : rank[x] = 1
  BY <1>2, <1>3
<1>5. ASSUME NEW y \in D \ {x} PROVE <<x, y>> \in R
  <2>1. <<x, y>> \in R \/ <<y, x>> \in R
    BY <1>5 DEF Linear
  <2>2. rank[y] \in 1 .. N
    BY <1>2
  <2> QED BY <2>1, <2>2, <1>1, <1>2, <1>4
<1> QED BY <1>5

\* Snippets that can be put in order: finitely many, each with an identifier
\* of its own, and some of any of them free of the others.
Orderable(S) ==
    /\ IsFiniteSet(S)
    /\ \A s \in S : s.id \in Nat /\ s.risk \in Nat /\ s.hint \in Nat
    /\ \A s, t \in S : s.id = t.id => s = t
    /\ \A P \in SUBSET S : P # {} => Ready(P) # {}

LEMMA SoonestIsThere ==
    ASSUME NEW S, Orderable(S), NEW P \in SUBSET S, P # {}
    PROVE  Ready(P) # {} /\ Soonest(Ready(P)) \in Ready(P) /\ Soonest(Ready(P)) \in P
<1> DEFINE D == Ready(P)
           R == {q \in D \X D : Sooner(q[1], q[2])}
<1>1. D \in SUBSET P /\ D # {}
  BY DEF Ready, Orderable
<1>2. /\ \A s \in D : s.id \in Nat /\ s.risk \in Nat /\ s.hint \in Nat
      /\ \A s, t \in D : s.id = t.id => s = t
  BY <1>1 DEF Orderable
<1>3. IsFiniteSet(D)
  BY <1>1, FS_Subset DEF Orderable
<1> HIDE DEF D
<1>4. \A s, t \in D : <<s, t>> \in R <=> Sooner(s, t)
  OBVIOUS
<1>5. /\ \A s \in D : ~Sooner(s, s)
      /\ \A s, t, u \in D : Sooner(s, t) /\ Sooner(t, u) => Sooner(s, u)
      /\ \A s, t \in D : s = t \/ Sooner(s, t) \/ Sooner(t, s)
  BY <1>2 DEF Sooner
<1> HIDE DEF R
<1>6. Linear(D, R)
  BY <1>4, <1>5 DEF Linear
<1>7. \E s \in D : \A t \in D \ {s} : Sooner(s, t)
  <2>1. \E s \in D : \A t \in D \ {s} : <<s, t>> \in R
    BY <1>1, <1>3, <1>6, FirstOfALinearOrder
  <2> QED BY <2>1, <1>4
<1>8. Soonest(D) \in D
  BY <1>7 DEF Soonest
<1> QED BY <1>1, <1>8 DEF D

\* f puts the snippets of each member of Q in order.
Placing(f, Q) ==
    f = [P \in Q |->
           IF Ready(P) = {} THEN <<>>
           ELSE <<Soonest(Ready(P))>> \o f[P \ {Soonest(Ready(P))}]]

UpTo(S, n) == {P \in SUBSET S : Cardinality(P) <= n}

LEMMA OneLess ==
    ASSUME NEW S, IsFiniteSet(S), NEW P \in SUBSET S, NEW s \in P
    PROVE  /\ IsFiniteSet(P) /\ Cardinality(P) \in Nat
           /\ Cardinality(P \ {s}) \in Nat /\ Cardinality(P) = Cardinality(P \ {s}) + 1
<1>1. IsFiniteSet(P) /\ Cardinality(P) \in Nat
  BY FS_Subset, FS_CardinalityType
<1>2. IsFiniteSet(P \ {s}) /\ Cardinality(P \ {s}) = Cardinality(P) - 1
  BY <1>1, FS_RemoveElement
<1>3. Cardinality(P \ {s}) \in Nat
  BY <1>2, FS_CardinalityType
<1> QED BY <1>1, <1>2, <1>3

\* The recursion of order_snippets has a result: it shrinks what is pending.
LEMMA OrderExists ==
    ASSUME NEW S, Orderable(S)
    PROVE  \E f : Placing(f, SUBSET S)
<1> DEFINE T == {n \in Nat : \E f : Placing(f, UpTo(S, n))}
<1>1. IsFiniteSet(S)
  BY DEF Orderable
<1>2. 0 \in T
  <2> DEFINE f == [P \in UpTo(S, 0) |-> <<>>]
  <2>1. ASSUME NEW P \in UpTo(S, 0) PROVE Ready(P) = {}
    <3>1. P = {}
      <4>1. IsFiniteSet(P) /\ Cardinality(P) \in Nat /\ Cardinality(P) <= 0
        BY <1>1, FS_Subset, FS_CardinalityType DEF UpTo
      <4>2. Cardinality(P) = 0
        BY <4>1
      <4> QED BY <4>1, <4>2, FS_EmptySet
    <3> QED BY <3>1 DEF Ready
  <2>2. Placing(f, UpTo(S, 0))
    BY <2>1 DEF Placing
  <2> QED BY <2>2
<1>3. ASSUME NEW n \in Nat, n \in T PROVE n + 1 \in T
  <2>1. PICK f : Placing(f, UpTo(S, n))
    BY <1>3
  <2> DEFINE step(g, P) == IF Ready(P) = {} THEN <<>>
                           ELSE <<Soonest(Ready(P))>> \o g[P \ {Soonest(Ready(P))}]
             h == [P \in UpTo(S, n + 1) |-> step(f, P)]
  <2>2. \A P \in UpTo(S, n) : f[P] = step(f, P)
    BY <2>1 DEF Placing
  <2>3. UpTo(S, n) \in SUBSET UpTo(S, n + 1)
    <3>1. ASSUME NEW P \in UpTo(S, n) PROVE P \in UpTo(S, n + 1)
      <4>1. IsFiniteSet(P) /\ Cardinality(P) \in Nat /\ Cardinality(P) <= n /\ P \in SUBSET S
        BY <1>1, FS_Subset, FS_CardinalityType DEF UpTo
      <4>2. Cardinality(P) <= n + 1
        BY <4>1
      <4> QED BY <4>1, <4>2 DEF UpTo
    <3> QED BY <3>1
  <2>4. \A P \in UpTo(S, n) : h[P] = f[P]
    <3> HIDE DEF step
    <3> QED BY <2>2, <2>3
  <2>5. ASSUME NEW P \in UpTo(S, n + 1), Ready(P) # {}
        PROVE  P \ {Soonest(Ready(P))} \in UpTo(S, n)
    <3>1. P \in SUBSET S /\ Cardinality(P) <= n + 1
      BY DEF UpTo
    <3>2. P # {}
      BY <2>5 DEF Ready
    <3> DEFINE s == Soonest(Ready(P))
    <3>3. s \in P
      BY <3>1, <3>2, SoonestIsThere
    <3> HIDE DEF s
    <3>4. Cardinality(P \ {s}) \in Nat /\ Cardinality(P) = Cardinality(P \ {s}) + 1
      BY <1>1, <3>1, <3>3, OneLess
    <3>5. Cardinality(P \ {s}) <= n
      BY <3>1, <3>4
    <3> QED BY <3>1, <3>5 DEF UpTo, s
  <2>6. \A P \in UpTo(S, n + 1) : step(h, P) = step(f, P)
    <3> SUFFICES ASSUME NEW P \in UpTo(S, n + 1) PROVE step(h, P) = step(f, P)
      OBVIOUS
    <3> HIDE DEF h
    <3>1. Ready(P) # {} => h[P \ {Soonest(Ready(P))}] = f[P \ {Soonest(Ready(P))}]
      BY <2>4, <2>5
    <3> QED BY <3>1
  <2>7. h = [P \in UpTo(S, n + 1) |-> step(h, P)]
    <3> HIDE DEF step
    <3> QED BY <2>6
  <2>8. Placing(h, UpTo(S, n + 1))
    <3> HIDE DEF h
    <3> QED BY <2>7 DEF Placing
  <2> QED BY <2>8
<1>4. \A n \in Nat : n \in T
  <2> HIDE DEF T
  <2> QED BY <1>2, <1>3, ByCounting
<1>5. Cardinality(S) \in T
  BY <1>1, <1>4, FS_CardinalityType
<1>6. UpTo(S, Cardinality(S)) = SUBSET S
  BY <1>1, FS_Subset DEF UpTo
<1> QED BY <1>5, <1>6

LEMMA OrderIsPlacing ==
    ASSUME NEW S, Orderable(S)
    PROVE  \E f : Placing(f, SUBSET S) /\ OrderSnippets(S) = f[S]
<1> DEFINE f == CHOOSE g : Placing(g, SUBSET S)
<1>1. Placing(f, SUBSET S)
  BY OrderExists
<1>2. OrderSnippets(S) = f[S]
  BY DEF OrderSnippets, Placing
<1> HIDE DEF f
<1> QED BY <1>1, <1>2

\* A sequence of the members of P, none of which comes before a prerequisite.
Placed(P, t) ==
    /\ t \in Seq(P)
    /\ Len(t) = Cardinality(P)
    /\ P = {t[i] : i \in 1 .. Len(t)}
    /\ \A i, j \in 1 .. Len(t) : i < j => t[j].id \notin t[i].deps

\* One more, free of the rest, before them.
LEMMA PlacedBefore ==
    ASSUME NEW P, NEW s \in Ready(P), NEW t, Placed(P \ {s}, t),
           Cardinality(P) = Cardinality(P \ {s}) + 1
    PROVE  Placed(P, <<s>> \o t)
<1> DEFINE u == <<s>> \o t
           n == Len(t)
<1>1. s \in P /\ \A r \in P \ {s} : r.id \notin s.deps
  BY DEF Ready
<1>2. t \in Seq(P \ {s}) /\ n \in Nat
  BY DEF Placed
<1>3. t \in Seq(P) /\ <<s>> \in Seq(P) /\ Len(<<s>>) = 1 /\ <<s>>[1] = s
  <2>1. P \ {s} \subseteq P
    OBVIOUS
  <2>2. t \in Seq(P)
    BY <1>2, <2>1, SeqMonotonic
  <2> QED BY <1>1, <2>2
<1>4. /\ u \in Seq(P) /\ Len(u) = 1 + n
      /\ \A i \in 1 .. 1 + n : u[i] = IF i <= 1 THEN <<s>>[i] ELSE t[i - 1]
  BY <1>3, ConcatProperties
<1>5. u[1] = s /\ \A i \in 2 .. 1 + n : u[i] = t[i - 1] /\ i - 1 \in 1 .. n
  BY <1>2, <1>3, <1>4
<1>6. /\ \A i \in 1 .. n : t[i] \in P \ {s} /\ i + 1 \in 2 .. 1 + n
      /\ P \ {s} = {t[i] : i \in 1 .. n}
      /\ \A i, j \in 1 .. n : i < j => t[j].id \notin t[i].deps
  <2>1. /\ P \ {s} = {t[i] : i \in 1 .. n}
        /\ \A i, j \in 1 .. n : i < j => t[j].id \notin t[i].deps
    BY DEF Placed
  <2>2. \A i \in 1 .. n : i + 1 \in 2 .. 1 + n
    BY <1>2
  <2> HIDE DEF n
  <2> QED BY <2>1, <2>2
<1> HIDE DEF u
<1>7. P = {u[i] : i \in 1 .. 1 + n}
  <2>1. ASSUME NEW r \in P PROVE \E i \in 1 .. 1 + n : r = u[i]
    <3>1. CASE r = s
      <4>1. 1 \in 1 .. 1 + n
        BY <1>2
      <4> QED BY <4>1, <3>1, <1>5
    <3>2. CASE r # s
      <4>1. PICK i \in 1 .. n : r = t[i]
        BY <3>2, <1>6
      <4>2. i + 1 \in 2 .. 1 + n /\ i + 1 \in 1 .. 1 + n /\ (i + 1) - 1 = i
        BY <1>2
      <4> QED BY <4>1, <4>2, <1>5
    <3> QED BY <3>1, <3>2
  <2>2. ASSUME NEW i \in 1 .. 1 + n PROVE u[i] \in P
    BY <1>4, <1>2
  <2> QED BY <2>1, <2>2
<1>8. ASSUME NEW i \in 1 .. 1 + n, NEW j \in 1 .. 1 + n, i < j
      PROVE  u[j].id \notin u[i].deps
  <2>1. j \in 2 .. 1 + n
    BY <1>8, <1>2
  <2>2. u[j] = t[j - 1] /\ j - 1 \in 1 .. n
    BY <2>1, <1>5
  <2>3. CASE i = 1
    <3>1. u[i] = s /\ t[j - 1] \in P \ {s}
      BY <2>2, <2>3, <1>5, <1>6
    <3> QED BY <3>1, <2>2, <1>1
  <2>4. CASE i # 1
    <3>1. i \in 2 .. 1 + n
      BY <2>4, <1>2
    <3>2. u[i] = t[i - 1] /\ i - 1 \in 1 .. n
      BY <3>1, <1>5
    <3>3. i - 1 < j - 1
      BY <1>8
    <3>4. t[j - 1].id \notin t[i - 1].deps
      BY <2>2, <3>2, <3>3, <1>6
    <3> QED BY <2>2, <3>2, <3>4
  <2> QED BY <2>3, <2>4
<1>9. Len(u) = Cardinality(P)
  <2>1. n = Cardinality(P \ {s})
    BY DEF Placed
  <2> QED BY <2>1, <1>2, <1>4
<1> QED BY <1>4, <1>7, <1>8, <1>9 DEF Placed, u

\* order_snippets: every snippet once, and each after its prerequisites.
LEMMA OrderIsPlaced ==
    ASSUME NEW S, Orderable(S)
    PROVE  Placed(S, OrderSnippets(S))
<1>1. PICK f : Placing(f, SUBSET S) /\ OrderSnippets(S) = f[S]
  BY OrderIsPlacing
<1>2. \A P \in SUBSET S :
         f[P] = IF Ready(P) = {} THEN <<>>
                ELSE <<Soonest(Ready(P))>> \o f[P \ {Soonest(Ready(P))}]
  BY <1>1 DEF Placing
<1>3. IsFiniteSet(S)
  BY DEF Orderable
<1> DEFINE T == {n \in Nat : \A P \in SUBSET S : Cardinality(P) = n => Placed(P, f[P])}
<1>4. 0 \in T
  <2> SUFFICES ASSUME NEW P \in SUBSET S, Cardinality(P) = 0 PROVE Placed(P, f[P])
    OBVIOUS
  <2>1. P = {}
    BY <1>3, FS_Subset, FS_EmptySet
  <2>2. f[P] = <<>>
    <3>1. Ready(P) = {}
      BY <2>1 DEF Ready
    <3> QED BY <3>1, <1>2
  <2>3. <<>> \in Seq(P) /\ Len(<<>>) = 0
    OBVIOUS
  <2>4. 1 .. Len(<<>>) = {}
    BY <2>3
  <2>5. Placed({}, <<>>)
    BY <2>1, <2>3, <2>4, FS_EmptySet DEF Placed
  <2> QED BY <2>1, <2>2, <2>5
<1>5. ASSUME NEW n \in Nat, n \in T PROVE n + 1 \in T
  <2> SUFFICES ASSUME NEW P \in SUBSET S, Cardinality(P) = n + 1 PROVE Placed(P, f[P])
    OBVIOUS
  <2> DEFINE s == Soonest(Ready(P))
  <2>1. P # {}
    BY FS_EmptySet
  <2>2. Ready(P) # {} /\ s \in Ready(P) /\ s \in P
    BY <2>1, SoonestIsThere
  <2>3. f[P] = <<s>> \o f[P \ {s}]
    BY <1>2, <2>2
  <2> HIDE DEF s
  <2>4. Cardinality(P \ {s}) \in Nat /\ Cardinality(P) = Cardinality(P \ {s}) + 1
    BY <1>3, <2>2, OneLess
  <2>5. Cardinality(P \ {s}) = n
    BY <2>4
  <2>6. Placed(P \ {s}, f[P \ {s}])
    BY <1>5, <2>5
  <2> QED BY <2>2, <2>3, <2>4, <2>6, PlacedBefore
<1>6. \A n \in Nat : n \in T
  <2> HIDE DEF T
  <2> QED BY <1>4, <1>5, ByCounting
<1>7. Cardinality(S) \in Nat
  BY <1>3, FS_CardinalityType
<1>8. Placed(S, f[S])
  BY <1>6, <1>7
<1> QED BY <1>1, <1>8

-----------------------------------------------------------------------------
(* The plan.                                                               *)

\* build_report: every finding of a set that Above puts in a line, once.
LEMMA ReportIsWhole ==
    ASSUME NEW F, FewFindings(F), \A x \in F : x.status = "fail"
    PROVE  /\ Report(F) \in [1 .. Cardinality(F) -> F]
           /\ F = {Report(F)[i] : i \in 1 .. Cardinality(F)}
<1> DEFINE R == {q \in F \X F : Above(q[1], q[2])}
           rank == [x \in F |-> 1 + Cardinality(Before(F, R, x))]
           N == Cardinality(F)
           place(i) == CHOOSE x \in F : Cardinality({y \in F : Above(y, x)}) = i - 1
<1>1. \A x, y \in F : <<x, y>> \in R <=> Above(x, y)
  OBVIOUS
<1>2. VerdictRank("fail") = 1
  <2>1. DOMAIN Verdicts4 = 1 .. 4 /\ \A i \in 1 .. 4 : Verdicts4[i] = "fail" <=> i = 1
    BY DEF Verdicts4
  <2> QED BY <2>1 DEF VerdictRank
<1>3. ASSUME NEW x \in F, NEW y \in F
      PROVE  Above(x, y) <=> \/ Severity(x.severity) < Severity(y.severity)
                             \/ Severity(x.severity) = Severity(y.severity) /\ x.rule < y.rule
  <2>1. VerdictRank(x.status) = 1 /\ VerdictRank(y.status) = 1
    BY <1>2
  <2> QED BY <2>1 DEF Above
<1>4. \A x \in F : Severity(x.severity) \in Nat /\ x.rule \in Nat
  BY SeverityIsPlace DEF FewFindings
<1>5. \A x, y \in F : x.rule = y.rule => x = y
  BY DEF FewFindings
<1>6. IsFiniteSet(F) /\ N \in Nat
  BY FS_CardinalityType DEF FewFindings
<1> HIDE DEF R
<1>7. Linear(F, R)
  <2>1. \A x \in F : ~Above(x, x)
    BY <1>3, <1>4
  <2>2. \A x, y, z \in F : Above(x, y) /\ Above(y, z) => Above(x, z)
    BY <1>3, <1>4
  <2>3. \A x, y \in F : x = y \/ Above(x, y) \/ Above(y, x)
    BY <1>3, <1>4, <1>5
  <2> QED BY <1>1, <2>1, <2>2, <2>3 DEF Linear
<1>8. /\ rank \in [F -> 1 .. N]
      /\ {rank[x] : x \in F} = 1 .. N
      /\ \A x, y \in F : <<x, y>> \in R <=> rank[x] < rank[y]
  BY <1>6, <1>7, RanksOfALinearOrder
<1>9. ASSUME NEW x \in F
      PROVE  /\ rank[x] = 1 + Cardinality({y \in F : Above(y, x)})
             /\ Cardinality({y \in F : Above(y, x)}) \in Nat
  <2>1. Before(F, R, x) = {y \in F : Above(y, x)}
    BY <1>1 DEF Before
  <2>2. IsFiniteSet(Before(F, R, x))
    <3>1. Before(F, R, x) \in SUBSET F
      BY DEF Before
    <3> QED BY <3>1, <1>6, FS_Subset
  <2> QED BY <2>1, <2>2, FS_CardinalityType
<1> HIDE DEF rank, N
<1>10. ASSUME NEW x \in F, NEW i \in 1 .. N
       PROVE  Cardinality({y \in F : Above(y, x)}) = i - 1 <=> rank[x] = i
  BY <1>6, <1>9
<1>11. ASSUME NEW i \in 1 .. N PROVE place(i) \in F /\ rank[place(i)] = i
  <2>1. \E x \in F : rank[x] = i
    BY <1>8
  <2>2. place(i) = CHOOSE x \in F : rank[x] = i
    BY <1>10
  <2> HIDE DEF place
  <2> QED BY <2>1, <2>2
<1>12. ASSUME NEW x \in F PROVE rank[x] \in 1 .. N /\ place(rank[x]) = x
  <2>1. rank[x] \in 1 .. N
    BY <1>8
  <2>2. place(rank[x]) \in F /\ rank[place(rank[x])] = rank[x]
    BY <2>1, <1>11
  <2> HIDE DEF place
  <2>3. ASSUME NEW y \in F, rank[y] = rank[x] PROVE y = x
    <3>1. rank[y] \in Nat
      BY <2>1, <2>3, <1>6
    <3>2. <<y, x>> \notin R /\ <<x, y>> \notin R
      BY <3>1, <2>3, <1>8
    <3> QED BY <3>2, <1>7 DEF Linear
  <2> QED BY <2>1, <2>2, <2>3
<1>13. Report(F) = [i \in 1 .. N |-> place(i)]
  BY DEF Report, N
<1> HIDE DEF place
<1>14. Report(F) \in [1 .. N -> F]
  BY <1>11, <1>13
<1>15. F = {Report(F)[i] : i \in 1 .. N}
  BY <1>11, <1>12, <1>13
<1> QED BY <1>14, <1>15 DEF N

LEMMA LibraryIsOfADeployment ==
    ASSUME IInv
    PROVE  /\ Len(library) \in Nat /\ DOMAIN library = 1 .. Len(library)
           /\ \A i \in DOMAIN library :
                 /\ library[i].id \in Nat \ {0} /\ library[i].id \notin library[i].deps
                 /\ library[i].risk \in Nat /\ library[i].hint \in Nat
                 /\ library[i].platform # "unidentified"
<1>1. PICK d \in Deployments : library = d.library
  BY DEF IInv, Deployed
<1> DEFINE S == {library[i] : i \in DOMAIN library}
<1>2. library \in Seq(S)
  BY <1>1, LibrariesAssumption
<1>3. Len(library) \in Nat /\ DOMAIN library = 1 .. Len(library)
  <2> HIDE DEF S
  <2> QED BY <1>2
<1> QED BY <1>1, <1>3, LibrariesAssumption

\* SnippetLibrary.lookup finds what the library has for a platform and a rule.
LEMMA LookupFinds ==
    ASSUME IInv, NEW platform, NEW rule
    PROVE  LET s == Lookup(library, platform, rule) IN
           \/ /\ s = NoSnippet
              /\ \A k \in DOMAIN library :
                    <<library[k].platform, library[k].rule>> # <<platform, rule>>
           \/ /\ s # NoSnippet
              /\ s \in {library[i] : i \in DOMAIN library}
              /\ s.platform = platform /\ s.rule = rule
<1> DEFINE found == {i \in DOMAIN library :
                        library[i].platform = platform /\ library[i].rule = rule}
<1>1. CASE found = {}
  BY <1>1 DEF Lookup
<1>2. CASE found # {}
  <2>1. found \in SUBSET Nat
    BY LibraryIsOfADeployment
  <2>4. Min(found) \in found
    <3> HIDE DEF found
    <3> QED BY <1>2, <2>1, LeastIsAMember
  <2>5. Lookup(library, platform, rule) = library[Min(found)]
    BY <1>2 DEF Lookup
  <2>6. \A i \in DOMAIN library : library[i] # NoSnippet
    BY LibraryIsOfADeployment DEF NoSnippet
  <2>7. \A i \in found : library[i].platform = platform /\ library[i].rule = rule
                         /\ i \in DOMAIN library
    OBVIOUS
  <2> HIDE DEF found
  <2> QED BY <2>4, <2>5, <2>6, <2>7
<1> QED BY <1>1, <1>2

\* Any snippets of a consistent library can be put in order.
LEMMA LibraryIsOrderable ==
    ASSUME IInv, Consistent(library), NEW S \in SUBSET {library[i] : i \in DOMAIN library}
    PROVE  Orderable(S)
<1> DEFINE I == {i \in DOMAIN library : library[i] \in S}
           f == [i \in I |-> library[i]]
<1>1. /\ Len(library) \in Nat /\ DOMAIN library = 1 .. Len(library)
      /\ \A i \in DOMAIN library :
            /\ library[i].id \in Nat \ {0} /\ library[i].id \notin library[i].deps
            /\ library[i].risk \in Nat /\ library[i].hint \in Nat
  BY LibraryIsOfADeployment
<1>2. IsFiniteSet(S)
  <2>1. IsFiniteSet(I)
    <3>1. IsFiniteSet(1 .. Len(library))
      BY <1>1, FS_Interval
    <3>2. I \in SUBSET (1 .. Len(library))
      BY <1>1
    <3> HIDE DEF I
    <3> QED BY <3>1, <3>2, FS_Subset
  <2>2. f \in Surjection(I, S)
    BY DEF Surjection
  <2> HIDE DEF I, f
  <2> QED BY <2>1, <2>2, FS_Surjection
<1>3. \A s \in S : s.id \in Nat /\ s.risk \in Nat /\ s.hint \in Nat
  BY <1>1
<1>4. \A s, t \in S : s.id = t.id => s = t
  BY DEF Consistent
<1>5. ASSUME NEW P \in SUBSET S, P # {} PROVE Ready(P) # {}
  <2> DEFINE J == {i \in DOMAIN library : library[i] \in P}
  <2>1. J \in (SUBSET DOMAIN library) \ {{}}
    <3>1. PICK s \in P : TRUE
      BY <1>5
    <3>2. PICK i \in DOMAIN library : s = library[i]
      BY <3>1
    <3>3. i \in J
      BY <3>1, <3>2
    <3>4. J \in SUBSET DOMAIN library
      OBVIOUS
    <3> HIDE DEF J
    <3> QED BY <3>3, <3>4
  <2>2. PICK i \in J : \A j \in J \ {i} : library[j].id \notin library[i].deps
    BY <2>1 DEF Consistent
  <2>3. ASSUME NEW t \in P \ {library[i]} PROVE t.id \notin library[i].deps
    <3>1. PICK j \in J : t = library[j]
      OBVIOUS
    <3> QED BY <3>1, <2>2
  <2>4. library[i] \in Ready(P)
    BY <2>3 DEF Ready
  <2> QED BY <2>4
<1> QED BY <1>2, <1>3, <1>4, <1>5 DEF Orderable

LEMMA OneAfterTheOther ==
    ASSUME NEW m \in Nat, NEW n \in Nat, NEW T,
           NEW a \in [1 .. m -> T], NEW b \in [1 .. n -> T]
    PROVE  LET c == a \o b IN
           /\ Len(c) = m + n /\ DOMAIN c = 1 .. m + n
           /\ \A i \in 1 .. m : c[i] = a[i]
           /\ \A i \in m + 1 .. m + n : c[i] = b[i - m] /\ i - m \in 1 .. n
           /\ \A i \in 1 .. n : c[m + i] = b[i]
<1>1. a \in Seq(T) /\ b \in Seq(T)
  BY SeqDef
<1>2. Len(a) = m /\ Len(b) = n
  OBVIOUS
<1> DEFINE c == a \o b
<1>3. /\ c \in Seq(T) /\ Len(c) = m + n
      /\ \A i \in 1 .. m + n : c[i] = IF i <= m THEN a[i] ELSE b[i - m]
  BY <1>1, <1>2, ConcatProperties
<1> HIDE DEF c
<1>4. DOMAIN c = 1 .. m + n
  BY <1>3
<1>5. \A i \in 1 .. m : c[i] = a[i]
  BY <1>3
<1>6. \A i \in m + 1 .. m + n : c[i] = b[i - m] /\ i - m \in 1 .. n
  BY <1>3
<1>7. \A i \in 1 .. n : m + i \in m + 1 .. m + n /\ (m + i) - m = i
  OBVIOUS
<1> QED BY <1>3, <1>4, <1>5, <1>6, <1>7 DEF c

\* The failures of a stored run, as remediation_plan has them.
Failures(run) ==
    {y \in {[rule |-> x.rule, severity |-> x.severity, status |-> x.finding.status] :
               x \in run.findings} : y.status = "fail"}

LEMMA FailuresAreFew ==
    ASSUME IInv, NEW n \in RunIndex
    PROVE  /\ FewFindings(Failures(runs[n]))
           /\ {x.rule : x \in Failures(runs[n])} =
                 {x.rule : x \in {y \in runs[n].findings : y.finding.status = "fail"}}
<1> DEFINE F == runs[n].findings
           G == {x \in F : x.finding.status = "fail"}
           f == [x \in G |-> [rule |-> x.rule, severity |-> x.severity,
                              status |-> x.finding.status]]
           H == Failures(runs[n])
<1>1. FewFindings(F)
  <2>1. RunOK(runs[n])
    BY DEF IInv, RunsOK, RunIndex
  <2>2. PICK d \in Deployments : Made(runs[n], d.rulepack)
    BY <2>1 DEF RunOK
  <2>3. F = Findings(d.rulepack, runs[n].pack, runs[n].effective)
    BY <2>2 DEF Made
  <2> DEFINE p == runs[n].pack
             effective == runs[n].effective
  <2> HIDE DEF p, effective, F
  <2>4. FewFindings(Findings(d.rulepack, p, effective))
    BY FindingsAreFew
  <2> QED BY <2>3, <2>4 DEF p, effective
<1>2. \A x \in G : f[x].rule = x.rule /\ f[x].severity = x.severity
  OBVIOUS
<1>3. H = {f[x] : x \in G}
  <2> DEFINE brief == [x \in F |-> [rule |-> x.rule, severity |-> x.severity,
                                   status |-> x.finding.status]]
  <2>1. H = {y \in {brief[x] : x \in F} : y.status = "fail"}
    BY DEF Failures
  <2>2. \A x \in F : brief[x].status = x.finding.status
    OBVIOUS
  <2>3. \A x \in G : f[x] = brief[x]
    OBVIOUS
  <2> HIDE DEF brief, f, F
  <2> QED BY <2>1, <2>2, <2>3
<1>4. G \in SUBSET F
  OBVIOUS
<1>5. DOMAIN f = G
  OBVIOUS
<1> HIDE DEF F, G, f, H
<1>6. IsFiniteSet(H)
  <2>1. IsFiniteSet(G)
    BY <1>1, <1>4, FS_Subset DEF FewFindings
  <2>2. f \in Surjection(G, H)
    BY <1>3 DEF Surjection, f
  <2> QED BY <2>1, <2>2, FS_Surjection
<1>7. FewFindings(H)
  BY <1>1, <1>2, <1>3, <1>4, <1>6 DEF FewFindings
<1>8. {x.rule : x \in H} = {x.rule : x \in G}
  BY <1>2, <1>3
<1> QED BY <1>7, <1>8 DEF H, G, F

LEMMA PlanFromIInv == IInv => PlanIsComplete
<1> SUFFICES ASSUME IInv, Consistent(library), NEW n \in RunIndex
             PROVE  LET steps == Steps(runs[n])
                        failures == {x.rule : x \in {y \in runs[n].findings :
                                                         y.finding.status = "fail"}}
                    IN  /\ {steps[i].rule : i \in DOMAIN steps} = failures
                        /\ Len(steps) = Cardinality(failures)
                        /\ \A i \in DOMAIN steps :
                              IF steps[i].snippet = NoSnippet
                              THEN \A k \in DOMAIN library :
                                      <<library[k].platform, library[k].rule>>
                                         # <<Platform, steps[i].rule>>
                              ELSE steps[i].snippet.platform = Platform
                        /\ \A i, j \in DOMAIN steps : i < j =>
                              /\ steps[i].order = 0 => steps[j].order = 0
                              /\ steps[i].order # 0 /\ steps[j].order # 0 =>
                                    steps[j].snippet.id \notin steps[i].snippet.deps
  BY DEF PlanIsComplete
<1> DEFINE A == Failures(runs[n])
           found(x) == Lookup(library, Platform, x.rule)
           B == {x \in A : Outcome(library, Platform, x) = "resolved"}
           C == A \ B
           S == {found(x) : x \in B}
           sequence == OrderSnippets(S)
           rest == Report(C)
           p == Cardinality(S)
           q == Cardinality(C)
           a == [i \in DOMAIN sequence |->
                   [order |-> i, rule |-> sequence[i].rule, snippet |-> sequence[i]]]
           b == [i \in DOMAIN rest |->
                   [order |-> 0, rule |-> rest[i].rule, snippet |-> NoSnippet]]
           steps == Steps(runs[n])
<1>1. /\ FewFindings(A)
      /\ {x.rule : x \in A} = {x.rule : x \in {y \in runs[n].findings : y.finding.status = "fail"}}
      /\ \A x \in A : x.status = "fail"
  BY FailuresAreFew DEF Failures
<1>2. steps = a \o b
  BY DEF Steps, Plan, Failures
<1>3. \A x \in B : found(x) \in {library[i] : i \in DOMAIN library}
                   /\ found(x).rule = x.rule /\ found(x).platform = Platform
                   /\ found(x) # NoSnippet
  <2> SUFFICES ASSUME NEW x \in B
               PROVE  found(x) \in {library[i] : i \in DOMAIN library}
                      /\ found(x).rule = x.rule /\ found(x).platform = Platform
                      /\ found(x) # NoSnippet
    OBVIOUS
  <2>1. found(x) # NoSnippet
    BY DEF Outcome
  <2> QED BY <2>1, LookupFinds
<1>4. ASSUME NEW x \in C, NEW k \in DOMAIN library
      PROVE  <<library[k].platform, library[k].rule>> # <<Platform, x.rule>>
  <2>1. x.status = "fail" /\ Outcome(library, Platform, x) # "resolved"
    BY <1>1
  <2>2. Platform = "unidentified" \/ found(x) = NoSnippet
    BY <2>1 DEF Outcome
  <2>3. library[k].platform # "unidentified"
    BY LibraryIsOfADeployment
  <2> QED BY <2>2, <2>3, LookupFinds
<1>5. IsFiniteSet(A) /\ IsFiniteSet(B) /\ IsFiniteSet(C)
  <2>1. B \in SUBSET A /\ C \in SUBSET A
    OBVIOUS
  <2> HIDE DEF A, B, C
  <2> QED BY <1>1, <2>1, FS_Subset DEF FewFindings
<1>6. B \in SUBSET A /\ C = A \ B
  OBVIOUS
<1>7. S = {found(x) : x \in B}
  OBVIOUS
<1>8. sequence = OrderSnippets(S) /\ rest = Report(C)
  OBVIOUS
<1>9. \A x, y \in A : x.rule = y.rule => x = y
  BY <1>1 DEF FewFindings
<1> HIDE DEF A, found, B, C, S
<1>10. Placed(S, sequence)
  <2>1. S \in SUBSET {library[i] : i \in DOMAIN library}
    BY <1>3, <1>7
  <2> QED BY <2>1, <1>8, LibraryIsOrderable, OrderIsPlaced
<1>11. p \in Nat /\ p = Cardinality(B) /\ q \in Nat /\ p + q = Cardinality(A)
  <2> DEFINE f == [x \in B |-> found(x)]
  <2>1. f \in Surjection(B, S)
    BY <1>7 DEF Surjection
  <2>2. f \in Injection(B, S)
    <3>1. ASSUME NEW x \in B, NEW y \in B, found(x) = found(y) PROVE x = y
      BY <3>1, <1>3, <1>6, <1>9
    <3>2. f \in [B -> S]
      BY <1>7
    <3> QED BY <3>1, <3>2 DEF Injection, IsInjective
  <2> HIDE DEF f
  <2>3. IsFiniteSet(S) /\ Cardinality(S) = Cardinality(B)
    BY <1>5, <2>1, <2>2, FS_Surjection
  <2>4. p \in Nat /\ q \in Nat /\ Cardinality(A) \in Nat
    BY <2>3, <1>5, FS_CardinalityType
  <2>5. A \cap B = B
    BY <1>6
  <2>6. Cardinality(C) = Cardinality(A) - Cardinality(A \cap B)
    BY <1>5, <1>6, FS_Difference
  <2> DEFINE m == Cardinality(A)
             k == Cardinality(B)
  <2>7. m \in Nat /\ p = k /\ q = m - k
    BY <2>3, <2>4, <2>5, <2>6
  <2> HIDE DEF m, k, p, q
  <2>8. p + q = m
    BY <2>4, <2>7
  <2> QED BY <2>4, <2>7, <2>8 DEF m, k
<1>12. /\ sequence \in Seq(S) /\ Len(sequence) = p /\ DOMAIN sequence = 1 .. p
       /\ S = {sequence[i] : i \in 1 .. p}
       /\ \A i, j \in 1 .. p : i < j => sequence[j].id \notin sequence[i].deps
  <2>1. /\ sequence \in Seq(S) /\ Len(sequence) = p
        /\ S = {sequence[i] : i \in 1 .. Len(sequence)}
        /\ \A i, j \in 1 .. Len(sequence) : i < j => sequence[j].id \notin sequence[i].deps
    BY <1>10 DEF Placed
  <2>2. DOMAIN sequence = 1 .. Len(sequence)
    <3> HIDE DEF sequence
    <3> QED BY <2>1
  <2> QED BY <2>1, <2>2
<1>13. /\ DOMAIN rest = 1 .. q
       /\ C = {rest[i] : i \in 1 .. q}
  <2>1. FewFindings(C) /\ \A x \in C : x.status = "fail"
    BY <1>1, <1>5, <1>6 DEF FewFindings
  <2>2. rest \in [1 .. q -> C] /\ C = {rest[i] : i \in 1 .. q}
    BY <2>1, <1>8, ReportIsWhole
  <2> QED BY <2>2
<1> DEFINE T == {a[i] : i \in 1 .. p} \cup {b[i] : i \in 1 .. q}
<1>14. a \in [1 .. p -> T] /\ b \in [1 .. q -> T]
  BY <1>12, <1>13
<1>15. \A i \in 1 .. p : /\ a[i].order = i /\ a[i].rule = sequence[i].rule
                         /\ a[i].snippet = sequence[i]
  BY <1>12
<1>16. \A i \in 1 .. q : /\ b[i].order = 0 /\ b[i].rule = rest[i].rule
                         /\ b[i].snippet = NoSnippet
  BY <1>13
<1> HIDE DEF a, b, T, p, q, sequence, rest, steps
<1>17. /\ Len(steps) = p + q /\ DOMAIN steps = 1 .. p + q
       /\ \A i \in 1 .. p : steps[i] = a[i]
       /\ \A i \in p + 1 .. p + q : steps[i] = b[i - p] /\ i - p \in 1 .. q
       /\ \A i \in 1 .. q : steps[p + i] = b[i]
  <2> DEFINE c == a \o b
  <2>1. /\ Len(c) = p + q /\ DOMAIN c = 1 .. p + q
        /\ \A i \in 1 .. p : c[i] = a[i]
        /\ \A i \in p + 1 .. p + q : c[i] = b[i - p] /\ i - p \in 1 .. q
        /\ \A i \in 1 .. q : c[p + i] = b[i]
    <3>1. p \in Nat /\ q \in Nat
      BY <1>11
    <3>2. a \in [1 .. p -> T] /\ b \in [1 .. q -> T]
      BY <1>14
    <3> QED BY <3>1, <3>2, OneAfterTheOther
  <2>2. steps = c
    BY <1>2
  <2> HIDE DEF c
  <2> QED BY <2>1, <2>2
<1>18. \A i \in DOMAIN steps : i \in 1 .. p \/ i \in p + 1 .. p + q
  BY <1>11, <1>17
<1>19. \A i \in 1 .. p : \E x \in B : sequence[i] = found(x)
  BY <1>7, <1>12
<1>20. \A i \in 1 .. q : rest[i] \in C
  BY <1>13
<1>21. {steps[i].rule : i \in DOMAIN steps} = {x.rule : x \in A}
  <2>1. ASSUME NEW i \in DOMAIN steps PROVE \E x \in A : steps[i].rule = x.rule
    BY <1>3, <1>6, <1>15, <1>16, <1>17, <1>18, <1>19, <1>20
  <2>2. ASSUME NEW x \in A PROVE \E i \in DOMAIN steps : steps[i].rule = x.rule
    <3>1. CASE x \in B
      <4>1. PICK i \in 1 .. p : sequence[i] = found(x)
        BY <3>1, <1>7, <1>12
      <4>2. i \in DOMAIN steps
        BY <1>11, <1>17
      <4> QED BY <3>1, <4>1, <4>2, <1>3, <1>15, <1>17
    <3>2. CASE x \in C
      <4>1. PICK i \in 1 .. q : rest[i] = x
        BY <3>2, <1>13
      <4>2. p + i \in DOMAIN steps
        BY <1>11, <1>17
      <4> QED BY <4>1, <4>2, <1>16, <1>17
    <3> QED BY <3>1, <3>2, <1>6
  <2> QED BY <2>1, <2>2
<1>22. Len(steps) = Cardinality({x.rule : x \in A})
  <2> DEFINE U == {x.rule : x \in A}
             f == [x \in A |-> x.rule]
  <2>1. f \in Surjection(A, U)
    BY DEF Surjection
  <2>2. f \in Injection(A, U)
    BY <1>9 DEF Injection, IsInjective
  <2> HIDE DEF f, U
  <2>3. Cardinality(U) = Cardinality(A)
    BY <1>5, <2>1, <2>2, FS_Surjection
  <2> QED BY <2>3, <1>11, <1>17 DEF U
<1>23. ASSUME NEW i \in DOMAIN steps
       PROVE  IF steps[i].snippet = NoSnippet
              THEN \A k \in DOMAIN library :
                      <<library[k].platform, library[k].rule>> # <<Platform, steps[i].rule>>
              ELSE steps[i].snippet.platform = Platform
  <2>1. CASE i \in 1 .. p
    <3>1. PICK x \in B : sequence[i] = found(x)
      BY <2>1, <1>19
    <3>2. steps[i].snippet = found(x)
      BY <2>1, <3>1, <1>15, <1>17
    <3> QED BY <3>2, <1>3
  <2>2. CASE i \in p + 1 .. p + q
    <3>1. /\ steps[i].snippet = NoSnippet /\ steps[i].rule = rest[i - p].rule
          /\ rest[i - p] \in C
      BY <2>2, <1>16, <1>17, <1>20
    <3> QED BY <3>1, <1>4
  <2> QED BY <2>1, <2>2, <1>18
<1>24. ASSUME NEW i \in DOMAIN steps, NEW j \in DOMAIN steps, i < j
       PROVE  /\ steps[i].order = 0 => steps[j].order = 0
              /\ steps[i].order # 0 /\ steps[j].order # 0 =>
                    steps[j].snippet.id \notin steps[i].snippet.deps
  <2>1. \A k \in p + 1 .. p + q : steps[k].order = 0
    BY <1>16, <1>17
  <2>2. \A k \in 1 .. p : steps[k].order = k /\ k # 0 /\ steps[k].snippet = sequence[k]
    BY <1>11, <1>15, <1>17
  <2>3. CASE j \in p + 1 .. p + q
    BY <2>1, <2>3
  <2>4. CASE j \in 1 .. p
    <3>1. i \in 1 .. p
      BY <2>4, <1>11, <1>17, <1>24
    <3> QED BY <3>1, <2>2, <2>4, <1>12, <1>24
  <2> QED BY <2>3, <2>4, <1>18
<1> QED BY <1>1, <1>21, <1>22, <1>23, <1>24 DEF steps

\* "A plan that silently omitted the rules with no snippet would understate the
\* work", for any findings and any library that is consistent: each failure is
\* one step, its commands are those vetted for its rule on the platform, none
\* comes before its own prerequisite, and what has no commands comes last.
THEOREM PlansAlwaysComplete == Spec => []PlanIsComplete
<1>1. IInv => PlanIsComplete
  BY PlanFromIInv
<1> QED BY <1>1, Invariance, PTL

-----------------------------------------------------------------------------
(* Detection.                                                              *)

\* What one weight adds to the sum of the others.
Added(g, s) ==
    IF s = {} THEN 0
    ELSE LET x == CHOOSE x \in s : TRUE IN x.weight + g[s \ {x}]

LEMMA OneFewer ==
    ASSUME NEW s, IsFiniteSet(s), NEW n \in Nat, s # {}, Cardinality(s) <= n + 1
    PROVE  LET x == CHOOSE x \in s : TRUE IN
           x \in s /\ IsFiniteSet(s \ {x}) /\ Cardinality(s \ {x}) <= n
<1> DEFINE x == CHOOSE x \in s : TRUE
           c == Cardinality(s)
<1>1. x \in s
    OBVIOUS
<1> HIDE DEF x
<1>2. IsFiniteSet(s \ {x}) /\ Cardinality(s \ {x}) = c - 1
    BY <1>1, FS_RemoveElement
<1>3. c \in Nat
    BY FS_CardinalityType
<1> HIDE DEF c
<1>4. Cardinality(s \ {x}) <= n
    BY <1>2, <1>3 DEF c
<1> QED BY <1>1, <1>2, <1>4 DEF x

\* The sum that a fold over a finite set defines is there, and is a number.
LEMMA SumIsANumber ==
    ASSUME NEW S, IsFiniteSet(S), \A s \in S : s.weight \in Nat
    PROVE  MapThenSumSet(LAMBDA s : s.weight, S) \in Nat
<1> DEFINE Upto(n) == {s \in SUBSET S : Cardinality(s) <= n}
           T == {n \in Nat : \E g \in [Upto(n) -> Nat] : \A s \in Upto(n) : g[s] = Added(g, s)}
           U(g) == {n \in Nat : \A s \in Upto(n) : g[s] \in Nat}
<1>1. \A s \in SUBSET S : IsFiniteSet(s) /\ Cardinality(s) \in Nat
    BY FS_Subset, FS_CardinalityType
<1>2. \A s \in Upto(0) : s = {}
    BY <1>1, FS_EmptySet
<1>3. 0 \in T
  <2> DEFINE g == [s \in Upto(0) |-> 0]
  <2>1. g \in [Upto(0) -> Nat] /\ \A s \in Upto(0) : g[s] = Added(g, s)
    BY <1>2 DEF Added
  <2> QED BY <2>1
<1>4. ASSUME NEW n \in Nat, n \in T PROVE n + 1 \in T
  <2>1. PICK g \in [Upto(n) -> Nat] : \A s \in Upto(n) : g[s] = Added(g, s)
    BY <1>4
  <2> DEFINE h == [s \in Upto(n + 1) |-> IF s \in Upto(n) THEN g[s] ELSE Added(g, s)]
  <2>2. ASSUME NEW s \in Upto(n + 1)
        PROVE  h[s] = Added(g, s) /\ h[s] \in Nat /\ Added(h, s) = Added(g, s)
    <3>1. h[s] = Added(g, s)
      BY <2>1
    <3>2. CASE s = {}
      BY <3>1, <3>2 DEF Added
    <3>3. CASE s # {}
      <4> DEFINE x == CHOOSE x \in s : TRUE
                 r == s \ {x}
      <4>1. x \in s /\ r \in Upto(n)
        BY <1>1, <3>3, OneFewer
      <4>2. r \in Upto(n + 1) /\ h[r] = g[r] /\ g[r] \in Nat
        <5> HIDE DEF x, r, T
        <5>1. r \in SUBSET S /\ Cardinality(r) <= n
          BY <4>1
        <5>2. r \in Upto(n + 1)
          BY <5>1, <1>1
        <5> QED BY <4>1, <5>2
      <4>3. x.weight \in Nat
        BY <4>1
      <4>4. Added(g, s) = x.weight + g[r] /\ Added(h, s) = x.weight + h[r]
        BY <3>3 DEF Added
      <4> HIDE DEF h, x, r
      <4> QED BY <3>1, <4>2, <4>3, <4>4
    <3> QED BY <3>2, <3>3
  <2>3. h \in [Upto(n + 1) -> Nat] /\ \A s \in Upto(n + 1) : h[s] = Added(h, s)
    <3>1. h = [s \in Upto(n + 1) |-> h[s]]
      OBVIOUS
    <3> HIDE DEF h
    <3> QED BY <2>2, <3>1
  <2>4. \E f \in [Upto(n + 1) -> Nat] : \A s \in Upto(n + 1) : f[s] = Added(f, s)
    <3> HIDE DEF h, Upto
    <3> QED BY <2>3
  <2> HIDE DEF Upto
  <2> QED BY <2>4
<1>5. \E g : g = [s \in SUBSET S |-> Added(g, s)]
  <2> DEFINE n == Cardinality(S)
  <2>1. n \in T
    <3>1. n \in Nat
      BY FS_CardinalityType
    <3> HIDE DEF T, n
    <3> QED BY <1>3, <1>4, <3>1, ByCounting
  <2>2. Upto(n) = SUBSET S
    BY FS_Subset
  <2>3. PICK g \in [SUBSET S -> Nat] : \A s \in SUBSET S : g[s] = Added(g, s)
    <3> HIDE DEF n
    <3> QED BY <2>1, <2>2
  <2>4. g = [s \in SUBSET S |-> Added(g, s)]
    BY <2>3
  <2> QED BY <2>4
<1> DEFINE sum == CHOOSE g : g = [s \in SUBSET S |-> Added(g, s)]
<1>6. sum = [s \in SUBSET S |-> Added(sum, s)]
    BY <1>5
<1>7. MapThenSumSet(LAMBDA s : s.weight, S) = sum[S]
    BY DEF MapThenSumSet, MapThenFoldSet, Added
<1> HIDE DEF sum
<1>8. \A s \in SUBSET S : sum[s] = Added(sum, s)
    BY <1>6
<1>9. 0 \in U(sum)
  <2> SUFFICES ASSUME NEW s \in Upto(0) PROVE sum[s] \in Nat
    OBVIOUS
  <2>1. s = {} /\ sum[s] = Added(sum, s)
    BY <1>2, <1>8
  <2> QED BY <2>1 DEF Added
<1>10. ASSUME NEW n \in Nat, n \in U(sum) PROVE n + 1 \in U(sum)
  <2> SUFFICES ASSUME NEW s \in Upto(n + 1) PROVE sum[s] \in Nat
    OBVIOUS
  <2>1. CASE s = {}
    BY <1>8, <2>1 DEF Added
  <2>2. CASE s # {}
    <3> DEFINE x == CHOOSE x \in s : TRUE
               r == s \ {x}
    <3>1. x \in s /\ r \in Upto(n)
      BY <1>1, <2>2, OneFewer
    <3>2. sum[r] \in Nat /\ x.weight \in Nat
      BY <1>10, <3>1
    <3>3. sum[s] = x.weight + sum[r]
      BY <1>8, <2>2 DEF Added
    <3> HIDE DEF x, r
    <3> QED BY <3>2, <3>3
  <2> QED BY <2>1, <2>2
<1>11. Cardinality(S) \in U(sum)
  <2>1. Cardinality(S) \in Nat
    BY FS_CardinalityType
  <2> HIDE DEF U
  <2> QED BY <1>9, <1>10, <2>1, ByCounting
<1>12. S \in Upto(Cardinality(S))
    BY FS_CardinalityType
<1> QED BY <1>7, <1>11, <1>12

KnownPacks(ps) ==
    /\ DOMAIN ps \subseteq Platforms
    /\ \A p \in DOMAIN ps : ps[p] \in PackOf[p]

LEMMA ScorePackIsANumber ==
    ASSUME NEW ps, KnownPacks(ps), NEW upload, NEW p \in DOMAIN ps
    PROVE  ScorePack(ps[p], upload) \in Nat
<1> DEFINE S == {s \in ps[p].detect : Hits(s, upload)}
<1>1. IsFiniteSet(ps[p].detect) /\ \A s \in ps[p].detect : s.weight \in Nat
    BY PackOfAssumption DEF KnownPacks, Platforms
<1>2. IsFiniteSet(S) /\ \A s \in S : s.weight \in Nat
    BY <1>1, FS_Subset
<1>3. ScorePack(ps[p], upload) = MapThenSumSet(LAMBDA s : s.weight, S)
    BY DEF ScorePack
<1> HIDE DEF S
<1> QED BY <1>2, <1>3, SumIsANumber

\* The candidates are the platforms that scored, each at its place.
LEMMA CandidatesAreRanked ==
    ASSUME NEW ps, KnownPacks(ps), NEW upload
    PROVE  LET ranked == Candidates(ps, upload)
               score == [p \in DOMAIN ps |-> ScorePack(ps[p], upload)]
               found == {p \in DOMAIN ps : score[p] > 0}
               n == Len(ranked)
           IN  /\ score \in [DOMAIN ps -> Nat]
               /\ n \in Nat /\ DOMAIN ranked = 1 .. n /\ (n = 0 <=> found = {})
               /\ \A k \in 1 .. n : ranked[k] \in found
               /\ n > 0 => \A q \in found : score[ranked[1]] >= score[q]
               /\ n = 1 => found = {ranked[1]}
               /\ n > 1 => /\ ranked[2] # ranked[1]
                           /\ \A q \in found \ {ranked[1]} : score[ranked[2]] >= score[q]
<1> DEFINE score == [p \in DOMAIN ps |-> ScorePack(ps[p], upload)]
           found == {p \in DOMAIN ps : score[p] > 0}
           better(p, q) == \/ score[p] > score[q]
                           \/ score[p] = score[q] /\ ps[p].rank < ps[q].rank
           B == {x \in found \X found : better(x[1], x[2])}
           n == Cardinality(found)
           rank == [x \in found |-> 1 + Cardinality(Before(found, B, x))]
           ranked == Candidates(ps, upload)
<1>1. score \in [DOMAIN ps -> Nat]
    BY ScorePackIsANumber
<1>2. IsFiniteSet(found)
    BY PackOfAssumption, FS_Subset DEF KnownPacks, Platforms
<1>3. ranked = [k \in 1 .. n |-> CHOOSE p \in found :
                                    Cardinality({q \in found : better(q, p)}) = k - 1]
    BY DEF Candidates
<1>4. \A p, q \in found : <<p, q>> \in B <=> better(p, q)
    OBVIOUS
<1>5. \A p \in found : Before(found, B, p) = {q \in found : better(q, p)}
    BY <1>4 DEF Before
<1>6. Linear(found, B)
  <2>1. \A p \in found : score[p] \in Nat /\ ps[p].rank \in Nat
    BY <1>1, PackOfAssumption DEF KnownPacks, Platforms
  <2>2. \A p, q \in found : p # q => ps[p].rank # ps[q].rank
    BY PackOfAssumption DEF KnownPacks, Platforms
  <2> HIDE DEF score, found, B
  <2>3. \A p \in found : <<p, p>> \notin B
    BY <1>4, <2>1
  <2>4. \A p, q, r \in found : <<p, q>> \in B /\ <<q, r>> \in B => <<p, r>> \in B
    BY <1>4, <2>1
  <2>5. \A p, q \in found : p = q \/ <<p, q>> \in B \/ <<q, p>> \in B
    <3> SUFFICES ASSUME NEW p \in found, NEW q \in found, p # q
                 PROVE  <<p, q>> \in B \/ <<q, p>> \in B
      OBVIOUS
    <3>1. /\ score[p] \in Nat /\ score[q] \in Nat
          /\ ps[p].rank \in Nat /\ ps[q].rank \in Nat /\ ps[p].rank # ps[q].rank
      BY <2>1, <2>2
    <3>2. better(p, q) \/ better(q, p)
      BY <3>1
    <3> QED BY <1>4, <3>2
  <2> QED BY <2>3, <2>4, <2>5 DEF Linear
<1>7. /\ rank \in [found -> 1 .. n]
      /\ {rank[x] : x \in found} = 1 .. n
      /\ \A x, y \in found : <<x, y>> \in B <=> rank[x] < rank[y]
    BY <1>2, <1>6, RanksOfALinearOrder
<1>8. n \in Nat
    BY <1>2, FS_CardinalityType
<1>9. \A p \in found : rank[p] = 1 + Cardinality({q \in found : better(q, p)})
                       /\ Cardinality({q \in found : better(q, p)}) \in Nat
  <2> TAKE p \in found
  <2>1. IsFiniteSet({q \in found : better(q, p)})
    BY <1>2, FS_Subset
  <2>2. Cardinality({q \in found : better(q, p)}) \in Nat
    BY <2>1, FS_CardinalityType
  <2> HIDE DEF found, B
  <2> QED BY <1>5, <2>2
<1> HIDE DEF n, rank
<1>10. \A k \in 1 .. n : ranked[k] \in found /\ rank[ranked[k]] = k
  <2> TAKE k \in 1 .. n
  <2>1. PICK x \in found : rank[x] = k
    BY <1>7
  <2>2. Cardinality({q \in found : better(q, x)}) = k - 1
    BY <1>9, <2>1
  <2>3. ranked[k] = CHOOSE p \in found : Cardinality({q \in found : better(q, p)}) = k - 1
    BY <1>3
  <2>4. ranked[k] \in found /\ Cardinality({q \in found : better(q, ranked[k])}) = k - 1
    BY <2>2, <2>3
  <2> QED BY <1>8, <1>9, <2>4
<1>11. ranked \in Seq(found) /\ Len(ranked) = n /\ DOMAIN ranked = 1 .. n
  <2>1. DOMAIN ranked = 1 .. n /\ ranked = [k \in 1 .. n |-> ranked[k]]
    BY <1>3
  <2> HIDE DEF ranked, found
  <2> QED BY <1>8, <1>10, <2>1
<1>12. n = 0 <=> found = {}
    BY <1>2, FS_EmptySet DEF n
<1>13. \A p, q \in found : rank[p] <= rank[q] => score[p] >= score[q]
  <2> SUFFICES ASSUME NEW p \in found, NEW q \in found, rank[p] <= rank[q]
               PROVE  score[p] >= score[q]
    OBVIOUS
  <2>1. p = q \/ <<p, q>> \in B
    <3>1. rank[p] \in Nat /\ rank[q] \in Nat
      BY <1>7
    <3>2. ~(rank[q] < rank[p])
      BY <3>1
    <3> HIDE DEF B, found
    <3> QED BY <1>6, <1>7, <3>2 DEF Linear
  <2>2. score[p] \in Nat /\ score[q] \in Nat
    BY <1>1
  <2> QED BY <1>4, <2>1, <2>2
<1> HIDE DEF ranked, B, score, found
<1>14. \A q \in found : rank[q] \in 1 .. n
    BY <1>7
<1>15. \A p, q \in found : rank[p] = rank[q] => p = q
    BY <1>6, <1>7, <1>14 DEF Linear
<1>16. n > 0 => \A q \in found : score[ranked[1]] >= score[q]
    BY <1>8, <1>10, <1>13, <1>14
<1>17. n = 1 => found = {ranked[1]}
  <2> SUFFICES ASSUME n = 1 PROVE found = {ranked[1]}
    OBVIOUS
  <2>1. ranked[1] \in found /\ \A q \in found : rank[q] = rank[ranked[1]]
    BY <1>10, <1>14
  <2> QED BY <1>15, <2>1
<1>18. n > 1 => /\ ranked[2] # ranked[1]
                /\ \A q \in found \ {ranked[1]} : score[ranked[2]] >= score[q]
  <2> SUFFICES ASSUME n > 1
               PROVE  /\ ranked[2] # ranked[1]
                      /\ \A q \in found \ {ranked[1]} : score[ranked[2]] >= score[q]
    OBVIOUS
  <2>1. /\ ranked[1] \in found /\ rank[ranked[1]] = 1
        /\ ranked[2] \in found /\ rank[ranked[2]] = 2
    BY <1>8, <1>10
  <2>2. \A q \in found \ {ranked[1]} : rank[q] >= 2
    BY <1>8, <1>14, <1>15, <2>1
  <2> QED BY <1>13, <2>1, <2>2
<1> QED BY <1>1, <1>8, <1>10, <1>11, <1>12, <1>16, <1>17, <1>18 DEF ranked, score, found

\* A platform reaches the threshold and leaves every rival the margin behind.
Decisive(score, p) ==
    /\ score[p] >= MinScore
    /\ \A q \in DOMAIN score \ {p} : score[p] >= score[q] + MinMargin

\* Where the margin is no more than the threshold, as it is by default
\* (api/config.py:90): else a platform without a rival would be called ambiguous.
LEMMA DetectionDecides ==
    ASSUME MinMargin <= MinScore, NEW ps, KnownPacks(ps), NEW upload
    PROVE  LET d == DetectVendor(ps, upload)
               score == [p \in DOMAIN ps |-> ScorePack(ps[p], upload)]
           IN  /\ \A p \in DOMAIN score : d.platform = p <=> Decisive(score, p)
               /\ d.outcome = "ambiguous" =>
                     \E p, q \in DOMAIN score :
                         /\ p # q /\ score[p] >= MinScore
                         /\ score[q] + MinMargin > score[p]
               /\ d.outcome = "below_threshold" =>
                     /\ \A p \in DOMAIN score : score[p] < MinScore
                     /\ \E p \in DOMAIN score : score[p] > 0
<1> DEFINE d == DetectVendor(ps, upload)
           score == [p \in DOMAIN ps |-> ScorePack(ps[p], upload)]
           found == {p \in DOMAIN ps : score[p] > 0}
           ranked == Candidates(ps, upload)
           n == Len(ranked)
           best == ranked[1]
           next == ranked[2]
           margin == IF n > 1 THEN score[best] - score[next] ELSE score[best]
<1>1. /\ score \in [DOMAIN ps -> Nat]
      /\ n \in Nat /\ DOMAIN ranked = 1 .. n /\ (n = 0 <=> found = {})
      /\ \A k \in 1 .. n : ranked[k] \in found
      /\ n > 0 => \A q \in found : score[best] >= score[q]
      /\ n = 1 => found = {best}
      /\ n > 1 => /\ next # best
                  /\ \A q \in found \ {best} : score[next] >= score[q]
    BY CandidatesAreRanked
<1>2. MinScore \in Nat \ {0} /\ MinMargin \in Nat \ {0}
    BY ThresholdsAssumption
<1>3. \A p \in DOMAIN ps : p # Unidentified
    BY PackOfAssumption DEF KnownPacks, Platforms
<1>4. \A p \in DOMAIN ps : score[p] \in Nat /\ score[p] = ScorePack(ps[p], upload)
    BY <1>1
<1>5. n = 0 <=> ranked = <<>>
  <2> HIDE DEF score, found
  <2>1. n = 0 => ranked = <<>>
    <3> SUFFICES ASSUME n = 0 PROVE ranked = <<>>
      OBVIOUS
    <3>1. ranked = [k \in 1 .. 0 |-> ranked[k]]
      BY <1>1 DEF Candidates
    <3> HIDE DEF ranked
    <3> QED BY <3>1
  <2> QED BY <2>1
<1>6. n > 0 => best \in DOMAIN ps /\ best \in found
  <2> HIDE DEF score, ranked
  <2>1. n > 0 => 1 \in 1 .. n
    BY <1>1
  <2>2. n > 0 => best \in found
    BY <1>1, <2>1
  <2> QED BY <2>2
<1>7. n > 1 => next \in DOMAIN ps /\ next \in found
  <2> HIDE DEF score, ranked
  <2>1. n > 1 => 2 \in 1 .. n
    BY <1>1
  <2>2. n > 1 => next \in found
    BY <1>1, <2>1
  <2> QED BY <2>2
<1>8. n > 0 => Margin(ps, upload, ranked) = margin
    BY <1>4, <1>6, <1>7 DEF Margin
<1>9. /\ n = 0 => d.platform = Unidentified /\ d.outcome \notin {"ambiguous", "below_threshold"}
      /\ n > 0 /\ score[best] < MinScore =>
            d.platform = Unidentified /\ d.outcome = "below_threshold"
      /\ n > 0 /\ score[best] >= MinScore /\ margin < MinMargin =>
            d.platform = Unidentified /\ d.outcome = "ambiguous"
      /\ n > 0 /\ score[best] >= MinScore /\ ~(margin < MinMargin) =>
            d.platform = best /\ d.outcome = "detected"
  <2>1. n > 0 => ScorePack(ps[best], upload) = score[best] /\ DOMAIN ps # {} /\ ranked # <<>>
    BY <1>1, <1>4, <1>5, <1>6
  <2>2. n = 0 => ranked = <<>>
    BY <1>5
  <2>3. n \in Nat /\ (n > 0 => score[best] \in Nat)
    BY <1>1, <1>4, <1>6
  <2> HIDE DEF score, ranked, margin, best
  <2>4. CASE n = 0
    <3>1. CASE DOMAIN ps = {}
      <4>1. d = Abstained("no_packs_available")
        BY <2>2, <2>4, <3>1 DEF DetectVendor, ranked
      <4> QED BY <2>4, <4>1 DEF Abstained
    <3>2. CASE DOMAIN ps # {}
      <4>1. d = Abstained("no_signature_matched")
        BY <2>2, <2>4, <3>2 DEF DetectVendor, ranked
      <4> QED BY <2>4, <4>1 DEF Abstained
    <3> QED BY <3>1, <3>2
  <2>5. CASE n > 0
    <3>1. CASE score[best] < MinScore
      BY <2>1, <2>3, <2>5, <3>1, <1>2 DEF DetectVendor, Abstained, ranked, best
    <3>2. CASE score[best] >= MinScore /\ margin < MinMargin
      BY <2>1, <2>3, <2>5, <3>2, <1>2, <1>8 DEF DetectVendor, Abstained, ranked, best
    <3>3. CASE score[best] >= MinScore /\ ~(margin < MinMargin)
      BY <2>1, <2>3, <2>5, <3>3, <1>2, <1>8 DEF DetectVendor, Abstained, ranked, best
    <3> QED BY <2>3, <2>5, <3>1, <3>2, <3>3, <1>2
  <2> QED BY <2>3, <2>4, <2>5
<1>10. \A p \in DOMAIN ps : p \notin found => score[p] = 0
    BY <1>4
<1>11. n = 0 => \A p \in DOMAIN ps : score[p] = 0
    BY <1>1, <1>10
<1>12. n > 0 => \A p \in DOMAIN ps : score[best] >= score[p]
    BY <1>1, <1>4, <1>6, <1>10
<1>13. n > 0 => score[best] > 0 /\ \A p \in DOMAIN ps \ {best} : margin <= score[best] - score[p]
  <2> SUFFICES ASSUME n > 0
               PROVE  score[best] > 0 /\ \A p \in DOMAIN ps \ {best} : margin <= score[best] - score[p]
    OBVIOUS
  <2>1. score[best] > 0
    BY <1>6
  <2>2. ASSUME NEW p \in DOMAIN ps \ {best} PROVE margin <= score[best] - score[p]
    <3>1. CASE n = 1
      <4>1. score[p] = 0
        BY <1>1, <1>10, <3>1
      <4>2. score[best] \in Nat /\ margin = score[best]
        BY <1>4, <1>6, <3>1
      <4> HIDE DEF score, margin, best
      <4> QED BY <4>1, <4>2
    <3>2. CASE n > 1
      <4>1. score[next] >= score[p]
        BY <1>1, <1>4, <1>7, <1>10, <3>2
      <4>2. score[best] \in Nat /\ score[next] \in Nat /\ score[p] \in Nat
        BY <1>4, <1>6, <1>7, <3>2
      <4>3. margin = score[best] - score[next]
        BY <3>2
      <4> HIDE DEF score, margin, best, next
      <4> QED BY <4>1, <4>2, <4>3
    <3> HIDE DEF margin, score, best
    <3> QED BY <3>1, <3>2, <1>1
  <2> QED BY <2>1, <2>2
<1>14. n > 0 => \/ margin = score[best]
                \/ next \in DOMAIN ps /\ next # best /\ margin = score[best] - score[next]
    BY <1>1, <1>7
<1>15. DOMAIN score = DOMAIN ps
    OBVIOUS
<1>16. n > 0 => best \in DOMAIN ps /\ score[best] \in Nat
    BY <1>4, <1>6
<1> HIDE DEF d, score, found, ranked, margin, best, next
<1>17. ASSUME NEW p \in DOMAIN ps PROVE d.platform = p <=> Decisive(score, p)
  <2>1. CASE n = 0
    BY <2>1, <1>2, <1>3, <1>9, <1>11 DEF Decisive
  <2>2. CASE n > 0 /\ p # best
    <3>1. score[p] \in Nat /\ score[best] \in Nat /\ score[best] >= score[p]
      BY <2>2, <1>4, <1>12, <1>16
    <3>2. ~Decisive(score, p)
      BY <2>2, <3>1, <1>2, <1>15, <1>16 DEF Decisive
    <3>3. d.platform = Unidentified \/ d.platform = best
      BY <2>2, <3>1, <1>2, <1>9
    <3> QED BY <2>2, <3>2, <3>3, <1>3
  <2>3. CASE n > 0 /\ p = best
    <3>1. margin \in Int
      BY <2>3, <1>4, <1>14, <1>16
    <3>2. Decisive(score, best) <=> score[best] >= MinScore /\ ~(margin < MinMargin)
      <4>1. ASSUME score[best] >= MinScore, ~(margin < MinMargin), NEW q \in DOMAIN ps \ {best}
            PROVE  score[best] >= score[q] + MinMargin
        BY <2>3, <3>1, <4>1, <1>2, <1>4, <1>13, <1>16
      <4>2. ASSUME Decisive(score, best) PROVE ~(margin < MinMargin)
        BY <2>3, <3>1, <4>2, <1>2, <1>4, <1>14, <1>15, <1>16 DEF Decisive
      <4> QED BY <4>1, <4>2, <1>15 DEF Decisive
    <3>3. d.platform = best <=> score[best] >= MinScore /\ ~(margin < MinMargin)
      BY <2>3, <3>1, <1>2, <1>3, <1>9, <1>16
    <3> QED BY <2>3, <3>2, <3>3
  <2> QED BY <2>1, <2>2, <2>3, <1>1
<1>18. ASSUME d.outcome = "ambiguous"
       PROVE  \E p, q \in DOMAIN ps : /\ p # q /\ score[p] >= MinScore
                                      /\ score[q] + MinMargin > score[p]
  <2>1. n > 0 /\ score[best] >= MinScore /\ margin < MinMargin
    BY <1>1, <1>2, <1>9, <1>16, <1>18
  <2>2. next \in DOMAIN ps /\ next # best /\ margin = score[best] - score[next]
    BY <2>1, <1>2, <1>14, <1>16
  <2>3. score[next] + MinMargin > score[best]
    BY <2>1, <2>2, <1>2, <1>4, <1>16
  <2> QED BY <2>1, <2>2, <2>3, <1>16
<1>19. ASSUME d.outcome = "below_threshold"
       PROVE  /\ \A p \in DOMAIN ps : score[p] < MinScore
              /\ \E p \in DOMAIN ps : score[p] > 0
  <2>1. n > 0 /\ score[best] < MinScore
    BY <1>1, <1>2, <1>9, <1>16, <1>19
  <2> QED BY <2>1, <1>2, <1>4, <1>12, <1>13, <1>16
<1> QED BY <1>15, <1>17, <1>18, <1>19 DEF d, score

-----------------------------------------------------------------------------
(* The fleet.                                                              *)

FilesOK ==
    /\ KnownPacks(packs)
    /\ files \in Seq(ToSet(files))
    /\ DOMAIN judge = DOMAIN files
    /\ \A i \in DOMAIN files :
          /\ KnownPacks(judge[i])
          /\ \E batch \in Batches : \E k \in DOMAIN batch :
                ~FormatRefused(batch[k]) /\ files[i] = Row(judge[i], batch[k])
    /\ \A i, j \in DOMAIN files : files[i].content = files[j].content => i = j

\* What a device is, read with a pack that its platform has had.
ObservedWith(o, row) ==
    /\ o.id = row.content /\ o.cohort = row.platform
    /\ o.cohort \in Platforms /\ o.by \in PackOf[o.cohort]
    /\ o.label = HostName(o.by, o.id)
    /\ o.states = [f \in Fields(o.by) |-> FieldOf(o.by, f, o.id).state]

\* A request in flight reads the first of the rows, each a device or skipped,
\* with the packs of now unless one changed.
ReadingOK ==
    reading # NoPage =>
        /\ reading = [rows |-> reading.rows, done |-> reading.done, devices |-> reading.devices,
                      skipped |-> reading.skipped, mixed |-> reading.mixed]
        /\ reading.rows \in Seq(ToSet(files))
        /\ Len(reading.rows) <= Len(files)
        /\ \A i \in 1 .. Len(reading.rows) : reading.rows[i] = files[i]
        /\ reading.done \in 0 .. Len(reading.rows)
        /\ IsFiniteSet(reading.devices)
        /\ reading.skipped \in Nat
        /\ Cardinality(reading.devices) + reading.skipped = reading.done
        /\ \A o \in reading.devices : \E i \in 1 .. reading.done : ObservedWith(o, reading.rows[i])
        /\ ~reading.mixed => \A o \in reading.devices : o.by = packs[o.cohort]

FleetInv == FilesOK /\ ReadingOK /\ OutliersAreEvidenced

\* The rows stored are what was uploaded, and judged as it was.
LEMMA RowsAreUploads ==
    ASSUME FilesOK, NEW i \in DOMAIN files
    PROVE  /\ ~FormatRefused(files[i].content)
           /\ \E batch \in Batches : \E k \in DOMAIN batch :
                 AsUploaded(files[i]) = batch[k] /\ files[i] = Row(judge[i], batch[k])
<1>1. PICK batch \in Batches : \E k \in DOMAIN batch :
          ~FormatRefused(batch[k]) /\ files[i] = Row(judge[i], batch[k])
    BY DEF FilesOK
<1>2. PICK k \in DOMAIN batch : ~FormatRefused(batch[k]) /\ files[i] = Row(judge[i], batch[k])
    BY <1>1
<1> DEFINE upload == batch[k]
<1>3. upload = [name |-> upload.name, host |-> upload.host, lines |-> upload.lines,
                claims |-> upload.claims, wellFormed |-> upload.wellFormed]
    BY BatchesAssumption
<1>4. files[i].name = upload.name /\ files[i].content = Content(upload)
    BY <1>2 DEF Row
<1> HIDE DEF upload
<1>5. AsUploaded(files[i]) = upload
    BY <1>3, <1>4 DEF AsUploaded, Content
<1>6. ~FormatRefused(files[i].content)
    BY <1>2, <1>4 DEF FormatRefused, Content, upload
<1> QED BY <1>2, <1>5, <1>6 DEF upload

LEMMA DecisiveFromFilesOK ==
    ASSUME MinMargin <= MinScore, FilesOK
    PROVE  DetectionIsDecisive
<1> SUFFICES ASSUME NEW i \in DOMAIN files
             PROVE  LET row == files[i]
                        score == [p \in DOMAIN judge[i] |-> ScorePack(judge[i][p], AsUploaded(row))]
                    IN  /\ ~FormatRefused(row.content)
                        /\ \A p \in DOMAIN score : row.platform = p <=> Decisive(score, p)
                        /\ row.outcome = "ambiguous" =>
                              \E p, q \in DOMAIN score :
                                  /\ p # q /\ score[p] >= MinScore
                                  /\ score[q] + MinMargin > score[p]
                        /\ row.outcome = "below_threshold" =>
                              /\ \A p \in DOMAIN score : score[p] < MinScore
                              /\ \E p \in DOMAIN score : score[p] > 0
    BY DEF DetectionIsDecisive, Decisive
<1>1. PICK batch \in Batches : \E k \in DOMAIN batch :
          AsUploaded(files[i]) = batch[k] /\ files[i] = Row(judge[i], batch[k])
    BY RowsAreUploads
<1>2. PICK k \in DOMAIN batch : AsUploaded(files[i]) = batch[k] /\ files[i] = Row(judge[i], batch[k])
    BY <1>1
<1> DEFINE upload == batch[k]
           d == DetectVendor(judge[i], upload)
           score == [p \in DOMAIN judge[i] |-> ScorePack(judge[i][p], upload)]
<1>3. KnownPacks(judge[i])
    BY DEF FilesOK
<1>4. /\ \A p \in DOMAIN score : d.platform = p <=> Decisive(score, p)
      /\ d.outcome = "ambiguous" =>
            \E p, q \in DOMAIN score :
                /\ p # q /\ score[p] >= MinScore
                /\ score[q] + MinMargin > score[p]
      /\ d.outcome = "below_threshold" =>
            /\ \A p \in DOMAIN score : score[p] < MinScore
            /\ \E p \in DOMAIN score : score[p] > 0
    BY <1>3, DetectionDecides
<1>5. files[i].platform = d.platform /\ files[i].outcome = d.outcome
    BY <1>2 DEF Row
<1>6. AsUploaded(files[i]) = upload
    BY <1>2
<1>7. ~FormatRefused(files[i].content)
    BY RowsAreUploads
<1> HIDE DEF d, upload
<1> QED BY <1>4, <1>5, <1>6, <1>7

\* Every member of a finite set of numbers has its place among them.
LEMMA NthIsAMember ==
    ASSUME NEW S \in SUBSET Nat, IsFiniteSet(S), NEW k \in 1 .. Cardinality(S)
    PROVE  /\ Nth(k, S) \in S
           /\ Cardinality({j \in S : j < Nth(k, S)}) = k - 1
<1> DEFINE R == {x \in S \X S : x[1] < x[2]}
           rank == [x \in S |-> 1 + Cardinality(Before(S, R, x))]
           N == Cardinality(S)
<1>1. Linear(S, R)
  <2>1. \A x, y \in S : <<x, y>> \in R <=> x < y
    OBVIOUS
  <2> HIDE DEF R
  <2> QED BY <2>1 DEF Linear
<1> HIDE DEF R
<1>2. /\ rank \in [S -> 1 .. N]
      /\ {rank[x] : x \in S} = 1 .. N
      /\ \A x, y \in S : <<x, y>> \in R <=> rank[x] < rank[y]
    BY <1>1, RanksOfALinearOrder
<1>3. \A x \in S : Before(S, R, x) = {j \in S : j < x}
    BY DEF Before, R
<1>4. PICK x \in S : rank[x] = k
  <2> HIDE DEF rank, N
  <2> QED BY <1>2 DEF N
<1>5. Cardinality({j \in S : j < x}) = k - 1
  <2> DEFINE B == {j \in S : j < x}
  <2>1. rank[x] = 1 + Cardinality(B)
    BY <1>3
  <2>2. IsFiniteSet(B)
    BY FS_Subset
  <2>3. Cardinality(B) \in Nat
    BY <2>2, FS_CardinalityType
  <2> HIDE DEF B, rank
  <2>4. Cardinality(B) = k - 1
    BY <1>4, <2>1, <2>3
  <2> QED BY <2>4 DEF B
<1> QED BY <1>5 DEF Nth

LEMMA FreshAreCounted ==
    ASSUME NEW batch \in Batches
    PROVE  LET F == Fresh(batch) IN
           /\ F \in SUBSET (DOMAIN batch) /\ F \in SUBSET Nat
           /\ IsFiniteSet(F) /\ Cardinality(F) \in Nat
           /\ \A k \in 1 .. Cardinality(F) :
                 Nth(k, F) \in F /\ Cardinality({j \in F : j < Nth(k, F)}) = k - 1
<1> DEFINE F == Fresh(batch)
<1>1. batch \in Seq(ToSet(batch))
    BY BatchesAssumption
<1>2. DOMAIN batch = 1 .. Len(batch) /\ Len(batch) \in Nat
    BY <1>1
<1>3. F \in SUBSET (DOMAIN batch)
    BY DEF Fresh
<1> HIDE DEF F
<1>4. IsFiniteSet(1 .. Len(batch))
    BY <1>2, FS_Interval
<1>5. IsFiniteSet(F) /\ F \in SUBSET Nat
    BY <1>2, <1>3, <1>4, FS_Subset
<1>6. Cardinality(F) \in Nat
    BY <1>5, FS_CardinalityType
<1>7. \A k \in 1 .. Cardinality(F) :
         Nth(k, F) \in F /\ Cardinality({j \in F : j < Nth(k, F)}) = k - 1
    BY <1>5, NthIsAMember
<1> QED BY <1>3, <1>5, <1>6, <1>7 DEF F

\* The rows that an upload adds, and the ones it leaves.
LEMMA RowsAfterUpload ==
    ASSUME FilesOK, NEW batch \in Batches, Upload(batch)
    PROVE  LET m == Len(files)
               n == Cardinality(Fresh(batch))
           IN  /\ m \in Nat /\ n \in Nat /\ DOMAIN files = 1 .. m
               /\ DOMAIN files' = 1 .. m + n
               /\ files' \in Seq(ToSet(files'))
               /\ \A i \in 1 .. m : files'[i] = files[i] /\ judge'[i] = judge[i]
               /\ \A i \in m + 1 .. m + n :
                     /\ i - m \in 1 .. n
                     /\ Nth(i - m, Fresh(batch)) \in Fresh(batch)
                     /\ files'[i] = Row(packs, batch[Nth(i - m, Fresh(batch))])
                     /\ judge'[i] = packs
               /\ DOMAIN judge' = DOMAIN files'
<1> DEFINE F == Fresh(batch)
           m == Len(files)
           n == Cardinality(F)
           added == [k \in 1 .. n |-> Row(packs, batch[Nth(k, F)])]
           T == ToSet(files) \cup {added[k] : k \in 1 .. n}
<1>1. files \in Seq(ToSet(files)) /\ DOMAIN judge = DOMAIN files
    BY DEF FilesOK
<1>2. m \in Nat /\ DOMAIN files = 1 .. m
    BY <1>1
<1>3. n \in Nat
    BY FreshAreCounted
<1>4. \A k \in 1 .. n : Nth(k, F) \in F
    BY FreshAreCounted
<1>5. files \in [1 .. m -> T] /\ added \in [1 .. n -> T]
  <2>1. files = [i \in 1 .. m |-> files[i]]
    BY <1>1, <1>2
  <2>2. \A i \in 1 .. m : files[i] \in ToSet(files)
    BY <1>2 DEF ToSet
  <2> HIDE DEF F, n, m
  <2> QED BY <2>1, <2>2
<1>6. files' = files \o added /\ judge' = [i \in DOMAIN files' |-> IF i \in DOMAIN judge THEN judge[i] ELSE packs]
    BY DEF Upload
<1>7. /\ DOMAIN files' = 1 .. m + n
      /\ \A i \in 1 .. m : files'[i] = files[i]
      /\ \A i \in m + 1 .. m + n : files'[i] = added[i - m] /\ i - m \in 1 .. n
  <2> HIDE DEF added, T, m, n
  <2> QED BY <1>2, <1>3, <1>5, <1>6, OneAfterTheOther
<1>8. files' \in Seq(ToSet(files'))
  <2>1. files' \in Seq(T)
    <3>1. files \in Seq(T) /\ added \in Seq(T)
      <4> HIDE DEF added, T, m, n
      <4> QED BY <1>2, <1>3, <1>5, SeqDef
    <3> HIDE DEF added, T
    <3> QED BY <3>1, <1>6
  <2>2. m + n \in Nat /\ files' = [i \in 1 .. m + n |-> files'[i]]
    <3> HIDE DEF m, n, T
    <3> QED BY <2>1, <1>2, <1>3, <1>7
  <2>3. \A i \in 1 .. m + n : files'[i] \in ToSet(files')
    BY <1>7 DEF ToSet
  <2> HIDE DEF m, n
  <2>4. files' \in [1 .. m + n -> ToSet(files')]
    BY <2>2, <2>3
  <2> QED BY <2>2, <2>4, SeqDef
<1>9. \A i \in m + 1 .. m + n : added[i - m] = Row(packs, batch[Nth(i - m, F)])
  <2>1. \A k \in 1 .. n : added[k] = Row(packs, batch[Nth(k, F)])
    OBVIOUS
  <2> HIDE DEF added
  <2> QED BY <2>1, <1>7
<1>10. /\ DOMAIN judge' = DOMAIN files'
       /\ \A i \in 1 .. m : judge'[i] = judge[i]
       /\ \A i \in m + 1 .. m + n : judge'[i] = packs
  <2> HIDE DEF n, m, added
  <2> QED BY <1>1, <1>2, <1>3, <1>6, <1>7
<1> HIDE DEF F, m, n, added
<1> QED BY <1>2, <1>3, <1>4, <1>7, <1>8, <1>9, <1>10 DEF F, m, n

\* A content is stored once: it was not stored, and is the first of its batch.
LEMMA UploadKeepsFiles ==
    ASSUME FilesOK, NEW batch \in Batches, Upload(batch)
    PROVE  FilesOK'
<1> DEFINE F == Fresh(batch)
           m == Len(files)
           n == Cardinality(F)
           at == [i \in m + 1 .. m + n |-> Nth(i - m, F)]
<1>1. /\ m \in Nat /\ n \in Nat /\ DOMAIN files = 1 .. m
      /\ DOMAIN files' = 1 .. m + n /\ DOMAIN judge' = DOMAIN files'
      /\ files' \in Seq(ToSet(files'))
      /\ \A i \in 1 .. m : files'[i] = files[i] /\ judge'[i] = judge[i]
      /\ \A i \in m + 1 .. m + n :
            /\ i - m \in 1 .. n /\ at[i] \in F
            /\ files'[i] = Row(packs, batch[at[i]]) /\ judge'[i] = packs
    BY RowsAfterUpload
<1>2. \A i \in m + 1 .. m + n : Cardinality({j \in F : j < at[i]}) = (i - m) - 1
    BY <1>1, FreshAreCounted
<1>3. \A k \in F : k \in DOMAIN batch /\ k \in Nat
    BY FreshAreCounted
<1>4. \A k \in F : /\ ~FormatRefused(batch[k])
                   /\ Content(batch[k]) \notin Stored
                   /\ \A j \in 1 .. k - 1 : Content(batch[j]) # Content(batch[k])
    BY DEF Fresh
<1>5. F \in SUBSET Nat /\ \A k \in F : k >= 1
  <2>1. batch \in Seq(ToSet(batch))
    BY BatchesAssumption
  <2>2. DOMAIN batch = 1 .. Len(batch) /\ Len(batch) \in Nat
    BY <2>1
  <2> HIDE DEF F
  <2> QED BY <1>3, <2>2
<1> HIDE DEF F, m, n, at
<1>6. \A k, l \in F : Content(batch[k]) = Content(batch[l]) => k = l
  <2> SUFFICES ASSUME NEW k \in F, NEW l \in F, Content(batch[k]) = Content(batch[l]), k < l
               PROVE  FALSE
    BY <1>5
  <2>1. k \in 1 .. l - 1
    BY <1>5
  <2> QED BY <1>4, <2>1
<1>7. \A i, j \in m + 1 .. m + n : at[i] = at[j] => i = j
  <2> SUFFICES ASSUME NEW i \in m + 1 .. m + n, NEW j \in m + 1 .. m + n, at[i] = at[j]
               PROVE  i = j
    OBVIOUS
  <2>1. (i - m) - 1 = (j - m) - 1
    BY <1>2
  <2> QED BY <1>1, <2>1
<1>8. \A i \in 1 .. m + n : i \in 1 .. m \/ i \in m + 1 .. m + n
    BY <1>1
<1>9. \A i \in m + 1 .. m + n : files'[i].content = Content(batch[at[i]])
  <2> SUFFICES ASSUME NEW i \in m + 1 .. m + n
               PROVE  files'[i].content = Content(batch[at[i]])
    OBVIOUS
  <2>1. files'[i] = Row(packs, batch[at[i]])
    BY <1>1
  <2>2. Row(packs, batch[at[i]]).content = Content(batch[at[i]])
    BY DEF Row
  <2> QED BY <2>1, <2>2
<1>10. ASSUME NEW i \in DOMAIN files', NEW j \in DOMAIN files',
              files'[i].content = files'[j].content
       PROVE  i = j
  <2>1. CASE i \in 1 .. m /\ j \in 1 .. m
    BY <1>1, <1>10, <2>1 DEF FilesOK
  <2>2. CASE i \in 1 .. m /\ j \in m + 1 .. m + n
    <3>1. Content(batch[at[j]]) \in Stored
      BY <1>1, <1>9, <1>10, <2>2 DEF Stored
    <3> QED BY <1>1, <1>4, <2>2, <3>1
  <2>3. CASE j \in 1 .. m /\ i \in m + 1 .. m + n
    <3>1. Content(batch[at[i]]) \in Stored
      BY <1>1, <1>9, <1>10, <2>3 DEF Stored
    <3> QED BY <1>1, <1>4, <2>3, <3>1
  <2>4. CASE i \in m + 1 .. m + n /\ j \in m + 1 .. m + n
    BY <1>1, <1>6, <1>7, <1>9, <1>10, <2>4
  <2> QED BY <1>1, <1>8, <2>1, <2>2, <2>3, <2>4
<1>11. packs' = packs /\ KnownPacks(packs)
    BY DEF Upload, FilesOK
<1>12. ASSUME NEW i \in DOMAIN files'
       PROVE  /\ KnownPacks(judge'[i])
              /\ \E b \in Batches : \E k \in DOMAIN b :
                    ~FormatRefused(b[k]) /\ files'[i] = Row(judge'[i], b[k])
  <2>1. CASE i \in 1 .. m
    BY <1>1, <2>1 DEF FilesOK
  <2>2. CASE i \in m + 1 .. m + n
    <3>1. at[i] \in DOMAIN batch /\ ~FormatRefused(batch[at[i]])
      BY <1>1, <1>3, <1>4, <2>2
    <3>2. files'[i] = Row(judge'[i], batch[at[i]]) /\ KnownPacks(judge'[i])
      BY <1>1, <1>11, <2>2
    <3> QED BY <3>1, <3>2
  <2> QED BY <1>1, <1>8, <2>1, <2>2
<1>13. KnownPacks(packs)'
    BY <1>11 DEF KnownPacks
<1>14. \A i \in DOMAIN files' : KnownPacks(judge[i])'
    BY <1>12 DEF KnownPacks, Platforms
<1> QED BY <1>1, <1>10, <1>12, <1>13, <1>14 DEF FilesOK, Row, DetectVendor, Content,
        FormatRefused

LEMMA InitFiles == FleetInit => FilesOK
<1> SUFFICES ASSUME FleetInit PROVE FilesOK
    OBVIOUS
<1>1. KnownPacks(packs)
    BY PackOfAssumption DEF FleetInit, KnownPacks, Platforms
<1>2. files = <<>> /\ judge = <<>>
    BY DEF FleetInit
<1>3. files \in Seq(ToSet(files)) /\ DOMAIN files = {} /\ DOMAIN judge = {}
    BY <1>2
<1> QED BY <1>1, <1>3 DEF FilesOK

LEMMA PacksStayKnown ==
    ASSUME KnownPacks(packs)
    PROVE  /\ \A p \in Platforms : \A vp \in PackOf[p] :
                 ActivatePack(p, vp) => KnownPacks(packs')
           /\ \A p \in DOMAIN packs : Withdraw(p) => KnownPacks(packs')
<1>1. ASSUME NEW p \in Platforms, NEW vp \in PackOf[p], ActivatePack(p, vp)
      PROVE  KnownPacks(packs')
  <2>1. packs' = [q \in DOMAIN packs \cup {p} |-> IF q = p THEN vp ELSE packs[q]]
    BY <1>1 DEF ActivatePack
  <2> QED BY <2>1 DEF KnownPacks
<1>2. ASSUME NEW p \in DOMAIN packs, Withdraw(p) PROVE KnownPacks(packs')
  <2>1. packs' = [q \in DOMAIN packs \ {p} |-> packs[q]]
    BY <1>2 DEF Withdraw
  <2> QED BY <2>1 DEF KnownPacks
<1> QED BY <1>1, <1>2

LEMMA FilesStayOK == FilesOK /\ [FleetNext]_fleetVars => FilesOK'
<1> SUFFICES ASSUME FilesOK, [FleetNext]_fleetVars PROVE FilesOK'
    OBVIOUS
<1>1. KnownPacks(packs)
    BY DEF FilesOK
<1>2. ASSUME NEW b \in Batches, Upload(b) PROVE FilesOK'
    BY <1>2, UploadKeepsFiles
<1>3. ASSUME UNCHANGED <<files, judge>>, KnownPacks(packs') PROVE FilesOK'
    BY <1>3 DEF FilesOK
<1>4. ASSUME NEW p \in Platforms, NEW vp \in PackOf[p], ActivatePack(p, vp) PROVE FilesOK'
  <2>1. UNCHANGED <<files, judge>>
    BY <1>4 DEF ActivatePack
  <2> QED BY <1>1, <1>3, <1>4, <2>1, PacksStayKnown
<1>5. ASSUME NEW p \in DOMAIN packs, Withdraw(p) PROVE FilesOK'
  <2>1. UNCHANGED <<files, judge>>
    BY <1>5 DEF Withdraw
  <2> QED BY <1>1, <1>3, <1>5, <2>1, PacksStayKnown
<1>6. ASSUME UNCHANGED <<packs, files, judge>> PROVE FilesOK'
    BY <1>1, <1>3, <1>6
<1>7. ASSUME NEW c \in Stored, LoseBlob(c) PROVE FilesOK'
    BY <1>6, <1>7 DEF LoseBlob
<1>8. ASSUME NEW limit \in Limits, AskBaseline(limit) PROVE FilesOK'
    BY <1>6, <1>8 DEF AskBaseline
<1>9. CASE ReadRow
    BY <1>6, <1>9 DEF ReadRow
<1>10. CASE RespondBaseline
    BY <1>6, <1>10 DEF RespondBaseline
<1>11. CASE UNCHANGED fleetVars
    BY <1>6, <1>11 DEF fleetVars
<1> QED BY <1>2, <1>4, <1>5, <1>7, <1>8, <1>9, <1>10, <1>11 DEF FleetNext

LEMMA FilesInvariance == FleetSpec => []FilesOK
<1> QED BY InitFiles, FilesStayOK, PTL DEF FleetSpec

\* Whatever the packs, their order and their names, and in whatever order they
\* come and go between uploads: a platform that was recorded had reached the
\* threshold and left every rival the margin behind, and a recorded reason for
\* having none is true (api/ingest/vendor_detect.py).  The margin must not be
\* above the threshold, as it is not by default and nothing enforces.
THEOREM DetectionAlwaysDecisive ==
    ASSUME MinMargin <= MinScore
    PROVE  FleetSpec => []DetectionIsDecisive
<1>1. FilesOK => DetectionIsDecisive
    BY DecisiveFromFilesOK
<1> QED BY <1>1, FilesInvariance, PTL

-----------------------------------------------------------------------------
(* The baseline.                                                           *)

\* A state that says something rests on lines, or on a source.
LEMMA StateIsWitnessed ==
    ASSUME NEW p \in Platforms, NEW vp \in PackOf[p], NEW f \in Fields(vp), NEW content,
           FieldOf(vp, f, content).state \in DeterminableStates
    PROVE  LET field == FieldOf(vp, f, content) IN
           \/ field.state = "PRESENT" /\ field.evidence # {}
           \/ field.state \in {"ABSENT_DEFAULT", "ABSENT_UNSUPPORTED"} /\ field.citation
<1> DEFINE spec == vp.fields[f]
           hits == SelectSeq(content.lines, LAMBDA l : l \in DOMAIN spec.reads)
           matches == [i \in DOMAIN hits |-> spec.reads[hits[i]]]
           built == BuildField(matches, FALSE, spec.worst)
           absent == Absent(spec.capability, spec.default)
           field == FieldOf(vp, f, content)
<1>1. field = Resolve(built, spec.capability, spec.default)
    BY DEF FieldOf
<1>2. DOMAIN matches = {} => matches = <<>>
  <2>1. matches = [i \in DOMAIN matches |-> matches[i]]
    OBVIOUS
  <2> HIDE DEF matches
  <2>2. ASSUME DOMAIN matches = {} PROVE matches = <<>>
    <3>1. matches = [i \in 1 .. 0 |-> matches[i]]
      BY <2>1, <2>2
    <3>2. matches \in Seq({}) /\ Len(matches) = 0
      BY <3>1
    <3> QED BY <3>2
  <2> QED BY <2>2
<1> HIDE DEF matches
<1>3. built.state = "PRESENT" => built.evidence # {}
    BY <1>2 DEF BuildField, Present, Unknown
<1>4. built.state \in {"PRESENT", "UNKNOWN"}
    BY DEF BuildField, Present, Unknown
<1>5. \/ absent.state = "UNKNOWN"
      \/ absent.state \in {"ABSENT_DEFAULT", "ABSENT_UNSUPPORTED"} /\ absent.citation
  <2>1. spec.capability.supported \in {"yes", "no", "undocumented"}
    BY PackOfAssumption DEF Platforms, Fields
  <2> HIDE DEF spec
  <2> QED BY <2>1 DEF Absent, ClaimedAbsent, Unknown
<1> HIDE DEF spec, built, absent, field
<1>6. field.state \in DeterminableStates
    BY DEF field
<1>7. field = built \/ (field = absent /\ built.state = "UNKNOWN")
    BY <1>1 DEF Resolve, absent
<1>8. field = built => field.state = "PRESENT" /\ field.evidence # {}
    BY <1>3, <1>4, <1>6 DEF DeterminableStates
<1>9. field = absent =>
         field.state \in {"ABSENT_DEFAULT", "ABSENT_UNSUPPORTED"} /\ field.citation
    BY <1>5, <1>6 DEF DeterminableStates
<1> QED BY <1>7, <1>8, <1>9 DEF field

\* A device goes by its own name, or by none.
LEMMA NameIsOfTheDevice ==
    ASSUME NEW batch \in Batches, NEW k \in DOMAIN batch,
           NEW p \in Platforms, NEW vp \in PackOf[p]
    PROVE  HostName(vp, Content(batch[k])) \subseteq {batch[k].host}
<1> DEFINE content == Content(batch[k])
           able == {i \in DOMAIN vp.hostname : Captured(vp.hostname[i], content) # {}}
<1>1. content.lines = batch[k].lines
    BY DEF Content
<1>2. batch[k].lines \in Seq(ToSet(batch[k].lines))
    BY BatchesAssumption
<1>3. \A i \in DOMAIN vp.hostname, l \in ToSet(batch[k].lines) :
         l \in DOMAIN vp.hostname[i] => vp.hostname[i][l] \in {"", batch[k].host}
    BY BatchesAssumption DEF Platforms
<1>4. vp.hostname \in Seq(ToSet(vp.hostname))
    BY PackOfAssumption DEF Platforms
<1> HIDE DEF content
<1>5. ASSUME NEW i \in DOMAIN vp.hostname
      PROVE  Captured(vp.hostname[i], content) \subseteq {batch[k].host}
  <2> DEFINE pattern == vp.hostname[i]
             hits == {j \in DOMAIN content.lines :
                         content.lines[j] \in DOMAIN pattern /\ pattern[content.lines[j]] # ""}
  <2>1. hits # {} => Min(hits) \in hits
    <3>1. DOMAIN batch[k].lines \in SUBSET Nat
      BY <1>2
    <3>2. hits \in SUBSET Nat
      BY <1>1, <3>1
    <3> HIDE DEF hits
    <3> QED BY <3>2, LeastIsAMember
  <2>2. \A j \in hits : pattern[content.lines[j]] = batch[k].host
    <3>1. \A j \in hits : content.lines[j] \in ToSet(batch[k].lines)
      BY <1>1 DEF ToSet
    <3> QED BY <1>3, <3>1
  <2>3. Captured(pattern, content) = IF hits = {} THEN {} ELSE {pattern[content.lines[Min(hits)]]}
    BY DEF Captured
  <2> HIDE DEF hits
  <2> QED BY <2>1, <2>2, <2>3
<1>6. able # {} => Min(able) \in able
  <2>1. able \in SUBSET Nat
    BY <1>4
  <2> QED BY <2>1, LeastIsAMember
<1>7. HostName(vp, content) = IF able = {} THEN {} ELSE Captured(vp.hostname[Min(able)], content)
    BY DEF HostName
<1>8. able \in SUBSET (DOMAIN vp.hostname)
    OBVIOUS
<1> HIDE DEF able
<1>9. HostName(vp, content) \subseteq {batch[k].host}
    BY <1>5, <1>6, <1>7, <1>8
<1> QED BY <1>9 DEF content

\* A baseline that was compared: the cohort is large enough, and its majority
\* was read of three quarters of those that could be read.
LEMMA ComparedIsAMajority ==
    ASSUME NEW obs, IsFiniteSet(obs), NEW c, NEW f, Baseline(obs, c, f).outcome = "compared"
    PROVE  LET b == Baseline(obs, c, f)
               members == Members(obs, c)
           IN  /\ b.cohort = c /\ b.field = f
               /\ Cardinality(members) >= MinCohort
               /\ b.majority \in DeterminableStates
               /\ 4 * Count(members, f, b.majority) >= 3 * Cardinality(Determinable(members, f))
<1> DEFINE b == Baseline(obs, c, f)
           members == Members(obs, c)
           size == Cardinality(members)
           read == Cardinality(Determinable(members, f))
           counts == [s \in DeterminableStates |-> Count(members, f, s)]
           top == CHOOSE s \in DeterminableStates :
                       \A t \in DeterminableStates : counts[t] <= counts[s]
           outcome ==
               CASE size < MinCohort -> "cohort_too_small"
                 [] size >= MinCohort /\ read = 0 -> "no_determinable_states"
                 [] size >= MinCohort /\ read # 0 /\ 4 * counts[top] < 3 * read -> "no_majority"
                 [] OTHER -> "compared"
<1>1. IsFiniteSet(members)
    BY FS_Subset DEF Members
<1>2. IsFiniteSet(Determinable(members, f))
    BY <1>1, FS_Subset DEF Determinable
<1>3. \A s \in DeterminableStates : IsFiniteSet({o \in members : StateOf(o, f) = s})
    BY <1>1, FS_Subset
<1>4. size \in Nat /\ read \in Nat /\ \A s \in DeterminableStates : counts[s] \in Nat
    BY <1>1, <1>2, <1>3, FS_CardinalityType DEF Count
<1>5. b = [cohort |-> c, field |-> f, outcome |-> outcome,
           size |-> size, determinable |-> read,
           majority |-> IF outcome = "compared" THEN top ELSE "",
           agreeing |-> IF outcome = "compared" THEN counts[top] ELSE 0]
    BY DEF Baseline
<1>6. \E s \in DeterminableStates : \A t \in DeterminableStates : counts[t] <= counts[s]
  <2> DEFINE P == counts["PRESENT"]
             D == counts["ABSENT_DEFAULT"]
             U == counts["ABSENT_UNSUPPORTED"]
  <2>1. P \in Nat /\ D \in Nat /\ U \in Nat
    BY <1>4 DEF DeterminableStates
  <2>2. DeterminableStates = {"PRESENT", "ABSENT_DEFAULT", "ABSENT_UNSUPPORTED"}
    BY DEF DeterminableStates
  <2> HIDE DEF counts
  <2>3. CASE D <= P /\ U <= P
    <3>1. \A t \in DeterminableStates : counts[t] <= counts["PRESENT"]
      BY <2>1, <2>2, <2>3
    <3> QED BY <2>2, <3>1
  <2>4. CASE P <= D /\ U <= D
    <3>1. \A t \in DeterminableStates : counts[t] <= counts["ABSENT_DEFAULT"]
      BY <2>1, <2>2, <2>4
    <3> QED BY <2>2, <3>1
  <2>5. CASE P <= U /\ D <= U
    <3>1. \A t \in DeterminableStates : counts[t] <= counts["ABSENT_UNSUPPORTED"]
      BY <2>1, <2>2, <2>5
    <3> QED BY <2>2, <3>1
  <2>6. (D <= P /\ U <= P) \/ (P <= D /\ U <= D) \/ (P <= U /\ D <= U)
    <3> HIDE DEF P, D, U
    <3> QED BY <2>1
  <2> QED BY <2>3, <2>4, <2>5, <2>6
<1>7. top \in DeterminableStates
    BY <1>6
<1>8. counts[top] = Count(members, f, top)
    BY <1>7
<1> HIDE DEF counts, top, size, read
<1>9. outcome = "compared" => size >= MinCohort /\ ~(4 * counts[top] < 3 * read)
  <2> HIDE DEF members
  <2>1. CASE size < MinCohort
    BY <2>1
  <2>2. CASE size >= MinCohort /\ read = 0
    BY <1>4, <1>7, <2>2, MinCohortAssumption
  <2>3. CASE size >= MinCohort /\ read # 0 /\ 4 * counts[top] < 3 * read
    BY <2>3
  <2>4. CASE size >= MinCohort /\ ~(4 * counts[top] < 3 * read)
    BY <2>4
  <2> QED BY <1>4, <2>1, <2>2, <2>3, <2>4, MinCohortAssumption
<1> HIDE DEF outcome, members, b
<1>10. b.outcome = "compared"
    BY DEF b
<1>11. b.cohort = c /\ b.field = f /\ b.majority = top /\ outcome = "compared"
    BY <1>5, <1>10
<1>12. size >= MinCohort /\ 4 * counts[top] >= 3 * read
    BY <1>4, <1>7, <1>9, <1>11
<1> QED BY <1>7, <1>8, <1>11, <1>12 DEF b, members, size, read

\* A device is what its content says, read with a pack of its platform.
IsDevice(o) ==
    /\ o.cohort \in Platforms /\ o.by \in PackOf[o.cohort]
    /\ o.states = [f \in Fields(o.by) |-> FieldOf(o.by, f, o.id).state]

Read(cohort, f) == {o \in cohort : f \in Fields(o.by) /\ Witnessed(o, f)}
Differing(seen, f, majority) == {o \in seen : o.states[f] # majority}

\* What can be determined is what was read, or claimed by a source.
LEMMA DeterminableIsRead ==
    ASSUME NEW cohort, \A o \in cohort : IsDevice(o), NEW f
    PROVE  Determinable(cohort, f) = Read(cohort, f)
<1>1. ASSUME NEW o \in cohort
      PROVE  StateOf(o, f) \in DeterminableStates <=> f \in Fields(o.by) /\ Witnessed(o, f)
  <2> DEFINE field == FieldOf(o.by, f, o.id)
  <2>1. DOMAIN o.states = Fields(o.by)
    BY DEF IsDevice
  <2>2. CASE f \notin Fields(o.by)
    BY <2>1, <2>2 DEF StateOf, DeterminableStates
  <2>3. CASE f \in Fields(o.by)
    <3>1. StateOf(o, f) = field.state
      BY <2>1, <2>3 DEF StateOf, IsDevice
    <3>2. field.state \in DeterminableStates => Witnessed(o, f)
      BY <2>3, StateIsWitnessed DEF Witnessed, IsDevice
    <3>3. Witnessed(o, f) => field.state \in DeterminableStates
      BY DEF Witnessed, DeterminableStates
    <3> QED BY <2>3, <3>1, <3>2, <3>3
  <2> QED BY <2>2, <2>3
<1> QED BY <1>1 DEF Determinable, Read

\* Every outlier is one of a minority of a quarter at most of those read.
LEMMA OutlierIsOfAMinority ==
    ASSUME NEW obs, IsFiniteSet(obs), \A o \in obs : IsDevice(o), NEW x \in Outliers(obs)
    PROVE  LET f == x.baseline.field
               cohort == Members(obs, x.device.cohort)
               seen == Read(cohort, f)
               differ == Differing(seen, f, x.baseline.majority)
           IN  /\ x.device \in differ
               /\ Cardinality(cohort) >= MinCohort
               /\ Cardinality(seen \ differ) >= 3 * Cardinality(differ)
<1>1. PICK b \in {c \in Baselines(obs) : c.outcome = "compared"} :
        \E o \in {m \in Determinable(Members(obs, b.cohort), b.field) :
                      StateOf(m, b.field) # b.majority} :
            x = [device |-> o, state |-> StateOf(o, b.field), baseline |-> b]
    BY DEF Outliers
<1>2. PICK o \in {m \in Determinable(Members(obs, b.cohort), b.field) :
                      StateOf(m, b.field) # b.majority} :
            x = [device |-> o, state |-> StateOf(o, b.field), baseline |-> b]
    BY <1>1
<1>3. x.device = o /\ x.baseline = b
    BY <1>2
<1>4. \E p \in obs, f \in UNION {DOMAIN q.states : q \in obs} : b = Baseline(obs, p.cohort, f)
    BY DEF Baselines
<1>5. PICK c, f : b = Baseline(obs, c, f)
    BY <1>4
<1> DEFINE cohort == Members(obs, c)
           seen == Read(cohort, f)
           differ == Differing(seen, f, b.majority)
<1>6. /\ b.cohort = c /\ b.field = f
      /\ Cardinality(cohort) >= MinCohort
      /\ b.majority \in DeterminableStates
      /\ 4 * Count(cohort, f, b.majority) >= 3 * Cardinality(Determinable(cohort, f))
    BY <1>1, <1>5, ComparedIsAMajority
<1>7. \A d \in cohort : IsDevice(d)
    BY DEF Members
<1>8. Determinable(cohort, f) = seen
    BY <1>7, DeterminableIsRead
<1>9. o.cohort = c /\ o \in seen /\ StateOf(o, f) # b.majority
    BY <1>2, <1>6, <1>8 DEF Determinable, Members
<1>10. \A d \in seen : StateOf(d, f) = d.states[f]
    BY <1>7 DEF Read, StateOf, IsDevice
<1>11. o \in differ
    BY <1>9, <1>10 DEF Differing
<1>12. {d \in cohort : StateOf(d, f) = b.majority} = seen \ differ
  <2>1. \A d \in cohort : StateOf(d, f) = b.majority => d \in seen
    BY <1>6, <1>8 DEF Determinable
  <2>2. \A d \in seen : d \in cohort /\ (d \in differ <=> StateOf(d, f) # b.majority)
    BY <1>10 DEF Differing, Read
  <2> HIDE DEF cohort, seen, differ
  <2> QED BY <2>1, <2>2
<1>13. IsFiniteSet(seen) /\ differ \in SUBSET seen
  <2>1. IsFiniteSet(cohort)
    BY FS_Subset DEF Members
  <2>2. seen \in SUBSET cohort
    BY DEF Read
  <2>3. differ \in SUBSET seen
    BY DEF Differing
  <2> QED BY <2>1, <2>2, <2>3, FS_Subset
<1> DEFINE many == Cardinality(seen)
           few == Cardinality(differ)
           rest == Cardinality(seen \ differ)
<1>14. many \in Nat /\ few \in Nat /\ rest \in Nat /\ many = rest + few
  <2> HIDE DEF seen, differ
  <2>1. IsFiniteSet(differ) /\ IsFiniteSet(seen \ differ)
    BY <1>13, FS_Subset
  <2>2. many \in Nat /\ few \in Nat /\ rest \in Nat
    BY <1>13, <2>1, FS_CardinalityType
  <2>3. seen \cap differ = differ
    BY <1>13
  <2>4. rest = many - few
    BY <1>13, <2>3, FS_Difference
  <2> HIDE DEF many, few, rest
  <2> QED BY <2>2, <2>4
<1>15. 4 * rest >= 3 * many
    BY <1>6, <1>8, <1>12 DEF Count
<1> HIDE DEF cohort, seen, differ, many, few, rest
<1>16. rest >= 3 * few
    BY <1>14, <1>15
<1> QED BY <1>3, <1>6, <1>9, <1>11, <1>16 DEF cohort, seen, differ, few, rest

\* Rows are only added: the ones that a request selected stay the first.
LEMMA UploadKeepsReading ==
    ASSUME FilesOK, ReadingOK, NEW batch \in Batches, Upload(batch)
    PROVE  ReadingOK'
<1> SUFFICES ASSUME reading # NoPage PROVE ReadingOK'
    BY DEF ReadingOK, Upload
<1> DEFINE m == Len(files)
           n == Len(files')
<1>1. UNCHANGED <<reading, packs>>
    BY DEF Upload
<1>2. /\ m \in Nat /\ n \in Nat /\ m <= n /\ DOMAIN files = 1 .. m /\ DOMAIN files' = 1 .. n
      /\ \A i \in 1 .. m : files'[i] = files[i]
  <2> DEFINE k == Cardinality(Fresh(batch))
  <2>1. /\ m \in Nat /\ k \in Nat /\ DOMAIN files = 1 .. m /\ DOMAIN files' = 1 .. m + k
        /\ files' \in Seq(ToSet(files'))
        /\ \A i \in 1 .. m : files'[i] = files[i]
    BY RowsAfterUpload
  <2>2. DOMAIN files' = 1 .. n /\ n \in Nat
    BY <2>1
  <2> HIDE DEF m, n, k
  <2>3. n = m + k
    BY <2>1, <2>2
  <2> QED BY <2>1, <2>2, <2>3
<1>3. ToSet(files) \subseteq ToSet(files')
  <2>1. \A i \in 1 .. m : i \in 1 .. n
    BY <1>2
  <2> HIDE DEF m, n
  <2> QED BY <1>2, <2>1 DEF ToSet
<1>4. reading.rows \in Seq(ToSet(files')) /\ Len(reading.rows) \in Nat /\ Len(reading.rows) <= m
    BY <1>3 DEF ReadingOK
<1>5. \A i \in 1 .. Len(reading.rows) : reading.rows[i] = files'[i]
    BY <1>2, <1>4 DEF ReadingOK
<1>6. Len(reading.rows) <= n
  <2> HIDE DEF m, n
  <2> QED BY <1>2, <1>4
<1>7. ReadingOK
    OBVIOUS
<1> HIDE DEF m
<1> QED BY <1>1, <1>4, <1>5, <1>6, <1>7 DEF ReadingOK, ObservedWith

\* A pack that changes leaves what was read, and marks the request.
LEMMA OverlapKeepsReading ==
    ASSUME ReadingOK, Overlap, UNCHANGED files
    PROVE  ReadingOK'
<1> SUFFICES ASSUME reading' # NoPage PROVE ReadingOK'
    BY DEF ReadingOK
<1>1. reading # NoPage /\ reading' = [reading EXCEPT !.mixed = TRUE]
    BY DEF Overlap
<1>2. reading = [rows |-> reading.rows, done |-> reading.done, devices |-> reading.devices,
                 skipped |-> reading.skipped, mixed |-> reading.mixed]
    BY <1>1 DEF ReadingOK
<1>3. reading' = [rows |-> reading.rows, done |-> reading.done, devices |-> reading.devices,
                  skipped |-> reading.skipped, mixed |-> TRUE]
    BY <1>1, <1>2
<1>4. /\ reading'.rows = reading.rows /\ reading'.done = reading.done
      /\ reading'.devices = reading.devices /\ reading'.skipped = reading.skipped
      /\ reading'.mixed = TRUE
    BY <1>3
<1>5. reading' = [rows |-> reading'.rows, done |-> reading'.done, devices |-> reading'.devices,
                  skipped |-> reading'.skipped, mixed |-> reading'.mixed]
    BY <1>3, <1>4
<1>6. \A o \in reading'.devices : \E i \in 1 .. reading'.done : ObservedWith(o, reading'.rows[i])
    BY <1>1, <1>4 DEF ReadingOK
<1>7. /\ reading'.rows \in Seq(ToSet(files')) /\ Len(reading'.rows) <= Len(files')
      /\ \A i \in 1 .. Len(reading'.rows) : reading'.rows[i] = files'[i]
      /\ reading'.done \in 0 .. Len(reading'.rows)
      /\ IsFiniteSet(reading'.devices) /\ reading'.skipped \in Nat
      /\ Cardinality(reading'.devices) + reading'.skipped = reading'.done
    BY <1>1, <1>4 DEF ReadingOK
<1> QED BY <1>4, <1>5, <1>6, <1>7 DEF ReadingOK, ObservedWith

LEMMA AskStartsReading ==
    ASSUME FilesOK, NEW limit \in Limits, AskBaseline(limit)
    PROVE  ReadingOK'
<1> DEFINE m == Len(files)
           n == IF limit < m THEN limit ELSE m
           rows == SubSeq(files, 1, n)
<1>1. files \in Seq(ToSet(files)) /\ m \in Nat /\ n \in Nat /\ n <= m
    BY LimitsAssumption DEF FilesOK
<1>2. rows \in Seq(ToSet(files)) /\ Len(rows) = n /\ \A i \in 1 .. n : rows[i] = files[i]
  <2> HIDE DEF n
  <2> QED BY <1>1
<1>3. /\ reading' = [rows |-> rows, done |-> 0, devices |-> {}, skipped |-> 0, mixed |-> FALSE]
      /\ UNCHANGED <<files, packs>>
    BY DEF AskBaseline
<1>4. IsFiniteSet({}) /\ Cardinality({}) = 0
    BY FS_EmptySet
<1> HIDE DEF m, n, rows
<1>5. /\ reading'.rows = rows /\ reading'.done = 0 /\ reading'.devices = {}
      /\ reading'.skipped = 0 /\ reading'.mixed = FALSE
    BY <1>3
<1> QED BY <1>1, <1>2, <1>3, <1>4, <1>5 DEF ReadingOK, m

\* A row is skipped, or is a device that none before it was.
LEMMA ReadRowKeepsReading ==
    ASSUME FilesOK, ReadingOK, ReadRow
    PROVE  ReadingOK'
<1> DEFINE row == reading.rows[reading.done + 1]
           done == reading.done + 1
           skipped == IF Skipped(row) THEN reading.skipped + 1 ELSE reading.skipped
           seen == Observation(row)
           devices == IF Skipped(row) THEN reading.devices ELSE reading.devices \cup {seen}
           before == Cardinality(reading.devices)
<1>1. reading # NoPage /\ reading.done < Len(reading.rows) /\ UNCHANGED <<packs, files>>
    BY DEF ReadRow
<1>2. /\ reading = [rows |-> reading.rows, done |-> reading.done, devices |-> reading.devices,
                    skipped |-> reading.skipped, mixed |-> reading.mixed]
      /\ reading.rows \in Seq(ToSet(files)) /\ Len(reading.rows) <= Len(files)
      /\ \A i \in 1 .. Len(reading.rows) : reading.rows[i] = files[i]
      /\ reading.done \in 0 .. Len(reading.rows)
      /\ IsFiniteSet(reading.devices) /\ reading.skipped \in Nat
      /\ before + reading.skipped = reading.done
      /\ \A o \in reading.devices : \E i \in 1 .. reading.done : ObservedWith(o, reading.rows[i])
      /\ ~reading.mixed => \A o \in reading.devices : o.by = packs[o.cohort]
    BY <1>1 DEF ReadingOK
<1>3. reading' = [reading EXCEPT !.done = done, !.skipped = skipped, !.devices = devices]
    BY DEF ReadRow
<1>4. reading' = [rows |-> reading.rows, done |-> done, devices |-> devices,
                  skipped |-> skipped, mixed |-> reading.mixed]
  <2> HIDE DEF done, skipped, devices
  <2> QED BY <1>2, <1>3
<1>5. /\ reading'.rows = reading.rows /\ reading'.done = done /\ reading'.devices = devices
      /\ reading'.skipped = skipped /\ reading'.mixed = reading.mixed
  <2> HIDE DEF done, skipped, devices
  <2> QED BY <1>4
<1>6. Len(reading.rows) \in Nat /\ reading.done \in Nat /\ before \in Nat
    BY <1>2, FS_CardinalityType
<1>7. done \in 1 .. Len(reading.rows) /\ reading.done \in Int /\ reading.done < done
    BY <1>1, <1>2, <1>6
<1>8. ~Skipped(row) => ObservedWith(seen, row) /\ seen.by = packs[seen.cohort]
  <2> SUFFICES ASSUME ~Skipped(row) PROVE ObservedWith(seen, row) /\ seen.by = packs[seen.cohort]
    OBVIOUS
  <2> DEFINE vp == packs[row.platform]
  <2>1. row.platform \in DOMAIN packs
    BY DEF Skipped
  <2>2. row.platform \in Platforms /\ vp \in PackOf[row.platform]
    BY <2>1 DEF FilesOK, KnownPacks
  <2>3. seen = [id |-> row.content, cohort |-> row.platform, label |-> HostName(vp, row.content),
                by |-> vp, states |-> [f \in Fields(vp) |-> FieldOf(vp, f, row.content).state]]
    BY DEF Observation, CohortOf
  <2> HIDE DEF seen, row, vp
  <2>4. /\ seen.id = row.content /\ seen.cohort = row.platform
        /\ seen.label = HostName(vp, row.content) /\ seen.by = vp
        /\ seen.states = [f \in Fields(vp) |-> FieldOf(vp, f, row.content).state]
    BY <2>3
  <2> QED BY <2>2, <2>4 DEF ObservedWith, vp
<1>9. ~Skipped(row) => seen \notin reading.devices
  <2> SUFFICES ASSUME ~Skipped(row), seen \in reading.devices PROVE FALSE
    OBVIOUS
  <2>1. seen.id = row.content
    BY <1>8 DEF ObservedWith
  <2>2. PICK i \in 1 .. reading.done : ObservedWith(seen, reading.rows[i])
    BY <1>2
  <2>3. reading.rows[i].content = reading.rows[done].content
    BY <2>1, <2>2 DEF ObservedWith
  <2> HIDE DEF done
  <2>4. i \in 1 .. Len(reading.rows) /\ i # done
    BY <1>6, <1>7
  <2>5. files[i].content = files[done].content
    BY <1>2, <1>7, <2>3, <2>4
  <2>6. i \in DOMAIN files /\ done \in DOMAIN files
    <3>1. files \in Seq(ToSet(files))
      BY DEF FilesOK
    <3> QED BY <1>2, <1>6, <1>7, <2>4, <3>1
  <2> QED BY <2>4, <2>5, <2>6 DEF FilesOK
<1>10. /\ IsFiniteSet(devices) /\ skipped \in Nat
       /\ Cardinality(devices) + skipped = done
  <2>1. CASE Skipped(row)
    BY <1>2, <1>6, <2>1
  <2>2. CASE ~Skipped(row)
    <3>1. IsFiniteSet(devices) /\ Cardinality(devices) = before + 1
      <4> HIDE DEF seen, row
      <4> QED BY <1>2, <1>9, <2>2, FS_AddElement
    <3>2. skipped = reading.skipped
      BY <2>2
    <3> HIDE DEF devices, skipped, before
    <3> QED BY <1>2, <1>6, <3>1, <3>2
  <2> QED BY <2>1, <2>2
<1>11. ASSUME NEW o \in devices
       PROVE  /\ \E i \in 1 .. done : ObservedWith(o, reading.rows[i])
              /\ ~reading.mixed => o.by = packs[o.cohort]
  <2>1. CASE o \in reading.devices
    <3>1. \A i \in 1 .. reading.done : i \in 1 .. done
      BY <1>6
    <3> HIDE DEF done, devices
    <3> QED BY <1>2, <2>1, <3>1
  <2>2. CASE o = seen /\ ~Skipped(row)
    <3>1. done \in 1 .. done /\ row = reading.rows[done]
      BY <1>6
    <3> HIDE DEF done, devices, seen, row
    <3> QED BY <1>8, <2>2, <3>1
  <2> HIDE DEF seen, row
  <2> QED BY <2>1, <2>2
<1> HIDE DEF row, done, skipped, seen, devices
<1>12. reading' = [rows |-> reading'.rows, done |-> reading'.done, devices |-> reading'.devices,
                   skipped |-> reading'.skipped, mixed |-> reading'.mixed]
    BY <1>4, <1>5
<1>13. done \in 0 .. Len(reading.rows)
    BY <1>7
<1>14. /\ reading'.rows \in Seq(ToSet(files')) /\ Len(reading'.rows) <= Len(files')
       /\ \A i \in 1 .. Len(reading'.rows) : reading'.rows[i] = files'[i]
       /\ reading'.done \in 0 .. Len(reading'.rows)
       /\ IsFiniteSet(reading'.devices) /\ reading'.skipped \in Nat
       /\ Cardinality(reading'.devices) + reading'.skipped = reading'.done
    BY <1>1, <1>2, <1>5, <1>10, <1>13
<1>15. /\ \A o \in reading'.devices :
             \E i \in 1 .. reading'.done : ObservedWith(o, reading'.rows[i])
       /\ ~reading'.mixed => \A o \in reading'.devices : o.by = packs'[o.cohort]
    BY <1>1, <1>5, <1>11
<1> QED BY <1>12, <1>14, <1>15 DEF ReadingOK, ObservedWith

\* What OutliersAreEvidenced says of a response.
Evidenced(pg) ==
    /\ Cardinality(pg.devices) + pg.skipped = Len(pg.rows)
    /\ \A o \in pg.devices : \E i \in DOMAIN pg.rows :
          pg.rows[i].content = o.id /\ pg.rows[i].platform = o.cohort
    /\ \A o \in pg.devices : o.label \subseteq {o.id.host}
    /\ \A x \in pg.outliers :
          LET f == x.baseline.field
              cohort == Members(pg.devices, x.device.cohort)
              seen == Read(cohort, f)
              differ == Differing(seen, f, x.baseline.majority)
          IN  /\ x.device \in differ
              /\ Cardinality(cohort) >= MinCohort
              /\ Cardinality(seen \ differ) >= 3 * Cardinality(differ)
              /\ ~pg.mixed => \A o \in cohort : o.by = x.device.by

LEMMA ReadRequestIsEvidenced ==
    ASSUME FilesOK, ReadingOK, reading # NoPage, reading.done = Len(reading.rows),
           NEW pg, pg.rows = reading.rows, pg.devices = reading.devices,
           pg.skipped = reading.skipped, pg.mixed = reading.mixed,
           pg.outliers = Outliers(reading.devices)
    PROVE  Evidenced(pg)
<1> DEFINE devices == reading.devices
           rows == reading.rows
<1>1. /\ rows \in Seq(ToSet(files)) /\ Len(rows) <= Len(files)
      /\ \A i \in 1 .. Len(rows) : rows[i] = files[i]
      /\ IsFiniteSet(devices)
      /\ Cardinality(devices) + reading.skipped = Len(rows)
      /\ \A o \in devices : \E i \in 1 .. Len(rows) : ObservedWith(o, rows[i])
      /\ ~reading.mixed => \A o \in devices : o.by = packs[o.cohort]
    BY DEF ReadingOK
<1>2. DOMAIN rows = 1 .. Len(rows) /\ Len(rows) \in Nat
    BY <1>1
<1>3. \A i \in 1 .. Len(rows) : i \in DOMAIN files
  <2>1. files \in Seq(ToSet(files))
    BY DEF FilesOK
  <2> HIDE DEF rows
  <2> QED BY <1>1, <1>2, <2>1
<1> HIDE DEF devices, rows
<1>4. \A o \in devices : IsDevice(o)
    BY <1>1 DEF ObservedWith, IsDevice
<1>5. ASSUME NEW o \in devices
      PROVE  /\ \E i \in DOMAIN rows : rows[i].content = o.id /\ rows[i].platform = o.cohort
             /\ o.label \subseteq {o.id.host}
  <2>1. PICK i \in 1 .. Len(rows) : ObservedWith(o, rows[i])
    BY <1>1
  <2>2. i \in DOMAIN files /\ rows[i] = files[i]
    BY <1>1, <1>3
  <2>3. PICK batch \in Batches : \E k \in DOMAIN batch : files[i] = Row(judge[i], batch[k])
    BY <2>2 DEF FilesOK
  <2>4. PICK k \in DOMAIN batch : files[i] = Row(judge[i], batch[k])
    BY <2>3
  <2>5. files[i].content = Content(batch[k])
    BY <2>4 DEF Row
  <2>6. Content(batch[k]).host = batch[k].host
    BY DEF Content
  <2>7. o.id = Content(batch[k]) /\ o.label = HostName(o.by, o.id)
    BY <2>1, <2>2, <2>5 DEF ObservedWith
  <2>8. HostName(o.by, Content(batch[k])) \subseteq {batch[k].host}
    BY <1>4, NameIsOfTheDevice DEF IsDevice
  <2>9. o.label \subseteq {o.id.host}
    BY <2>6, <2>7, <2>8
  <2> QED BY <1>2, <2>1, <2>9 DEF ObservedWith
<1>6. ASSUME NEW x \in Outliers(devices)
      PROVE  LET f == x.baseline.field
                 cohort == Members(devices, x.device.cohort)
                 seen == Read(cohort, f)
                 differ == Differing(seen, f, x.baseline.majority)
             IN  /\ x.device \in differ
                 /\ Cardinality(cohort) >= MinCohort
                 /\ Cardinality(seen \ differ) >= 3 * Cardinality(differ)
                 /\ ~reading.mixed => \A o \in cohort : o.by = x.device.by
  <2> DEFINE f == x.baseline.field
             cohort == Members(devices, x.device.cohort)
             seen == Read(cohort, f)
             differ == Differing(seen, f, x.baseline.majority)
  <2>1. /\ x.device \in differ
        /\ Cardinality(cohort) >= MinCohort
        /\ Cardinality(seen \ differ) >= 3 * Cardinality(differ)
    BY <1>1, <1>4, OutlierIsOfAMinority
  <2>2. x.device \in cohort
    BY <2>1 DEF Differing, Read
  <2>3. \A o \in cohort : o \in devices /\ o.cohort = x.device.cohort
    BY DEF Members
  <2> HIDE DEF cohort, seen, differ
  <2>4. ~reading.mixed => \A o \in cohort : o.by = x.device.by
    BY <1>1, <2>2, <2>3
  <2> QED BY <2>1, <2>4 DEF cohort, seen, differ
<1> QED BY <1>1, <1>5, <1>6 DEF Evidenced, devices, rows

LEMMA RespondIsEvidenced ==
    ASSUME FilesOK, ReadingOK, RespondBaseline
    PROVE  OutliersAreEvidenced'
<1>1. /\ reading # NoPage /\ reading.done = Len(reading.rows)
      /\ page' = [rows |-> reading.rows, devices |-> reading.devices,
                  skipped |-> reading.skipped, mixed |-> reading.mixed,
                  baselines |-> FleetBaseline(reading.devices).baselines,
                  outliers |-> FleetBaseline(reading.devices).outliers]
    BY DEF RespondBaseline
<1>2. /\ page'.rows = reading.rows /\ page'.devices = reading.devices
      /\ page'.skipped = reading.skipped /\ page'.mixed = reading.mixed
      /\ page'.outliers = Outliers(reading.devices)
    BY <1>1 DEF FleetBaseline
<1>3. Evidenced(page')
    BY <1>1, <1>2, ReadRequestIsEvidenced
<1> QED BY <1>3 DEF OutliersAreEvidenced, Evidenced, Read, Differing

LEMMA InitFleetInv == FleetInit => FleetInv
<1> QED BY InitFiles DEF FleetInit, FleetInv, ReadingOK, OutliersAreEvidenced

LEMMA FleetStepwise == FleetInv /\ [FleetNext]_fleetVars => FleetInv'
<1> SUFFICES ASSUME FleetInv, [FleetNext]_fleetVars PROVE FleetInv'
    OBVIOUS
<1>1. FilesOK /\ ReadingOK /\ OutliersAreEvidenced
    BY DEF FleetInv
<1>2. FilesOK'
    BY <1>1, FilesStayOK
<1>3. ASSUME page' = NoPage PROVE OutliersAreEvidenced'
    BY <1>3 DEF OutliersAreEvidenced
<1>4. ASSUME NEW b \in Batches, Upload(b) PROVE ReadingOK' /\ page' = NoPage
    BY <1>1, <1>4, UploadKeepsReading DEF Upload
<1>5. ASSUME NEW p \in Platforms, NEW vp \in PackOf[p], ActivatePack(p, vp)
      PROVE  ReadingOK' /\ page' = NoPage
    BY <1>1, <1>5, OverlapKeepsReading DEF ActivatePack
<1>6. ASSUME NEW p \in DOMAIN packs, Withdraw(p) PROVE ReadingOK' /\ page' = NoPage
    BY <1>1, <1>6, OverlapKeepsReading DEF Withdraw
<1>7. ASSUME UNCHANGED <<packs, files, reading>> PROVE ReadingOK'
    BY <1>1, <1>7 DEF ReadingOK, ObservedWith
<1>8. ASSUME NEW c \in Stored, LoseBlob(c) PROVE ReadingOK' /\ page' = NoPage
    BY <1>7, <1>8 DEF LoseBlob
<1>9. ASSUME NEW limit \in Limits, AskBaseline(limit) PROVE ReadingOK' /\ page' = NoPage
    BY <1>1, <1>9, AskStartsReading DEF AskBaseline
<1>10. CASE ReadRow
  <2>1. ReadingOK' /\ page' = NoPage
    BY <1>1, <1>10, ReadRowKeepsReading DEF ReadRow
  <2> QED BY <1>2, <1>3, <2>1 DEF FleetInv
<1>11. CASE RespondBaseline
  <2>1. ReadingOK'
    BY <1>11 DEF RespondBaseline, ReadingOK
  <2> QED BY <1>1, <1>2, <1>11, <2>1, RespondIsEvidenced DEF FleetInv
<1>12. CASE UNCHANGED fleetVars
  <2>1. ReadingOK' /\ OutliersAreEvidenced'
    BY <1>1, <1>7, <1>12 DEF fleetVars, OutliersAreEvidenced
  <2> QED BY <1>2, <2>1 DEF FleetInv
<1>13. ASSUME ReadingOK' /\ page' = NoPage PROVE FleetInv'
    BY <1>2, <1>3, <1>13 DEF FleetInv
<1> QED BY <1>4, <1>5, <1>6, <1>8, <1>9, <1>10, <1>11, <1>12, <1>13 DEF FleetNext

\* A deviation that is reported is a device of a cohort of one platform, large
\* enough; it and three times as many peers as deviate were read, or claimed by
\* a source, with one pack unless a pack changed while the request ran; each
\* goes by its own name; and what could not be read is counted
\* (api/prioritise/baseline.py, api/routers/fleet.py).
THEOREM OutliersAlwaysEvidenced == FleetSpec => []OutliersAreEvidenced
<1>1. FleetInv => OutliersAreEvidenced
    BY DEF FleetInv
<1> QED BY <1>1, InitFleetInv, FleetStepwise, PTL DEF FleetSpec

=============================================================================
