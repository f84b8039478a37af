----------------------------- MODULE Assessment -----------------------------
(***************************************************************************)
(* One device over time: its file is ingested, audited under the rules and *)
(* the pack of the day, and its stored runs are read again when both have  *)
(* changed.  A pack changes by activation, rollback or a release; the      *)
(* rules are cached for the life of the process and change at a restart.   *)
(*                                                                         *)
(* A pack is what its patterns find in the file and what it claims of the  *)
(* platform.  The rules of a rulepack stand for its checksum.  A run is    *)
(* stored whole here: AuditRun says in which steps.                        *)
(***************************************************************************)
EXTENDS Verdicts, Advice

CONSTANTS
    Control,        \* canonical fields
    Multi,          \* the controls whose cast accumulates values
    WorstCase,      \* control -> the value its merge policy names, or Nothing
    Framework,      \* the frameworks the program can name
    Edition,        \* sourced framework -> [scoped, platform, releases]
    Platform,       \* the platform detected for the file
    Packs,          \* the packs of the platform
    Deployments,    \* the rulepack (version and rules) and the library of
                    \* vetted commands, sound or not, that a start finds
    MaxRuns         \* bound on the runs stored

ASSUME EditionAssumption == DOMAIN Edition \subseteq Framework

\* load_rulepack: one rule for an identifier, which maps to a framework or
\* declines it but not both, and only to those with a catalog.
ASSUME RulepacksAssumption ==
    \A rp \in {d.rulepack : d \in Deployments} :
        /\ IsFiniteSet(rp.rules)
        /\ \A r, s \in rp.rules : r.id = s.id => r = s
        /\ \A r \in rp.rules :
              /\ r.id \in Nat /\ r.severity \in Range(Severities)
              /\ r.frameworks \subseteq DOMAIN Edition /\ r.frameworks \cap r.declines = {}
              /\ {r.onDefault, r.onUnsupported} \subseteq AbsenceAction

\* A pack finds values in lines, none of which its casts make nothing of, and
\* the interfaces of one file.
ASSUME PacksAssumption ==
    \A p \in Packs :
        /\ p.declared \subseteq Control
        /\ IsFiniteSet(p.interfaces)
        /\ \A i \in p.interfaces : i.management \in {"yes", "no", "unknown"}
        /\ \A c \in Control :
              /\ p.found[c] \in Seq({p.found[c][i] : i \in DOMAIN p.found[c]} \ {Nothing})
              /\ p.capability[c].supported \in {"yes", "no", "undocumented"}

\* load_library: a snippet has an identifier, names its platform and does not
\* depend on itself.
ASSUME LibrariesAssumption ==
    \A files \in {d.library : d \in Deployments} :
        /\ files \in Seq({files[i] : i \in DOMAIN files})
        /\ \A i \in DOMAIN files :
              /\ files[i].id \in Nat \ {0} /\ files[i].id \notin files[i].deps
              /\ files[i].risk \in Nat /\ files[i].hint \in Nat
              /\ files[i].platform # "unidentified"

VARIABLES
    pack,       \* the active pack
    rulepack,   \* the rulepack the process has loaded
    library,    \* the library of commands the process reads
    release,    \* device.os_version, {} before the file is ingested
    runs        \* audit_run and finding

vars == <<pack, rulepack, library, release, runs>>

-----------------------------------------------------------------------------

\* sourced_frameworks: a framework without a catalog is not offered at all.
Sourced == DOMAIN Edition

\* CatalogIndex.coverage: only an edition without a platform scope covers a
\* device whose release could not be read from the file.
Coverage(f, rel) ==
    CASE ~Edition[f].scoped -> "covered"
      [] Edition[f].scoped /\ Edition[f].platform # Platform -> "not_covered"
      [] OTHER -> IF rel = "" THEN "undeterminable"
                  ELSE IF rel \in Edition[f].releases THEN "covered" ELSE "not_covered"

Covered(f, rel) == f \in Sourced /\ Coverage(f, rel) = "covered"

\* device_framework_options
Offered(rel) == {[framework |-> f, describes |-> Covered(f, rel)] : f \in Sourced}

\* explain_absence: nobody has read it, or it does not describe the device.
Absence(rel) ==
    {[framework |-> f,
      why |-> IF f \notin Sourced THEN "unsourced" ELSE Coverage(f, rel)] :
        f \in {g \in Framework : ~Covered(g, rel)}}

\* parse_configuration and build_csm.
Field(p, c) ==
    Resolve(BuildField(p.found[c], c \in Multi, WorstCase[c]), p.capability[c], p.default[c])

\* The rules a run of these frameworks evaluates: rulepack.applicable_to.
Evaluated(rp, effective) ==
    {r \in rp.rules : r.applies /\ (effective = {} \/ r.frameworks \cap effective # {})}

NoField == [state |-> "UNKNOWN", value |-> Nothing, reason |-> "no_match",
            evidence |-> {}, citation |-> FALSE]

\* evaluate_device
Findings(rp, p, effective) ==
    {[rule |-> r.id, severity |-> r.severity, field |-> r.field,
      finding |-> IF r.field \in p.declared THEN Evaluate(r, Field(p, r.field))
                  ELSE Abstain("no_match", NoField)] : r \in Evaluated(rp, effective)}

\* scope_selection: the part of a selection that describes the device, and the
\* rules it leaves out.
Effective(selection, rel) == {f \in selection : Covered(f, rel)}

\* Mutant: a rule is left out unless it maps to all that was selected.
LeftOutOfSelection(rp, selection, rel) ==
    {r.id : r \in {s \in rp.rules : s.applies /\ ~ selection \subseteq s.frameworks}}

LeftOut(rp, selection, rel) ==
    LET effective == Effective(selection, rel) IN
    {r.id : r \in {s \in rp.rules :
        s.applies /\ effective # {} /\ s.frameworks \cap effective = {}}}

\* refs_for_device
Refs(frameworks, rel) == {f \in frameworks : Covered(f, rel)}

\* mappings_for_device
Mappings(rp, rel) ==
    {[rule |-> r.id, frameworks |-> Refs(r.frameworks, rel)] : r \in rp.rules}

\* What a selection may name: resolve_selection answers 400 otherwise.
Resolved(selection) == selection \subseteq Sourced

Init ==
    /\ pack \in Packs
    /\ \E d \in Deployments : rulepack = d.rulepack /\ library = d.library
    /\ release = {}
    /\ runs = <<>>

\* _persist: the device row is written at the first upload, and never again.
Ingest ==
    /\ release = {}
    /\ release' = {pack.release}
    /\ UNCHANGED <<pack, rulepack, library, runs>>

\* Activation, rollback, or a release with a new builtin pack.
ChangePack(p) ==
    /\ p # pack
    /\ pack' = p
    /\ UNCHANGED <<rulepack, library, release, runs>>

Restart(d) ==
    /\ d # [rulepack |-> rulepack, library |-> library]
    /\ rulepack' = d.rulepack
    /\ library' = d.library
    /\ UNCHANGED <<pack, release, runs>>

\* POST /audits: the release is read again, with the pack of the day.  409
\* when nothing selected describes the device, or no rule maps to it.  The
\* ranking is in the answer and is not stored.
Audit(selection) ==
    LET effective == Effective(selection, pack.release) IN
    /\ release # {}
    /\ Len(runs) < MaxRuns
    /\ Resolved(selection)
    /\ selection = {} \/ effective # {}
    /\ Findings(rulepack, pack, effective) # {}
    /\ runs' = Append(runs,
          [version |-> rulepack.version, rules |-> rulepack.rules, pack |-> pack,
           selection |-> selection, effective |-> effective,
           leftOut |-> LeftOut(rulepack, selection, pack.release),
           findings |-> Findings(rulepack, pack, effective),
           ranking |-> Prioritise(pack, Findings(rulepack, pack, effective))])
    /\ UNCHANGED <<pack, rulepack, library, release>>

Next ==
    \/ Ingest
    \/ \E p \in Packs : ChangePack(p)
    \/ \E d \in Deployments : Restart(d)
    \/ \E selection \in SUBSET Framework : Audit(selection)

Spec == Init /\ [][Next]_vars

-----------------------------------------------------------------------------
(* GET /audits/{id}/findings and the report, from a stored run: mappings   *)
(* and scope are looked up, by the checksum, in the rules of the day.      *)

\* Mutant: the run is matched by the version its rules were labelled with.
AttachedByVersion(run) == run.version = rulepack.version

Attached(run) == run.rules = rulepack.rules

Release == CHOOSE r \in release : TRUE

\* run_framework_view
View(run) ==
    [mappings |-> IF Attached(run) THEN Mappings(rulepack, Release) ELSE {},
     declined |-> IF Attached(run)
                  THEN {[rule |-> r.id, frameworks |-> Refs(r.declines, Release)] :
                           r \in rulepack.rules}
                  ELSE {},
     absent |-> Absence(Release),
     effective |-> Effective(run.selection, Release),
     leftOut |-> LeftOut(rulepack, run.selection, Release)]

\* The entry of a rule in one of the view's tables, or nothing.
Of(table, rule) == UNION {x.frameworks : x \in {y \in table : y.rule = rule}}

\* Remediation is looked up in the library of the day, by the rule alone.
Remedy(x) == Outcome(library, Platform, [rule |-> x.rule, status |-> x.finding.status])

\* get_findings
Answer(run) ==
    {[rule |-> x.rule, severity |-> x.severity, finding |-> x.finding,
      frameworks |-> Of(View(run).mappings, x.rule),
      declined |-> Of(View(run).declined, x.rule),
      remedy |-> Remedy(x)] : x \in run.findings}

\* build_report
Document(run) ==
    LET reported == {[rule |-> x.rule, severity |-> x.severity,
                      status |-> x.finding.status, reason |-> x.finding.reason,
                      frameworks |-> Of(View(run).mappings, x.rule),
                      remedy |-> Remedy(x)] : x \in run.findings}
        cited == UNION {x.frameworks : x \in reported}
    IN  [findings |-> Report(reported),
         disclosures |-> Disclosures(reported, cited, Framework, library),
         absent |-> View(run).absent]

\* remediation_plan
Steps(run) ==
    Plan(library, Platform,
         {[rule |-> x.rule, severity |-> x.severity, status |-> x.finding.status] :
             x \in run.findings})

-----------------------------------------------------------------------------

RunIndex == DOMAIN runs

\* Rules 1 to 3: PASS and FAIL rest on a line of the file or on a sourced
\* claim of the pack, "not applicable" on a sourced claim, a disagreement of
\* the file is never a verdict, and every other answer is UNKNOWN with a reason.
\* Nothing an audit makes is refused where it is made, which would answer 500.
VerdictIsJustified ==
    \A n \in RunIndex : \A x \in runs[n].findings :
        LET rule == CHOOSE r \in runs[n].rules : r.id = x.rule
            c == rule.field
            p == runs[n].pack
            lines == p.found[c]
        IN  /\ ValidFinding(x.finding)
            /\ c \in p.declared => ValidField(Field(p, c))
            /\ x.finding.status # "unknown" =>
                    /\ c \in p.declared
                    /\ IF lines = <<>>
                       THEN \/ p.capability[c].supported = "yes" /\ p.default[c].sourced
                            \/ p.capability[c].supported = "no" /\ p.capability[c].sourced
                       ELSE /\ x.finding.evidence = DOMAIN lines
                            /\ \/ c \in Multi
                               \/ WorstCase[c] \in {lines[i] : i \in DOMAIN lines}
                               \/ \A i, j \in DOMAIN lines : lines[i] = lines[j]

\* What p claims with a source, q claims alike.
Knows(q, p) ==
    /\ q.declared = p.declared /\ q.found = p.found
    /\ \A c \in Control :
          /\ p.capability[c].supported = "yes" => q.capability[c].supported = "yes"
          /\ p.capability[c].supported = "no" /\ p.capability[c].sourced =>
                q.capability[c] = p.capability[c]
          /\ p.default[c].sourced => q.default[c] = p.default[c]

\* "Undocumented never becomes unsupported", nor anything else: learning more
\* of a platform settles what was UNKNOWN and changes no other verdict.
KnowledgeOnlySettles ==
    \A m, n \in RunIndex :
        runs[m].rules = runs[n].rules /\ Knows(runs[n].pack, runs[m].pack) =>
            \A x \in runs[m].findings, y \in runs[n].findings :
                x.rule = y.rule =>
                    x.finding.status \in {"unknown", y.finding.status}

\* A rule that applies is reported on or named as left out, never both, and a
\* run that would report nothing is not stored.
EveryRuleAccountedFor ==
    \A n \in RunIndex :
        LET reported == {x.rule : x \in runs[n].findings} IN
        /\ reported # {}
        /\ reported \cap runs[n].leftOut = {}
        /\ reported \cup runs[n].leftOut = {r.id : r \in {s \in runs[n].rules : s.applies}}

\* "The two cannot disagree": identifiers and scope are shown beside a verdict
\* only when the rules shown are those that decided it, and then they are what
\* the audit used, unless the device row holds another release than it read;
\* each framework is cited, declined or absent with its reason, and the report
\* denies mappings only when no rule in it has one that holds on the device.
ViewAgreesWithRun ==
    \A n \in RunIndex :
        LET run == runs[n] IN
        /\ \A x \in Answer(run) :
              /\ x.frameworks # {} =>
                    \E r \in run.rules : r.id = x.rule /\ x.frameworks \subseteq r.frameworks
              /\ x.frameworks \cap x.declined = {}
              /\ (x.frameworks \cup x.declined) \cap {a.framework : a \in Absence(Release)} = {}
        /\ Attached(run) =>
              /\ "no_mappings" \in Document(run).disclosures <=>
                    \A x \in run.findings, r \in run.rules :
                        r.id = x.rule => Refs(r.frameworks, Release) = {}
              /\ Release = run.pack.release =>
                    /\ View(run).effective = run.effective
                    /\ View(run).leftOut = run.leftOut
                    /\ \A o \in Offered(Release) : o.framework \in run.selection =>
                          (o.describes <=> o.framework \in run.effective)

\* "Severity alone must not determine remediation order": a rank is given only
\* for a control whose exposure the file settles, every such finding has one,
\* and no two the same; where the management plane can be reached, the more
\* severe of two ranked findings comes first.
RanksAreEarned ==
    \A n \in RunIndex :
        LET model == runs[n].pack
            ranking == runs[n].ranking
            ranked == {x \in ranking : x.rank # 0}
        IN  /\ {x.rank : x \in ranked} = 1 .. Cardinality(ranked)
            /\ ranked # {} =>
                  /\ model.acls /\ model.interfaces # {}
                  /\ \/ \E i \in model.interfaces : i.management = "yes"
                     \/ \A i \in model.interfaces : i.management = "no"
                  /\ ranked = {x \in ranking : x.field \in ExposureRelevant}
            /\ Reachable(Management(model.interfaces)) # {} =>
                  \A x, y \in ranked :
                      x.rank < y.rank => Severity(x.severity) <= Severity(y.severity)

\* "A plan that silently omitted the rules with no snippet would understate
\* the work": each failure is one step, its commands are those vetted for this
\* rule on this platform, no step comes before a prerequisite that is itself
\* in the plan, and what has no commands comes after what has.
PlanIsComplete ==
    Consistent(library) =>
        \A n \in RunIndex :
            LET steps == Steps(runs[n])
                failures == {x.rule : x \in {y \in runs[n].findings : y.finding.status = "fail"}}
            IN  /\ {steps[i].rule : i \in DOMAIN steps} = failures
                /\ Len(steps) = Cardinality(failures)
                /\ \A i \in DOMAIN steps :
                      IF steps[i].snippet = NoSnippet
                      THEN \A k \in DOMAIN library :
                               <<library[k].platform, library[k].rule>> # <<Platform, steps[i].rule>>
                      ELSE steps[i].snippet.platform = Platform
                /\ \A i, j \in DOMAIN steps : i < j =>
                      /\ steps[i].order = 0 => steps[j].order = 0
                      /\ steps[i].order # 0 /\ steps[j].order # 0 =>
                            steps[j].snippet.id \notin steps[i].snippet.deps

=============================================================================
