------------------------------- MODULE Advice -------------------------------
(***************************************************************************)
(* What NIRIKSHAK says about a finding once it has its verdict: how        *)
(* exposed the control is and in which order to look at it                 *)
(* (api/prioritise), which vetted commands would change it and in which    *)
(* order to apply them (api/remediate), and what a report may claim        *)
(* (api/report, api/comply/frameworks.py).  All of it is computed when it  *)
(* is asked for and none of it is stored.                                  *)
(*                                                                         *)
(* Rule and snippet identifiers are numbers, in the order of their texts.  *)
(* An interface is [name, management, addressed, enabled], its management  *)
(* status "yes", "no" or "unknown"; a snippet is [id, platform, rule,      *)
(* deps, risk, hint]; a library is the sequence of its files.              *)
(***************************************************************************)
EXTENDS Naturals, Sequences, FiniteSets, SequencesExt, FiniteSetsExt

Severities == <<"critical", "high", "medium", "low", "info">>
Severity(n) == CHOOSE i \in DOMAIN Severities : Severities[i] = n

-----------------------------------------------------------------------------
(* Exposure.                                                               *)

ExposureRelevant ==
    {"ssh_version", "telnet_enabled", "http_server_enabled",
     "https_server_enabled", "weak_ciphers", "snmp_v3_only",
     "idle_timeout_seconds", "min_password_length", "aaa_enabled"}

\* SEVERITY_WEIGHT, in tenths.
Weight(severity) == <<10, 8, 5, 3, 1>>[Severity(severity)]

Management(interfaces) == {i \in interfaces : i.management = "yes"}
Indeterminate(interfaces) == {i \in interfaces : i.management = "unknown"}

\* Mutant: an interface nobody has documented is not a management one.
UnknownIsNotManagement(model, field) ==
    CASE field \notin ExposureRelevant -> "not_exposure_relevant"
      [] field \in ExposureRelevant /\ model.interfaces = {} -> "no_interface_data"
      [] field \in ExposureRelevant /\ model.interfaces # {} /\ ~model.acls -> "no_acl_data"
      [] OTHER -> "determined"

\* assess: the most fundamental absence is the one reported.
Determinacy(model, field) ==
    IF field \notin ExposureRelevant THEN "not_exposure_relevant"
    ELSE IF model.interfaces = {} THEN "no_interface_data"
    ELSE IF Management(model.interfaces) = {} /\ Indeterminate(model.interfaces) # {}
         THEN "indeterminate_interfaces"
    ELSE IF ~model.acls THEN "no_acl_data"
    ELSE "determined"

Reachable(interfaces) == {i \in interfaces : i.addressed /\ i.enabled # "no"}

\* management_exposure times the weight, to four places: out of 10000.
Score(model, severity) ==
    LET management == Management(model.interfaces)
        all == Cardinality(management)
        reached == Cardinality(Reachable(management))
    IN  IF all = 0 THEN 0
        ELSE (2000 * reached * Weight(severity) + all) \div (2 * all)

\* prioritise: findings of controls that could be assessed have a rank, the
\* most exposed first and then in the order of their rules; 0 is no rank.
MoreExposed(model, x, y) ==
    LET a == Score(model, x.severity)
        b == Score(model, y.severity)
    IN  a > b \/ (a = b /\ x.rule < y.rule)

Prioritise(model, findings) ==
    LET determined == {x \in findings : Determinacy(model, x.field) = "determined"} IN
    {[rule |-> x.rule, severity |-> x.severity, field |-> x.field,
      exposure |-> Determinacy(model, x.field),
      rank |-> IF x \in determined
               THEN 1 + Cardinality({y \in determined : MoreExposed(model, y, x)})
               ELSE 0] : x \in findings}

-----------------------------------------------------------------------------
(* The library of vetted commands.                                         *)

NoSnippet == [id |-> 0]

Ids(library) == {library[i].id : i \in DOMAIN library}

\* check_consistency: no identifier twice, no prerequisite missing, no cycle.
Consistent(library) ==
    /\ \A i, j \in DOMAIN library : library[i].id = library[j].id => i = j
    /\ \A i \in DOMAIN library : library[i].deps \subseteq Ids(library)
    /\ \A S \in (SUBSET DOMAIN library) \ {{}} :
          \E i \in S : \A j \in S \ {i} : library[j].id \notin library[i].deps

\* SnippetLibrary.lookup: the first file for the platform and the rule.
Lookup(library, platform, rule) ==
    LET files == {i \in DOMAIN library :
                     library[i].platform = platform /\ library[i].rule = rule}
    IN  IF files = {} THEN NoSnippet ELSE library[Min(files)]

\* resolve
Outcome(library, platform, x) ==
    IF x.status # "fail" THEN "not_actionable"
    ELSE IF platform = "unidentified" THEN "platform_unknown"
    ELSE IF Lookup(library, platform, x.rule) = NoSnippet THEN "no_snippet"
    ELSE "resolved"

\* _sort_key: lowest lockout risk first.
Sooner(s, t) ==
    \/ s.risk < t.risk
    \/ s.risk = t.risk /\ s.hint < t.hint
    \/ s.risk = t.risk /\ s.hint = t.hint /\ s.id < t.id

\* Mutant: by lockout risk alone.
OrderByRisk(snippets) == SetToSortSeq(snippets, Sooner)

\* order_snippets: of those whose prerequisites in the set are placed, the
\* soonest next.
Ready(pending) ==
    {s \in pending : \A t \in pending \ {s} : t.id \notin s.deps}
Soonest(snippets) ==
    CHOOSE s \in snippets : \A t \in snippets \ {s} : Sooner(s, t)

OrderSnippets(snippets) ==
    LET order[pending \in SUBSET snippets] ==
            IF Ready(pending) = {} THEN <<>>
            ELSE <<Soonest(Ready(pending))>> \o order[pending \ {Soonest(Ready(pending))}]
    IN  order[snippets]

-----------------------------------------------------------------------------
(* Reports.                                                                *)

Verdicts4 == <<"fail", "unknown", "pass", "not_applicable">>
VerdictRank(status) == CHOOSE i \in DOMAIN Verdicts4 : Verdicts4[i] = status

\* ReportedFinding.sort_key
Above(x, y) ==
    LET v == VerdictRank(x.status)
        w == VerdictRank(y.status)
        a == Severity(x.severity)
        b == Severity(y.severity)
    IN  \/ v < w
        \/ v = w /\ a < b
        \/ v = w /\ a = b /\ x.rule < y.rule

\* build_report: the finding with as many above it as its place wants.
Report(findings) ==
    [i \in 1 .. Cardinality(findings) |->
        CHOOSE x \in findings : Cardinality({y \in findings : Above(y, x)}) = i - 1]

\* remediation_plan: what resolved, in the order to apply it, then the rest of
\* the failures as the report has them.
Plan(library, platform, findings) ==
    LET failures == {x \in findings : x.status = "fail"}
        resolved == {x \in failures : Outcome(library, platform, x) = "resolved"}
        sequence == OrderSnippets({Lookup(library, platform, x.rule) : x \in resolved})
        rest == Report(failures \ resolved)
    IN  [i \in DOMAIN sequence |->
            [order |-> i, rule |-> sequence[i].rule, snippet |-> sequence[i]]]
        \o [i \in DOMAIN rest |->
            [order |-> 0, rule |-> rest[i].rule, snippet |-> NoSnippet]]

\* _disclosures: cited is the set of frameworks with an identifier in the
\* report, known the set of those the enumeration names.
Disclosures(findings, cited, known, library) ==
    {d \in {"no_mappings", "mappings_asserted", "some_absent", "empty_library",
            "no_exposure", "capability_unknown", "subject_is_a_file"} :
        \/ d = "no_mappings" /\ cited = {} /\ findings # {}
        \/ d = "mappings_asserted" /\ cited # {}
        \/ d = "some_absent" /\ cited # {} /\ known \ cited # {}
        \/ d = "empty_library" /\ library = <<>>
        \/ d = "no_exposure" /\ findings # {}
        \/ d = "capability_unknown" /\ \E x \in findings : x.reason = "capability_unknown"
        \/ d = "subject_is_a_file"}

=============================================================================
