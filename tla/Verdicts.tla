------------------------------ MODULE Verdicts ------------------------------
(***************************************************************************)
(* How a line becomes a verdict: api/parse/fields.py makes a field of the  *)
(* values the pack's patterns matched, api/normalise/absence.py decides    *)
(* what a field nobody matched means on the platform, api/comply evaluates *)
(* a rule on the field.  Each is a function of its arguments.              *)
(*                                                                         *)
(* A value is a pair of its Python type and its content; a claim of a pack *)
(* about its platform is "sourced" when its provenance is admissible.      *)
(***************************************************************************)
EXTENDS Naturals, Sequences, FiniteSets

\* Canonical values.  TRUE is 1 to Python, so booleans hold 0 and 1.
Bool(n) == <<"bool", n>>
Num(n) == <<"int", n>>
Str(n) == <<"str", n>>
List(s) == <<"list", s>>
Nothing == <<"none", 0>>

IsBool(v) == v[1] = "bool"
IsNumber(v) == v[1] = "int"
IsString(v) == v[1] = "str"
IsList(v) == v[1] = "list"

\* Python's ==, to which True is 1; members of a list are compared so too.
Same(v, w) ==
    \/ v = w
    \/ {v[1], w[1]} = {"bool", "int"} /\ v[2] = w[2]

Equal(v, w) ==
    \/ Same(v, w)
    \/ /\ IsList(v) /\ IsList(w) /\ Len(v[2]) = Len(w[2])
       /\ \A i \in DOMAIN v[2] : Same(v[2][i], w[2][i])

Member(v, s) == \E i \in DOMAIN s : Same(v, s[i])

-----------------------------------------------------------------------------
(* Fields.                                                                 *)

NoReason == "none"

Unknown(reason, cited) ==
    [state |-> "UNKNOWN", value |-> Nothing, reason |-> reason,
     evidence |-> cited, citation |-> FALSE]

Present(v, cited) ==
    [state |-> "PRESENT", value |-> v, reason |-> NoReason, evidence |-> cited,
     citation |-> FALSE]

\* Field: a field without what its state needs cannot be constructed, and the
\* request that tries to fails.
ValidField(f) ==
    /\ f.state = "PRESENT" => f.evidence # {} /\ f.value # Nothing
    /\ f.state = "ABSENT_DEFAULT" => f.citation
    /\ f.state = "ABSENT_UNSUPPORTED" => f.value = Nothing
    /\ f.state = "UNKNOWN" => f.reason # NoReason /\ f.value = Nothing

\* build_field: matches is the sequence of the values matched, one per line.
\* Mutant: the first line wins.
FirstLineWins(matches, multi, worst) ==
    LET lines == DOMAIN matches IN
    CASE matches = <<>> -> Unknown("no_match", {})
      [] multi -> Present(List(matches), lines)
      [] OTHER -> Present(matches[1], lines)

BuildField(matches, multi, worst) ==
    LET lines == DOMAIN matches
        distinct == {matches[i] : i \in lines}
    IN  IF matches = <<>> THEN Unknown("no_match", {})
        ELSE IF multi THEN Present(List(matches), lines)
        ELSE IF Cardinality(distinct) = 1 THEN Present(matches[1], lines)
        ELSE IF worst \in distinct THEN Present(worst, lines)
        ELSE Unknown("conflicting_evidence", lines)

\* The states a sourced claim of the pack puts an absent field in.
ClaimedAbsent(state, v) ==
    [state |-> state, value |-> v, reason |-> NoReason, evidence |-> {}, citation |-> TRUE]

\* resolve_absent_field: what the pack knows of a control that is not there.
\* Mutant: silence is read as "unsupported".
SilenceIsUnsupported(capability, default) ==
    CASE capability.supported # "yes" -> ClaimedAbsent("ABSENT_UNSUPPORTED", Nothing)
      [] default.sourced -> ClaimedAbsent("ABSENT_DEFAULT", default.value)
      [] OTHER -> Unknown("no_match", {})

Absent(capability, default) ==
    CASE capability.supported = "undocumented" -> Unknown("capability_unknown", {})
      [] capability.supported = "no" /\ ~capability.sourced ->
            Unknown("capability_unknown", {})
      [] capability.supported = "no" /\ capability.sourced ->
            ClaimedAbsent("ABSENT_UNSUPPORTED", Nothing)
      [] capability.supported = "yes" /\ ~default.sourced -> Unknown("no_match", {})
      [] capability.supported = "yes" /\ default.sourced ->
            ClaimedAbsent("ABSENT_DEFAULT", default.value)

\* _resolve_absences: only NO_MATCH means that the directive is not there.
Resolve(field, capability, default) ==
    IF field.state = "UNKNOWN" /\ field.reason = "no_match"
    THEN Absent(capability, default) ELSE field

-----------------------------------------------------------------------------
(* Conditions: evaluate answers None where Meaningful is false.            *)

Ordered == {"gt", "gte", "lt", "lte"}

SameKind(v, w) == v # Nothing /\ v[1] = w[1]

Meaningful(c, v) ==
    \/ c.op \in {"equals", "not_equals"} /\ SameKind(v, c.value)
    \/ c.op \in Ordered /\ IsNumber(v) /\ IsNumber(c.value)
    \/ c.op \in {"in", "not_in"} /\ v # Nothing /\ ~IsList(v)
    \/ c.op \in {"contains", "non_empty"} /\ (IsList(v) \/ IsString(v))
    \/ c.op \in {"is_true", "is_false"} /\ IsBool(v)

\* Substrings and empty strings are beyond strings that are numbers.
Satisfied(c, v) ==
    \/ c.op = "equals" /\ Equal(v, c.value)
    \/ c.op = "not_equals" /\ ~Equal(v, c.value)
    \/ c.op = "gt" /\ v[2] > c.value[2]
    \/ c.op = "gte" /\ v[2] >= c.value[2]
    \/ c.op = "lt" /\ v[2] < c.value[2]
    \/ c.op = "lte" /\ v[2] <= c.value[2]
    \/ c.op = "in" /\ Member(v, c.value[2])
    \/ c.op = "not_in" /\ ~Member(v, c.value[2])
    \/ c.op = "contains" /\ (IF IsList(v) THEN Member(c.value, v[2]) ELSE v = c.value)
    \/ c.op = "is_true" /\ v = Bool(1)
    \/ c.op = "is_false" /\ v = Bool(0)
    \/ c.op = "non_empty" /\ (IsList(v) => v[2] # <<>>)

-----------------------------------------------------------------------------
(* Findings.                                                               *)

Found(status, field) ==
    [status |-> status, reason |-> NoReason, state |-> field.state,
     evidence |-> field.evidence, citation |-> field.citation]

Abstain(reason, field) ==
    [status |-> "unknown", reason |-> reason, state |-> field.state,
     evidence |-> field.evidence, citation |-> FALSE]

\* Finding: the same of a verdict.
ValidFinding(x) ==
    /\ x.status \in {"pass", "fail"} => x.evidence # {} \/ x.citation
    /\ x.status = "unknown" <=> x.reason # NoReason

\* _from_condition: a conjunct that cannot be evaluated outweighs a false one.
Judged(rule, field) ==
    IF \E c \in rule.conditions : ~Meaningful(c, field.value)
    THEN Abstain("rule_type_mismatch", field)
    ELSE IF field.evidence = {} /\ ~field.citation
    THEN Abstain("no_evidence", field)
    ELSE Found(IF \A c \in rule.conditions : Satisfied(c, field.value)
               THEN "pass" ELSE "fail", field)

AbsenceAction == {"evaluate", "pass", "fail", "not_applicable", "unknown"}

\* _action_for: on_capability_unknown is "unknown" in every rule that loads.
Action(rule, state) ==
    CASE state = "ABSENT_DEFAULT" -> rule.onDefault
      [] state = "ABSENT_UNSUPPORTED" -> rule.onUnsupported
      [] OTHER -> "unknown"

\* _evaluate_rule, on a field the pack declares.
Evaluate(rule, field) ==
    LET action == Action(rule, field.state) IN
    CASE field.state = "PRESENT" -> Judged(rule, field)
      [] field.state # "PRESENT" /\ action = "evaluate" -> Judged(rule, field)
      [] field.state # "PRESENT" /\ action \in {"not_applicable", "pass", "fail"} ->
            Found(action, field)
      [] field.state # "PRESENT" /\ action = "unknown" ->
            Abstain(IF field.reason = NoReason THEN "capability_unknown" ELSE field.reason, field)

=============================================================================
