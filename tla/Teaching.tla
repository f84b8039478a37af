------------------------------ MODULE Teaching ------------------------------
(***************************************************************************)
(* An administrator is shown a line no pattern read, with its secrets      *)
(* replaced (api/normalise/residue.py, api/security/scrub.py), says what   *)
(* it means, and the decision is compiled into a pattern                   *)
(* (api/train/compile.py) that the next reading of the file uses.  The     *)
(* pattern is made of the line as shown; it will be matched against the    *)
(* line as it is.                                                          *)
(*                                                                         *)
(* How a decision is recorded is Desk, how a pack with the pattern becomes *)
(* active PackLifecycle: here confirming, compiling, activating and        *)
(* reading again are one step.                                             *)
(***************************************************************************)
EXTENDS DeviceReading

CONSTANTS
    SecretWords,    \* words that are, or after a hyphen end in, password,
                    \* secret, key, community, ...
    Hashes,         \* words that are a crypt hash
    Literals,       \* values a decision may state
    Casts,          \* casts a decision may name
    MaxTokens,      \* MAX_TOKENS
    TaughtField,    \* the canonical field that is taught
    TaughtFiles,    \* the files somebody teaches from, a bound
    NoLesson

ASSUME MaxTokensAssumption == MaxTokens \in Nat

ASSUME CastsAssumption == Casts \subseteq {"str", "bool"} \cup Durations

VARIABLE lesson     \* what was taught

-----------------------------------------------------------------------------
(* scrub_line.                                                             *)

Redacted == "<redacted>"

\* The marks of patterns and of the scrubber are no words of a file.
ASSUME WordsAssumption ==
    \A f \in Files : \A n \in DOMAIN f.lines :
        ToSet(f.lines[n].text) \cap {Hole, AnyNumber, Redacted} = {}

\* The words that are secrets, left to right: the one after a keyword and its
\* type tag, or a hash anywhere.
Secrets(text) ==
    LET from[i \in 1 .. Len(text) + 1] ==
            CASE i > Len(text) -> {}
              [] i < Len(text) /\ text[i] \in SecretWords ->
                    LET tagged == i + 1 < Len(text) /\ text[i + 1] \in Numeral
                        value == IF tagged THEN i + 2 ELSE i + 1
                    IN  {value} \cup from[value + 1]
              [] OTHER -> {j \in {i} : text[i] \in Hashes} \cup from[i + 1]
    IN  from[1]

Scrub(text) ==
    [i \in DOMAIN text |-> IF i \in Secrets(text) THEN Redacted ELSE text[i]]

-----------------------------------------------------------------------------
(* compile_pattern.  A token of 0 captures nothing: the line itself is the *)
(* fact.                                                                   *)

Compilable(shown, token) ==
    /\ shown # <<>> /\ Len(shown) <= MaxTokens
    /\ token \in 0 .. Len(shown)
    /\ ~(token = 1 /\ Len(shown) = 1)

BuildRegex(shown, token) ==
    [i \in DOMAIN shown |-> IF i = token THEN Hole ELSE shown[i]]

\* Mutant: the header right above the line.
InnermostScope(path, generalise) ==
    [i \in 1 .. (IF path = <<>> THEN 0 ELSE 1) |-> Last(path)]

BuildScope(path, generalise) ==
    [i \in DOMAIN path |->
        [j \in DOMAIN path[i] |->
            IF generalise /\ path[i][j] \in Numeral THEN AnyNumber ELSE path[i][j]]]

CompilePattern(shown, path, token, value, cast, generalise) ==
    [field |-> TaughtField, root |-> path = <<>>, scope |-> BuildScope(path, generalise),
     words |-> BuildRegex(shown, token), literal |-> value, cast |-> cast]

Teach(n, token, value, cast, generalise) ==
    LET shown == Scrub(nodes[n].text)
        pattern == CompilePattern(shown, nodes[n].path, token, value, cast, generalise)
        found == Matches(nodes, Patterns[file.os] \cup {pattern})
    IN  /\ phase = "extracted"
        /\ Compilable(shown, token)
        /\ matches' = found
        /\ residue' = residue \ {m[2] : m \in found}
        /\ lesson' = [line |-> n, token |-> token, general |-> generalise,
                      pattern |-> pattern, before |-> residue]
        /\ phase' = "taught"
        /\ UNCHANGED <<file, at, nodes, unplaced, stack, literal, comment,
                       interfaces, lists, failures, observations>>

TInit == Init /\ lesson = NoLesson

TNext ==
    \/ Next /\ UNCHANGED lesson
    \/ /\ phase = "extracted" /\ file \in TaughtFiles
       /\ \E n \in residue : \E token \in 0 .. Len(nodes[n].text) :
          \E value \in Literals, cast \in Casts, generalise \in BOOLEAN :
              Teach(n, token, value, cast, generalise)

TSpec == TInit /\ [][TNext]_<<vars, lesson>>

-----------------------------------------------------------------------------

\* A line says what the line n says, in its place.
SaysTheSame(m, n) ==
    /\ Len(nodes[m].text) = Len(nodes[n].text)
    /\ \A i \in DOMAIN nodes[n].text :
          i = lesson.token \/ nodes[m].text[i] = nodes[n].text[i]
    /\ Len(nodes[n].path) <= Len(nodes[m].path)
    /\ (nodes[n].path = <<>> => nodes[m].path = <<>>)
    /\ \A i \in DOMAIN nodes[n].path :
          LET there == nodes[m].path[i]
              here == nodes[n].path[i]
          IN  \/ there = here
              \/ /\ lesson.general /\ Len(there) = Len(here)
                 /\ \A j \in DOMAIN here : there[j] = here[j] \/ {there[j], here[j]} \subseteq Numeral

Value(n) ==
    Cast(lesson.pattern.cast,
         IF lesson.token = 0 THEN lesson.pattern.literal ELSE <<nodes[n].text[lesson.token]>>)

\* What was taught is read the next time, on its line and on every line that
\* says the same in such a block, and on no other; except a value its cast
\* refuses, and a line that names a secret outside the captured word, which is
\* compiled as "<redacted>" and never read.  What was read before still is.
TaughtLineIsRead ==
    phase = "taught" =>
        LET taught == {m \in matches : m[1] = TaughtField}
            hidden(n) == \E i \in DOMAIN nodes[n].text \ {lesson.token} :
                             i \in Secrets(nodes[n].text)
        IN  /\ \A n \in DOMAIN nodes :
                 (\E m \in taught : m[2] = n)
                    <=> /\ SaysTheSame(n, lesson.line) /\ Value(n) # None
                        /\ ~hidden(lesson.line)
            /\ \A m \in taught : <<m[3]>> = Value(m[2])
            /\ lesson.before \ residue = {m[2] : m \in taught} \cap lesson.before
            /\ residue \subseteq lesson.before

=============================================================================
