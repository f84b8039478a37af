-------------------------------- MODULE Desk --------------------------------
(***************************************************************************)
(* The training desk (api/routers/training.py): an administrator reads the *)
(* queue, all of it or that of one file, and answers what a shape means.   *)
(* The answer is stored with the suggestions that /confirm computes again  *)
(* when it arrives, on the whole queue and an index others may have added  *)
(* to, by a model that may have come or gone; an answer that does not fit  *)
(* these is refused.                                                       *)
(*                                                                         *)
(* The residue of a file is in the queue once it has been audited; a line  *)
(* stays there whatever is decided about it, until a pack reads it and the *)
(* file is audited again (AuditRun).                                       *)
(***************************************************************************)
EXTENDS Access, Learning

CONSTANTS
    Residue,        \* file -> the lines its pack does not read
    NotRead         \* an administrator who has no queue on the screen

ASSUME DeskAssumption ==
    /\ File \subseteq Nat
    /\ \A f \in File : /\ Residue[f] \in Seq(ToSet(Residue[f]))
                       /\ ToSet(Residue[f]) \subseteq ToSet(TextOrder)

VARIABLES
    examples,   \* training_example, oldest first
    seen        \* what each administrator was shown of one shape

deskVars == <<examples, seen>>

Corrected == 0
Rejected == 4
Outcome == {Corrected, 1, 2, 3, Rejected}
Fields == ToSet(FieldOrder)

DeskInit ==
    /\ examples = <<>>
    /\ seen = [u \in User |-> NotRead]

UnknownLines(files) ==
    UNION {{[file |-> f, number |-> n, text |-> Residue[f][n]] : n \in DOMAIN Residue[f]} :
               f \in files \cap {runs[i].file : i \in DOMAIN runs}}

(* GET /training/queue, of every file or of one.                            *)
ReadQueue(u) ==
    /\ InFlight(u) /\ IsAdmin(u)
    /\ \E files \in {File} \cup {{f} : f \in File}, embeds \in BOOLEAN :
          LET lines == UnknownLines(files) IN
          \E cluster \in Clusters(lines) :
              LET entry == Entry(lines, cluster, Index(examples), embeds) IN
              /\ entry.state # "not_confirmable"
              /\ seen' = [seen EXCEPT ![u] = [cluster |-> cluster, line |-> entry.line, shown |-> entry.shown]]
    /\ Done(u)
    /\ UNCHANGED <<accounts, uploads, runs, late, examples>>

(* What may be answered to what is on the screen: a suggestion by its rank, *)
(* another field, or that the line does not matter.                         *)
Answers(screen) ==
    {[outcome |-> k, field |-> screen.shown[k]] : k \in DOMAIN screen.shown}
    \cup {[outcome |-> Corrected, field |-> f] : f \in Fields}
    \cup {[outcome |-> Rejected, field |-> NoField]}

(* The suggestions recorded are those of the whole queue as it is now.      *)
SuggestedNow(cluster, embeds) ==
    LET lines == UnknownLines(File)
    IN IF cluster \in Clusters(lines)
       THEN Entry(lines, cluster, Index(examples), embeds).shown ELSE <<>>

(* TrainingExample._check.                                                  *)
AnyRankedField(example) ==
    LET k == example.outcome IN
    /\ k \in 1 .. 3 => k \in DOMAIN example.shown
    /\ (k = Rejected) = (example.field = NoField)
Valid(example) ==
    LET k == example.outcome IN
    /\ k \in 1 .. 3 => k \in DOMAIN example.shown /\ example.shown[k] = example.field
    /\ (k = Rejected) = (example.field = NoField)

(* POST /training/confirm: stored, or refused with 422 and forgotten.       *)
Confirm(u) ==
    /\ InFlight(u) /\ IsAdmin(u)
    /\ seen[u] # NotRead
    /\ \E answer \in Answers(seen[u]), embeds \in BOOLEAN :
          LET example == [line |-> seen[u].line, cluster |-> seen[u].cluster, field |-> answer.field,
                          outcome |-> answer.outcome, shown |-> SuggestedNow(seen[u].cluster, embeds)]
          IN examples' = IF Valid(example) THEN Append(examples, example) ELSE examples
    /\ Done(u)
    /\ UNCHANGED <<accounts, uploads, runs, late, seen>>

DeskStep(u) == ReadQueue(u) \/ Confirm(u)

(* What the line was taught, or another that the model cannot tell from it. *)
Taught(line) == {e.field : e \in {x \in Index(examples) : Cosine[line][x.text] = Cosine[line][line]}}

(* What was taught is what is proposed (api/models/training.py:94-107,      *)
(* api/train/queue.py:165, api/learn/suggest.py:71).  A suggestion recorded *)
(* as accepted is the one recorded at that rank, though another index, a    *)
(* wider queue or no model at all answered when the decision arrived; and   *)
(* the queue learns: a line that was taught is proposed first a field it    *)
(* was taught, a field is proposed only if somebody or a pack labelled a    *)
(* line with it, and where nothing is proposed the entry says why.          *)
DecisionsAreWhatWasSeen ==
    /\ \A i \in DOMAIN examples :
          LET e == examples[i] IN
          e.outcome \in 1 .. 3 => e.outcome \in DOMAIN e.shown /\ e.shown[e.outcome] = e.field
    /\ LET lines == UnknownLines(File) IN
       \A cluster \in Clusters(lines) :
          LET entry == Entry(lines, cluster, Index(examples), TRUE) IN
          /\ (entry.state = "ranked") = (entry.shown # <<>>)
          /\ ToSet(entry.shown) \subseteq {e.field : e \in Index(examples)}
          /\ entry.state = "ranked" /\ Taught(entry.line) # {} => entry.shown[1] \in Taught(entry.line)

=============================================================================
