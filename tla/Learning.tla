------------------------------ MODULE Learning ------------------------------
(***************************************************************************)
(* The similarity layer (api/learn) and the queue it annotates             *)
(* (api/train/queue.py): lines the packs could not read are grouped by the *)
(* shape of their tokens, one line of each group is compared with the      *)
(* labelled lines, and up to three fields are put before an administrator, *)
(* or the reason why there are none.                                       *)
(*                                                                         *)
(* A line is a sequence of tokens; Kinds says which of the expressions of  *)
(* signature.py match a token, Cosine how close two lines embed.           *)
(***************************************************************************)
EXTENDS Integers, Sequences, FiniteSets, SequencesExt

CONSTANTS
    Kinds,          \* token -> the expressions that match it
    MaxTokens,      \* bound of a signature
    Cosine,         \* line -> line -> similarity, of unit vectors
    FieldOrder,     \* the canonical fields, in alphabetical order
    TextOrder,      \* the lines that can be labelled, in alphabetical order
    Seeds,          \* the examples of the active packs: [text, field, origin]
    NoField         \* what a rejection confirms

ASSUME LearningAssumption ==
    /\ FieldOrder \in Seq(ToSet(FieldOrder)) /\ TextOrder \in Seq(ToSet(TextOrder))
    /\ IsFiniteSet(Seeds)
    /\ \A s \in Seeds : s.field \in ToSet(FieldOrder) /\ s.text \in ToSet(TextOrder)
    /\ \A q, t \in ToSet(TextOrder) : Cosine[q][t] \in Int /\ Cosine[q][t] <= Cosine[q][q]

MaxSuggestions == 3
Ellipsis == "..."
Placeholders == <<"<IP>", "<VER>", "<N>", "<STR>", "<IF>">>
MatchedBy == <<{"ip"}, {"decimal", "version"}, {"number"}, {"quoted"}, {"interface"}>>

(* token_shape: the first expression that matches names the token.          *)
TokenShape(token) ==
    LET hits == {i \in DOMAIN MatchedBy : MatchedBy[i] \cap Kinds[token] # {}}
    IN IF hits = {} THEN token
       ELSE Placeholders[CHOOSE i \in hits : \A j \in hits : i <= j]

Signature(line) ==
    LET head == [i \in 1 .. (IF Len(line) < MaxTokens THEN Len(line) ELSE MaxTokens) |-> TokenShape(line[i])]
    IN IF Len(line) > MaxTokens THEN Append(head, Ellipsis) ELSE head

IsGeneric(signature) ==
    \A i \in DOMAIN signature : signature[i] \in ToSet(Placeholders) \cup {Ellipsis}

(* Clusters of the residue: lines are [file, number, text], and one without *)
(* tokens has no shape.                                                     *)
Clusters(lines) == {Signature(l.text) : l \in {k \in lines : k.text # <<>>}}
Members(lines, signature) == {l \in lines : Signature(l.text) = signature}
Exemplar(members) ==
    CHOOSE l \in members : \A k \in members :
        l.file < k.file \/ (l.file = k.file /\ l.number <= k.number)

(* The index: what the packs show and what administrators confirmed; a      *)
(* rejection labels nothing.                                                *)
Labelled(examples) ==
    {[text |-> examples[i].line, field |-> examples[i].field, origin |-> <<"admin", i>>] :
        i \in {j \in DOMAIN examples : examples[j].field # NoField}}
Index(examples) == Seeds \cup Labelled(examples)

Rank(order, x) == CHOOSE i \in DOMAIN order : order[i] = x
Closer(query, a, b) ==
    LET sa == Cosine[query][a.text]  sb == Cosine[query][b.text]
        fa == Rank(FieldOrder, a.field)  fb == Rank(FieldOrder, b.field)
    IN \/ sa > sb
       \/ sa = sb /\ fa < fb
       \/ sa = sb /\ fa = fb /\ Rank(TextOrder, a.text) < Rank(TextOrder, b.text)

(* The entry that an order puts k-th: two that tie have the same text and   *)
(* field, and either may stand for the other.                               *)
AtPlace(k, S, Before(_, _)) ==
    CHOOSE a \in S :
        /\ Cardinality({b \in S : Before(b, a)}) < k
        /\ k <= Cardinality({b \in S : ~Before(a, b)})

(* rank_candidates cuts the ranking at three entries, before to_suggestions *)
(* drops the fields that repeat: fewer than three fields may be left.       *)
RankCandidates(query, index) ==
    LET Before(a, b) == Closer(query, a, b)
        limit == IF Cardinality(index) < MaxSuggestions THEN Cardinality(index) ELSE MaxSuggestions
    IN [k \in 1 .. limit |-> AtPlace(k, index, Before)]
ToSuggestions(candidates) ==
    LET first == {i \in DOMAIN candidates : \A j \in 1 .. i - 1 : candidates[j].field # candidates[i].field}
    IN [k \in 1 .. Cardinality(first) |-> candidates[AtPlace(k, first, <)].field]
Suggest(query, index) ==
    IF index = {} THEN <<>> ELSE ToSuggestions(RankCandidates(query, index))

(* An entry of the queue says why it has no suggestion.                     *)
Entry(lines, signature, index, embeds) ==
    LET shown == Suggest(Exemplar(Members(lines, signature)).text, index)
        state == IF IsGeneric(signature) THEN "not_confirmable"
                 ELSE IF ~embeds THEN "model_unavailable"
                 ELSE IF shown = <<>> THEN "index_empty"
                 ELSE "ranked"
    IN [line |-> Exemplar(Members(lines, signature)).text,
        state |-> state,
        shown |-> IF state = "ranked" THEN shown ELSE <<>>]

=============================================================================
