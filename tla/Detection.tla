----------------------------- MODULE Detection -----------------------------
(***************************************************************************)
(* What an upload is taken for before anything is parsed: its format       *)
(* (api/ingest/format_detect.py), its platform (vendor_detect.py, over the *)
(* signatures of the active packs) and what it says of its own identity    *)
(* (device_identity.py, api/normalise/identity.py).  Each is a function of *)
(* the text and of the packs deployed at that moment.                      *)
(*                                                                         *)
(* An upload is its file name, its lines, the format its first character   *)
(* claims and whether a parser of that format accepts it.  A signature is  *)
(* the lines (or file names) it finds and its weight, in hundredths; an    *)
(* identity pattern maps the lines it matches to the value it captures.    *)
(***************************************************************************)
EXTENDS Naturals, Sequences, FiniteSets, SequencesExt, FiniteSetsExt

CONSTANTS
    MinScore,       \* settings.detection_min_score, in hundredths
    MinMargin,      \* settings.detection_min_margin
    Unidentified    \* no platform: vendor and os_family are None

ASSUME ThresholdsAssumption == MinScore \in Nat \ {0} /\ MinMargin \in Nat \ {0}

-----------------------------------------------------------------------------
(* Format.                                                                 *)

\* detect: the claim of the first character is confirmed by a parse or the
\* upload is refused; it is never downgraded to CLI text.
FormatRefused(upload) == upload.claims \in {"xml", "json"} /\ ~upload.wellFormed

-----------------------------------------------------------------------------
(* Platform.  packs maps the platforms with an active pack to it.          *)

Hits(signature, upload) ==
    IF signature.kind = "filename" THEN upload.name \in signature.finds
    ELSE \E i \in DOMAIN upload.lines : upload.lines[i] \in signature.finds

\* score_pack: each signature counts once, however often it is found.
ScorePack(pack, upload) ==
    MapThenSumSet(LAMBDA s : s.weight, {s \in pack.detect : Hits(s, upload)})

\* The candidates, best first; platforms of one score in the order of their
\* names, which their ranks give.
Candidates(packs, upload) ==
    LET score == [p \in DOMAIN packs |-> ScorePack(packs[p], upload)]
        found == {p \in DOMAIN packs : score[p] > 0}
        Better(p, q) ==
            \/ score[p] > score[q]
            \/ score[p] = score[q] /\ packs[p].rank < packs[q].rank
    IN  [k \in 1 .. Cardinality(found) |->
            CHOOSE p \in found : Cardinality({q \in found : Better(q, p)}) = k - 1]

\* Mutant: a rival below the threshold is no rival.
MarginToKnown(packs, upload, ranked) ==
    IF Len(ranked) > 1 /\ ScorePack(packs[ranked[2]], upload) >= MinScore
    THEN ScorePack(packs[ranked[1]], upload) - ScorePack(packs[ranked[2]], upload)
    ELSE ScorePack(packs[ranked[1]], upload)

Margin(packs, upload, ranked) ==
    IF Len(ranked) > 1
    THEN ScorePack(packs[ranked[1]], upload) - ScorePack(packs[ranked[2]], upload)
    ELSE ScorePack(packs[ranked[1]], upload)

Abstained(outcome) == [outcome |-> outcome, platform |-> Unidentified]

\* detect_vendor: thin evidence is asked about before ambiguity.
DetectVendor(packs, upload) ==
    LET ranked == Candidates(packs, upload) IN
    CASE DOMAIN packs = {} -> Abstained("no_packs_available")
      [] DOMAIN packs # {} /\ ranked = <<>> -> Abstained("no_signature_matched")
      [] ranked # <<>> /\ ScorePack(packs[ranked[1]], upload) < MinScore ->
            Abstained("below_threshold")
      [] ranked # <<>> /\ ScorePack(packs[ranked[1]], upload) >= MinScore
            /\ Margin(packs, upload, ranked) < MinMargin -> Abstained("ambiguous")
      [] OTHER -> [outcome |-> "detected", platform |-> ranked[1]]

-----------------------------------------------------------------------------
(* Identity.                                                               *)

\* _apply: the first line the pattern matches with a value that is not empty.
Captured(pattern, upload) ==
    LET hits == {i \in DOMAIN upload.lines :
                    /\ upload.lines[i] \in DOMAIN pattern
                    /\ pattern[upload.lines[i]] # ""}
    IN  IF hits = {} THEN {} ELSE {pattern[upload.lines[Min(hits)]]}

\* extract_identity and known_fields: the first pattern declared that captures
\* anything; {} is a field that abstains.
HostName(pack, upload) ==
    LET able == {i \in DOMAIN pack.hostname : Captured(pack.hostname[i], upload) # {}}
    IN  IF able = {} THEN {} ELSE Captured(pack.hostname[Min(able)], upload)

=============================================================================
