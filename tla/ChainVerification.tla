-------------------------- MODULE ChainVerification --------------------------
(***************************************************************************)
(* verify_chain running beside the writers of AuditChain.                  *)
(*                                                                         *)
(* The connection is in autocommit mode, so each SELECT of verify_chain    *)
(* sees its own snapshot of the committed database: the rows, the anchor,  *)
(* the head, MAX(seq), COUNT( * ) and the tail are six moments, between    *)
(* any two of which appends may commit.  Of the rows fetched the sequence  *)
(* numbers are kept, and their contents and the read_one of every row are  *)
(* folded into Walk: a committed row never changes (AppendOnly).           *)
(***************************************************************************)
EXTENDS AuditChain, ChainVerify

CONSTANTS
    Reader,         \* GET /audit/verify requests and the CLI
    NoReport,       \* a reader that has not finished a verification
    Ranges          \* the <<start, end>> pairs readers ask for

\* start is a Query(ge=0); end is any int, or None for the end of the log.
ASSUME RangesAssumption == Ranges \subseteq Nat \X (Int \cup {NoEnd})

VARIABLES
    at,             \* where each reader is inside verify_chain
    seen,           \* what each reader has read so far
    report          \* the ChainVerificationReport of its last verification

readerVars == <<at, seen, report>>
allVars == <<vars, readerVars>>

Blank ==
    [start |-> ChainStart, end |-> NoEnd, seqs |-> {},
     anchor |-> {}, failures |-> {}, head |-> NoHead, top |-> NoTop, count |-> 0]

VInit ==
    /\ Init
    /\ at = [v \in Reader |-> "idle"]
    /\ seen = [v \in Reader |-> Blank]
    /\ report = [v \in Reader |-> NoReport]

Advance(v, from, to) ==
    /\ at[v] = from
    /\ at' = [at EXCEPT ![v] = to]
    /\ UNCHANGED vars

Full(s) == s.start = ChainStart /\ s.end = NoEnd

ReadRows(v, start, end) ==
    /\ Advance(v, "idle", "rows")
    /\ seen' = [seen EXCEPT ![v] =
            [Blank EXCEPT !.start = start, !.end = end, !.seqs = InRange(rows, start, end)]]
    /\ report' = [report EXCEPT ![v] = NoReport]

\* The record before the range; a range without it is reported unanchored.
ReadAnchor(v) ==
    /\ Advance(v, "rows", "anchor")
    /\ seen' = [seen EXCEPT ![v].anchor = Anchor(rows, seen[v].start)]
    /\ UNCHANGED report

\* The loop over the rows fetched, with read_one against the live table.
Walk(v) ==
    /\ Advance(v, "anchor", "walked")
    /\ seen' = [seen EXCEPT ![v].failures =
            WalkFailures(rows, seen[v].seqs, seen[v].anchor)]
    /\ UNCHANGED report

ReadHead(v) ==
    /\ Advance(v, "walked", "head")
    /\ seen' = [seen EXCEPT ![v].head = head]
    /\ UNCHANGED report

ReadTop(v) ==
    /\ Advance(v, "head", "top")
    /\ seen' = [seen EXCEPT ![v].top = MaxSeq(rows)]
    /\ UNCHANGED report

\* Mutant: the head is read again, after MAX(seq).
ReadHeadAgain(v) ==
    /\ Advance(v, "top", "count")
    /\ seen' = [seen EXCEPT ![v].count = Cardinality(DOMAIN rows), ![v].head = head]
    /\ UNCHANGED report

ReadCount(v) ==
    /\ Advance(v, "top", "count")
    /\ seen' = [seen EXCEPT ![v].count = Cardinality(DOMAIN rows)]
    /\ UNCHANGED report

\* Row top, read last, then the report.
Conclude(v) ==
    LET s == seen[v]
        tail == IF s.top = NoTop THEN NoTop ELSE rows[s.top].hash
        state == HeadState(s.head, s.top, s.count, tail, Full(s))
    IN
    /\ Advance(v, "count", "idle")
    /\ report' = [report EXCEPT ![v] =
            [failures |-> s.failures, head_state |-> state,
             anchored |-> s.start = ChainStart \/ s.anchor # {},
             ok |-> s.failures = {} /\ state \in Clean]]
    /\ seen' = [seen EXCEPT ![v] = Blank]

Verify(v) ==
    \/ \E range \in Ranges : ReadRows(v, range[1], range[2])
    \/ ReadAnchor(v) \/ Walk(v) \/ ReadHead(v)
    \/ ReadTop(v) \/ ReadCount(v) \/ Conclude(v)

VNext ==
    \/ Next /\ UNCHANGED readerVars
    \/ \E v \in Reader : Verify(v)

VSpec == VInit /\ [][VNext]_allVars

\* Readers are given no fairness: a verification owes nobody an answer.
VFair == VSpec /\ Fairness

-----------------------------------------------------------------------------

\* However appends interleave with the reads, verification accuses no record
\* (rows are fetched once, and never change) and no tail: the head is read
\* before MAX(seq), and the other way round an append between the two would be
\* reported as a chain whose tail was removed (a part of UntouchedIsUnaccused).
NoLossReported ==
    \A v \in Reader :
        report[v] # NoReport =>
            /\ report[v].failures = {}
            /\ report[v].head_state \notin {"truncated", "hash_mismatch"}

\* A verification during which nothing committed after its head was read
\* passes (the other part).
QuietVerificationPasses ==
    \A v \in Reader :
        at[v] = "count" /\ at'[v] = "idle" /\ head = seen[v].head => report'[v].ok

\* What verify_chain reports of a chain nobody touched: never a record and
\* never a tail, and any alarm at all is owed to an append that committed
\* after the head was read.
UntouchedIsUnaccused == [][NoLossReported' /\ QuietVerificationPasses]_allVars

=============================================================================
