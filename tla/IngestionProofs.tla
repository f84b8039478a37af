--------------------------- MODULE IngestionProofs ---------------------------
(***************************************************************************)
(* Theorems about Ingestion, for any configurations and batches and any    *)
(* bounds, wherever a batch is interrupted: rows and records agree, blobs  *)
(* and line counts are those of each file once, and a response accounts    *)
(* for every file of its batch.                                            *)
(***************************************************************************)
EXTENDS Ingestion, FiniteSetTheorems, FunctionTheorems, SequenceTheorems, TLAPS

-----------------------------------------------------------------------------
(* The inductive invariant.                                                *)

Filing == {"looked", "opened", "stored", "persisted"}

\* What the batch has in hand at each point of the handler.
InHand ==
    job # Idle =>
        /\ job.point \in Filing => job.items # <<>> /\ Head(job.items).kind = "config"
        /\ job.point \in Filing \cup {"file"} => job.todo = <<>>
        /\ job.point = "rejected" =>
              IF job.todo # <<>> THEN Head(job.todo).kind = "hostile"
              ELSE job.items # <<>> /\ Head(job.items).kind = "invalid"
        /\ job.over => job.point = "file" /\ job.items = <<>> /\ job.accepted = {}
        /\ job.point = "expand" \/ (job.point = "rejected" /\ job.todo # <<>>) =>
              job.accepted = {}

\* A record is of a row that is there, of its outcome, in the order of rows.
RecordsOK ==
    /\ \A n \in DOMAIN chain :
          /\ chain[n].row \in DOMAIN ingestion
          /\ chain[n].action = "FILE_REJECTED"
                <=> ingestion[chain[n].row].status = "rejected"
    /\ \A m, n \in DOMAIN chain : m < n => chain[m].row < chain[n].row

Has(n) == \E m \in DOMAIN chain : chain[m].row = n
Rowing == At("rejected") \/ At("persisted")

\* The last row is committed, of the outcome in hand, and not yet attested.
RowInHand ==
    Rowing =>
        /\ ingestion # <<>>
        /\ ingestion[Len(ingestion)].status = "rejected" <=> At("rejected")
        /\ \A n \in DOMAIN chain : chain[n].row < Len(ingestion)

\* Unless something failed, every other row is attested.
RowsAttested ==
    ~failed => \A n \in DOMAIN ingestion : Has(n) \/ (n = Len(ingestion) /\ Rowing)

\* A blob is torn only while it is written, or for good; what is stored is
\* whole or was torn before.
BlobsOK ==
    /\ \A c \in Content :
          blobs[c] = "torn" => c \in cut \/ (At("opened") /\ Head(job.items).content = c)
    /\ At("stored") =>
          LET c == Head(job.items).content IN blobs[c] = "whole" \/ c \in cut
    /\ StoredVerbatim

\* What was looked up is still so when it is used.
KnownOK ==
    job # Idle /\ job.point \in {"looked", "opened", "stored"} =>
        (job.known <=> Head(job.items).content \in files)

\* What is reported was committed and attested with that outcome.
Reported(r) ==
    \A n \in r.accepted \cup r.rejected :
        /\ n \in DOMAIN ingestion /\ Has(n)
        /\ n \in r.rejected <=> ingestion[n].status = "rejected"

\* Files reported, in hand and still to be expanded are those of the batch.
Counting ==
    job # Idle =>
        /\ IsFiniteSet(job.accepted) /\ IsFiniteSet(job.rejected)
        /\ ~job.over =>
              Cardinality(job.accepted) + Cardinality(job.rejected)
                  + Len(job.items) + Cardinality(Parts(job.todo))
                = Cardinality(Parts(job.batch))

Answered ==
    answer # Idle =>
        /\ Reported(answer)
        /\ IF answer.over THEN answer.accepted = {}
           ELSE Cardinality(answer.accepted) + Cardinality(answer.rejected)
                  = Cardinality(Parts(answer.batch))

IInv ==
    /\ TypeOK
    /\ InHand
    /\ RecordsOK
    /\ RowInHand
    /\ RowsAttested
    /\ BlobsOK
    /\ KnownOK
    /\ IsFiniteSet(files)
    /\ OneFileManyUploads
    /\ job # Idle => Reported(job)
    /\ Counting
    /\ Answered

-----------------------------------------------------------------------------
(* What is counted.                                                        *)

\* A finite union of finite sets, one for each member of a finite set.
LEMMA FiniteUnion ==
    ASSUME NEW S, IsFiniteSet(S), NEW f, f = [x \in S |-> f[x]],
           \A x \in S : IsFiniteSet(f[x])
    PROVE  IsFiniteSet(UNION {f[x] : x \in S})
<1> DEFINE T == {f[x] : x \in S}
<1>1. f \in Surjection(S, T)
  <2>1. f \in [S -> T]
      OBVIOUS
  <2> QED
      BY <2>1 DEF Surjection
<1>2. IsFiniteSet(T)
    BY <1>1, FS_Surjection
<1> QED
    BY <1>2, FS_UNION

\* The files of a batch are finitely many.
LEMMA PartsFinite ==
    ASSUME NEW b \in Seq(Upload)
    PROVE  IsFiniteSet(Parts(b))
<1> DEFINE f == [i \in DOMAIN b |-> {i} \X (1 .. FilesIn(b[i]))]
<1>1. IsFiniteSet(DOMAIN b)
  <2>1. DOMAIN b = 1 .. Len(b) /\ Len(b) \in Nat
      OBVIOUS
  <2> QED
      BY <2>1, FS_Interval
<1>2. \A i \in DOMAIN b : IsFiniteSet(f[i])
  <2> TAKE i \in DOMAIN b
  <2>1. FilesIn(b[i]) \in Nat
      BY DEF FilesIn, Upload, Member, Config, Invalid, Hostile, Corrupt
  <2>2. IsFiniteSet({i})
      BY FS_Singleton
  <2>3. IsFiniteSet(1 .. FilesIn(b[i]))
      BY <2>1, FS_Interval
  <2> QED
      BY <2>2, <2>3, FS_Product
<1>3. IsFiniteSet(UNION {f[i] : i \in DOMAIN b})
  <2> HIDE DEF f
  <2>1. f = [i \in DOMAIN b |-> f[i]]
      BY DEF f
  <2> QED
      BY <1>1, <1>2, <2>1, FiniteUnion
<1> QED
    BY <1>3 DEF Parts

\* The first upload of a batch counts for its files, the others as before.
LEMMA PartsOfTail ==
    ASSUME NEW b \in Seq(Upload), b # <<>>
    PROVE  Cardinality(Parts(b)) = FilesIn(Head(b)) + Cardinality(Parts(Tail(b)))
<1> DEFINE n == FilesIn(Head(b))
           A == {1} \X (1 .. n)
           g == [p \in Parts(Tail(b)) |-> <<p[1] + 1, p[2]>>]
           B == {g[p] : p \in Parts(Tail(b))}
<1>1. /\ Tail(b) \in Seq(Upload) /\ Len(Tail(b)) = Len(b) - 1 /\ Head(b) = b[1]
      /\ Len(b) \in Nat \ {0} /\ DOMAIN b = 1 .. Len(b) /\ DOMAIN Tail(b) = 1 .. Len(b) - 1
      /\ \A i \in DOMAIN Tail(b) : Tail(b)[i] = b[i + 1]
    OBVIOUS
<1>2. n \in Nat
    BY <1>1 DEF FilesIn, Upload, Member, Config, Invalid, Hostile, Corrupt
<1>3. IsFiniteSet(A) /\ Cardinality(A) = n
  <2>1. IsFiniteSet({1}) /\ Cardinality({1}) = 1
      BY FS_Singleton
  <2>2. IsFiniteSet(1 .. n) /\ Cardinality(1 .. n) = n
      BY <1>2, FS_Interval
  <2>3. IsFiniteSet(A) /\ Cardinality(A) = Cardinality({1}) * Cardinality(1 .. n)
      BY <2>1, <2>2, FS_Product
  <2> QED
      BY <1>2, <2>1, <2>2, <2>3
<1>4. \A p \in Parts(Tail(b)) : p[1] \in 1 .. Len(b) - 1 /\ p = <<p[1], p[2]>>
    BY <1>1 DEF Parts
<1>5. IsFiniteSet(B) /\ Cardinality(B) = Cardinality(Parts(Tail(b)))
  <2>1. g \in Bijection(Parts(Tail(b)), B)
    <3>1. g \in [Parts(Tail(b)) -> B]
        OBVIOUS
    <3>2. \A p, q \in Parts(Tail(b)) : g[p] = g[q] => p = q
        BY <1>4
    <3> QED
        BY <3>1, <3>2 DEF Bijection, Injection, Surjection, IsInjective
  <2>2. IsFiniteSet(Parts(Tail(b)))
      BY <1>1, PartsFinite
  <2> QED
      BY <2>1, <2>2, FS_Bijection DEF ExistsBijection
<1>6. A \cap B = {}
    BY <1>4
<1>7. Parts(b) = A \cup B
  <2>1. \A i \in DOMAIN b : \A j \in 1 .. FilesIn(b[i]) : <<i, j>> \in A \cup B
    <3> SUFFICES ASSUME NEW i \in DOMAIN b, NEW j \in 1 .. FilesIn(b[i]), i # 1
                 PROVE  <<i, j>> \in B
        BY <1>1
    <3>1. i - 1 \in DOMAIN Tail(b) /\ Tail(b)[i - 1] = b[i]
        BY <1>1
    <3>2. <<i - 1, j>> \in Parts(Tail(b))
        BY <3>1 DEF Parts
    <3> QED
        BY <1>1, <3>2
  <2>2. A \subseteq Parts(b)
      BY <1>1 DEF Parts
  <2>3. B \subseteq Parts(b)
    <3> SUFFICES ASSUME NEW p \in Parts(Tail(b)) PROVE <<p[1] + 1, p[2]>> \in Parts(b)
        OBVIOUS
    <3>1. PICK i \in DOMAIN Tail(b) : p \in {i} \X (1 .. FilesIn(Tail(b)[i]))
        BY DEF Parts
    <3>2. i + 1 \in DOMAIN b /\ Tail(b)[i] = b[i + 1]
        BY <1>1
    <3> QED
        BY <3>1, <3>2 DEF Parts
  <2>4. Parts(b) \subseteq A \cup B
    <3> SUFFICES ASSUME NEW p \in Parts(b) PROVE p \in A \cup B
        OBVIOUS
    <3>1. PICK i \in DOMAIN b : p \in {i} \X (1 .. FilesIn(b[i]))
        BY DEF Parts
    <3>2. PICK j \in 1 .. FilesIn(b[i]) : p = <<i, j>>
        BY <3>1
    <3> QED
        BY <2>1, <3>2
  <2> QED
      BY <2>2, <2>3, <2>4
<1>8. Cardinality(A \cap B) = 0
    BY <1>6, FS_EmptySet
<1>9. Cardinality(A \cup B) = Cardinality(A) + Cardinality(B) - Cardinality(A \cap B)
    BY <1>3, <1>5, FS_Union
<1>10. Cardinality(B) \in Nat
    BY <1>5, FS_CardinalityType
<1> QED
    BY <1>2, <1>3, <1>5, <1>7, <1>8, <1>9, <1>10

LEMMA NoParts == Parts(<<>>) = {} /\ Cardinality(Parts(<<>>)) = 0
BY FS_EmptySet DEF Parts

\* What LinesAssumption says of one configuration.
LEMMA LinesAreFinite ==
    ASSUME NEW c \in Content
    PROVE  IsFiniteSet(DOMAIN LinesOf[c])
<1>1. PICK n \in Nat : DOMAIN LinesOf[c] = 1 .. n
    BY LinesAssumption
<1> QED
    BY <1>1, FS_Interval

LEMMA PositionsFinite ==
    ASSUME NEW S \in SUBSET Content, IsFiniteSet(S), NEW l
    PROVE  IsFiniteSet(Positions(S, l))
<1> DEFINE f == [c \in S |-> {c} \X DOMAIN LinesOf[c]]
<1>1. \A c \in S : IsFiniteSet(f[c])
  <2> TAKE c \in S
  <2>1. IsFiniteSet({c}) /\ IsFiniteSet(DOMAIN LinesOf[c])
      BY FS_Singleton, LinesAreFinite
  <2> QED
      BY <2>1, FS_Product
<1>2. IsFiniteSet(UNION {f[c] : c \in S})
  <2> HIDE DEF f
  <2>1. f = [c \in S |-> f[c]]
      BY DEF f
  <2> QED
      BY <1>1, <2>1, FiniteUnion
<1>3. Positions(S, l) \in SUBSET (UNION {f[c] : c \in S})
    BY DEF Positions
<1> QED
    BY <1>2, <1>3, FS_Subset

\* A line stands, in one file more, where it stood and where that file has it.
LEMMA PositionsInOneMore ==
    ASSUME NEW S \in SUBSET Content, IsFiniteSet(S), NEW c \in Content, c \notin S, NEW l
    PROVE  Cardinality(Positions(S \cup {c}, l))
             = Cardinality(Positions(S, l)) + Occurrences(c, l)
<1> DEFINE I == {i \in DOMAIN LinesOf[c] : LinesOf[c][i] = l}
           A == {<<c, i>> : i \in I}
           g == [i \in I |-> <<c, i>>]
<1>1. IsFiniteSet(I) /\ Cardinality(I) = Occurrences(c, l)
  <2>1. I \in SUBSET DOMAIN LinesOf[c] /\ Cardinality(I) = Occurrences(c, l)
      BY DEF Occurrences
  <2> QED
      BY <2>1, LinesAreFinite, FS_Subset
<1>2. IsFiniteSet(A) /\ Cardinality(A) = Occurrences(c, l)
  <2>1. g \in Bijection(I, A)
      BY DEF Bijection, Injection, Surjection, IsInjective
  <2> QED
      BY <1>1, <2>1, FS_Bijection DEF ExistsBijection
<1>3. Positions(S \cup {c}, l) = Positions(S, l) \cup A
    BY DEF Positions
<1>4. IsFiniteSet(Positions(S, l)) /\ Cardinality(Positions(S, l)) \in Nat
    BY PositionsFinite, FS_CardinalityType
<1>5. Positions(S, l) \cap A = {} /\ Cardinality(Positions(S, l) \cap A) = 0
    BY FS_EmptySet DEF Positions
<1>6. Cardinality(A) \in Nat
    BY <1>2, FS_CardinalityType
<1> HIDE DEF A
<1>7. Cardinality(Positions(S, l) \cup A)
        = Cardinality(Positions(S, l)) + Cardinality(A) - Cardinality(Positions(S, l) \cap A)
    BY <1>2, <1>4, FS_Union
<1>8. Cardinality(Positions(S, l) \cup A) = Cardinality(Positions(S, l)) + Cardinality(A)
    BY <1>4, <1>5, <1>6, <1>7
<1> QED
    BY <1>2, <1>3, <1>8

\* The rows of one outcome and content: one more when such a row is appended.
RowsOf(r) == {n \in DOMAIN ingestion : ingestion[n] = r}

LEMMA RowsOfOneMore ==
    ASSUME TypeOK, NEW r, NEW x, ingestion' = Append(ingestion, x)
    PROVE  /\ Cardinality(RowsOf(r)) \in Nat
           /\ Cardinality(RowsOf(r)')
                = IF x = r THEN Cardinality(RowsOf(r)) + 1 ELSE Cardinality(RowsOf(r))
<1> DEFINE n == Len(ingestion)
<1>1. /\ n \in Nat /\ DOMAIN ingestion = 1 .. n /\ DOMAIN ingestion' = 1 .. n + 1
      /\ ingestion'[n + 1] = x /\ \A i \in 1 .. n : ingestion'[i] = ingestion[i]
    BY DEF TypeOK
<1>2. IsFiniteSet(RowsOf(r))
  <2>1. IsFiniteSet(1 .. n)
      BY <1>1, FS_Interval
  <2>2. RowsOf(r) \in SUBSET (1 .. n)
      BY <1>1 DEF RowsOf
  <2> QED
      BY <2>1, <2>2, FS_Subset
<1>3. RowsOf(r)' = IF x = r THEN RowsOf(r) \cup {n + 1} ELSE RowsOf(r)
    BY <1>1 DEF RowsOf
<1>4. n + 1 \notin RowsOf(r)
    BY <1>1 DEF RowsOf
<1> QED
    BY <1>2, <1>3, <1>4, FS_AddElement, FS_CardinalityType

-----------------------------------------------------------------------------
(* What a step that writes no row and no record leaves as it was.          *)

LEMMA InitIInv == Init => IInv
<1> SUFFICES ASSUME Init PROVE IInv
    OBVIOUS
<1> USE DEF Init
<1>1. TypeOK
  <2>1. blobs \in [Content -> {"absent", "torn", "whole"}] /\ cache \in [Line -> Nat]
      OBVIOUS
  <2>2. /\ ingestion \in Seq([status : {"rejected", "duplicate", "ingested"},
                              content : Content \cup {Idle}])
        /\ chain \in Seq([action : {"FILE_REJECTED", "FILE_INGESTED"}, row : Nat])
      OBVIOUS
  <2> QED
      BY <2>1, <2>2 DEF TypeOK
<1>2. InHand /\ RecordsOK /\ RowInHand /\ RowsAttested /\ KnownOK /\ Counting /\ Answered
    BY DEF InHand, RecordsOK, RowInHand, Rowing, At, RowsAttested, KnownOK, Counting, Answered
<1>3. BlobsOK
    BY DEF BlobsOK, StoredVerbatim, At
<1>4. IsFiniteSet(files) /\ Cardinality({}) = 0
    BY FS_EmptySet
<1>5. OneFileManyUploads
  <2>1. \A l \in Line : Positions(files, l) = {}
      BY DEF Positions
  <2>2. \A c \in Content :
          {n \in DOMAIN ingestion : ingestion[n] = [status |-> "ingested", content |-> c]} = {}
      OBVIOUS
  <2> QED
      BY <1>4, <2>1, <2>2 DEF OneFileManyUploads
<1> QED
    BY <1>1, <1>2, <1>3, <1>4, <1>5 DEF IInv

LEMMA FilesStand ==
    ASSUME IInv, UNCHANGED <<files, cache, ingestion>>
    PROVE  (IsFiniteSet(files) /\ OneFileManyUploads)'
BY DEF IInv, OneFileManyUploads, Positions

LEMMA RecordsStand ==
    ASSUME IInv, UNCHANGED <<ingestion, chain>>
    PROVE  RecordsOK' /\ (\A n : Has(n)' <=> Has(n))
BY DEF IInv, RecordsOK, Has

LEMMA AnswerStands ==
    ASSUME IInv, UNCHANGED <<ingestion, chain, answer>>
    PROVE  Answered'
<1>1. Reported(answer)' <=> Reported(answer)
    BY DEF Reported, Has
<1> QED
    BY <1>1 DEF IInv, Answered, Parts, FilesIn

\* No row is in hand before or after, and the batch reports no more.
LEMMA Quiet ==
    ASSUME IInv, UNCHANGED <<files, cache, ingestion, chain, answer, failed>>,
           job # Idle, ~Rowing, ~Rowing',
           job'.accepted = job.accepted, job'.rejected = job.rejected
    PROVE  /\ (RecordsOK /\ RowInHand /\ RowsAttested /\ IsFiniteSet(files))'
           /\ (OneFileManyUploads /\ Reported(job) /\ Answered)'
<1>1. (RecordsOK /\ IsFiniteSet(files) /\ OneFileManyUploads /\ Answered)'
    BY FilesStand, RecordsStand, AnswerStands
<1>2. (RowInHand /\ RowsAttested)'
    BY DEF IInv, RowInHand, RowsAttested, Has
<1>3. Reported(job)'
    BY DEF IInv, Reported, Has
<1> QED
    BY <1>1, <1>2, <1>3

\* What has been reported stays so while rows and records are added.
LEMMA HistoryStands ==
    ASSUME TypeOK,
           ingestion' = ingestion \/ \E x : ingestion' = Append(ingestion, x),
           chain' = chain \/ \E x : chain' = Append(chain, x)
    PROVE  /\ \A n \in DOMAIN ingestion :
                n \in DOMAIN ingestion' /\ ingestion'[n] = ingestion[n]
           /\ \A n : Has(n) => Has(n)'
<1>1. \A n \in DOMAIN ingestion : n \in DOMAIN ingestion' /\ ingestion'[n] = ingestion[n]
  <2>1. ASSUME NEW x, ingestion' = Append(ingestion, x)
        PROVE  \A n \in DOMAIN ingestion :
                  n \in DOMAIN ingestion' /\ ingestion'[n] = ingestion[n]
      BY <2>1 DEF TypeOK
  <2> QED
      BY <2>1
<1>2. \A n \in DOMAIN chain : n \in DOMAIN chain' /\ chain'[n] = chain[n]
  <2>1. ASSUME NEW x, chain' = Append(chain, x)
        PROVE  \A n \in DOMAIN chain : n \in DOMAIN chain' /\ chain'[n] = chain[n]
      BY <2>1 DEF TypeOK
  <2> QED
      BY <2>1
<1> QED
    BY <1>1, <1>2 DEF Has

-----------------------------------------------------------------------------
(* The batch is received, and its archives are expanded.                   *)

LEMMA ReceiveIInv ==
    ASSUME IInv, NEW b \in Batches, Receive(b)
    PROVE  IInv'
<1> USE DEF Receive
<1>1. /\ job' \in Jobs /\ job' # Idle /\ job'.point = "expand" /\ job'.todo = b
      /\ job'.batch = b /\ job'.items = <<>> /\ ~job'.over
      /\ job'.accepted = {} /\ job'.rejected = {} /\ ~Rowing /\ ~Rowing'
  <2>1. b \in Seq(Upload)
      BY BatchesAssumption
  <2>2. job' \in Jobs
      BY <2>1 DEF Jobs
  <2>3. job' # Idle
      BY <2>2, IdleAssumption
  <2> QED
      BY <2>2, <2>3 DEF Rowing, At
<1>2. TypeOK'
    BY <1>1 DEF IInv, TypeOK
<1>3. (InHand /\ KnownOK)'
    BY <1>1 DEF InHand, KnownOK, Filing
<1>4. (RecordsOK /\ RowInHand /\ RowsAttested)'
    BY <1>1, RecordsStand DEF IInv, RowInHand, RowsAttested
<1>5. BlobsOK'
    BY <1>1 DEF IInv, BlobsOK, StoredVerbatim, At
<1>6. (IsFiniteSet(files) /\ OneFileManyUploads /\ Answered)'
    BY FilesStand, AnswerStands
<1>7. Reported(job)'
    BY <1>1 DEF Reported
<1>8. Counting'
  <2>1. Cardinality(Parts(b)) \in Nat
      BY BatchesAssumption, PartsFinite, FS_CardinalityType
  <2>2. Len(job'.items) = 0 /\ Cardinality({}) = 0 /\ IsFiniteSet({})
      BY <1>1, FS_EmptySet
  <2> QED
      BY <1>1, <2>1, <2>2 DEF Counting
<1> QED
    BY <1>2, <1>3, <1>4, <1>5, <1>6, <1>7, <1>8 DEF IInv

LEMMA ExpandIInv ==
    ASSUME IInv, Expand
    PROVE  IInv'
<1> USE DEF Expand, At
<1> DEFINE u == Head(job.todo)
           new == IF u.kind = "archive" THEN u.members ELSE <<u>>
<1>1. /\ job \in Jobs /\ job # Idle /\ u \in Upload /\ job.todo \in Seq(Upload)
      /\ job.todo # <<>> /\ Tail(job.todo) \in Seq(Upload) /\ job.items \in Seq(Member)
    BY DEF IInv, TypeOK, Jobs
<1>2. new \in Seq(Member) /\ Len(new) = FilesIn(u) /\ Len(new) \in Nat
  <2>1. CASE u.kind = "archive"
    <3>1. u.members \in Seq(Member)
        BY <1>1, <2>1 DEF Upload, Member, Config, Invalid, Hostile, Corrupt
    <3> QED
        BY <2>1, <3>1 DEF FilesIn
  <2>2. CASE u.kind # "archive"
    <3>1. u \in Member
        BY <1>1, <2>2 DEF Upload, Hostile, Corrupt
    <3>2. <<u>> \in Seq(Member) /\ Len(<<u>>) = 1
        BY <3>1
    <3> QED
        BY <2>2, <3>2 DEF FilesIn
  <2> QED
      BY <2>1, <2>2
<1>3. /\ job' \in Jobs /\ job' # Idle /\ job'.point = "expand"
      /\ job'.todo = Tail(job.todo) /\ job'.items = job.items \o new
      /\ job'.batch = job.batch /\ job'.over = job.over
      /\ job'.accepted = job.accepted /\ job'.rejected = job.rejected
  <2>1. job.items \o new \in Seq(Member)
      BY <1>1, <1>2
  <2>2. job' = [job EXCEPT !.todo = Tail(job.todo), !.items = job.items \o new]
      OBVIOUS
  <2> HIDE DEF new
  <2>3. job' \in Jobs
      BY <1>1, <2>1, <2>2 DEF Jobs
  <2> QED
      BY <1>1, <2>2, <2>3, IdleAssumption DEF Jobs
<1>4. ~Rowing /\ ~Rowing' /\ ~job.over
    BY <1>3 DEF Rowing, IInv, InHand
<1>5. TypeOK'
    BY <1>3 DEF IInv, TypeOK
<1>6. (InHand /\ KnownOK)'
    BY <1>3, <1>4 DEF IInv, InHand, KnownOK, Filing
<1>7. BlobsOK'
    BY <1>3 DEF IInv, BlobsOK, StoredVerbatim
<1>8. Counting'
  <2>1. Cardinality(Parts(job.todo)) = FilesIn(u) + Cardinality(Parts(Tail(job.todo)))
      BY <1>1, PartsOfTail
  <2>2. Cardinality(Parts(Tail(job.todo))) \in Nat /\ Cardinality(Parts(job.todo)) \in Nat
      BY <1>1, PartsFinite, FS_CardinalityType
  <2>3. Len(job.items \o new) = Len(job.items) + Len(new) /\ Len(job.items) \in Nat
      BY <1>1, <1>2
  <2>4. /\ IsFiniteSet(job.accepted) /\ IsFiniteSet(job.rejected)
        /\ Cardinality(job.accepted) \in Nat /\ Cardinality(job.rejected) \in Nat
        /\ Cardinality(job.accepted) + Cardinality(job.rejected)
              + Len(job.items) + Cardinality(Parts(job.todo)) = Cardinality(Parts(job.batch))
      BY <1>1, <1>4, FS_CardinalityType DEF IInv, Counting
  <2> HIDE DEF new, u, Expand
  <2>5. /\ Len(job'.items) = Len(job.items) + FilesIn(u)
        /\ FilesIn(u) \in Nat /\ Len(job.items) \in Nat
      BY <1>2, <1>3, <2>3
  <2>6. Cardinality(job.accepted) + Cardinality(job.rejected)
          + Len(job'.items) + Cardinality(Parts(Tail(job.todo))) = Cardinality(Parts(job.batch))
      BY <2>1, <2>2, <2>4, <2>5
  <2> QED
      BY <1>3, <2>4, <2>6 DEF Counting
<1> QED
    BY <1>1, <1>3, <1>4, <1>5, <1>6, <1>7, <1>8, Quiet DEF IInv

\* A batch that ends without an answer.
LEMMA AbortIInv ==
    ASSUME IInv, ExpandRaises \/ Interrupt
    PROVE  IInv'
<1> USE DEF ExpandRaises, Interrupt, Abort, At
<1>1. job' = Idle /\ answer' = Idle /\ UNCHANGED <<blobs, files, cache, ingestion, chain>>
    OBVIOUS
<1>2. job # Idle /\ job \in Jobs
    BY DEF IInv, TypeOK
<1>3. job.point = "opened" =>
          Current = Head(job.items) /\ Head(job.items).content \in Content
    BY <1>2 DEF IInv, InHand, Filing, Current, Expanding, Jobs, Member, Config, Invalid
<1>4. cut' \subseteq Content /\ cut \subseteq cut'
    BY <1>3 DEF IInv, TypeOK
<1>5. TypeOK'
    BY <1>1, <1>4 DEF IInv, TypeOK
<1>6. (InHand /\ RowInHand /\ KnownOK /\ Counting /\ Answered)' /\ ~Rowing'
    BY <1>1 DEF InHand, RowInHand, Rowing, KnownOK, Counting, Answered
<1>7. RowsAttested'
  <2>1. CASE ExpandRaises
      BY <2>1 DEF IInv, RowsAttested, Rowing, Has
  <2>2. CASE Interrupt
      BY <2>2 DEF RowsAttested
  <2> QED
      BY <2>1, <2>2
<1>8. BlobsOK'
  <2>1. \A c \in Content : blobs[c] = "torn" => c \in cut'
    <3>1. CASE ExpandRaises
        BY <1>4, <3>1 DEF IInv, BlobsOK
    <3>2. CASE Interrupt
        BY <1>3, <1>4, <3>2 DEF IInv, BlobsOK
    <3> QED
        BY <3>1, <3>2
  <2> QED
      BY <1>1, <1>4, <2>1 DEF IInv, BlobsOK, StoredVerbatim
<1> QED
    BY <1>1, <1>5, <1>6, <1>7, <1>8, FilesStand, RecordsStand DEF IInv

LEMMA FileAllIInv ==
    ASSUME IInv, FileAll
    PROVE  IInv'
<1> USE DEF FileAll, At
<1>1. /\ job \in Jobs /\ job # Idle /\ job.point = "expand" /\ job.todo = <<>>
      /\ job.items \in Seq(Member)
    BY DEF IInv, TypeOK, Jobs
<1>2. ~Rowing /\ ~job.over /\ job.accepted = {}
    BY <1>1 DEF Rowing, IInv, InHand
<1>3. /\ job' \in Jobs /\ job' # Idle /\ job'.point = "file" /\ job'.todo = <<>>
      /\ job'.batch = job.batch
      /\ job'.accepted = job.accepted /\ job'.rejected = job.rejected
      /\ (job'.over /\ job'.items = <<>>) \/ (~job'.over /\ job'.items = job.items)
  <2>1. CASE Len(job.items) > MaxBatchFiles
    <3>1. job' = [job EXCEPT !.point = "file", !.items = <<>>, !.over = TRUE]
        BY <2>1
    <3>2. <<>> \in Seq(Member)
        OBVIOUS
    <3>3. job' \in Jobs
        BY <1>1, <3>1, <3>2 DEF Jobs
    <3> QED
        BY <1>1, <3>1, <3>3, IdleAssumption DEF Jobs
  <2>2. CASE ~(Len(job.items) > MaxBatchFiles)
    <3>1. job' = [job EXCEPT !.point = "file"]
        BY <2>2
    <3>2. job' \in Jobs
        BY <1>1, <3>1 DEF Jobs
    <3> QED
        BY <1>1, <1>2, <3>1, <3>2, IdleAssumption DEF Jobs
  <2> QED
      BY <2>1, <2>2
<1>4. TypeOK'
    BY <1>3 DEF IInv, TypeOK
<1>5. (InHand /\ KnownOK /\ BlobsOK)' /\ ~Rowing'
    BY <1>1, <1>2, <1>3
    DEF IInv, InHand, KnownOK, BlobsOK, StoredVerbatim, Filing, Rowing
<1>6. Counting'
  <2>1. /\ IsFiniteSet(job.accepted) /\ IsFiniteSet(job.rejected)
        /\ Cardinality(job.accepted) + Cardinality(job.rejected)
              + Len(job.items) + Cardinality(Parts(job.todo)) = Cardinality(Parts(job.batch))
      BY <1>1, <1>2 DEF IInv, Counting
  <2> QED
      BY <1>1, <1>3, <2>1 DEF Counting
<1> QED
    BY <1>1, <1>2, <1>3, <1>4, <1>5, <1>6, Quiet DEF IInv

-----------------------------------------------------------------------------
(* A configuration is looked up, and its blob is stored.                   *)

LEMMA ConfigInHand ==
    ASSUME IInv, job # Idle,
           job.point \in Filing \/ (At("file") /\ job.items # <<>> /\ Current.kind = "config")
    PROVE  /\ job \in Jobs /\ job.items \in Seq(Member) /\ job.items # <<>> /\ job.todo = <<>>
           /\ Current = Head(job.items) /\ Current \in Member
           /\ Current.kind = "config" /\ Current.content \in Content
           /\ ~job.over
<1>1. job \in Jobs /\ job.items \in Seq(Member)
    BY DEF IInv, TypeOK, Jobs
<1>2. job.items # <<>> /\ job.todo = <<>> /\ Head(job.items).kind = "config" /\ ~job.over
    BY DEF IInv, InHand, Filing, At, Current, Expanding
<1>3. Current = Head(job.items) /\ Current \in Member
    BY <1>1, <1>2 DEF Current, Expanding
<1> QED
    BY <1>1, <1>2, <1>3 DEF Member, Config, Invalid

LEMMA FilingStep ==
    ASSUME IInv, job # Idle,
           job.point \in {"looked", "opened"}
              \/ (At("file") /\ job.items # <<>> /\ Current.kind = "config"),
           UNCHANGED <<files, cache, ingestion, chain, answer, failed>>,
           job' # Idle, job'.point \in {"looked", "opened", "stored"},
           job'.batch = job.batch, job'.todo = job.todo, job'.items = job.items,
           job'.accepted = job.accepted, job'.rejected = job.rejected, job'.over = job.over
    PROVE  /\ (InHand /\ RecordsOK /\ RowInHand /\ RowsAttested /\ IsFiniteSet(files))'
           /\ (OneFileManyUploads /\ Reported(job) /\ Counting /\ Answered)'
<1>1. /\ job.items # <<>> /\ job.todo = <<>> /\ Head(job.items).kind = "config" /\ ~job.over
    BY ConfigInHand DEF Filing
<1>2. ~Rowing /\ ~Rowing'
    BY DEF Rowing, At
<1>3. InHand'
    BY <1>1 DEF InHand, Filing
<1>4. Counting'
    BY <1>1 DEF IInv, Counting
<1> QED
    BY <1>2, <1>3, <1>4, Quiet

LEMMA LookUpIInv ==
    ASSUME IInv, LookUp
    PROVE  IInv'
<1> USE DEF LookUp, At
<1>1. job \in Jobs /\ job.items # <<>> /\ Current = Head(job.items)
    BY ConfigInHand DEF At
<1>2. /\ job' \in Jobs /\ job' # Idle /\ job'.point = "looked"
      /\ job'.known = (Current.content \in files)
      /\ job'.batch = job.batch /\ job'.todo = job.todo /\ job'.items = job.items
      /\ job'.accepted = job.accepted /\ job'.rejected = job.rejected /\ job'.over = job.over
  <2> DEFINE known == Current.content \in files
  <2>1. job' = [job EXCEPT !.point = "looked", !.known = known] /\ known \in BOOLEAN
      OBVIOUS
  <2> HIDE DEF LookUp, known
  <2>2. job' \in Jobs
      BY <1>1, <2>1 DEF Jobs
  <2>3. job'.known = known
      BY <1>1, <2>1 DEF Jobs
  <2> QED
      BY <1>1, <2>1, <2>2, <2>3, IdleAssumption DEF Jobs, known
<1>3. TypeOK'
    BY <1>2 DEF IInv, TypeOK
<1>4. (BlobsOK /\ KnownOK)'
    BY <1>1, <1>2 DEF IInv, BlobsOK, StoredVerbatim, KnownOK
<1> QED
    BY <1>1, <1>2, <1>3, <1>4, FilingStep DEF IInv

LEMMA BlobIInv ==
    ASSUME IInv, KeepBlob \/ OpenBlob \/ FillBlob
    PROVE  IInv'
<1> USE DEF KeepBlob, OpenBlob, FillBlob, At
<1> DEFINE c == Head(job.items).content
<1>1. /\ job \in Jobs /\ job # Idle /\ job.point \in {"looked", "opened"} /\ job.todo = <<>>
      /\ Current = Head(job.items) /\ c \in Content
    BY ConfigInHand DEF At, Filing
<1>2. /\ job' \in Jobs /\ job' # Idle /\ job'.point \in {"opened", "stored"}
      /\ job'.known = job.known
      /\ job'.batch = job.batch /\ job'.todo = job.todo /\ job'.items = job.items
      /\ job'.accepted = job.accepted /\ job'.rejected = job.rejected /\ job'.over = job.over
  <2>1. \/ job' = [job EXCEPT !.point = "stored"]
        \/ job' = [job EXCEPT !.point = "opened"]
      OBVIOUS
  <2> HIDE DEF KeepBlob, OpenBlob, FillBlob
  <2>2. job' \in Jobs
      BY <1>1, <2>1 DEF Jobs
  <2> QED
      BY <1>1, <2>1, <2>2, IdleAssumption DEF Jobs
<1>3. TypeOK'
    BY <1>1, <1>2 DEF IInv, TypeOK
<1>4. KnownOK'
    BY <1>1, <1>2 DEF IInv, KnownOK
<1>5. BlobsOK'
  <2>1. CASE KeepBlob
    <3>1. blobs[c] = "whole" \/ c \in cut
        BY <1>1, <2>1 DEF IInv, TypeOK, BlobsOK
    <3> QED
        BY <1>2, <2>1, <3>1 DEF IInv, BlobsOK, StoredVerbatim
  <2>2. CASE OpenBlob
    <3>1. c \notin files \/ c \in cut
        BY <1>1, <2>2 DEF IInv, BlobsOK, StoredVerbatim
    <3>2. blobs' = [blobs EXCEPT ![c] = "torn"] /\ blobs \in [Content -> {"absent", "torn", "whole"}]
        BY <1>1, <2>2 DEF IInv, TypeOK
    <3> QED
        BY <1>1, <1>2, <2>2, <3>1, <3>2 DEF IInv, BlobsOK, StoredVerbatim
  <2>3. CASE FillBlob
    <3>1. blobs' = [blobs EXCEPT ![c] = "whole"] /\ blobs \in [Content -> {"absent", "torn", "whole"}]
        BY <1>1, <2>3 DEF IInv, TypeOK
    <3> QED
        BY <1>1, <1>2, <2>3, <3>1 DEF IInv, TypeOK, BlobsOK, StoredVerbatim
  <2> QED
      BY <2>1, <2>2, <2>3
<1> QED
    BY <1>1, <1>2, <1>3, <1>4, <1>5, FilingStep DEF IInv

-----------------------------------------------------------------------------
(* Rows, and their records.                                                *)

LEMMA InsertRejectionIInv ==
    ASSUME IInv, InsertRejection
    PROVE  IInv'
<1> USE DEF InsertRejection
<1> DEFINE row == [status |-> "rejected", content |-> Idle]
           n == Len(ingestion)
<1>1. /\ job \in Jobs /\ job # Idle /\ job.point \in {"expand", "file"}
      /\ ~Rowing /\ RowsAttested /\ Reported(job)
    BY DEF IInv, TypeOK, Refused, At, Rowing
<1>2. /\ job' \in Jobs /\ job' # Idle /\ job'.point = "rejected"
      /\ job'.batch = job.batch /\ job'.todo = job.todo /\ job'.items = job.items
      /\ job'.accepted = job.accepted /\ job'.rejected = job.rejected /\ job'.over = job.over
  <2>1. job' = [job EXCEPT !.point = "rejected"] /\ job \in Jobs
      BY <1>1
  <2> HIDE DEF InsertRejection
  <2>2. job' \in Jobs
      BY <2>1 DEF Jobs
  <2> QED
      BY <2>1, <2>2, IdleAssumption DEF Jobs
<1>3. /\ n \in Nat /\ DOMAIN ingestion = 1 .. n
      /\ Len(ingestion') = n + 1 /\ DOMAIN ingestion' = 1 .. n + 1 /\ ingestion'[n + 1] = row
      /\ \A i \in 1 .. n : ingestion'[i] = ingestion[i]
    BY DEF IInv, TypeOK
<1>4. TypeOK'
    BY <1>2 DEF IInv, TypeOK
<1>5. ~job.over
    BY DEF IInv, InHand, Refused, At, Expanding
<1>6. (InHand /\ KnownOK /\ BlobsOK)'
    BY <1>2, <1>5 DEF IInv, InHand, KnownOK, BlobsOK, StoredVerbatim, Filing, Refused, At,
                      Current, Expanding
<1>7. (RecordsOK /\ RowInHand /\ RowsAttested)'
  <2>1. RecordsOK'
      BY <1>3 DEF IInv, RecordsOK
  <2>2. RowInHand'
      BY <1>2, <1>3 DEF IInv, RecordsOK, RowInHand, At
  <2>3. RowsAttested'
      BY <1>1, <1>2, <1>3 DEF RowsAttested, Has, Rowing, At
  <2> QED
      BY <2>1, <2>2, <2>3
<1>8. (IsFiniteSet(files) /\ OneFileManyUploads)'
  <2>1. \A c \in Content :
          Cardinality(RowsOf([status |-> "ingested", content |-> c])')
            = Cardinality(RowsOf([status |-> "ingested", content |-> c]))
    <3> TAKE c \in Content
    <3> DEFINE r == [status |-> "ingested", content |-> c]
    <3>1. row # r
        OBVIOUS
    <3> HIDE DEF row, r
    <3>2. TypeOK /\ ingestion' = Append(ingestion, row)
        BY DEF IInv, row
    <3> QED
        BY <3>1, <3>2, RowsOfOneMore DEF r
  <2> QED
      BY <2>1 DEF IInv, OneFileManyUploads, RowsOf, Positions
<1>9. Reported(job)' /\ Answered'
    BY <1>1, <1>2, <1>3 DEF IInv, Reported, Answered, Has
<1>10. Counting'
    BY <1>1, <1>2, <1>5 DEF IInv, Counting
<1> QED
    BY <1>2, <1>4, <1>6, <1>7, <1>8, <1>9, <1>10 DEF IInv

\* A record of the row in hand: every row has one then.
LEMMA RecordInHand ==
    ASSUME IInv, Rowing, NEW action \in {"FILE_REJECTED", "FILE_INGESTED"},
           action = "FILE_REJECTED" <=> At("rejected"),
           UNCHANGED <<ingestion, failed>>, chain' = Attested(action), ~Rowing'
    PROVE  /\ (RecordsOK /\ RowInHand /\ RowsAttested)'
           /\ chain' \in Seq([action : {"FILE_REJECTED", "FILE_INGESTED"}, row : Nat])
           /\ \A n : Has(n) => Has(n)'
           /\ Has(Len(ingestion))' /\ Len(ingestion) \in DOMAIN ingestion
           /\ ~Has(Len(ingestion)) /\ Len(ingestion) \in Nat
           /\ ingestion[Len(ingestion)].status = "rejected" <=> At("rejected")
<1> DEFINE n == Len(ingestion)
           k == Len(chain)
           e == [action |-> action, row |-> n]
<1>1. /\ n \in Nat \ {0} /\ DOMAIN ingestion = 1 .. n
      /\ ingestion[n].status = "rejected" <=> At("rejected")
      /\ \A i \in DOMAIN chain : chain[i].row < n
    BY DEF IInv, TypeOK, RowInHand
<1>2. /\ k \in Nat /\ DOMAIN chain = 1 .. k
      /\ chain' = Append(chain, e) /\ DOMAIN chain' = 1 .. k + 1 /\ chain'[k + 1] = e
      /\ \A i \in 1 .. k : chain'[i] = chain[i]
    BY DEF IInv, TypeOK, Attested
<1>3. \A i \in 1 .. k : chain[i].row \in Nat
  <2>1. chain \in Seq([action : {"FILE_REJECTED", "FILE_INGESTED"}, row : Nat])
      BY DEF IInv, TypeOK
  <2>2. \A i \in 1 .. Len(chain) :
          chain[i] \in [action : {"FILE_REJECTED", "FILE_INGESTED"}, row : Nat]
      BY <2>1, ElementOfSeq
  <2> QED
      BY <2>2
<1>4. chain' \in Seq([action : {"FILE_REJECTED", "FILE_INGESTED"}, row : Nat])
    BY <1>1, <1>2 DEF IInv, TypeOK
<1>5. (\A i : Has(i) => Has(i)') /\ Has(n)' /\ ~Has(n)
    BY <1>1, <1>2, <1>3 DEF Has
<1>6. RecordsOK'
  <2>1. \A i \in DOMAIN chain' :
          /\ chain'[i].row \in DOMAIN ingestion
          /\ chain'[i].action = "FILE_REJECTED"
                <=> ingestion[chain'[i].row].status = "rejected"
      BY <1>1, <1>2 DEF IInv, RecordsOK
  <2>2. \A i, j \in DOMAIN chain' : i < j => chain'[i].row < chain'[j].row
      BY <1>1, <1>2 DEF IInv, RecordsOK
  <2> QED
      BY <2>1, <2>2 DEF RecordsOK
<1>7. (RowInHand /\ RowsAttested)'
    BY <1>5 DEF IInv, RowInHand, RowsAttested
<1> QED
    BY <1>1, <1>4, <1>5, <1>6, <1>7

LEMMA AppendRejectionIInv ==
    ASSUME IInv, AppendRejection
    PROVE  IInv'
<1> USE DEF AppendRejection, At
<1> DEFINE n == Len(ingestion)
           rest == IF Expanding THEN Tail(job.todo) ELSE job.todo
           items == IF Expanding THEN job.items ELSE Tail(job.items)
<1>1. /\ job \in Jobs /\ job # Idle /\ job.point = "rejected" /\ Rowing /\ ~job.over
      /\ job.todo \in Seq(Upload) /\ job.items \in Seq(Member) /\ n \in Nat
      /\ job.accepted \in SUBSET Nat /\ job.rejected \in SUBSET Nat
    BY DEF IInv, TypeOK, Jobs, Rowing, InHand
<1>2. /\ rest \in Seq(Upload) /\ items \in Seq(Member)
      /\ Cardinality(Parts(rest)) + Len(items) + 1 = Cardinality(Parts(job.todo)) + Len(job.items)
      /\ Cardinality(Parts(rest)) \in Nat /\ Len(items) \in Nat
  <2>1. CASE Expanding
    <3>1. job.todo # <<>> /\ FilesIn(Head(job.todo)) = 1
        BY <1>1, <2>1 DEF IInv, InHand, Expanding, FilesIn
    <3>2. rest = Tail(job.todo) /\ items = job.items /\ Tail(job.todo) \in Seq(Upload)
        BY <1>1, <2>1, <3>1
    <3>3. Cardinality(Parts(Tail(job.todo))) \in Nat
        BY <3>2, PartsFinite, FS_CardinalityType
    <3>4. Len(job.items) \in Nat
        BY <1>1
    <3>5. Cardinality(Parts(job.todo)) = 1 + Cardinality(Parts(Tail(job.todo)))
        BY <1>1, <3>1, PartsOfTail
    <3> HIDE DEF rest, items, AppendRejection
    <3> QED
        BY <1>1, <3>2, <3>3, <3>4, <3>5
  <2>2. CASE ~Expanding
    <3>1. job.todo = <<>> /\ job.items # <<>>
        BY <1>1, <2>2 DEF IInv, InHand, Expanding
    <3>2. rest = job.todo /\ items = Tail(job.items)
        BY <2>2
    <3>3. Tail(job.items) \in Seq(Member) /\ Len(Tail(job.items)) + 1 = Len(job.items)
          /\ Len(Tail(job.items)) \in Nat
        BY <1>1, <3>1
    <3>4. Cardinality(Parts(job.todo)) \in Nat
        BY <1>1, PartsFinite, FS_CardinalityType
    <3> HIDE DEF rest, items, AppendRejection
    <3> QED
        BY <1>1, <3>2, <3>3, <3>4
  <2> QED
      BY <2>1, <2>2
<1>3. /\ job' \in Jobs /\ job' # Idle /\ job'.point = (IF Expanding THEN "expand" ELSE "file")
      /\ job'.batch = job.batch /\ job'.todo = rest /\ job'.items = items
      /\ job'.accepted = job.accepted /\ job'.rejected = job.rejected \cup {n}
      /\ job'.over = job.over /\ ~Rowing'
  <2>1. job' = [job EXCEPT !.point = IF Expanding THEN "expand" ELSE "file",
                           !.todo = rest, !.items = items,
                           !.rejected = job.rejected \cup {n}]
      OBVIOUS
  <2> HIDE DEF AppendRejection, rest, items, n, Expanding
  <2>2. job' \in Jobs
      BY <1>1, <1>2, <2>1 DEF Jobs
  <2> QED
      BY <1>1, <2>1, <2>2, IdleAssumption DEF Jobs, Rowing
<1>4. /\ (RecordsOK /\ RowInHand /\ RowsAttested)'
      /\ chain' \in Seq([action : {"FILE_REJECTED", "FILE_INGESTED"}, row : Nat])
      /\ \A i : Has(i) => Has(i)'
      /\ Has(n)' /\ n \in DOMAIN ingestion /\ ~Has(n) /\ ingestion[n].status = "rejected"
    BY <1>1, <1>3, RecordInHand
<1>5. TypeOK'
    BY <1>3, <1>4 DEF IInv, TypeOK
<1>6. (InHand /\ KnownOK /\ BlobsOK)'
    BY <1>1, <1>3 DEF IInv, InHand, KnownOK, BlobsOK, StoredVerbatim, Filing, Expanding
<1>7. (Reported(job) /\ Answered)'
    BY <1>3, <1>4 DEF IInv, Reported, Answered
<1>8. Counting'
  <2> DEFINE acc == Cardinality(job.accepted)
             rej == Cardinality(job.rejected)
             more == Cardinality(job.rejected \cup {n})
             held == Len(job.items)
             left == Cardinality(Parts(job.todo))
             held1 == Len(items)
             left1 == Cardinality(Parts(rest))
             total == Cardinality(Parts(job.batch))
  <2>1. /\ IsFiniteSet(job.accepted) /\ IsFiniteSet(job.rejected)
        /\ acc \in Nat /\ rej \in Nat /\ acc + rej + held + left = total
      BY <1>1, FS_CardinalityType DEF IInv, Counting
  <2>2. n \notin job.rejected
      BY <1>1, <1>4 DEF IInv, Reported
  <2>3. IsFiniteSet(job.rejected \cup {n}) /\ more = rej + 1
      BY <2>1, <2>2, FS_AddElement
  <2>4. held \in Nat /\ left \in Nat
      BY <1>1, PartsFinite, FS_CardinalityType
  <2>5. left1 + held1 + 1 = left + held /\ left1 \in Nat /\ held1 \in Nat
      BY <1>2
  <2>6. acc + more + held1 + left1 = total
    <3> HIDE DEF AppendRejection, acc, rej, more, held, left, held1, left1, total
    <3> QED
        BY <2>1, <2>3, <2>4, <2>5
  <2> HIDE DEF AppendRejection, rest, items, n, Expanding
  <2> QED
      BY <1>3, <2>1, <2>3, <2>6 DEF Counting
<1> QED
    BY <1>3, <1>4, <1>5, <1>6, <1>7, <1>8, FilesStand DEF IInv

\* The transaction of a configuration: one file, its lines counted once.
LEMMA PersistIInv ==
    ASSUME IInv, Persist
    PROVE  IInv'
<1> USE DEF Persist, At
<1> DEFINE c == Head(job.items).content
           n == Len(ingestion)
           row == [status |-> IF job.known THEN "duplicate" ELSE "ingested", content |-> c]
           of(d) == [status |-> "ingested", content |-> d]
<1>1. /\ job \in Jobs /\ job # Idle /\ job.point = "stored" /\ Current = Head(job.items)
      /\ c \in Content /\ job.items # <<>> /\ Head(job.items).kind = "config"
      /\ job.todo = <<>> /\ ~job.over /\ ~Rowing
    BY ConfigInHand DEF At, Filing, Rowing
<1>2. job' \in Jobs /\ job' = [job EXCEPT !.point = "persisted"]
  <2> HIDE DEF Persist
  <2>1. job' = [job EXCEPT !.point = "persisted"]
      BY DEF Persist
  <2> QED
      BY <1>1, <2>1 DEF Jobs
<1>3. /\ job' # Idle /\ job'.point = "persisted"
      /\ job'.batch = job.batch /\ job'.todo = job.todo /\ job'.items = job.items
      /\ job'.accepted = job.accepted /\ job'.rejected = job.rejected /\ job'.over = job.over
    BY <1>1, <1>2, IdleAssumption DEF Jobs
<1>4. job.known \in BOOLEAN /\ (job.known <=> c \in files)
    BY <1>1 DEF IInv, KnownOK, Jobs
<1>5. /\ files' = files \cup {c} /\ ingestion' = Append(ingestion, row)
      /\ cache' = IF job.known THEN cache ELSE [l \in Line |-> cache[l] + Occurrences(c, l)]
    BY <1>1 DEF Counted
<1>6. /\ n \in Nat /\ DOMAIN ingestion = 1 .. n
      /\ Len(ingestion') = n + 1 /\ DOMAIN ingestion' = 1 .. n + 1 /\ ingestion'[n + 1] = row
      /\ \A i \in 1 .. n : ingestion'[i] = ingestion[i]
    BY <1>5 DEF IInv, TypeOK
<1>7. \A l \in Line : Occurrences(c, l) \in Nat
  <2> TAKE l \in Line
  <2>1. {i \in DOMAIN LinesOf[c] : LinesOf[c][i] = l} \in SUBSET DOMAIN LinesOf[c]
      OBVIOUS
  <2> QED
      BY <1>1, <2>1, LinesAreFinite, FS_Subset, FS_CardinalityType DEF Occurrences
<1>8. TypeOK'
  <2>1. cache' \in [Line -> Nat]
      BY <1>5, <1>7 DEF IInv, TypeOK
  <2>2. ingestion' \in Seq([status : {"rejected", "duplicate", "ingested"},
                            content : Content \cup {Idle}])
      BY <1>1, <1>5 DEF IInv, TypeOK
  <2> QED
      BY <1>1, <1>2, <1>5, <2>1, <2>2 DEF IInv, TypeOK
<1>9. (InHand /\ KnownOK)'
    BY <1>1, <1>3 DEF InHand, KnownOK, Filing
<1>10. BlobsOK'
    BY <1>1, <1>3, <1>5 DEF IInv, BlobsOK, StoredVerbatim
<1>11. (RecordsOK /\ RowInHand /\ RowsAttested)'
  <2>1. RecordsOK'
      BY <1>6 DEF IInv, RecordsOK
  <2>2. RowInHand'
      BY <1>3, <1>6 DEF IInv, RecordsOK, RowInHand
  <2>3. RowsAttested'
      BY <1>1, <1>3, <1>6 DEF IInv, RowsAttested, Has, Rowing
  <2> QED
      BY <2>1, <2>2, <2>3
<1>12. (IsFiniteSet(files) /\ OneFileManyUploads)'
  <2>1. IsFiniteSet(files) /\ IsFiniteSet(files') /\ files \in SUBSET Content
    <3>1. IsFiniteSet(files) /\ files \in SUBSET Content
        BY DEF IInv, TypeOK
    <3> QED
        BY SMTT(20), <1>5, <3>1, FS_AddElement
  <2>2. ASSUME NEW d \in Content
        PROVE  Cardinality(RowsOf(of(d))') = IF d \in files' THEN 1 ELSE 0
    <3>1. Cardinality(RowsOf(of(d))) = IF d \in files THEN 1 ELSE 0
        BY DEF IInv, OneFileManyUploads, RowsOf
    <3>2. row = of(d) <=> (~job.known /\ c = d)
        BY <1>4
    <3>3. Cardinality(RowsOf(of(d))') = IF row = of(d) THEN Cardinality(RowsOf(of(d))) + 1
                                       ELSE Cardinality(RowsOf(of(d)))
      <4>1. TypeOK /\ ingestion' = Append(ingestion, row)
          BY <1>5 DEF IInv
      <4> HIDE DEF row, of, Persist
      <4> QED
          BY <4>1, RowsOfOneMore
    <3> HIDE DEF row, of, Persist
    <3> QED
        BY <1>4, <1>5, <3>1, <3>2, <3>3
  <2>3. ASSUME NEW l \in Line
        PROVE  cache'[l] = Cardinality(Positions(files', l))
    <3>1. cache[l] = Cardinality(Positions(files, l))
        BY DEF IInv, OneFileManyUploads
    <3>2. CASE job.known
        BY <1>4, <1>5, <3>1, <3>2
    <3>3. CASE ~job.known
      <4>1. cache'[l] = cache[l] + Occurrences(c, l)
          BY <1>5, <3>3
      <4>2. Cardinality(Positions(files \cup {c}, l))
              = Cardinality(Positions(files, l)) + Occurrences(c, l)
          BY <1>1, <1>4, <2>1, <3>3, PositionsInOneMore
      <4> QED
          BY <1>5, <3>1, <4>1, <4>2
    <3> QED
        BY <1>4, <3>2, <3>3
  <2>4. OneFileManyUploads' <=>
          /\ \A d \in Content : Cardinality(RowsOf(of(d))') = IF d \in files' THEN 1 ELSE 0
          /\ \A l \in Line : cache'[l] = Cardinality(Positions(files', l))
      BY DEF OneFileManyUploads, RowsOf, Positions
  <2> QED
      BY <2>1, <2>2, <2>3, <2>4
<1>13. Reported(job)' /\ Answered'
    BY <1>3, <1>6 DEF IInv, Reported, Answered, Has
<1>14. Counting'
    BY <1>1, <1>3 DEF IInv, Counting
<1> QED
    BY <1>3, <1>8, <1>9, <1>10, <1>11, <1>12, <1>13, <1>14 DEF IInv

LEMMA AppendIngestedIInv ==
    ASSUME IInv, AppendIngested
    PROVE  IInv'
<1> USE DEF AppendIngested, At
<1> DEFINE n == Len(ingestion)
           items == Tail(job.items)
<1>1. /\ job \in Jobs /\ job # Idle /\ job.point = "persisted" /\ Rowing /\ ~job.over
      /\ job.todo = <<>> /\ job.todo \in Seq(Upload)
      /\ job.items \in Seq(Member) /\ job.items # <<>> /\ n \in Nat
      /\ job.accepted \in SUBSET Nat /\ job.rejected \in SUBSET Nat
    BY ConfigInHand DEF IInv, TypeOK, Jobs, Rowing, Filing
<1>2. /\ items \in Seq(Member) /\ Len(items) + 1 = Len(job.items)
      /\ Len(items) \in Nat
    BY <1>1
<1>3. /\ job' \in Jobs /\ job' # Idle /\ job'.point = "file"
      /\ job'.batch = job.batch /\ job'.todo = job.todo /\ job'.items = items
      /\ job'.accepted = job.accepted \cup {n} /\ job'.rejected = job.rejected
      /\ job'.over = job.over /\ ~Rowing'
  <2>1. job' = [job EXCEPT !.point = "file", !.items = items,
                           !.accepted = job.accepted \cup {n}]
      OBVIOUS
  <2> HIDE DEF AppendIngested, items, n
  <2>2. job' \in Jobs
      BY <1>1, <1>2, <2>1 DEF Jobs
  <2> QED
      BY <1>1, <2>1, <2>2, IdleAssumption DEF Jobs, Rowing
<1>4. /\ (RecordsOK /\ RowInHand /\ RowsAttested)'
      /\ chain' \in Seq([action : {"FILE_REJECTED", "FILE_INGESTED"}, row : Nat])
      /\ \A i : Has(i) => Has(i)'
      /\ Has(n)' /\ n \in DOMAIN ingestion /\ ~Has(n) /\ ingestion[n].status # "rejected"
    BY <1>1, <1>3, RecordInHand
<1>5. TypeOK'
    BY <1>3, <1>4 DEF IInv, TypeOK
<1>6. (InHand /\ KnownOK /\ BlobsOK)'
    BY <1>1, <1>3 DEF IInv, InHand, KnownOK, BlobsOK, StoredVerbatim, Filing
<1>7. (Reported(job) /\ Answered)'
  <2>1. n \notin job.rejected
      BY <1>1, <1>4 DEF IInv, Reported
  <2> QED
      BY <1>3, <1>4, <2>1 DEF IInv, Reported, Answered
<1>8. Counting'
  <2> DEFINE acc == Cardinality(job.accepted)
             rej == Cardinality(job.rejected)
             more == Cardinality(job.accepted \cup {n})
             held == Len(job.items)
             left == Cardinality(Parts(job.todo))
             held1 == Len(items)
             total == Cardinality(Parts(job.batch))
  <2>1. /\ IsFiniteSet(job.accepted) /\ IsFiniteSet(job.rejected)
        /\ acc \in Nat /\ rej \in Nat /\ acc + rej + held + left = total
      BY <1>1, FS_CardinalityType DEF IInv, Counting
  <2>2. n \notin job.accepted
      BY <1>1, <1>4 DEF IInv, Reported
  <2>3. IsFiniteSet(job.accepted \cup {n}) /\ more = acc + 1
      BY <2>1, <2>2, FS_AddElement
  <2>4. held \in Nat /\ held1 + 1 = held /\ held1 \in Nat
      BY <1>1, <1>2
  <2>5. left \in Nat
      BY <1>1, PartsFinite, FS_CardinalityType
  <2>6. more + rej + held1 + left = total
    <3> HIDE DEF AppendIngested, acc, rej, more, held, left, held1, total
    <3> QED
        BY <2>1, <2>3, <2>4, <2>5
  <2> HIDE DEF AppendIngested, items, n
  <2> QED
      BY <1>3, <2>1, <2>3, <2>6 DEF Counting
<1> QED
    BY <1>3, <1>4, <1>5, <1>6, <1>7, <1>8, FilesStand DEF IInv

\* The response: nothing is in hand or to come, so it reports every file.
LEMMA RespondIInv ==
    ASSUME IInv, Respond
    PROVE  IInv'
<1> USE DEF Respond, At
<1>1. /\ job \in Jobs /\ job # Idle /\ job.point = "file" /\ job.items = <<>>
      /\ job.todo = <<>> /\ ~Rowing /\ job' = Idle /\ ~Rowing'
    BY DEF IInv, TypeOK, InHand, Filing, Rowing
<1>2. /\ answer' \in Answers /\ answer'.batch = job.batch /\ answer'.over = job.over
      /\ answer'.accepted = job.accepted /\ answer'.rejected = job.rejected
    BY <1>1 DEF Jobs, Answers
<1>3. TypeOK'
    BY <1>1, <1>2 DEF IInv, TypeOK
<1>4. (InHand /\ KnownOK /\ Counting)'
    BY <1>1 DEF InHand, KnownOK, Counting
<1>5. BlobsOK'
    BY <1>1 DEF IInv, BlobsOK, StoredVerbatim
<1>6. (RecordsOK /\ RowInHand /\ RowsAttested)'
    BY <1>1, RecordsStand DEF IInv, RowInHand, RowsAttested
<1>7. Answered'
  <2>1. Reported(answer)'
      BY <1>1, <1>2 DEF IInv, Reported, Has
  <2>2. job.over => job.accepted = {}
      BY <1>1 DEF IInv, InHand
  <2>3. ~job.over => Cardinality(job.accepted) + Cardinality(job.rejected)
                       = Cardinality(Parts(job.batch))
    <3> SUFFICES ASSUME ~job.over
                 PROVE  Cardinality(job.accepted) + Cardinality(job.rejected)
                          = Cardinality(Parts(job.batch))
        OBVIOUS
    <3> DEFINE acc == Cardinality(job.accepted)
               rej == Cardinality(job.rejected)
               held == Len(job.items)
               left == Cardinality(Parts(job.todo))
               total == Cardinality(Parts(job.batch))
    <3>1. acc \in Nat /\ rej \in Nat /\ acc + rej + held + left = total
        BY <1>1, FS_CardinalityType DEF IInv, Counting
    <3>2. held = 0 /\ left = 0
        BY <1>1, NoParts
    <3> HIDE DEF Respond, acc, rej, held, left, total
    <3> QED
        BY <3>1, <3>2 DEF acc, rej, total
  <2>4. job.over \in BOOLEAN
      BY <1>1 DEF Jobs
  <2> QED
      BY <1>2, <2>1, <2>2, <2>3, <2>4 DEF Answered
<1> QED
    BY <1>1, <1>3, <1>4, <1>5, <1>6, <1>7, FilesStand DEF IInv

LEMMA StutterIInv ==
    ASSUME IInv, UNCHANGED vars
    PROVE  IInv'
<1> USE DEF vars
<1>1. TypeOK'
    BY DEF IInv, TypeOK
<1>2. (InHand /\ KnownOK /\ BlobsOK)'
    BY DEF IInv, InHand, KnownOK, BlobsOK, StoredVerbatim, At
<1>3. (RowInHand /\ RowsAttested)'
    BY DEF IInv, RowInHand, RowsAttested, Rowing, Has, At
<1>4. (job # Idle => Reported(job))' /\ Counting'
    BY DEF IInv, Reported, Has, Counting
<1> QED
    BY <1>1, <1>2, <1>3, <1>4, FilesStand, RecordsStand, AnswerStands DEF IInv

LEMMA NextIInv == IInv /\ [Next]_vars => IInv'
BY ReceiveIInv, ExpandIInv, AbortIInv, FileAllIInv, InsertRejectionIInv,
   AppendRejectionIInv, LookUpIInv, BlobIInv, PersistIInv, AppendIngestedIInv,
   RespondIInv, StutterIInv
DEF Next, Work

-----------------------------------------------------------------------------

\* The inductive invariant holds in every behaviour.
THEOREM Invariance == Spec => []IInv
BY InitIInv, NextIInv, PTL DEF Spec

\* What the variables hold: every row, record, batch and answer is well formed.
THEOREM TypeCorrect == Spec => []TypeOK
<1>1. IInv => TypeOK
    BY DEF IInv
<1> QED
    BY <1>1, Invariance, PTL

\* The chain describes the ingestion table, refusals as refusals, one record a
\* row and in their order, and all of it unless something failed: a row is
\* committed first and attested next (api/ingest/service.py).
THEOREM ChainAlwaysAgrees == Spec => []ChainAgreesWithTables
<1>1. IInv => ChainAgreesWithTables
    BY DEF IInv, RecordsOK, RowsAttested, Has, Rowing, ChainAgreesWithTables
<1> QED
    BY <1>1, Invariance, PTL

\* What is stored is stored once, counted once and kept whole, however often it
\* is uploaded, unless an upload of it died writing its blob
\* (api/ingest/blobs.py, api/ingest/line_cache.py).
THEOREM AlwaysStoredOnceAndWhole == Spec => []StoredOnceAndWhole
<1>1. IInv => StoredOnceAndWhole
    BY DEF IInv, BlobsOK, StoredOnceAndWhole
<1> QED
    BY <1>1, Invariance, PTL

\* A response accounts for every file of its batch, members of archives too,
\* with the outcome that was committed and attested (api/ingest/service.py).
THEOREM EveryFileIsAnswered == Spec => []EveryFileAnswered
<1>1. IInv => EveryFileAnswered
    BY DEF IInv, Answered, Reported, Has, EveryFileAnswered
<1> QED
    BY <1>1, Invariance, PTL

=============================================================================
