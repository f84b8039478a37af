------------------------- MODULE ChainRecoveryProofs -------------------------
(***************************************************************************)
(* Theorems about ChainRecovery, for any events and any number of appends  *)
(* and repairs, up to the second damage: what one damage takes from the    *)
(* log is reported for ever, and a repair gives back what it claims.       *)
(***************************************************************************)
EXTENDS ChainRecovery, FiniteSetTheorems, WellFoundedInduction, TLAPS

-----------------------------------------------------------------------------
(* The inductive invariant: what one damage can have left.                 *)

\* A log of n records, as append() wrote them.
Linked ==
    \A s \in DOMAIN rows :
        /\ rows[s] = [event |-> rows[s].event, prev |-> rows[s].prev, hash |-> rows[s].hash]
        /\ rows[s].hash = EntryHash(s, rows[s].event, rows[s].prev)
        /\ s = 0 => rows[s].prev = Genesis
        /\ s # 0 => rows[s].prev = rows[s - 1].hash

Intact(n) ==
    /\ DOMAIN rows = 0 .. (n - 1)
    /\ Linked
    /\ \A a \in attested : a[1] \in DOMAIN rows /\ rows[a[1]] = a[2]
    /\ \A s \in DOMAIN rows : <<s, rows[s]>> \in attested

\* The head there was when the log had k records.
HeadAt(k) ==
    IF k = 0 THEN NoHead
    ELSE [last_seq |-> k - 1, last_hash |-> rows[k - 1].hash, count |-> k]

Standing(n, k) == Intact(n) /\ k \in 0 .. n /\ head = HeadAt(k)

\* A record is gone: the head counts one more than there are, and is not behind
\* them, so no repair rebuilds it.
Lost ==
    /\ IsFiniteSet(DOMAIN rows) /\ DOMAIN rows \subseteq Nat
    /\ head # NoHead /\ head.last_seq \in Nat
    /\ head.count = Cardinality(DOMAIN rows) + 1
    /\ \A s \in DOMAIN rows : s <= head.last_seq

\* A record is not the one that was returned, and does not hash.
Modified(s) == rows[s].hash # EntryHash(s, rows[s].event, rows[s].prev)

Altered ==
    \E s \in DOMAIN rows : Modified(s) /\ \E row : <<s, row>> \in attested /\ row # rows[s]

Undamaged(n) == Standing(n, n) /\ heads \subseteq {HeadAt(k) : k \in 1 .. n}

IInv ==
    /\ damage \in Nat
    /\ damage = 0 => \E n \in Nat : Undamaged(n)
    /\ damage = 1 => (\E n \in Nat : \E k \in 0 .. n : Standing(n, k)) \/ Lost \/ Altered

-----------------------------------------------------------------------------
(* What verification makes of each.                                        *)

LEMMA MaxIs ==
    ASSUME NEW T \in SUBSET Int, NEW m \in T, \A t \in T : t <= m
    PROVE  Max(T) = m
<1>1. \A x \in T : (\A t \in T : x >= t) <=> x = m
    OBVIOUS
<1> QED BY <1>1 DEF Max

LEMMA HeadAtIs ==
    ASSUME NEW k \in Nat
    PROVE  /\ HeadAt(k) = NoHead <=> k = 0
           /\ k # 0 => /\ HeadAt(k).last_seq = k - 1 /\ HeadAt(k).count = k
                       /\ HeadAt(k).last_hash = rows[k - 1].hash
<1> DEFINE h == [last_seq |-> k - 1, last_hash |-> rows[k - 1].hash, count |-> k]
<1>1. DOMAIN h # DOMAIN [absent |-> TRUE]
  <2>1. "last_seq" \in DOMAIN h /\ "last_seq" \notin DOMAIN [absent |-> TRUE]
      OBVIOUS
  <2> QED BY <2>1
<1>2. h # NoHead
    BY <1>1 DEF NoHead
<1> QED BY <1>2 DEF HeadAt

\* MAX(seq) and COUNT of a log without gaps.
LEMMA SizeIs ==
    ASSUME NEW n \in Nat, DOMAIN rows = 0 .. (n - 1)
    PROVE  /\ Cardinality(DOMAIN rows) = n
           /\ n = 0 => MaxSeq(rows) = NoTop
           /\ n # 0 => MaxSeq(rows) = n - 1 /\ TailHash(rows) = rows[n - 1].hash
<1>1. CASE n = 0
  <2>1. DOMAIN rows = {}
      BY <1>1
  <2> QED BY <1>1, <2>1, FS_EmptySet DEF MaxSeq
<1>2. CASE n # 0
  <2>1. n - 1 \in DOMAIN rows /\ DOMAIN rows \in SUBSET Int /\ \A t \in DOMAIN rows : t <= n - 1
      BY <1>2
  <2>2. Max(DOMAIN rows) = n - 1 /\ DOMAIN rows # {}
      BY <2>1, MaxIs
  <2>3. Cardinality(0 .. (n - 1)) = n
      BY <1>2, FS_Interval
  <2> QED BY <1>2, <2>2, <2>3 DEF MaxSeq, TailHash
<1> QED BY <1>1, <1>2

LEMMA WalkFindsNothing ==
    ASSUME NEW n \in Nat, Intact(n)
    PROVE  WalkFailures(rows, DOMAIN rows, {}) = {}
<1>1. ASSUME NEW s \in DOMAIN rows, NEW p \in Predecessor(DOMAIN rows, {}, s)
      PROVE  p = s - 1 /\ s # 0
  <2> DEFINE T == {t \in DOMAIN rows : t < s}
  <2>1. T # {} /\ p = Max(T)
      BY <1>1 DEF Predecessor
  <2>2. s - 1 \in T /\ T \in SUBSET Int /\ (\A t \in T : t <= s - 1) /\ s # 0
      BY <2>1 DEF Intact
  <2> HIDE DEF T
  <2> QED BY <2>1, <2>2, MaxIs
<1>2. ASSUME NEW s \in DOMAIN rows
      PROVE  RowFailures(rows, DOMAIN rows, {}, s) = {}
  <2>1. /\ rows[s].hash = EntryHash(s, rows[s].event, rows[s].prev)
        /\ s = 0 => rows[s].prev = Genesis
        /\ s # 0 => rows[s].prev = rows[s - 1].hash
      BY DEF Intact, Linked
  <2>2. s \in Nat
      BY DEF Intact
  <2>3. \A p \in Predecessor(DOMAIN rows, {}, s) : s = p + 1 /\ rows[s].prev = rows[p].hash
      BY <1>1, <2>1, <2>2
  <2> QED BY <2>1, <2>3 DEF RowFailures, ChainStart
<1> QED BY <1>2 DEF WalkFailures

LEMMA StandingVerifies ==
    ASSUME NEW n \in Nat, Standing(n, n)
    PROVE  VerifiesOK(rows, head)
<1>1. Intact(n) /\ head = HeadAt(n) /\ DOMAIN rows = 0 .. (n - 1)
    BY DEF Standing, Intact
<1>2. HeadStateNow(rows, head, TRUE) \in Clean
  <2>1. CASE n = 0
      BY <1>1, <2>1, SizeIs, HeadAtIs DEF HeadStateNow, HeadState, Clean
  <2>2. CASE n # 0
    <3>1. /\ head # NoHead /\ head.last_seq = n - 1 /\ head.count = n
          /\ head.last_hash = rows[n - 1].hash
          /\ MaxSeq(rows) = n - 1 /\ TailHash(rows) = rows[n - 1].hash
          /\ Cardinality(DOMAIN rows) = n /\ MaxSeq(rows) # NoTop
        BY <1>1, <2>2, SizeIs, HeadAtIs, NoTopAssumption
    <3> QED BY <3>1 DEF HeadStateNow, HeadState, Clean, CountDiffers
  <2> QED BY <2>1, <2>2
<1> QED BY <1>1, <1>2, WalkFindsNothing DEF VerifiesOK

LEMMA MaxOf ==
    ASSUME NEW n \in Nat, NEW S, S \subseteq 0 .. n, S # {}
    PROVE  Max(S) \in S /\ \A i \in S : i <= Max(S)
<1> DEFINE T == {n - i : i \in S}
           R == OpToRel(<, Nat)
<1>1. T \subseteq Nat /\ T # {}
  <2>1. \A i \in S : i \in Int /\ n - i \in Nat
      OBVIOUS
  <2>2. \A t \in T : \E i \in S : t = n - i
      OBVIOUS
  <2>3. T \subseteq Nat
      BY <2>1, <2>2
  <2>4. \A i \in S : n - i \in T
      OBVIOUS
  <2> QED BY <2>3, <2>4
<1>2. PICK t \in T : \A j \in T : t <= j
  <2>1. PICK t \in T : \A j \in T : ~(<<j, t>> \in R)
    <3> HIDE DEF R, T
    <3>1. IsWellFoundedOn(R, Nat)
        BY NatLessThanWellFounded DEF R
    <3> QED BY <1>1, <3>1, WFMin
  <2>2. \A j \in T : t <= j
    <3> SUFFICES ASSUME NEW j \in T, ~(t <= j) PROVE <<j, t>> \in R
        BY <2>1
    <3> QED BY <1>1 DEF OpToRel
  <2> QED BY <2>2
<1>3. PICK m \in S : t = n - m
    BY <1>2
<1>4. \A i \in S : m >= i
  <2> SUFFICES ASSUME NEW i \in S PROVE m >= i
      OBVIOUS
  <2>1. n - i \in T
      OBVIOUS
  <2>2. n - m <= n - i
      BY <1>2, <1>3, <2>1
  <2>3. m \in Int /\ i \in Int
      OBVIOUS
  <2> HIDE DEF T
  <2> QED BY <2>2, <2>3
<1> QED BY <1>3, <1>4 DEF Max

LEMMA LostIsReported ==
    ASSUME Lost
    PROVE  ~VerifiesOK(rows, head) /\ ~Lagging
<1> DEFINE D == DOMAIN rows
<1>1. CASE D = {}
    BY <1>1 DEF Lost, VerifiesOK, HeadStateNow, HeadState, MaxSeq, Clean, Lagging, Top
<1>2. CASE D # {}
  <2>1. MaxSeq(rows) = Max(D) /\ Max(D) \in D
    <3>1. D \subseteq 0 .. head.last_seq /\ head.last_seq \in Nat
        BY DEF Lost
    <3> QED BY <1>2, <3>1, MaxOf DEF MaxSeq
  <2>2. MaxSeq(rows) \in Nat /\ MaxSeq(rows) <= head.last_seq /\ MaxSeq(rows) # NoTop
      BY <2>1, NoTopAssumption DEF Lost
  <2>3. Cardinality(D) \in Nat /\ head.count # Cardinality(D)
      BY FS_CardinalityType DEF Lost
  <2>4. HeadStateNow(rows, head, TRUE) \notin Clean
      BY <2>2, <2>3 DEF Lost, HeadStateNow, HeadState, Clean, CountDiffers
  <2>5. head.last_seq \in Nat
      BY DEF Lost
  <2>6. ~(head.last_seq < MaxSeq(rows))
      BY <2>2, <2>5
  <2> QED BY <2>4, <2>6 DEF VerifiesOK, Lagging, Top
<1> QED BY <1>1, <1>2

LEMMA AlteredIsReported ==
    ASSUME Altered
    PROVE  ~VerifiesOK(rows, head) /\ ~Evidence
<1>1. PICK s \in DOMAIN rows : Modified(s) /\ \E row : <<s, row>> \in attested /\ row # rows[s]
    BY DEF Altered
<1>2. "modified_record" \in RowFailures(rows, DOMAIN rows, {}, s)
    BY <1>1 DEF RowFailures, Modified
<1>3. WalkFailures(rows, DOMAIN rows, {}) # {}
    BY <1>2 DEF WalkFailures
<1>4. ~Evidence
  <2>1. PICK row : <<s, row>> \in attested /\ row # rows[s]
      BY <1>1
  <2>2. <<s, row>>[1] = s /\ <<s, row>>[2] = row
      OBVIOUS
  <2> QED BY <2>1, <2>2 DEF Evidence
<1> QED BY <1>3, <1>4 DEF VerifiesOK

-----------------------------------------------------------------------------
(* Every step keeps the invariant.                                         *)

LEMMA InitIInv == Init => IInv
<1> SUFFICES ASSUME Init PROVE IInv
    OBVIOUS
<1>1. /\ DOMAIN rows = {} /\ head = NoHead /\ attested = {} /\ heads = {} /\ damage = 0
    BY DEF Init
<1>2. Undamaged(0)
    BY <1>1 DEF Undamaged, Standing, Intact, Linked, HeadAt
<1> QED BY <1>1, <1>2 DEF IInv

\* append() finds the row it would write taken, unless the head is that of
\* the last record.
LEMMA AppendExtends ==
    ASSUME NEW n \in Nat, NEW k \in 0 .. n, Standing(n, k), NEW e \in Event, Append(e)
    PROVE  k = n /\ Standing(n + 1, n + 1)' /\ \A j \in 1 .. n : HeadAt(j)' = HeadAt(j)
<1> DEFINE d == NextRecord(head, e)
<1>1. Intact(n) /\ head = HeadAt(k) /\ k \in Nat /\ DOMAIN rows = 0 .. (n - 1)
    BY DEF Standing, Intact
<1>2. /\ d.seq = k /\ d.count = k + 1 /\ d.event = e
      /\ d.prev = IF k = 0 THEN Genesis ELSE rows[k - 1].hash
      /\ d.hash = EntryHash(d.seq, d.event, d.prev)
    BY <1>1, HeadAtIs DEF NextRecord, NextSeq, NextPrev, NextCount
<1>3. /\ d.seq \notin DOMAIN rows /\ rows' = WithRow(rows, d) /\ head' = HeadOf(d)
      /\ attested' = attested \cup {<<d.seq, Row(d)>>}
    BY DEF Append, Collides
<1>4. k = n
    BY <1>1, <1>2, <1>3
<1> HIDE DEF d
<1>5. /\ DOMAIN rows' = 0 .. n /\ rows'[n] = Row(d)
      /\ \A s \in DOMAIN rows : rows'[s] = rows[s]
    BY <1>1, <1>2, <1>3, <1>4 DEF WithRow
<1>6. rows'[n].event = d.event /\ rows'[n].prev = d.prev /\ rows'[n].hash = d.hash
    BY <1>5 DEF Row
<1>7. Linked'
  <2> SUFFICES ASSUME NEW s \in 0 .. n
               PROVE  /\ rows'[s] = [event |-> rows'[s].event, prev |-> rows'[s].prev,
                                    hash |-> rows'[s].hash]
                      /\ rows'[s].hash = EntryHash(s, rows'[s].event, rows'[s].prev)
                      /\ s = 0 => rows'[s].prev = Genesis
                      /\ s # 0 => rows'[s].prev = rows'[s - 1].hash
      BY <1>5 DEF Linked
  <2>1. CASE s = n
    <3>1. n # 0 => rows'[n - 1] = rows[n - 1]
        BY <1>1, <1>5
    <3>2. rows'[n] = [event |-> d.event, prev |-> d.prev, hash |-> d.hash]
        BY <1>5 DEF Row
    <3> QED BY <1>2, <1>4, <1>6, <2>1, <3>1, <3>2
  <2>2. CASE s # n
    <3>1. s \in DOMAIN rows /\ rows'[s] = rows[s] /\ (s # 0 => rows'[s - 1] = rows[s - 1])
        BY <1>1, <1>5, <2>2
    <3> QED BY <1>1, <3>1 DEF Intact, Linked
  <2> QED BY <2>1, <2>2
<1>8. \A a \in attested' : a[1] \in DOMAIN rows' /\ rows'[a[1]] = a[2]
  <2> SUFFICES ASSUME NEW a \in attested' PROVE a[1] \in DOMAIN rows' /\ rows'[a[1]] = a[2]
      OBVIOUS
  <2>1. CASE a \in attested
    <3>1. a[1] \in DOMAIN rows /\ rows[a[1]] = a[2]
        BY <1>1, <2>1 DEF Intact
    <3> QED BY <1>1, <1>5, <3>1
  <2>2. CASE a = <<d.seq, Row(d)>>
      BY <1>2, <1>4, <1>5, <2>2
  <2> QED BY <1>3, <2>1, <2>2
<1>9. \A s \in DOMAIN rows' : <<s, rows'[s]>> \in attested'
  <2> SUFFICES ASSUME NEW s \in 0 .. n PROVE <<s, rows'[s]>> \in attested'
      BY <1>5
  <2>1. CASE s = n
      BY <1>2, <1>3, <1>4, <1>5, <2>1
  <2>2. CASE s # n
    <3>1. s \in DOMAIN rows /\ rows'[s] = rows[s]
        BY <1>1, <1>5, <2>2
    <3> QED BY <1>1, <1>3, <3>1 DEF Intact
  <2> QED BY <2>1, <2>2
<1>10. Intact(n + 1)'
  <2>1. (n + 1) - 1 = n
      OBVIOUS
  <2> QED BY <1>5, <1>7, <1>8, <1>9, <2>1 DEF Intact
<1>11. head' = HeadAt(n + 1)'
    BY <1>2, <1>3, <1>4, <1>6 DEF HeadAt, HeadOf
<1>12. \A j \in 1 .. n : HeadAt(j)' = HeadAt(j)
    BY <1>1, <1>5 DEF HeadAt
<1> QED BY <1>4, <1>10, <1>11, <1>12 DEF Standing

LEMMA AppendIInv ==
    ASSUME IInv, NEW e \in Event, Append(e)
    PROVE  IInv'
<1> DEFINE d == NextRecord(head, e)
<1>1. /\ damage' = damage /\ heads' = heads \cup {HeadOf(d)} /\ head' = HeadOf(d)
      /\ d.seq \notin DOMAIN rows /\ rows' = WithRow(rows, d) /\ attested \subseteq attested'
    BY DEF Append, Collides
<1>2. ASSUME damage = 0 PROVE \E n \in Nat : Undamaged(n)'
  <2>1. PICK n \in Nat : Undamaged(n)
      BY <1>2 DEF IInv
  <2>2. Standing(n + 1, n + 1)' /\ \A j \in 1 .. n : HeadAt(j)' = HeadAt(j)
      BY <2>1, AppendExtends DEF Undamaged, Standing
  <2>3. head' = HeadAt(n + 1)'
      BY <2>2 DEF Standing
  <2>4. heads' \subseteq {HeadAt(j)' : j \in 1 .. (n + 1)}
    <3> SUFFICES ASSUME NEW h \in heads' PROVE \E j \in 1 .. (n + 1) : h = HeadAt(j)'
        OBVIOUS
    <3>1. CASE h \in heads
      <4>1. PICK j \in 1 .. n : h = HeadAt(j)
          BY <2>1, <3>1 DEF Undamaged
      <4> QED BY <2>2, <4>1
    <3>2. CASE h = head'
        BY <2>3, <3>2
    <3> QED BY <1>1, <3>1, <3>2
  <2>5. n + 1 \in Nat /\ Undamaged(n + 1)'
      BY <2>2, <2>4 DEF Undamaged
  <2> QED BY <2>5
<1>3. ASSUME Lost PROVE Lost'
  <2>1. d.seq = head.last_seq + 1 /\ d.count = head.count + 1
      BY <1>3 DEF Lost, NextRecord, NextSeq, NextCount
  <2>2. head'.last_seq = d.seq /\ head'.count = d.count
      BY <1>1 DEF HeadOf
  <2>3. head' # NoHead
    <3>1. "last_seq" \in DOMAIN HeadOf(d) /\ "last_seq" \notin DOMAIN NoHead
        BY DEF HeadOf, NoHead
    <3> QED BY <1>1, <3>1
  <2>4. DOMAIN rows' = DOMAIN rows \cup {d.seq}
      BY <1>1 DEF WithRow
  <2>5. IsFiniteSet(DOMAIN rows') /\ Cardinality(DOMAIN rows') = Cardinality(DOMAIN rows) + 1
      BY <1>1, <1>3, <2>4, FS_AddElement DEF Lost
  <2>6. Cardinality(DOMAIN rows) \in Nat
      BY <1>3, FS_CardinalityType DEF Lost
  <2> HIDE DEF d
  <2> QED BY <1>3, <2>1, <2>2, <2>3, <2>4, <2>5, <2>6 DEF Lost
<1>4. ASSUME Altered PROVE Altered'
  <2>1. PICK s \in DOMAIN rows : Modified(s) /\ \E row : <<s, row>> \in attested /\ row # rows[s]
      BY <1>4 DEF Altered
  <2>2. s \in DOMAIN rows' /\ rows'[s] = rows[s]
      BY <1>1 DEF WithRow
  <2> QED BY <1>1, <2>1, <2>2 DEF Altered, Modified
<1>5. ASSUME NEW n \in Nat, NEW k \in 0 .. n, Standing(n, k)
      PROVE  \E m \in Nat : \E j \in 0 .. m : Standing(m, j)'
  <2>1. Standing(n + 1, n + 1)' /\ n + 1 \in Nat /\ n + 1 \in 0 .. (n + 1)
      BY <1>5, AppendExtends
  <2> QED BY <2>1
<1> HIDE DEF d
<1> QED BY <1>1, <1>2, <1>3, <1>4, <1>5 DEF IInv

\* Neither the log nor the head moves.
LEMMA Unmoved ==
    ASSUME IInv, UNCHANGED <<rows, head, attested, heads, damage>>
    PROVE  IInv'
<1>1. \A n, k : Standing(n, k)' <=> Standing(n, k)
    BY DEF Standing, Intact, Linked, HeadAt
<1>2. \A n : Undamaged(n)' <=> Undamaged(n)
    BY <1>1 DEF Undamaged, HeadAt
<1>3. (Lost' <=> Lost) /\ (Altered' <=> Altered)
    BY DEF Lost, Altered, Modified
<1> QED BY <1>1, <1>2, <1>3 DEF IInv

\* A repair finds a log that stands behind an older head, and gives it its own.
LEMMA RepairIs ==
    ASSUME NEW n \in Nat, NEW k \in 0 .. n, Standing(n, k), RepairForward
    PROVE  n # 0 /\ k < n /\ Standing(n, n)'
<1>1. Intact(n) /\ head = HeadAt(k) /\ DOMAIN rows = 0 .. (n - 1) /\ k \in Nat
    BY DEF Standing, Intact
<1>2. n # 0
    BY <1>1, SizeIs DEF RepairForward, Lagging, Top
<1>3. Top = n - 1 /\ Cardinality(DOMAIN rows) = n
    BY <1>1, <1>2, SizeIs DEF Top
<1>4. head' = HeadAt(n) /\ rows' = rows /\ attested' = attested
    BY <1>2, <1>3 DEF RepairForward, RebuiltHead, HeadAt
<1>5. k < n
  <2>1. k # 0 /\ head.last_seq = k - 1
      BY <1>1, HeadAtIs DEF RepairForward, Lagging
  <2> QED BY <1>3, <2>1 DEF RepairForward, Lagging
<1>6. Standing(n, n)'
    BY <1>1, <1>4 DEF Standing, Intact, Linked, HeadAt
<1> QED BY <1>2, <1>5, <1>6

LEMMA RepairIInv ==
    ASSUME IInv, RepairForward
    PROVE  IInv'
<1>1. rows' = rows /\ attested' = attested /\ damage' = damage
    BY DEF RepairForward
<1>2. damage # 0
  <2> SUFFICES ASSUME damage = 0 PROVE FALSE
      OBVIOUS
  <2>1. PICK n \in Nat : Standing(n, n)
      BY DEF IInv, Undamaged
  <2>2. n \in 0 .. n /\ ~(n < n)
      OBVIOUS
  <2> QED BY <2>1, <2>2, RepairIs
<1>3. ~Lost
    BY LostIsReported DEF RepairForward
<1>4. Altered => Altered'
    BY <1>1 DEF Altered, Modified
<1>5. ASSUME NEW n \in Nat, NEW k \in 0 .. n, Standing(n, k)
      PROVE  \E m \in Nat : \E j \in 0 .. m : Standing(m, j)'
  <2>1. Standing(n, n)' /\ n \in 0 .. n
      BY <1>5, RepairIs
  <2> QED BY <2>1
<1> QED BY <1>1, <1>2, <1>3, <1>4, <1>5 DEF IInv

\* The first damage is done to a log that stands whole.
LEMMA BeforeDamage ==
    ASSUME IInv, Damage, damage' = 1
    PROVE  /\ attested' = attested
           /\ \E n \in Nat : Undamaged(n)
<1>1. damage = 0
    BY DEF Damage, IInv
<1> QED BY <1>1 DEF IInv, Damage

LEMMA LoseRecordIInv ==
    ASSUME IInv, NEW s \in DOMAIN rows, LoseRecord(s), damage' = 1
    PROVE  Lost'
<1>1. PICK n \in Nat : Undamaged(n)
    BY BeforeDamage DEF LoseRecord
<1>2. /\ DOMAIN rows = 0 .. (n - 1) /\ head = HeadAt(n) /\ head' = head
      /\ DOMAIN rows' = DOMAIN rows \ {s}
    BY <1>1 DEF Undamaged, Standing, Intact, LoseRecord
<1>3. n # 0 /\ IsFiniteSet(DOMAIN rows) /\ Cardinality(DOMAIN rows) = n
    BY <1>2, SizeIs, FS_Interval
<1>4. IsFiniteSet(DOMAIN rows') /\ Cardinality(DOMAIN rows') = n - 1
    BY <1>2, <1>3, FS_RemoveElement
<1>5. head # NoHead /\ head.last_seq = n - 1 /\ head.count = n
    BY <1>2, <1>3, HeadAtIs
<1> QED BY <1>2, <1>3, <1>4, <1>5 DEF Lost

LEMMA AlterRecordIInv ==
    ASSUME IInv, NEW s \in DOMAIN rows, NEW e \in Event, AlterRecord(s, e), damage' = 1
    PROVE  Altered'
<1>1. PICK n \in Nat : Undamaged(n)
    BY BeforeDamage DEF AlterRecord
<1>2. /\ rows[s].hash = EntryHash(s, rows[s].event, rows[s].prev) /\ rows[s].event # e
      /\ rows[s] = [event |-> rows[s].event, prev |-> rows[s].prev, hash |-> rows[s].hash]
      /\ <<s, rows[s]>> \in attested /\ attested' = attested
      /\ rows' = [rows EXCEPT ![s].event = e]
    BY <1>1, BeforeDamage DEF Undamaged, Standing, Intact, Linked, AlterRecord
<1>3. rows'[s].event = e /\ rows'[s].hash = rows[s].hash /\ rows'[s].prev = rows[s].prev
      /\ s \in DOMAIN rows'
  <2>1. rows[s].event # e /\ rows'[s] = [rows[s] EXCEPT !.event = e]
      BY <1>2
  <2> QED BY <1>1, <1>2, <2>1
<1>4. rows[s] # rows'[s]
    BY <1>2, <1>3
<1>5. EntryHash(s, rows[s].event, rows[s].prev) # EntryHash(s, e, rows[s].prev)
    BY <1>2 DEF EntryHash
<1> QED BY <1>2, <1>3, <1>4, <1>5 DEF Altered, Modified

LEMMA HeadDamageIInv ==
    ASSUME IInv, LoseHead \/ (\E h \in heads : RestoreHead(h)), damage' = 1
    PROVE  \E n \in Nat : \E k \in 0 .. n : Standing(n, k)'
<1>1. PICK n \in Nat : Undamaged(n)
    BY BeforeDamage DEF LoseHead, RestoreHead
<1>2. rows' = rows /\ attested' = attested
    BY BeforeDamage DEF LoseHead, RestoreHead
<1>3. PICK k \in 0 .. n : head' = HeadAt(k)
  <2>1. CASE LoseHead
      BY <2>1 DEF LoseHead, HeadAt
  <2>2. CASE \E h \in heads : RestoreHead(h)
      BY <1>1, <2>2 DEF RestoreHead, Undamaged
  <2> QED BY <2>1, <2>2
<1>4. Standing(n, k)'
    BY <1>1, <1>2, <1>3 DEF Undamaged, Standing, Intact, Linked, HeadAt
<1> QED BY <1>4

LEMMA NextIInv == IInv /\ [Next]_vars => IInv'
<1> SUFFICES ASSUME IInv, [Next]_vars PROVE IInv'
    OBVIOUS
<1>1. CASE UNCHANGED vars
    BY <1>1, Unmoved DEF vars
<1>2. ASSUME NEW e \in Event, Append(e) \/ AppendRaises(e)
      PROVE  IInv'
    BY <1>2, AppendIInv, Unmoved DEF AppendRaises
<1>3. ASSUME NEW allow \in BOOLEAN, Reconcile(allow)
      PROVE  IInv'
    BY <1>3, RepairIInv, Unmoved DEF Reconcile, Refuse, FindConsistent
<1>4. ASSUME Damage,
             \/ \E s \in DOMAIN rows : LoseRecord(s) \/ \E e \in Event : AlterRecord(s, e)
             \/ LoseHead
             \/ \E h \in heads : RestoreHead(h)
      PROVE  IInv'
  <2>1. damage' \in Nat /\ damage' # 0
      BY <1>4 DEF Damage, IInv
  <2>2. damage' = 1 => (\E n \in Nat : \E k \in 0 .. n : Standing(n, k)') \/ Lost' \/ Altered'
      BY <1>4, LoseRecordIInv, AlterRecordIInv, HeadDamageIInv
  <2> QED BY <2>1, <2>2 DEF IInv
<1>5. CASE \E s \in DOMAIN rows : LoseRecord(s) \/ \E e \in Event : AlterRecord(s, e)
    BY <1>4, <1>5 DEF LoseRecord, AlterRecord
<1>6. CASE LoseHead \/ \E h \in heads : RestoreHead(h)
    BY <1>4, <1>6 DEF LoseHead, RestoreHead
<1> QED BY <1>1, <1>2, <1>3, <1>5, <1>6 DEF Next

-----------------------------------------------------------------------------
(* The theorems.                                                           *)

WholeVerifies == \A n \in Nat : Standing(n, n) => VerifiesOK(rows, head)

LEMMA WholeLogVerifies == WholeVerifies
BY StandingVerifies DEF WholeVerifies

\* What one damage can have left, however it is appended to and repaired.
THEOREM Invariance == Spec => []IInv
BY InitIInv, NextIInv, PTL DEF Spec

LEMMA IInvReports ==
    ASSUME IInv, damage \in {0, 1}
    PROVE  LossIsReported
<1>1. ASSUME NEW n, NEW k, Standing(n, k)
      PROVE  Evidence
    BY <1>1 DEF Standing, Intact, Evidence
<1>2. CASE damage = 0
    BY <1>1, <1>2 DEF IInv, Undamaged, LossIsReported
<1>3. CASE damage = 1
    BY <1>1, <1>3, LostIsReported, AlteredIsReported DEF IInv, LossIsReported
<1> QED BY <1>2, <1>3

\* After one damage, whatever is appended and reconciled, verify_chain reports
\* that a record append() returned is gone or altered.
THEOREM LossAlwaysReported == Spec => [](damage <= 1 => LossIsReported)
<1>1. IInv => (damage <= 1 => LossIsReported)
  <2> SUFFICES ASSUME IInv, damage <= 1 PROVE LossIsReported
      OBVIOUS
  <2>1. damage \in {0, 1}
      BY DEF IInv
  <2> QED BY <2>1, IInvReports
<1> QED BY <1>1, Invariance, PTL

\* Without a damage verify_chain passes after every step: what it reports
\* after one is owed to it.
THEOREM UndamagedAlwaysVerifies == Spec => [](damage = 0 => VerifiesOK(rows, head))
<1>1. IInv => (damage = 0 => VerifiesOK(rows, head))
  <2> SUFFICES ASSUME IInv, damage = 0 PROVE VerifiesOK(rows, head)
      OBVIOUS
  <2>1. PICK n \in Nat : Standing(n, n)
      BY DEF IInv, Undamaged
  <2> QED BY <2>1, StandingVerifies
<1> QED BY <1>1, Invariance, PTL

LEMMA RefusalIsDeserved ==
    ASSUME NEW allow, Refuse(allow)
    PROVE  ~VerifiesOK(rows, head)
<1>1. HeadStateNow(rows, head, TRUE) \notin Clean
    BY DEF Refuse, HeadAhead, Lagging, Top, HeadStateNow, HeadState, Clean
<1> QED BY <1>1 DEF VerifiesOK

AtMostOne == damage \in {0, 1}

LEMMA RepairServes ==
    ASSUME IInv, WholeVerifies', AtMostOne, RepairForward, Evidence
    PROVE  /\ VerifiesOK(rows', head')
           /\ \A e \in Event : ~Collides(rows', NextRecord(head', e))
<1>1. PICK n \in Nat : \E k \in 0 .. n : Standing(n, k)
  <2>1. ~Lost /\ ~Altered
      BY LostIsReported, AlteredIsReported DEF RepairForward
  <2>2. ASSUME NEW n \in Nat, Undamaged(n)
        PROVE  n \in 0 .. n /\ Standing(n, n)
      BY <2>2 DEF Undamaged
  <2> QED BY <2>1, <2>2 DEF IInv, AtMostOne
<1>2. n # 0 /\ Standing(n, n)'
    BY <1>1, RepairIs
<1>3. VerifiesOK(rows, head)'
    BY <1>2 DEF WholeVerifies
<1>4. ASSUME NEW e \in Event PROVE ~Collides(rows', NextRecord(head', e))
  <2> DEFINE d == NextRecord(head', e)
  <2>1. /\ DOMAIN rows' = 0 .. (n - 1) /\ head' = HeadAt(n)'
        /\ \A s \in DOMAIN rows' : rows'[s].hash = EntryHash(s, rows'[s].event, rows'[s].prev)
      BY <1>2 DEF Standing, Intact, Linked
  <2>2. head'.last_seq = n - 1 /\ head' # NoHead
    <3>1. "last_seq" \in DOMAIN HeadAt(n)' /\ "last_seq" \notin DOMAIN NoHead
        BY <1>2 DEF HeadAt, NoHead
    <3> QED BY <1>2, <2>1, <3>1 DEF HeadAt
  <2>3. d.seq = n /\ d.hash[1] = n
      BY <2>2 DEF NextRecord, NextSeq, EntryHash
  <2>4. \A s \in DOMAIN rows' : rows'[s].hash[1] = s /\ s # n
      BY <2>1 DEF EntryHash
  <2>5. d.seq \notin DOMAIN rows'
      BY <2>3, <2>4
  <2>6. \A s \in DOMAIN rows' : rows'[s].hash # d.hash
      BY <2>3, <2>4
  <2> QED BY <2>5, <2>6 DEF Collides
<1> QED BY <1>3, <1>4

LEMMA StepIsSound ==
    ASSUME IInv, WholeVerifies', AtMostOne, [Next]_vars
    PROVE  [RefusesOnlyDamage /\ RepairRestoresService]_vars
<1> SUFFICES ASSUME Next PROVE RefusesOnlyDamage /\ RepairRestoresService
    OBVIOUS
<1>1. ASSUME NEW e \in Event, Append(e) \/ AppendRaises(e)
      PROVE  outcome' \notin {"refused", "repaired_forward"}
    BY <1>1 DEF Append, AppendRaises
<1>2. ASSUME Damage
      PROVE  outcome' \notin {"refused", "repaired_forward"}
    BY <1>2 DEF Damage
<1>3. ASSUME NEW allow \in BOOLEAN, Reconcile(allow)
      PROVE  RefusesOnlyDamage /\ RepairRestoresService
  <2>1. CASE RepairForward
      BY <2>1, RepairServes DEF RepairForward, RefusesOnlyDamage, RepairRestoresService
  <2>2. CASE Refuse(allow)
      BY <2>2, RefusalIsDeserved DEF Refuse, RefusesOnlyDamage, RepairRestoresService
  <2>3. CASE FindConsistent
      BY <2>3 DEF FindConsistent, RefusesOnlyDamage, RepairRestoresService
  <2> QED BY <1>3, <2>1, <2>2, <2>3 DEF Reconcile
<1>4. outcome' \notin {"refused", "repaired_forward"} => RefusesOnlyDamage /\ RepairRestoresService
    BY DEF RefusesOnlyDamage, RepairRestoresService
<1>5. CASE \E e \in Event : Append(e) \/ AppendRaises(e)
    BY <1>1, <1>4, <1>5
<1>6. CASE \E s \in DOMAIN rows : LoseRecord(s) \/ \E e \in Event : AlterRecord(s, e)
    BY <1>2, <1>4, <1>6 DEF LoseRecord, AlterRecord
<1>7. CASE LoseHead \/ \E h \in heads : RestoreHead(h)
    BY <1>2, <1>4, <1>7 DEF LoseHead, RestoreHead
<1> QED BY <1>3, <1>5, <1>6, <1>7 DEF Next

LEMMA FewDamages ==
    ASSUME MaxDamage \in {0, 1}, AtMostOne, [Next]_vars
    PROVE  AtMostOne'
<1> USE DEF AtMostOne
<1>1. CASE Damage
    BY <1>1 DEF Damage
<1>2. CASE ~Damage
    BY <1>2 DEF Next, Append, AppendRaises, Reconcile, RepairForward, Refuse, FindConsistent,
                LoseRecord, AlterRecord, LoseHead, RestoreHead, vars
<1> QED BY <1>1, <1>2

\* Where there is one damage at most, reconcile_head refuses no chain that
\* verification would pass, and a head it rebuilds over records that are all
\* there gives verification and append back.
THEOREM ReconcileAlwaysSound ==
    ASSUME MaxDamage \in {0, 1}
    PROVE  Spec => ReconcileIsSound
<1>1. Init => AtMostOne
    BY DEF Init, AtMostOne
<1>2. AtMostOne /\ [Next]_vars => AtMostOne'
    BY FewDamages
<1>3. IInv /\ WholeVerifies' /\ AtMostOne /\ [Next]_vars
        => [RefusesOnlyDamage /\ RepairRestoresService]_vars
    BY StepIsSound
<1>4. WholeVerifies
    BY WholeLogVerifies
<1> QED BY <1>1, <1>2, <1>3, <1>4, Invariance, PTL DEF Spec, ReconcileIsSound

=============================================================================
