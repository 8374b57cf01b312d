-------------------------- MODULE PeerStoreProofs --------------------------
(***************************************************************************)
(* Proofs about PeerStore, for any entries of a structure file, any number *)
(* of searches, crashes and interfaces: what the rows of a peer give back. *)
(***************************************************************************)
EXTENDS PeerParts, Integers, Sequences, FiniteSetTheorems, SequenceTheorems,
        WellFoundedInduction, TLAPS

-----------------------------------------------------------------------------
(* Orders of a set, and the least of a set of numbers *)

(* The finite sets of PeerStore are those of the library's theorems. *)
LEMMA SameFinite ==
  \A S : /\ Rows!Cardinality(S) = Cardinality(S)
         /\ Rows!IsFiniteSet(S) <=> IsFiniteSet(S)
BY DEF Rows!Cardinality, Cardinality, Rows!IsFiniteSet, IsFiniteSet

LEMMA Enumerated ==
  ASSUME NEW S, IsFiniteSet(S), NEW order \in Rows!SetToSeqs(S)
  PROVE  /\ Cardinality(S) \in Nat /\ order \in [1 .. Cardinality(S) -> S]
         /\ \A i, j \in 1 .. Cardinality(S) : order[i] = order[j] => i = j
         /\ \A s \in S : \E i \in 1 .. Cardinality(S) : order[i] = s
<1> DEFINE n == Cardinality(S)
<1>1. n \in Nat
  BY FS_CardinalityType
<1>2. order \in [1 .. n -> S] /\ \A i, j \in 1 .. n : order[i] = order[j] => i = j
  <2>1. Rows!Cardinality(S) = n
    BY SameFinite
  <2> HIDE DEF n
  <2>2. QED
    BY <2>1 DEF Rows!SetToSeqs
<1>3. order \in Injection(1 .. n, S)
  BY <1>2 DEF Injection, IsInjective
<1>4. Cardinality(1 .. n) = n
  BY <1>1, FS_Interval
<1>5. order \in Surjection(1 .. n, S)
  BY <1>3, <1>4, FS_Injection
<1>6. QED
  BY <1>1, <1>2, <1>5 DEF Surjection

LEMMA LeastOf ==
  ASSUME NEW S, S \subseteq Nat, S # {}
  PROVE  Rows!Wins(S) \in S /\ \A y \in S : Rows!Wins(S) <= y
<1> DEFINE less == {p \in Nat \X Nat : p[1] < p[2]}
<1>1. IsWellFoundedOn(less, Nat)
  <2>1. less = OpToRel(<, Nat)
    BY DEF OpToRel
  <2>2. QED
    BY <2>1, NatLessThanWellFounded
<1>2. PICK x \in S : \A y \in S : <<y, x>> \notin less
  BY <1>1, WFMin
<1>3. ASSUME NEW y \in S
      PROVE  x <= y
  <2>1. x \in Nat /\ y \in Nat /\ <<y, x>> \in Nat \X Nat
    OBVIOUS
  <2>2. <<y, x>>[1] = y /\ <<y, x>>[2] = x
    OBVIOUS
  <2>3. ~(<<y, x>>[1] < <<y, x>>[2])
    BY <1>2, <2>1, Zenon
  <2>4. ~(y < x)
    BY <2>2, <2>3
  <2>5. QED
    BY <2>1, <2>4
<1>4. QED
  BY <1>3 DEF Rows!Wins, Rows!Min

-----------------------------------------------------------------------------
(* The rows of a save *)

(* The rows a save of entry e may have, of a peer whose interface is h. *)
StateRow(e, i, u) == Rows!Row(i, e.states[u], u)
DetailRow(e, i, d) == Rows!Row(i, d, e.details[d])
HomeRow(h) == Rows!Row(19, "", h)
ActionRow == Rows!Row(103, "uuidAction", Uuid)
RoomRow(e) == Rows!Row(107, "room", Rows!RoomOf(e))
StateRowsOf(e) == {StateRow(e, i, u) : i \in 201 .. 300, u \in DOMAIN e.states}
DetailRowsOf(e) == {DetailRow(e, i, d) : i \in 121 .. 200, d \in DOMAIN e.details}
RowsOf(e, h) ==
  {HomeRow(h), ActionRow, RoomRow(e)} \cup StateRowsOf(e) \cup DetailRowsOf(e)

(* Those that a restart makes a control of, for an order of the states and one
   of the details. *)
StatesAt(e, us) == {StateRow(e, 200 + k, us[k]) : k \in DOMAIN us}
DetailsAt(e, ds) == {DetailRow(e, 120 + k, ds[k]) : k \in DOMAIN ds}
DataRows(e, us, ds) == {ActionRow, RoomRow(e)} \cup StatesAt(e, us) \cup DetailsAt(e, ds)

StatesOrder(e, us) ==
  us \in Rows!SetToSeqs(DOMAIN e.states)
DetailsOrder(e, ds) ==
  ds \in Rows!SetToSeqs(DOMAIN e.details)

(* The order of what is saved: each thing once, at most as many as there are
   numbers. *)
LEMMA StatesInOrder ==
  ASSUME Rows!EntriesAssumption, NEW e \in Entries, NEW us, StatesOrder(e, us)
  PROVE  LET n == Cardinality(DOMAIN e.states) IN
         /\ n \in 0 .. 100 /\ us \in [1 .. n -> DOMAIN e.states] /\ DOMAIN us = 1 .. n
         /\ \A i, j \in 1 .. n : us[i] = us[j] => i = j
         /\ \A u \in DOMAIN e.states : \E k \in 1 .. n : us[k] = u
<1> DEFINE S == DOMAIN e.states
           n == Cardinality(S)
<1>1. IsFiniteSet(S) /\ n <= 100
  BY SameFinite DEF Rows!EntriesAssumption
<1>2. us \in Rows!SetToSeqs(S)
  BY DEF StatesOrder
<1> HIDE DEF S
<1>3. /\ n \in Nat /\ us \in [1 .. n -> S]
      /\ \A i, j \in 1 .. n : us[i] = us[j] => i = j
      /\ \A u \in S : \E k \in 1 .. n : us[k] = u
  BY <1>1, <1>2, Enumerated
<1> HIDE DEF n
<1>4. n \in 0 .. 100
  BY <1>1, <1>3
<1>5. QED
  BY <1>3, <1>4 DEF S, n

LEMMA DetailsInOrder ==
  ASSUME Rows!EntriesAssumption, NEW e \in Entries, NEW ds, DetailsOrder(e, ds)
  PROVE  LET m == Cardinality(DOMAIN e.details) IN
         /\ m \in 0 .. 80 /\ ds \in [1 .. m -> DOMAIN e.details] /\ DOMAIN ds = 1 .. m
         /\ \A i, j \in 1 .. m : ds[i] = ds[j] => i = j
         /\ \A d \in DOMAIN e.details : \E k \in 1 .. m : ds[k] = d
<1> DEFINE S == DOMAIN e.details
           n == Cardinality(S)
<1>1. IsFiniteSet(S) /\ n <= 80
  BY SameFinite DEF Rows!EntriesAssumption
<1>2. ds \in Rows!SetToSeqs(S)
  BY DEF DetailsOrder
<1> HIDE DEF S
<1>3. /\ n \in Nat /\ ds \in [1 .. n -> S]
      /\ \A i, j \in 1 .. n : ds[i] = ds[j] => i = j
      /\ \A u \in S : \E k \in 1 .. n : ds[k] = u
  BY <1>1, <1>2, Enumerated
<1> HIDE DEF n
<1>4. n \in 0 .. 80
  BY <1>1, <1>3
<1>5. QED
  BY <1>3, <1>4 DEF S, n

Joins(s, a, b) ==
  /\ Len(s) = Len(a) + Len(b)
  /\ \A i \in 1 .. Len(a) : s[i] = a[i]
  /\ \A k \in 1 .. Len(b) : s[Len(a) + k] = b[k]

LEMMA ConcatAt ==
  ASSUME NEW S, NEW a \in Seq(S), NEW b \in Seq(S)
  PROVE  a \o b \in Seq(S) /\ Joins(a \o b, a, b)
<1>1. /\ a \o b \in Seq(S) /\ Len(a \o b) = Len(a) + Len(b)
      /\ \A i \in 1 .. Len(a) + Len(b) : (a \o b)[i] = IF i <= Len(a) THEN a[i] ELSE b[i - Len(a)]
  BY ConcatProperties
<1>2. Len(a) \in Nat /\ Len(b) \in Nat
  OBVIOUS
<1>3. \A i \in 1 .. Len(a) : (a \o b)[i] = a[i]
  BY <1>1, <1>2
<1>4. ASSUME NEW k \in 1 .. Len(b)
      PROVE  (a \o b)[Len(a) + k] = b[k]
  <2>1. /\ Len(a) + k \in 1 .. Len(a) + Len(b) /\ ~(Len(a) + k <= Len(a))
        /\ Len(a) + k - Len(a) = k
    BY <1>2
  <2>2. QED
    BY <1>1, <2>1
<1>5. QED
  BY <1>1, <1>3, <1>4 DEF Joins

(* What saveVariables() queues, row by row. *)
LEMMA SavedIs ==
  ASSUME Rows!EntriesAssumption, NEW e \in Entries,
         NEW us, StatesOrder(e, us), NEW ds, DetailsOrder(e, ds)
  PROVE  LET rows == Rows!Saved(Rows!FromEntry(e), us, ds)
             n == Cardinality(DOMAIN e.states)
             m == Cardinality(DOMAIN e.details) IN
         /\ rows \in Seq(RowsOf(e, home)) /\ Len(rows) = 3 + n + m
         /\ rows[1] = HomeRow(home) /\ rows[2] = ActionRow /\ rows[3] = RoomRow(e)
         /\ \A k \in 1 .. n : rows[3 + k] = StateRow(e, 200 + k, us[k])
         /\ \A k \in 1 .. m : rows[3 + n + k] = DetailRow(e, 120 + k, ds[k])
<1> DEFINE c == Rows!FromEntry(e)
           n == Cardinality(DOMAIN e.states)
           m == Cardinality(DOMAIN e.details)
           A == <<HomeRow(home)>>
           B == <<ActionRow, RoomRow(e)>>
           C == [k \in 1 .. n |-> StateRow(e, 200 + k, us[k])]
           D == [k \in 1 .. m |-> DetailRow(e, 120 + k, ds[k])]
           R == RowsOf(e, home)
<1>1. /\ n \in 0 .. 100 /\ us \in [1 .. n -> DOMAIN e.states] /\ DOMAIN us = 1 .. n
      /\ m \in 0 .. 80 /\ ds \in [1 .. m -> DOMAIN e.details] /\ DOMAIN ds = 1 .. m
  BY StatesInOrder, DetailsInOrder
<1> HIDE DEF n, m
<1>2. Rows!Saved(c, us, ds) = A \o (B \o C \o D)
  <2>1. c.action = Uuid /\ c.room = Rows!RoomOf(e) /\ c.states = e.states /\ c.details = e.details
    BY DEF Rows!FromEntry
  <2> HIDE DEF c
  <2>2. Rows!FieldRows(c) = B
    BY <2>1 DEF Rows!FieldRows, ActionRow, RoomRow
  <2>3. Rows!StateRows(c, us) = C
    <3>1. \A k \in 1 .. n : Rows!FirstState - 1 + k = 200 + k
      BY <1>1 DEF Rows!FirstState
    <3>2. QED
      BY <1>1, <2>1, <3>1 DEF Rows!StateRows, StateRow
  <2>4. Rows!DetailRows(c, ds) = D
    BY <1>1, <2>1 DEF Rows!DetailRows, DetailRow
  <2> HIDE DEF B, C, D
  <2>5. QED
    BY <2>2, <2>3, <2>4 DEF Rows!Saved, Rows!DataToSave, HomeRow
<1>3. A \in Seq(R) /\ Len(A) = 1 /\ B \in Seq(R) /\ Len(B) = 2
  BY DEF RowsOf
<1>4. C \in Seq(R) /\ Len(C) = n
  <2>1. \A k \in 1 .. n : 200 + k \in 201 .. 300 /\ us[k] \in DOMAIN e.states
    BY <1>1
  <2>2. C \in [1 .. n -> R]
    BY <2>1 DEF RowsOf, StateRowsOf, DetailRowsOf
  <2>3. QED
    BY <1>1, <2>2
<1>5. D \in Seq(R) /\ Len(D) = m
  <2>1. \A k \in 1 .. m : 120 + k \in 121 .. 200 /\ ds[k] \in DOMAIN e.details
    BY <1>1
  <2>2. D \in [1 .. m -> R]
    BY <2>1 DEF RowsOf, StateRowsOf, DetailRowsOf
  <2>3. QED
    BY <1>1, <2>2
<1>6. A[1] = HomeRow(home) /\ B[1] = ActionRow /\ B[2] = RoomRow(e)
  OBVIOUS
<1>7. /\ \A k \in 1 .. n : C[k] = StateRow(e, 200 + k, us[k])
      /\ \A k \in 1 .. m : D[k] = DetailRow(e, 120 + k, ds[k])
  OBVIOUS
<1> HIDE DEF A, B, C, D, R
<1> DEFINE E == B \o C
<1>8. /\ E \in Seq(R) /\ Len(E) = 2 + n /\ E[1] = B[1] /\ E[2] = B[2]
      /\ \A k \in 1 .. n : E[2 + k] = C[k]
  <2>1. E \in Seq(R) /\ Joins(E, B, C)
    BY <1>3, <1>4, ConcatAt
  <2> HIDE DEF E
  <2>2. QED
    BY <1>3, <1>4, <2>1 DEF Joins
<1> HIDE DEF E
<1> DEFINE F == E \o D
<1>9. /\ F \in Seq(R) /\ Len(F) = 2 + n + m /\ F[1] = B[1] /\ F[2] = B[2]
      /\ \A k \in 1 .. n : F[2 + k] = C[k]
      /\ \A k \in 1 .. m : F[2 + n + k] = D[k]
  <2>1. F \in Seq(R) /\ Joins(F, E, D)
    BY <1>5, <1>8, ConcatAt
  <2> HIDE DEF F
  <2>2. \A k \in 1 .. n : 2 + k \in 1 .. Len(E)
    <3>1. \A x \in 0 .. 100 : \A k \in 1 .. x : 2 + k \in 1 .. 2 + x
      OBVIOUS
    <3>2. QED
      BY ONLY <1>1, <1>8, <3>1
  <2>3. 1 \in 1 .. Len(E) /\ 2 \in 1 .. Len(E)
    <3>1. \A x \in 0 .. 100 : 1 \in 1 .. 2 + x /\ 2 \in 1 .. 2 + x
      OBVIOUS
    <3>2. QED
      BY ONLY <1>1, <1>8, <3>1
  <2>4. Len(F) = 2 + n + m
    <3>1. Len(F) = Len(E) + Len(D)
      BY <2>1 DEF Joins
    <3>2. QED
      BY <1>1, <1>5, <1>8, <3>1
  <2>5. \A k \in 1 .. n : F[2 + k] = C[k]
    BY <1>8, <2>1, <2>2 DEF Joins
  <2>6. \A k \in 1 .. m : F[2 + n + k] = D[k]
    BY <1>5, <1>8, <2>1 DEF Joins
  <2>7. QED
    BY <1>8, <2>1, <2>3, <2>4, <2>5, <2>6 DEF Joins
<1> HIDE DEF F
<1> DEFINE rows == A \o F
<1>10. /\ rows \in Seq(R) /\ Len(rows) = 3 + n + m
       /\ rows[1] = A[1] /\ rows[2] = B[1] /\ rows[3] = B[2]
       /\ \A k \in 1 .. n : rows[3 + k] = C[k]
       /\ \A k \in 1 .. m : rows[3 + n + k] = D[k]
  <2>1. rows \in Seq(R) /\ Joins(rows, A, F)
    BY <1>3, <1>9, ConcatAt
  <2> HIDE DEF rows
  <2>2. \A k \in 1 .. Len(F) : rows[1 + k] = F[k]
    BY <1>3, <2>1 DEF Joins
  <2>3. \A k \in 1 .. n : 2 + k \in 1 .. Len(F) /\ 1 + (2 + k) = 3 + k
    BY <1>1, <1>9
  <2>4. \A k \in 1 .. m : 2 + n + k \in 1 .. Len(F) /\ 1 + (2 + n + k) = 3 + n + k
    BY <1>1, <1>9
  <2>5. 1 \in 1 .. Len(F) /\ 2 \in 1 .. Len(F) /\ 1 + 1 = 2 /\ 1 + 2 = 3
    BY <1>1, <1>9
  <2>6. Len(rows) = 3 + n + m /\ rows[1] = A[1]
    BY <1>1, <1>3, <1>9, <2>1 DEF Joins
  <2>7. rows[2] = B[1] /\ rows[3] = B[2]
    BY <1>9, <2>2, <2>5
  <2>8. \A k \in 1 .. n : rows[3 + k] = C[k]
    BY <1>9, <2>2, <2>3
  <2>9. \A k \in 1 .. m : rows[3 + n + k] = D[k]
    BY <1>9, <2>2, <2>4
  <2>10. QED
    BY <2>1, <2>6, <2>7, <2>8, <2>9 DEF Joins
<1>11. Rows!Saved(Rows!FromEntry(e), us, ds) = rows
  BY <1>2 DEF E, F
<1> HIDE DEF rows
<1>12. QED
  BY <1>6, <1>7, <1>10, <1>11 DEF R, n, m

LEMMA RowIs ==
  ASSUME NEW i, NEW key, NEW value
  PROVE  /\ Rows!Row(i, key, value).index = i /\ Rows!Row(i, key, value).key = key
         /\ Rows!Row(i, key, value).value = value
BY DEF Rows!Row

(* The number of the row in place j, after which there are n states. *)
Number(n, j) ==
  IF j = 1 THEN 19 ELSE IF j = 2 THEN 103 ELSE IF j = 3 THEN 107
  ELSE IF j <= 3 + n THEN 197 + j ELSE 117 - n + j

LEMMA SavedNumbers ==
  ASSUME Rows!EntriesAssumption, NEW e \in Entries,
         NEW us, StatesOrder(e, us), NEW ds, DetailsOrder(e, ds)
  PROVE  LET rows == Rows!Saved(Rows!FromEntry(e), us, ds) IN
         /\ \A j \in 1 .. Len(rows) :
              rows[j].index = Number(Cardinality(DOMAIN e.states), j)
         /\ \A i, j \in 1 .. Len(rows) : rows[i].index = rows[j].index => i = j
<1> DEFINE rows == Rows!Saved(Rows!FromEntry(e), us, ds)
           n == Cardinality(DOMAIN e.states)
           m == Cardinality(DOMAIN e.details)
<1>1. /\ Len(rows) = 3 + n + m
      /\ rows[1] = HomeRow(home) /\ rows[2] = ActionRow /\ rows[3] = RoomRow(e)
      /\ \A k \in 1 .. n : rows[3 + k] = StateRow(e, 200 + k, us[k])
      /\ \A k \in 1 .. m : rows[3 + n + k] = DetailRow(e, 120 + k, ds[k])
  BY SavedIs
<1>2. n \in 0 .. 100 /\ m \in 0 .. 80
  BY StatesInOrder, DetailsInOrder
<1> HIDE DEF rows, n, m
<1>3. /\ \A k \in 1 .. n : rows[3 + k].index = 200 + k
      /\ \A k \in 1 .. m : rows[3 + n + k].index = 120 + k
      /\ rows[1].index = 19 /\ rows[2].index = 103 /\ rows[3].index = 107
  <2>1. /\ \A i, u : StateRow(e, i, u).index = i
        /\ \A i, d : DetailRow(e, i, d).index = i
    BY RowIs DEF StateRow, DetailRow
  <2>2. HomeRow(home).index = 19 /\ ActionRow.index = 103 /\ RoomRow(e).index = 107
    BY DEF HomeRow, ActionRow, RoomRow, Rows!Row
  <2>3. QED
    BY <1>1, <2>1, <2>2
<1>4. ASSUME NEW j \in 1 .. Len(rows)
      PROVE  rows[j].index = Number(n, j)
  <2>1. CASE j <= 3
    <3>1. j \in {1, 2, 3}
      BY <1>1, <1>2, <2>1
    <3>2. QED
      BY <1>3, <3>1 DEF Number
  <2>2. CASE j > 3 /\ j <= 3 + n
    <3>1. j - 3 \in 1 .. n /\ 3 + (j - 3) = j /\ 200 + (j - 3) = 197 + j
      BY <1>1, <1>2, <2>2
    <3>2. rows[j].index = 197 + j
      BY <1>3, <3>1
    <3>3. QED
      BY <1>2, <2>2, <3>2 DEF Number
  <2>3. CASE j > 3 + n
    <3>1. /\ j - 3 - n \in 1 .. m /\ 3 + n + (j - 3 - n) = j
          /\ 120 + (j - 3 - n) = 117 - n + j
      BY <1>1, <1>2, <2>3
    <3>2. rows[j].index = 117 - n + j
      BY <1>3, <3>1
    <3>3. QED
      BY <1>2, <2>3, <3>2 DEF Number
  <2>4. QED
    BY <1>1, <1>2, <2>1, <2>2, <2>3
<1>5. ASSUME NEW i \in 1 .. Len(rows), NEW j \in 1 .. Len(rows), Number(n, i) = Number(n, j)
      PROVE  i = j
  <2>1. i \in Int /\ j \in Int /\ 1 <= i /\ i <= 3 + n + m /\ 1 <= j /\ j <= 3 + n + m
    BY <1>1, <1>2
  <2>2. \A k \in {i, j} :
          /\ k <= 3 => Number(n, k) \in {19, 103, 107}
          /\ k > 3 /\ k <= 3 + n => Number(n, k) = 197 + k
          /\ k > 3 + n => Number(n, k) = 117 - n + k
    BY <1>2, <2>1 DEF Number
  <2>3. i <= 3 /\ j <= 3 => i = j
    BY <1>5, <2>1 DEF Number
  <2>4. QED
    BY <1>2, <1>5, <2>1, <2>2, <2>3
<1>6. QED
  BY <1>4, <1>5 DEF rows, n

-----------------------------------------------------------------------------
(* The database thread *)

(* Row r is in the table when the queue has been written: the last of its number
   in the queue, or in the table with none of its number queued. *)
Queued(q, r) ==
  \E k \in 1 .. Len(q) :
    q[k] = r /\ \A j \in 1 .. Len(q) : q[j].index = r.index => j <= k
Stored(q, rows, r) ==
  /\ r.index \in DOMAIN rows /\ rows[r.index] = r
  /\ \A j \in 1 .. Len(q) : q[j].index # r.index
Survives(q, rows, r) == Queued(q, r) \/ Stored(q, rows, r)

(* The table with a row more. *)
With(rows, r) ==
  [i \in DOMAIN rows \cup {r.index} |-> IF i = r.index THEN r ELSE rows[i]]

LEMMA AppendedSurvive ==
  ASSUME NEW S, NEW q \in Seq(S), NEW more \in Seq(S), NEW rows,
         \A i, j \in 1 .. Len(more) : more[i].index = more[j].index => i = j,
         NEW k \in 1 .. Len(more)
  PROVE  Survives(q \o more, rows, more[k])
<1> DEFINE s == q \o more
<1>1. s \in Seq(S) /\ Joins(s, q, more)
  BY ConcatAt
<1>2. Len(q) \in Nat /\ Len(more) \in Nat
  OBVIOUS
<1> HIDE DEF s
<1>3. Len(q) + k \in 1 .. Len(s) /\ s[Len(q) + k] = more[k]
  BY <1>1, <1>2 DEF Joins
<1>4. ASSUME NEW j \in 1 .. Len(s), s[j].index = more[k].index
      PROVE  j <= Len(q) + k
  <2> SUFFICES ASSUME j > Len(q) + k
               PROVE  FALSE
    BY <1>2, <1>1
  <2>1. j - Len(q) \in 1 .. Len(more) /\ Len(q) + (j - Len(q)) = j /\ j - Len(q) # k
    BY <1>1, <1>2 DEF Joins
  <2>2. s[j] = more[j - Len(q)]
    BY <1>1, <2>1 DEF Joins
  <2>3. QED
    BY <1>4, <2>1, <2>2
<1>5. QED
  BY <1>3, <1>4 DEF Survives, Queued, s

LEMMA WrittenSurvive ==
  ASSUME NEW S, NEW q \in Seq(S), q # <<>>, NEW rows, NEW r, Survives(q, rows, r)
  PROVE  Survives(Tail(q), With(rows, Head(q)), r)
<1> DEFINE t == Tail(q)
           h == Head(q)
<1>1. /\ t \in Seq(S) /\ Len(t) = Len(q) - 1 /\ \A i \in 1 .. Len(t) : t[i] = q[i + 1]
      /\ Len(q) \in Nat \ {0} /\ h = q[1]
  BY HeadTailProperties, EmptySeq
<1> HIDE DEF t, h
<1>2. \A j \in 1 .. Len(t) : j + 1 \in 1 .. Len(q)
  BY <1>1
<1>3. CASE Queued(q, r)
  <2>1. PICK k \in 1 .. Len(q) :
          q[k] = r /\ \A j \in 1 .. Len(q) : q[j].index = r.index => j <= k
    BY <1>3 DEF Queued
  <2>2. ASSUME NEW j \in 1 .. Len(t), t[j].index = r.index
        PROVE  j + 1 <= k
    BY <1>1, <1>2, <2>1, <2>2
  <2>3. CASE k = 1
    <3>1. h = r
      BY <1>1, <2>1, <2>3
    <3>2. \A j \in 1 .. Len(t) : t[j].index # r.index
      BY <1>1, <2>2, <2>3
    <3>3. r.index \in DOMAIN With(rows, h) /\ With(rows, h)[r.index] = r
      BY <3>1 DEF With
    <3>4. QED
      BY <3>2, <3>3 DEF Survives, Stored, t, h
  <2>4. CASE k > 1
    <3>1. k - 1 \in 1 .. Len(t) /\ t[k - 1] = r
      BY <1>1, <2>1, <2>4
    <3>2. \A j \in 1 .. Len(t) : t[j].index = r.index => j <= k - 1
      BY <1>1, <2>2
    <3>3. QED
      BY <3>1, <3>2 DEF Survives, Queued, t, h
  <2>5. QED
    BY <2>1, <2>3, <2>4
<1>4. CASE Stored(q, rows, r)
  <2>1. /\ r.index \in DOMAIN rows /\ rows[r.index] = r
        /\ \A j \in 1 .. Len(q) : q[j].index # r.index
    BY <1>4 DEF Stored
  <2>2. h.index # r.index
    BY <1>1, <2>1
  <2>3. r.index \in DOMAIN With(rows, h) /\ With(rows, h)[r.index] = r
    BY <2>1, <2>2 DEF With
  <2>4. \A j \in 1 .. Len(t) : t[j].index # r.index
    BY <1>1, <1>2, <2>1
  <2>5. QED
    BY <2>3, <2>4 DEF Survives, Stored, t, h
<1>5. QED
  BY <1>3, <1>4 DEF Survives

-----------------------------------------------------------------------------
(* The inductive invariant *)

GoodRows(E, h) == UNION {RowsOf(e, h) : e \in E}

(* Every row is of an entry that was saved, and the queue's are of this home. *)
RowsInv ==
  /\ ever \subseteq Entries
  /\ queue \in Seq(GoodRows(ever, home)) /\ (~up => queue = <<>>)
  /\ \A i \in DOMAIN table : table[i].index = i /\ \E h : table[i] \in GoodRows(ever, h)

HomeInv == up /\ 19 \in DOMAIN table => table[19].value = home

(* The row of the uuidAction is there, or queued, before those of the states. *)
IdentityInv ==
  /\ \A k \in 1 .. Len(queue) : queue[k].index > 200 =>
       103 \in DOMAIN table \/ \E j \in 1 .. Len(queue) : j < k /\ queue[j].index = 103
  /\ (\E i \in DOMAIN table : i > 200) => 103 \in DOMAIN table

(* The rows of the entry saved last get into the table. *)
KeptInv ==
  last # None =>
    /\ last \in Entries
    /\ \E us, ds :
         /\ StatesOrder(last, us) /\ DetailsOrder(last, ds)
         /\ \A r \in DataRows(last, us, ds) : Survives(queue, table, r)

StoreInv == RowsInv /\ HomeInv /\ IdentityInv /\ KeptInv

LEMMA WiderSeq ==
  ASSUME NEW A, NEW B, A \subseteq B
  PROVE  Seq(A) \subseteq Seq(B)
<1> SUFFICES ASSUME NEW q \in Seq(A)
             PROVE  q \in Seq(B)
  OBVIOUS
<1>1. q \in [1 .. Len(q) -> B] /\ Len(q) \in Nat
  OBVIOUS
<1>2. QED
  BY <1>1

(* What a row says by its number. *)
LEMMA RowsAre ==
  ASSUME NEW e, NEW h, NEW r \in RowsOf(e, h)
  PROVE  /\ r.index \in {19, 103, 107} \cup 121 .. 300
         /\ r.index = 19 => r = HomeRow(h)
         /\ r.index = 103 => r = ActionRow
         /\ r.index \in 201 .. 300 => r.value \in DOMAIN e.states /\ e.states[r.value] = r.key
         /\ r.index \in 121 .. 200 => r.key \in DOMAIN e.details /\ e.details[r.key] = r.value
<1> USE DEF Rows!Row
<1>1. CASE r \in {HomeRow(h), ActionRow, RoomRow(e)}
  <2>1. \A i \in {19, 103, 107} : i \notin 121 .. 200 \cup 201 .. 300
    OBVIOUS
  <2>2. HomeRow(h).index = 19 /\ ActionRow.index = 103 /\ RoomRow(e).index = 107
    BY DEF HomeRow, ActionRow, RoomRow
  <2> HIDE DEF Rows!Row
  <2>3. QED
    BY <1>1, <2>1, <2>2
<1>2. ASSUME NEW i \in 201 .. 300, NEW u \in DOMAIN e.states, r = StateRow(e, i, u)
      PROVE  r.index = i /\ r.value = u /\ e.states[r.value] = r.key
  BY <1>2 DEF StateRow
<1>3. ASSUME NEW i \in 121 .. 200, NEW d \in DOMAIN e.details, r = DetailRow(e, i, d)
      PROVE  r.index = i /\ r.key = d /\ e.details[r.key] = r.value
  BY <1>3 DEF DetailRow
<1> HIDE DEF Rows!Row
<1>4. CASE r \in StateRowsOf(e)
  <2>1. r.index \in 201 .. 300 /\ r.value \in DOMAIN e.states /\ e.states[r.value] = r.key
    <3>1. PICK i \in 201 .. 300, u \in DOMAIN e.states : r = StateRow(e, i, u)
      BY <1>4 DEF StateRowsOf
    <3>2. r.index = i /\ r.value = u /\ e.states[r.value] = r.key
      BY <1>2, <3>1, Zenon
    <3>3. QED
      BY <3>2, Zenon
  <2>2. \A i \in 201 .. 300 : i # 19 /\ i # 103 /\ i \notin 121 .. 200 /\ i \in 121 .. 300
    OBVIOUS
  <2>3. /\ r.index # 19 /\ r.index # 103 /\ r.index \notin 121 .. 200
        /\ r.index \in 121 .. 300
    BY ONLY <2>1, <2>2
  <2>4. QED
    BY ONLY <2>1, <2>3, Zenon
<1>5. CASE r \in DetailRowsOf(e)
  <2>1. r.index \in 121 .. 200 /\ r.key \in DOMAIN e.details /\ e.details[r.key] = r.value
    <3>1. PICK i \in 121 .. 200, d \in DOMAIN e.details : r = DetailRow(e, i, d)
      BY <1>5 DEF DetailRowsOf
    <3>2. r.index = i /\ r.key = d /\ e.details[r.key] = r.value
      BY <1>3, <3>1, Zenon
    <3>3. QED
      BY <3>2, Zenon
  <2>2. \A i \in 121 .. 200 : i # 19 /\ i # 103 /\ i \notin 201 .. 300 /\ i \in 121 .. 300
    OBVIOUS
  <2>3. /\ r.index # 19 /\ r.index # 103 /\ r.index \notin 201 .. 300
        /\ r.index \in 121 .. 300
    BY ONLY <2>1, <2>2
  <2>4. QED
    BY ONLY <2>1, <2>3, Zenon
<1>6. QED
  BY <1>1, <1>4, <1>5 DEF RowsOf

LEMMA StoreStarts ==
  ASSUME Rows!Init
  PROVE  StoreInv
<1>1. /\ up = TRUE /\ queue = <<>> /\ DOMAIN table = {} /\ last = None /\ ever = {}
  BY DEF Rows!Init
<1>2. queue \in Seq(GoodRows(ever, home)) /\ Len(queue) = 0
  BY <1>1
<1>3. RowsInv
  BY <1>1, <1>2 DEF RowsInv
<1>4. \A k \in 1 .. Len(queue) : FALSE
  BY <1>2
<1>5. QED
  BY <1>1, <1>3, <1>4 DEF StoreInv, HomeInv, IdentityInv, KeptInv

LEMMA UpdateKeeps ==
  ASSUME Rows!EntriesAssumption, StoreInv, Rows!Update
  PROVE  StoreInv'
<1>1. PICK e \in Entries :
        \E us \in Rows!SetToSeqs(DOMAIN e.states), ds \in Rows!SetToSeqs(DOMAIN e.details) :
          /\ queue' = queue \o Rows!Saved(Rows!FromEntry(e), us, ds)
          /\ last' = e /\ ever' = ever \cup {e}
  BY DEF Rows!Update
<1>2. PICK us \in Rows!SetToSeqs(DOMAIN e.states), ds \in Rows!SetToSeqs(DOMAIN e.details) :
        /\ queue' = queue \o Rows!Saved(Rows!FromEntry(e), us, ds)
        /\ last' = e /\ ever' = ever \cup {e}
  BY <1>1
<1>3. StatesOrder(e, us) /\ DetailsOrder(e, ds)
  BY DEF StatesOrder, DetailsOrder
<1>4. up /\ UNCHANGED <<up, home, table>>
  BY DEF Rows!Update
<1> DEFINE rows == Rows!Saved(Rows!FromEntry(e), us, ds)
           n == Cardinality(DOMAIN e.states)
           m == Cardinality(DOMAIN e.details)
           good == GoodRows(ever', home)
<1>5. /\ rows \in Seq(RowsOf(e, home)) /\ Len(rows) = 3 + n + m
      /\ rows[2] = ActionRow /\ rows[3] = RoomRow(e)
      /\ \A k \in 1 .. n : rows[3 + k] = StateRow(e, 200 + k, us[k])
      /\ \A k \in 1 .. m : rows[3 + n + k] = DetailRow(e, 120 + k, ds[k])
  BY <1>3, SavedIs
<1>6. /\ n \in 0 .. 100 /\ m \in 0 .. 80 /\ DOMAIN us = 1 .. n /\ DOMAIN ds = 1 .. m
  BY <1>3, StatesInOrder, DetailsInOrder
<1>7. /\ \A j \in 1 .. Len(rows) : rows[j].index = Number(n, j)
      /\ \A i, j \in 1 .. Len(rows) : rows[i].index = rows[j].index => i = j
  BY <1>3, SavedNumbers
<1>8. queue' = queue \o rows
  BY <1>2
<1> HIDE DEF rows, n, m
<1>9. rows \in Seq(good) /\ queue \in Seq(good)
  <2>1. RowsOf(e, home) \subseteq good /\ GoodRows(ever, home) \subseteq good
    BY <1>2 DEF GoodRows
  <2>2. queue \in Seq(GoodRows(ever, home))
    BY DEF StoreInv, RowsInv
  <2> HIDE DEF good
  <2>3. QED
    BY <1>5, <2>1, <2>2, WiderSeq
<1>10. queue' \in Seq(good) /\ Joins(queue', queue, rows)
  <2> HIDE DEF good
  <2>1. QED
    BY <1>8, <1>9, ConcatAt
<1>11. RowsInv'
  <2>1. ever' \subseteq Entries
    BY <1>2 DEF StoreInv, RowsInv
  <2>2. ASSUME NEW i \in DOMAIN table
        PROVE  table[i].index = i /\ \E h : table[i] \in GoodRows(ever', h)
    <3>1. PICK h : table[i] \in GoodRows(ever, h)
      BY DEF StoreInv, RowsInv
    <3>2. table[i] \in GoodRows(ever', h)
      BY <1>2, <3>1 DEF GoodRows
    <3>3. QED
      BY <3>2 DEF StoreInv, RowsInv
  <2>3. QED
    BY <1>4, <1>10, <2>1, <2>2 DEF RowsInv
<1>12. HomeInv'
  BY <1>4 DEF StoreInv, HomeInv
<1>13. Len(queue) \in Nat /\ Len(queue') = Len(queue) + Len(rows) /\ Len(rows) \in Nat
  <2>1. Len(rows) \in Nat
    BY <1>5, <1>6
  <2>2. Len(queue) \in Nat
    BY <1>9
  <2>3. QED
    BY <1>10, <2>1, <2>2 DEF Joins
<1>14. IdentityInv'
  <2>1. ASSUME NEW k \in 1 .. Len(queue'), queue'[k].index > 200
        PROVE  103 \in DOMAIN table \/ \E j \in 1 .. Len(queue') : j < k /\ queue'[j].index = 103
    <3>1. CASE k <= Len(queue)
      <4>1. k \in 1 .. Len(queue) /\ queue'[k] = queue[k]
        BY <1>10, <1>13, <3>1 DEF Joins
      <4>2. CASE 103 \in DOMAIN table
        BY <4>2
      <4>3. ASSUME NEW j \in 1 .. Len(queue), j < k, queue[j].index = 103
            PROVE  j \in 1 .. Len(queue') /\ queue'[j].index = 103
        BY <1>10, <1>13, <4>3 DEF Joins
      <4>4. QED
        BY <2>1, <4>1, <4>2, <4>3 DEF StoreInv, IdentityInv
    <3>2. CASE k > Len(queue)
      <4> DEFINE i == k - Len(queue)
      <4>1. i \in 1 .. Len(rows) /\ Len(queue) + i = k
        BY <1>13, <3>2
      <4> HIDE DEF i
      <4>2. queue'[k] = rows[i]
        BY <1>10, <4>1 DEF Joins
      <4>3. Number(n, i) > 200
        BY <1>7, <2>1, <4>1, <4>2
      <4>4. i > 3
        BY <4>1, <4>3 DEF Number
      <4>5. 2 \in 1 .. Len(rows) /\ rows[2].index = 103
        BY <1>5, <1>6, <4>1, <4>4 DEF ActionRow, Rows!Row
      <4>6. queue'[Len(queue) + 2].index = 103
        BY <1>10, <4>5 DEF Joins
      <4>7. Len(queue) + 2 \in 1 .. Len(queue') /\ Len(queue) + 2 < k
        BY <1>13, <4>1, <4>4, <4>5
      <4>8. QED
        BY <4>6, <4>7
    <3>3. QED
      BY <1>13, <3>1, <3>2
  <2>2. QED
    BY <1>4, <2>1 DEF StoreInv, IdentityInv
<1>15. KeptInv'
  <2>1. \A k \in 1 .. Len(rows) : Survives(queue', table, rows[k])
    <3> HIDE DEF good
    <3>1. QED
      BY <1>7, <1>8, <1>9, AppendedSurvive
  <2>2. ASSUME NEW r \in DataRows(e, us, ds)
        PROVE  \E k \in 1 .. Len(rows) : r = rows[k]
    <3>1. CASE r \in {ActionRow, RoomRow(e)}
      <4>1. 2 \in 1 .. Len(rows) /\ 3 \in 1 .. Len(rows)
        BY <1>5, <1>6
      <4>2. QED
        BY <1>5, <3>1, <4>1
    <3>2. ASSUME NEW k \in 1 .. n, r = StateRow(e, 200 + k, us[k])
          PROVE  3 + k \in 1 .. Len(rows) /\ r = rows[3 + k]
      BY <1>5, <1>6, <3>2
    <3>3. ASSUME NEW k \in 1 .. m, r = DetailRow(e, 120 + k, ds[k])
          PROVE  3 + n + k \in 1 .. Len(rows) /\ r = rows[3 + n + k]
      <4>1. 3 + n + k \in 1 .. 3 + n + m
        BY <1>6
      <4>2. QED
        BY <1>5, <3>3, <4>1
    <3>4. QED
      BY <1>6, <3>1, <3>2, <3>3 DEF DataRows, StatesAt, DetailsAt
  <2>3. \A r \in DataRows(e, us, ds) : Survives(queue', table, r)
    BY <2>1, <2>2
  <2>4. QED
    BY <1>2, <1>3, <1>4, <2>3 DEF KeptInv
<1>16. QED
  BY <1>11, <1>12, <1>14, <1>15 DEF StoreInv

LEMMA WriteRowKeeps ==
  ASSUME StoreInv, Rows!WriteRow
  PROVE  StoreInv'
<1> DEFINE r == Head(queue)
           S == GoodRows(ever, home)
<1>1. /\ up /\ queue # <<>> /\ queue' = Tail(queue) /\ table' = With(table, r)
      /\ UNCHANGED <<up, home, last, ever>>
  BY DEF Rows!WriteRow, With
<1>2. queue \in Seq(S)
  BY DEF StoreInv, RowsInv
<1> HIDE DEF S
<1>3. /\ r = queue[1] /\ 1 \in 1 .. Len(queue) /\ r \in S
      /\ queue' \in Seq(S) /\ Len(queue') = Len(queue) - 1 /\ Len(queue) \in Nat
      /\ \A i \in 1 .. Len(queue') : queue'[i] = queue[i + 1] /\ i + 1 \in 1 .. Len(queue)
  BY <1>1, <1>2, HeadTailProperties, EmptySeq
<1> HIDE DEF r
<1>4. /\ DOMAIN table' = DOMAIN table \cup {r.index}
      /\ \A i \in DOMAIN table' : table'[i] = IF i = r.index THEN r ELSE table[i]
  BY <1>1 DEF With
<1>5. PICK e \in ever : r \in RowsOf(e, home)
  BY <1>3 DEF S, GoodRows
<1>6. RowsInv'
  <2>1. ever' \subseteq Entries /\ queue' \in Seq(GoodRows(ever', home'))
    BY <1>1, <1>3 DEF S, StoreInv, RowsInv
  <2>2. ASSUME NEW i \in DOMAIN table'
        PROVE  table'[i].index = i /\ \E h : table'[i] \in GoodRows(ever', h)
    <3>1. CASE i = r.index
      BY <1>1, <1>3, <1>4, <3>1 DEF S
    <3>2. CASE i # r.index
      BY <1>1, <1>4, <3>2 DEF StoreInv, RowsInv
    <3>3. QED
      BY <3>1, <3>2
  <2>3. QED
    BY <1>1, <2>1, <2>2 DEF RowsInv
<1>7. HomeInv'
  <2>1. r.index = 19 => r = HomeRow(home)
    BY <1>5, RowsAre
  <2>2. HomeRow(home).value = home
    BY DEF HomeRow, Rows!Row
  <2>3. 19 \in DOMAIN table' => table'[19].value = home
    <3>1. CASE r.index = 19
      BY <1>4, <2>1, <2>2, <3>1
    <3>2. CASE r.index # 19
      BY <1>1, <1>4, <3>2 DEF StoreInv, HomeInv
    <3>3. QED
      BY <3>1, <3>2
  <2>4. QED
    BY <1>1, <2>3 DEF HomeInv
<1>8. IdentityInv'
  <2>1. r.index > 200 => 103 \in DOMAIN table
    <3>1. \A j \in 1 .. Len(queue) : ~(j < 1)
      OBVIOUS
    <3>2. QED
      BY <1>3, <3>1 DEF StoreInv, IdentityInv
  <2>2. (\E i \in DOMAIN table' : i > 200) => 103 \in DOMAIN table'
    BY <1>4, <2>1 DEF StoreInv, IdentityInv
  <2>3. ASSUME NEW k \in 1 .. Len(queue'), queue'[k].index > 200
        PROVE  103 \in DOMAIN table' \/ \E j \in 1 .. Len(queue') : j < k /\ queue'[j].index = 103
    <3>1. /\ k + 1 \in 1 .. Len(queue) /\ queue[k + 1].index > 200
      BY <1>3, <2>3
    <3>2. CASE 103 \in DOMAIN table
      BY <1>4, <3>2
    <3>3. ASSUME NEW j \in 1 .. Len(queue), j < k + 1, queue[j].index = 103
          PROVE  103 \in DOMAIN table' \/ \E i \in 1 .. Len(queue') : i < k /\ queue'[i].index = 103
      <4>1. CASE j = 1
        <5>1. r.index = 103
          BY <1>3, <3>3, <4>1
        <5>2. QED
          BY <1>4, <5>1
      <4>2. CASE j # 1
        <5> DEFINE i == j - 1
        <5>1. i \in 1 .. Len(queue') /\ i + 1 = j /\ i < k
          BY <1>3, <3>3, <4>2
        <5> HIDE DEF i
        <5>2. queue'[i].index = 103
          BY <1>3, <3>3, <5>1
        <5>3. QED
          BY <5>1, <5>2
      <4>3. QED
        BY <4>1, <4>2
    <3>4. QED
      BY <3>1, <3>2, <3>3 DEF StoreInv, IdentityInv
  <2>4. QED
    BY <2>2, <2>3 DEF IdentityInv
<1>9. KeptInv'
  <2>1. SUFFICES ASSUME last # None
                 PROVE  KeptInv'
    BY <1>1 DEF KeptInv
  <2>2. PICK us, ds :
          /\ StatesOrder(last, us) /\ DetailsOrder(last, ds)
          /\ \A x \in DataRows(last, us, ds) : Survives(queue, table, x)
    BY <2>1 DEF StoreInv, KeptInv
  <2>3. \A x \in DataRows(last, us, ds) : Survives(queue', table', x)
    BY <1>1, <1>2, <2>2, WrittenSurvive DEF r
  <2>4. QED
    BY <1>1, <2>1, <2>2, <2>3 DEF StoreInv, KeptInv
<1>10. QED
  BY <1>6, <1>7, <1>8, <1>9 DEF StoreInv

LEMMA CrashKeeps ==
  ASSUME StoreInv, Rows!Crash
  PROVE  StoreInv'
<1>1. /\ up' = FALSE /\ queue' = <<>> /\ UNCHANGED <<table, ever>>
      /\ last' = IF queue = <<>> THEN last ELSE None
  BY DEF Rows!Crash
<1>2. queue' \in Seq(GoodRows(ever, home')) /\ Len(queue') = 0
  BY <1>1
<1>3. RowsInv'
  BY <1>1, <1>2 DEF StoreInv, RowsInv
<1>4. \A k \in 1 .. Len(queue') : FALSE
  BY <1>2
<1>5. IdentityInv'
  BY <1>1, <1>4 DEF StoreInv, IdentityInv
<1>6. KeptInv'
  BY <1>1 DEF StoreInv, KeptInv
<1>7. QED
  BY <1>1, <1>3, <1>5, <1>6 DEF StoreInv, HomeInv

LEMMA LoadKeeps ==
  ASSUME StoreInv, Rows!Load
  PROVE  StoreInv'
<1>1. ~up /\ home' = Rows!Field(19) /\ UNCHANGED <<queue, table, last, ever>>
  BY DEF Rows!Load
<1>2. queue = <<>> /\ queue \in Seq(GoodRows(ever, home'))
  BY <1>1 DEF StoreInv, RowsInv
<1>3. RowsInv'
  BY <1>1, <1>2 DEF StoreInv, RowsInv
<1>4. HomeInv'
  BY <1>1 DEF HomeInv, Rows!Field
<1>5. IdentityInv' /\ KeptInv'
  BY <1>1 DEF StoreInv, IdentityInv, KeptInv
<1>6. QED
  BY <1>3, <1>4, <1>5 DEF StoreInv

LEMMA StoreStays ==
  ASSUME StoreInv, UNCHANGED <<up, home, queue, table, last, ever>>
  PROVE  StoreInv'
BY DEF StoreInv, RowsInv, HomeInv, IdentityInv, KeptInv

LEMMA RowsKeep ==
  ASSUME Rows!EntriesAssumption, StoreInv, Rows!Next
  PROVE  StoreInv'
BY UpdateKeeps, WriteRowKeeps, CrashKeeps, LoadKeeps DEF Rows!Next

-----------------------------------------------------------------------------
(* What a restart reads *)

(* The number a state or a detail is read at: the least of those that have it. *)
StateNumbers(u) == {i \in DOMAIN table \cap 201 .. 300 : table[i].value = u}
DetailNumbers(d) == {i \in DOMAIN table \cap 121 .. 200 : table[i].key = d}

LEMMA StateRead ==
  ASSUME NEW i \in DOMAIN table, i \in 201 .. 300
  PROVE  LET u == table[i].value
             w == Rows!Wins(StateNumbers(u)) IN
         /\ u \in DOMAIN Rows!States /\ Rows!States[u] = table[w].key
         /\ w \in StateNumbers(u) /\ w <= i
<1> DEFINE u == table[i].value
           S == StateNumbers(u)
<1>1. u \in DOMAIN Rows!States /\ Rows!States[u] = table[Rows!Wins(S)].key
  BY DEF Rows!States, StateNumbers
<1>2. i \in S /\ S \subseteq Nat
  BY DEF StateNumbers
<1> HIDE DEF S
<1>3. Rows!Wins(S) \in S /\ Rows!Wins(S) <= i
  BY <1>2, LeastOf
<1>4. QED
  BY <1>1, <1>3 DEF S

LEMMA DetailRead ==
  ASSUME NEW i \in DOMAIN table, i \in 121 .. 200
  PROVE  LET d == table[i].key
             w == Rows!Wins(DetailNumbers(d)) IN
         /\ d \in DOMAIN Rows!Details /\ Rows!Details[d] = table[w].value
         /\ w \in DetailNumbers(d) /\ w <= i
<1> DEFINE d == table[i].key
           S == DetailNumbers(d)
<1>1. d \in DOMAIN Rows!Details /\ Rows!Details[d] = table[Rows!Wins(S)].value
  BY DEF Rows!Details, DetailNumbers
<1>2. i \in S /\ S \subseteq Nat
  BY DEF DetailNumbers
<1> HIDE DEF S
<1>3. Rows!Wins(S) \in S /\ Rows!Wins(S) <= i
  BY <1>2, LeastOf
<1>4. QED
  BY <1>1, <1>3 DEF S

(* Once they are written, the rows of the last save are in the table. *)
LEMMA Written ==
  ASSUME StoreInv, last # None, queue = <<>>
  PROVE  \E us, ds :
           /\ last \in Entries /\ StatesOrder(last, us) /\ DetailsOrder(last, ds)
           /\ \A r \in DataRows(last, us, ds) : r.index \in DOMAIN table /\ table[r.index] = r
<1>1. PICK us, ds :
        /\ last \in Entries /\ StatesOrder(last, us) /\ DetailsOrder(last, ds)
        /\ \A r \in DataRows(last, us, ds) : Survives(queue, table, r)
  BY DEF StoreInv, KeptInv
<1>2. \A k \in 1 .. Len(queue) : FALSE
  OBVIOUS
<1>3. QED
  BY <1>1, <1>2 DEF Survives, Queued, Stored

LEMMA RowsGiveBack ==
  ASSUME Rows!EntriesAssumption, StoreInv
  PROVE  Rows!NothingLost
<1> SUFFICES ASSUME last # None, queue = <<>>
             PROVE  LET c == Rows!Restored IN
                    /\ c.action = Uuid /\ c.room = Rows!RoomOf(last)
                    /\ \A u \in DOMAIN last.states :
                         u \in DOMAIN c.states /\ c.states[u] = last.states[u]
                    /\ \A d \in DOMAIN last.details :
                         d \in DOMAIN c.details /\ c.details[d] = last.details[d]
  BY DEF Rows!NothingLost
<1> DEFINE n == Cardinality(DOMAIN last.states)
           m == Cardinality(DOMAIN last.details)
<1>1. PICK us, ds :
        /\ last \in Entries /\ StatesOrder(last, us) /\ DetailsOrder(last, ds)
        /\ \A r \in DataRows(last, us, ds) : r.index \in DOMAIN table /\ table[r.index] = r
  BY Written
<1>2. /\ n \in 0 .. 100 /\ DOMAIN us = 1 .. n
      /\ \A i, j \in 1 .. n : us[i] = us[j] => i = j
      /\ \A u \in DOMAIN last.states : \E k \in 1 .. n : us[k] = u
  BY <1>1, StatesInOrder
<1>3. /\ m \in 0 .. 80 /\ DOMAIN ds = 1 .. m
      /\ \A i, j \in 1 .. m : ds[i] = ds[j] => i = j
      /\ \A d \in DOMAIN last.details : \E k \in 1 .. m : ds[k] = d
  BY <1>1, DetailsInOrder
<1> HIDE DEF n, m
<1>4. Rows!Action = Uuid /\ Rows!Room = Rows!RoomOf(last)
  <2>1. ActionRow.index = 103 /\ ActionRow.value = Uuid
    BY DEF ActionRow, Rows!Row
  <2>2. RoomRow(last).index = 107 /\ RoomRow(last).value = Rows!RoomOf(last)
    BY DEF RoomRow, Rows!Row
  <2>3. ActionRow \in DataRows(last, us, ds) /\ RoomRow(last) \in DataRows(last, us, ds)
    BY DEF DataRows
  <2>4. /\ 103 \in DOMAIN table /\ table[103] = ActionRow
        /\ 107 \in DOMAIN table /\ table[107] = RoomRow(last)
    BY <1>1, <2>1, <2>2, <2>3
  <2>5. QED
    BY <2>1, <2>2, <2>4 DEF Rows!Action, Rows!Room, Rows!Field
<1>5. \A k \in 1 .. n :
        /\ 200 + k \in DOMAIN table /\ table[200 + k].value = us[k]
        /\ table[200 + k].key = last.states[us[k]]
  <2> TAKE k \in 1 .. n
  <2>1. StateRow(last, 200 + k, us[k]) \in DataRows(last, us, ds)
    BY <1>2 DEF DataRows, StatesAt
  <2>2. /\ StateRow(last, 200 + k, us[k]).index = 200 + k
        /\ StateRow(last, 200 + k, us[k]).value = us[k]
        /\ StateRow(last, 200 + k, us[k]).key = last.states[us[k]]
    BY RowIs DEF StateRow
  <2>3. QED
    BY <1>1, <2>1, <2>2
<1>6. \A k \in 1 .. m :
        /\ 120 + k \in DOMAIN table /\ table[120 + k].key = ds[k]
        /\ table[120 + k].value = last.details[ds[k]]
  <2> TAKE k \in 1 .. m
  <2>1. DetailRow(last, 120 + k, ds[k]) \in DataRows(last, us, ds)
    BY <1>3 DEF DataRows, DetailsAt
  <2>2. /\ DetailRow(last, 120 + k, ds[k]).index = 120 + k
        /\ DetailRow(last, 120 + k, ds[k]).key = ds[k]
        /\ DetailRow(last, 120 + k, ds[k]).value = last.details[ds[k]]
    BY RowIs DEF DetailRow
  <2>3. QED
    BY <1>1, <2>1, <2>2
<1>7. ASSUME NEW u \in DOMAIN last.states
      PROVE  u \in DOMAIN Rows!States /\ Rows!States[u] = last.states[u]
  <2>1. PICK k \in 1 .. n : us[k] = u
    BY <1>2
  <2> DEFINE i == 200 + k
  <2>2. i \in 201 .. 300 /\ i \in DOMAIN table /\ table[i].value = u
    BY <1>2, <1>5, <2>1
  <2>3. i = 200 + k
    OBVIOUS
  <2> HIDE DEF i
  <2> DEFINE w == Rows!Wins(StateNumbers(u))
  <2>4. /\ u \in DOMAIN Rows!States /\ Rows!States[u] = table[w].key
        /\ w \in StateNumbers(u) /\ w <= i
    BY <2>2, StateRead
  <2> HIDE DEF w
  <2>5. w \in 201 .. 300 /\ table[w].value = u
    BY <2>4 DEF StateNumbers
  <2> DEFINE j == w - 200
  <2>6. j \in 1 .. n /\ 200 + j = w
    BY <1>2, <2>4, <2>5, <2>3
  <2> HIDE DEF j
  <2>7. us[j] = u
    BY <1>5, <2>5, <2>6
  <2>8. j = k
    BY <1>2, <2>1, <2>6, <2>7
  <2>9. QED
    BY <1>5, <2>1, <2>4, <2>6, <2>8
<1>8. ASSUME NEW d \in DOMAIN last.details
      PROVE  d \in DOMAIN Rows!Details /\ Rows!Details[d] = last.details[d]
  <2>1. PICK k \in 1 .. m : ds[k] = d
    BY <1>3
  <2> DEFINE i == 120 + k
  <2>2. i \in 121 .. 200 /\ i \in DOMAIN table /\ table[i].key = d
    BY <1>3, <1>6, <2>1
  <2>3. i = 120 + k
    OBVIOUS
  <2> HIDE DEF i
  <2> DEFINE w == Rows!Wins(DetailNumbers(d))
  <2>4. /\ d \in DOMAIN Rows!Details /\ Rows!Details[d] = table[w].value
        /\ w \in DetailNumbers(d) /\ w <= i
    BY <2>2, DetailRead
  <2> HIDE DEF w
  <2>5. w \in 121 .. 200 /\ table[w].key = d
    BY <2>4 DEF DetailNumbers
  <2> DEFINE j == w - 120
  <2>6. j \in 1 .. m /\ 120 + j = w
    BY <1>3, <2>4, <2>5, <2>3
  <2> HIDE DEF j
  <2>7. ds[j] = d
    BY <1>6, <2>5, <2>6
  <2>8. j = k
    BY <1>3, <2>1, <2>6, <2>7
  <2>9. QED
    BY <1>6, <2>1, <2>4, <2>6, <2>8
<1>9. /\ Rows!Restored.action = Rows!Action /\ Rows!Restored.room = Rows!Room
      /\ Rows!Restored.states = Rows!States /\ Rows!Restored.details = Rows!Details
  BY DEF Rows!Restored, Rows!FromRows
<1>10. QED
  BY <1>4, <1>7, <1>8, <1>9

LEMMA RowsAreOfSaves ==
  ASSUME RowsInv, NEW i \in DOMAIN table
  PROVE  \E e \in ever :
           LET r == table[i] IN
           /\ i = 103 => r = ActionRow
           /\ i \in 201 .. 300 => r.value \in DOMAIN e.states /\ e.states[r.value] = r.key
           /\ i \in 121 .. 200 => r.key \in DOMAIN e.details /\ e.details[r.key] = r.value
<1>1. PICK h : table[i] \in GoodRows(ever, h)
  BY DEF RowsInv
<1>2. PICK e \in ever : table[i] \in RowsOf(e, h)
  BY <1>1 DEF GoodRows
<1>3. table[i].index = i
  BY DEF RowsInv
<1>4. QED
  BY <1>2, <1>3, RowsAre

LEMMA RowsInventNothing ==
  ASSUME StoreInv
  PROVE  Rows!NothingInvented
<1>1. ASSUME NEW u \in DOMAIN Rows!States
      PROVE  \E e \in ever : u \in DOMAIN e.states /\ e.states[u] = Rows!States[u]
  <2>1. PICK i \in DOMAIN table \cap 201 .. 300 : table[i].value = u
    BY DEF Rows!States
  <2> DEFINE w == Rows!Wins(StateNumbers(u))
  <2>2. Rows!States[u] = table[w].key /\ w \in StateNumbers(u)
    BY <2>1, StateRead
  <2> HIDE DEF w
  <2>3. w \in DOMAIN table /\ w \in 201 .. 300 /\ table[w].value = u
    BY <2>2 DEF StateNumbers
  <2>4. PICK e \in ever : u \in DOMAIN e.states /\ e.states[u] = table[w].key
    BY <2>3, RowsAreOfSaves DEF StoreInv
  <2>5. QED
    BY <2>2, <2>3, <2>4
<1>2. ASSUME NEW d \in DOMAIN Rows!Details
      PROVE  \E e \in ever : d \in DOMAIN e.details /\ e.details[d] = Rows!Details[d]
  <2>1. PICK i \in DOMAIN table \cap 121 .. 200 : table[i].key = d
    BY DEF Rows!Details
  <2> DEFINE w == Rows!Wins(DetailNumbers(d))
  <2>2. Rows!Details[d] = table[w].value /\ w \in DetailNumbers(d)
    BY <2>1, DetailRead
  <2> HIDE DEF w
  <2>3. w \in DOMAIN table /\ w \in 121 .. 200 /\ table[w].key = d
    BY <2>2 DEF DetailNumbers
  <2>4. PICK e \in ever : d \in DOMAIN e.details /\ e.details[d] = table[w].value
    BY <2>3, RowsAreOfSaves DEF StoreInv
  <2>5. QED
    BY <2>2, <2>3, <2>4
<1>3. Rows!Restored.states = Rows!States /\ Rows!Restored.details = Rows!Details
  BY DEF Rows!Restored, Rows!FromRows
<1>4. QED
  BY <1>1, <1>2, <1>3 DEF Rows!NothingInvented

LEMMA RowsIdentify ==
  ASSUME StoreInv
  PROVE  Rows!StatesImplyIdentity
<1> SUFFICES ASSUME DOMAIN Rows!States # {}
             PROVE  Rows!Action = Uuid
  BY DEF Rows!StatesImplyIdentity
<1>1. PICK i \in DOMAIN table : i \in 201 .. 300
  BY DEF Rows!States
<1>2. 103 \in DOMAIN table
  <2>1. i > 200
    BY <1>1
  <2>2. QED
    BY <2>1 DEF StoreInv, IdentityInv
<1>3. table[103] = ActionRow
  BY <1>2, RowsAreOfSaves DEF StoreInv
<1>4. QED
  BY <1>2, <1>3, RowIs DEF ActionRow, Rows!Action, Rows!Field

LEMMA HomeStays ==
  ASSUME StoreInv, Rows!Next
  PROVE  Rows!StaysHome
<1> SUFFICES ASSUME 19 \in DOMAIN table
             PROVE  table'[19].value = table[19].value
  BY DEF Rows!StaysHome
<1>1. CASE Rows!WriteRow
  <2> DEFINE r == Head(queue)
             S == GoodRows(ever, home)
  <2>1. up /\ queue # <<>> /\ table' = With(table, r)
    BY <1>1 DEF Rows!WriteRow, With
  <2>2. r \in S
    <3>1. queue \in Seq(S)
      BY DEF StoreInv, RowsInv
    <3> HIDE DEF S
    <3>2. QED
      BY <2>1, <3>1
  <2> HIDE DEF r
  <2>3. PICK e \in ever : r \in RowsOf(e, home)
    BY <2>2 DEF GoodRows
  <2>4. CASE r.index = 19
    <3>1. r = HomeRow(home) /\ table'[19] = r
      BY <2>1, <2>3, <2>4, RowsAre DEF With
    <3>2. HomeRow(home).value = home
      BY DEF HomeRow, Rows!Row
    <3>3. table[19].value = home
      BY <2>1 DEF StoreInv, HomeInv
    <3>4. QED
      BY <3>1, <3>2, <3>3
  <2>5. CASE r.index # 19
    BY <2>1, <2>5 DEF With
  <2>6. QED
    BY <2>4, <2>5
<1>2. CASE UNCHANGED table
  BY <1>2
<1>3. QED
  BY <1>1, <1>2 DEF Rows!Next, Rows!Update, Rows!Crash, Rows!Load

-----------------------------------------------------------------------------
(* Numbers of types *)

LEMMA NumbersAre ==
  /\ DOMAIN Kinds!Numbers =
       {"Pushbutton", "Slider", "ColorPicker", "Daytimer", "Central", "NFCCodeTouch"}
  /\ Kinds!Numbers["Pushbutton"] = {256} /\ Kinds!Numbers["Slider"] = {257}
  /\ Kinds!Numbers["ColorPicker"] = {261, 262} /\ Kinds!Numbers["Daytimer"] = {515}
  /\ Kinds!Numbers["Central"] = 1280 .. 1284 /\ Kinds!Numbers["NFCCodeTouch"] = {1287}
BY DEF Kinds!Numbers

(* No number is of two classes. *)
LEMMA ClassOfItsNumber ==
  ASSUME NEW c \in DOMAIN Kinds!Numbers, NEW nr \in Kinds!Numbers[c]
  PROVE  Kinds!ClassOfNumber(nr) = c
<1>1. ASSUME NEW d \in DOMAIN Kinds!Numbers, nr \in Kinds!Numbers[d]
      PROVE  d = c
  BY <1>1, NumbersAre
<1>2. QED
  BY <1>1 DEF Kinds!ClassOfNumber

LEMMA PlainNumbers ==
  \A t \in DOMAIN Kinds!Plain :
    Kinds!Plain[t] \in {258, 259, 260, 263, 264, 265, 272, 512, 513, 514, 516, 517, 768, 769,
                  770, 1024, 1025, 1026, 1027, 1028, 1029, 1285, 1286}
BY DEF Kinds!Plain

LEMMA OtherNumbers ==
  ASSUME NEW nr \in {1, 258, 259, 260, 263, 264, 265, 272, 512, 513, 514, 516, 517, 768, 769,
                     770, 1024, 1025, 1026, 1027, 1028, 1029, 1285, 1286}
  PROVE  Kinds!ClassOfNumber(nr) = "LoxoneControl"
<1>1. \A c \in DOMAIN Kinds!Numbers : nr \notin Kinds!Numbers[c]
  BY NumbersAre
<1>2. QED
  BY <1>1 DEF Kinds!ClassOfNumber

LEMMA SpecialNumbers ==
  ASSUME NEW t \in DOMAIN Kinds!Special
  PROVE  /\ Kinds!Special[t][1] \in DOMAIN Kinds!Numbers
         /\ Kinds!Special[t][2] \in Kinds!Numbers[Kinds!Special[t][1]]
BY NumbersAre DEF Kinds!Special

(* createInstanceFromTypeNr makes the class createInstanceFromTypeString made. *)
LEMMA TypesAgree ==
  ASSUME NEW t
  PROVE  Kinds!ClassOfNumber(Kinds!NumberOf(t)) = Kinds!ClassOf(t)
<1>1. CASE t \in DOMAIN Kinds!Special
  BY <1>1, SpecialNumbers, ClassOfItsNumber DEF Kinds!NumberOf, Kinds!ClassOf
<1>2. CASE t \notin DOMAIN Kinds!Special
  BY <1>2, PlainNumbers, OtherNumbers DEF Kinds!NumberOf, Kinds!ClassOf
<1>3. QED
  BY <1>1, <1>2

LEMMA KindsStart ==
  ASSUME Kinds!Init
  PROVE  Kinds!NumbersAgree
BY DEF Kinds!Init, Kinds!NumbersAgree

LEMMA KindsKeep ==
  ASSUME Kinds!NumbersAgree, Kinds!Next
  PROVE  Kinds!NumbersAgree'
<1>1. CASE Kinds!Update
  <2>1. PICK e : control' = Kinds!FromEntry(e)
    BY <1>1 DEF Kinds!Update
  <2>2. control'.number = Kinds!NumberOf(e.type) /\ control'.class = Kinds!ClassOf(e.type)
    BY <2>1 DEF Kinds!FromEntry
  <2>3. QED
    BY <2>2, TypesAgree DEF Kinds!NumbersAgree
<1>2. CASE Kinds!Load
  <2>1. control'.number = 0 /\ control'.class = Kinds!ClassOfNumber(0)
    BY <1>2 DEF Kinds!Load, Kinds!Restored, Kinds!FromRows
  <2>2. QED
    BY <2>1 DEF Kinds!NumbersAgree
<1>3. CASE control' = None
  BY <1>3 DEF Kinds!NumbersAgree
<1>4. CASE UNCHANGED control
  BY <1>4 DEF Kinds!NumbersAgree
<1>5. QED
  BY <1>1, <1>2, <1>3, <1>4 DEF Kinds!Next, Kinds!WriteRow, Kinds!Crash

-----------------------------------------------------------------------------
(* The theorems *)

PeerStoreInv ==
  /\ runs = "Rows" => StoreInv
  /\ runs = "Kinds" => Kinds!NumbersAgree

LEMMA PeerStoreStarts ==
  ASSUME Init
  PROVE  PeerStoreInv
<1>1. runs = "Rows" => Rows!Init
  BY DEF Init, StoreInit
<1>2. runs = "Kinds" => Kinds!Init
  BY DEF Init, StoreInit
<1>3. QED
  BY <1>1, <1>2, StoreStarts, KindsStart DEF PeerStoreInv

LEMMA PeerStoreSteps ==
  ASSUME [Next]_vars
  PROVE  /\ runs' = runs
         /\ runs = "Rows" => Rows!Next \/ UNCHANGED <<up, home, queue, table, last, ever>>
         /\ runs = "Kinds" => Kinds!Next \/ UNCHANGED control
<1>1. CASE UNCHANGED vars
  BY <1>1 DEF vars, store
<1>2. CASE Next
  BY <1>2 DEF Next, StoreNext
<1>3. QED
  BY <1>1, <1>2

LEMMA PeerStoreKeeps ==
  ASSUME PeerStoreInv, [Next]_vars
  PROVE  PeerStoreInv'
<1>1. Rows!EntriesAssumption
  BY PartsAssumption
<1>2. ASSUME runs = "Rows"
      PROVE  StoreInv'
  <2>1. StoreInv /\ (Rows!Next \/ UNCHANGED <<up, home, queue, table, last, ever>>)
    BY <1>2, PeerStoreSteps DEF PeerStoreInv
  <2>2. QED
    BY <1>1, <2>1, RowsKeep, StoreStays
<1>3. ASSUME runs = "Kinds"
      PROVE  Kinds!NumbersAgree'
  <2>1. Kinds!NumbersAgree /\ (Kinds!Next \/ UNCHANGED control)
    BY <1>3, PeerStoreSteps DEF PeerStoreInv
  <2>2. CASE UNCHANGED control
    BY <2>1, <2>2 DEF Kinds!NumbersAgree
  <2>3. QED
    BY <2>1, <2>2, KindsKeep
<1>4. QED
  BY <1>2, <1>3, PeerStoreSteps DEF PeerStoreInv

LEMMA PeerStoreHolds ==
  ASSUME PeerStoreInv
  PROVE  RowsFaithful
<1>1. Rows!EntriesAssumption
  BY PartsAssumption
<1>2. QED
  BY <1>1, RowsGiveBack, RowsInventNothing, RowsIdentify DEF PeerStoreInv, RowsFaithful

(* LoxonePeer::saveVariables, load and createInstance: a save whose rows are
   written comes back after a restart, every state and every detail, however
   many crashes cut earlier saves and whatever older rows there are; nothing
   comes back that no structure file had, what has states has its uuidAction,
   and a number leads back to the class of its type. *)
THEOREM RowsAreFaithful == Spec => []RowsFaithful
<1>1. Init => PeerStoreInv
  BY PeerStoreStarts
<1>2. PeerStoreInv /\ [Next]_vars => PeerStoreInv'
  BY PeerStoreKeeps
<1>3. PeerStoreInv => RowsFaithful
  BY PeerStoreHolds
<1>4. QED
  BY <1>1, <1>2, <1>3, PTL DEF Spec

(* LoxonePeer::load and savePeer: a peer stays at the interface it was made
   for, also when it is saved while that interface is not configured. *)
THEOREM PeersStayHome == Spec => HomeKept
<1>1. Init => PeerStoreInv
  BY PeerStoreStarts
<1>2. PeerStoreInv /\ [Next]_vars => PeerStoreInv'
  BY PeerStoreKeeps
<1>3. PeerStoreInv /\ [Next]_vars => [runs = "Rows" => Rows!StaysHome]_vars
  <2> SUFFICES ASSUME PeerStoreInv, [Next]_vars, runs = "Rows"
               PROVE  Rows!StaysHome
    OBVIOUS
  <2>1. StoreInv /\ (Rows!Next \/ UNCHANGED <<up, home, queue, table, last, ever>>)
    BY PeerStoreSteps DEF PeerStoreInv
  <2>2. CASE UNCHANGED <<up, home, queue, table, last, ever>>
    BY <2>2 DEF Rows!StaysHome
  <2>3. QED
    BY <2>1, <2>2, HomeStays
<1>4. QED
  BY <1>1, <1>2, <1>3, PTL DEF Spec, HomeKept
=============================================================================
