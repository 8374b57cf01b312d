---------------------------- MODULE ReceiveProofs ----------------------------
(***************************************************************************)
(* Proofs about the bytes a connection brings: EventTables, for tables of  *)
(* any number of entries and any counts, and Framing, for any tables,      *)
(* signals, requests of init(), messages, and any size of the reads.       *)
(***************************************************************************)
EXTENDS MCReceive, Integers, SequenceTheorems, FiniteSets, FiniteSetTheorems, TLAPS

-----------------------------------------------------------------------------
(* Sequences *)

LEMMA Joined ==
  ASSUME NEW S, NEW s \in Seq(S), NEW u \in Seq(S)
  PROVE  /\ s \o u \in Seq(S) /\ Len(s \o u) = Len(s) + Len(u)
         /\ \A i \in 1 .. Len(s) : (s \o u)[i] = s[i]
         /\ \A i \in 1 .. Len(u) : (s \o u)[Len(s) + i] = u[i]
         /\ Len(s) \in Nat /\ Len(u) \in Nat
BY ConcatProperties

LEMMA Parts ==
  ASSUME NEW S, NEW s \in Seq(S), NEW m \in 1 .. Len(s) + 1, NEW n \in m - 1 .. Len(s)
  PROVE  /\ SubSeq(s, m, n) \in Seq(S) /\ Len(SubSeq(s, m, n)) = n - m + 1
         /\ DOMAIN SubSeq(s, m, n) = 1 .. n - m + 1
         /\ \A i \in 1 .. n - m + 1 : SubSeq(s, m, n)[i] = s[m + i - 1]
BY SubSeqProperties

LEMMA Added ==
  ASSUME NEW S, NEW s \in Seq(S), NEW x \in S
  PROVE  /\ Append(s, x) \in Seq(S) /\ Len(Append(s, x)) = Len(s) + 1
         /\ Len(s) \in Nat /\ DOMAIN s = 1 .. Len(s)
         /\ DOMAIN Append(s, x) = 1 .. Len(s) + 1
         /\ \A i \in 1 .. Len(s) : Append(s, x)[i] = s[i]
         /\ Append(s, x)[Len(s) + 1] = x
OBVIOUS

-----------------------------------------------------------------------------
(* EventTables: the layout of a table *)

Bounds == EventTables!BoundsAssumption

(* A count fits in its four bytes. *)
FourBytes(c) == c \div 16777216 \in 0 .. 255

Allowed == 0 .. MaxCount

LEMMA Counts ==
  ASSUME Bounds, NEW c \in Allowed
  PROVE  MaxEntries \in Nat /\ MaxCount \in Nat /\ c \in Nat /\ FourBytes(c)
BY SMT DEF Bounds, EventTables!BoundsAssumption, FourBytes, Allowed

LEMMA SizeBounds ==
  ASSUME NEW k \in EventTables!Kinds, NEW c \in Nat
  PROVE  EventTables!Size(k, c) \in 20 .. 40 + 68 * c
<1>1. (c + 3) \div 4 \in Nat /\ 4 * ((c + 3) \div 4) <= c + 3
  OBVIOUS
<1>2. CASE k = "value"
  BY <1>1, <1>2 DEF EventTables!Size
<1>3. CASE k = "text"
  BY <1>1, <1>3 DEF EventTables!Size
<1>4. CASE k = "daytimer"
  BY <1>1, <1>4 DEF EventTables!Size
<1>5. CASE k = "weather"
  BY <1>1, <1>5 DEF EventTables!Size
<1>6. QED
  BY <1>2, <1>3, <1>4, <1>5 DEF EventTables!Kinds

(* The four bytes of a count make that count. *)
LEMMA CountBytes ==
  ASSUME NEW c \in Nat, FourBytes(c)
  PROVE  /\ \A k \in Int : EventTables!CountByte(c, k) \in 0 .. 255
         /\ EventTables!CountByte(c, 0) + 256 * (EventTables!CountByte(c, 1)
              + 256 * (EventTables!CountByte(c, 2) + 256 * EventTables!CountByte(c, 3))) = c
<1> DEFINE d0 == c % 256
           q1 == c \div 256
           d1 == q1 % 256
           q2 == c \div 65536
           d2 == q2 % 256
           q3 == c \div 16777216
<1>1. c = 256 * q1 + d0 /\ d0 \in 0 .. 255 /\ q1 \in Nat
  BY SMT
<1>2. d1 \in 0 .. 255 /\ q2 \in Nat /\ q1 = 256 * q2 + d1
  BY SMT
<1>3. d2 \in 0 .. 255 /\ q2 = 256 * q3 + d2 /\ q3 \in 0 .. 255
  BY SMT DEF FourBytes
<1>4. /\ EventTables!CountByte(c, 0) = d0 /\ EventTables!CountByte(c, 1) = d1
      /\ EventTables!CountByte(c, 2) = d2 /\ EventTables!CountByte(c, 3) = q3
  BY SMT DEF EventTables!CountByte
<1> HIDE DEF d0, q1, d1, q2, d2, q3
<1>5. ASSUME NEW k \in Int
      PROVE  EventTables!CountByte(c, k) \in 0 .. 255
  <2>1. CASE k \in 0 .. 3
    <3>1. k = 0 \/ k = 1 \/ k = 2 \/ k = 3
      BY <2>1
    <3>2. QED
      BY <1>1, <1>2, <1>3, <1>4, <3>1
  <2>2. CASE k \notin 0 .. 3
    <3>1. EventTables!CountByte(c, k) = 0
      BY SMT, <2>2 DEF EventTables!CountByte
    <3>2. QED
      BY <3>1
  <2>3. QED
    BY <2>1, <2>2
<1>6. QED
  BY <1>1, <1>2, <1>3, <1>4, <1>5

Origins == [entry : Nat, at : Nat, value : 0 .. 255]

(* The bytes of entry i of the table, and how many they are. *)
Bytes(i) == EventTables!EntryBytes(i, table[i])
Width(i) == EventTables!Size(kind, table[i])

LEMMA EntryBytes ==
  ASSUME Bounds, kind \in EventTables!Kinds, NEW i \in Nat, NEW c \in Allowed
  PROVE  /\ EventTables!EntryBytes(i, c) \in Seq(Origins)
         /\ Len(EventTables!EntryBytes(i, c)) = EventTables!Size(kind, c)
         /\ \A o \in 1 .. EventTables!Size(kind, c) :
              EventTables!EntryBytes(i, c)[o] =
                [entry |-> i, at |-> o - 1,
                 value |-> EventTables!CountByte(c, o - 1 - EventTables!CountAt[kind])]
<1> DEFINE n == EventTables!Size(kind, c)
           first == EventTables!CountAt[kind]
<1>1. n \in Nat
  BY SizeBounds, Counts
<1>2. first \in Nat
  BY DEF EventTables!CountAt, EventTables!Kinds
<1>3. \A k \in Int : EventTables!CountByte(c, k) \in 0 .. 255
  BY CountBytes, Counts
<1> HIDE DEF n, first
<1>4. \A o \in 1 .. n : [entry |-> i, at |-> o - 1,
                         value |-> EventTables!CountByte(c, o - 1 - first)] \in Origins
  BY <1>1, <1>2, <1>3 DEF Origins
<1>5. EventTables!EntryBytes(i, c) =
        [o \in 1 .. n |-> [entry |-> i, at |-> o - 1,
                           value |-> EventTables!CountByte(c, o - 1 - first)]]
  BY DEF EventTables!EntryBytes, n, first
<1>6. QED
  BY <1>1, <1>4, <1>5 DEF n, first

-----------------------------------------------------------------------------
(* EventTables: the inductive invariant *)

(* Entry i begins at the offset s[i] of the table, the end of which is the last. *)
Laid(s) ==
  /\ s \in [1 .. Len(table) + 1 -> Nat] /\ s[1] = 0 /\ s[Len(table) + 1] = Len(data)
  /\ \A i \in 1 .. Len(table) :
       /\ s[i + 1] = s[i] + Width(i) /\ s[i + 1] <= Len(data)
       /\ \A o \in 1 .. Width(i) : data[s[i] + o] = Bytes(i)[o]

(* The packet of entry i: its bytes without the filling, and its count. *)
Length(i) ==
  Width(i) - (IF kind = "text" THEN (4 - (table[i] % 4)) % 4 ELSE 0)
Packet(i) ==
  [bytes |-> [o \in 1 .. Length(i) |-> Bytes(i)[o]],
   count |-> IF kind = "value" THEN 0 ELSE table[i]]

TableTypes ==
  /\ kind \in EventTables!Kinds /\ table \in Seq(Allowed)
  /\ data \in Seq(Origins) /\ processed \in Nat

(* The packets are those of the first entries, and the loop is at the next. *)
CutInv ==
  /\ packets \in Seq([bytes : Seq(Origins), count : Nat])
  /\ Len(packets) <= Len(table)
  /\ \A i \in 1 .. Len(packets) : packets[i] = Packet(i)
  /\ \E s : Laid(s) /\ processed = s[Len(packets) + 1]

TablesInv == TableTypes /\ CutInv

LEMMA Widths ==
  ASSUME Bounds, TableTypes, NEW i \in 1 .. Len(table)
  PROVE  /\ table[i] \in Allowed /\ table[i] \in Nat /\ FourBytes(table[i])
         /\ Width(i) \in 20 .. 40 + 68 * table[i]
         /\ Bytes(i) \in Seq(Origins) /\ Len(Bytes(i)) = Width(i)
         /\ \A o \in 1 .. Width(i) :
              Bytes(i)[o] = [entry |-> i, at |-> o - 1,
                 value |-> EventTables!CountByte(table[i], o - 1 - EventTables!CountAt[kind])]
<1>1. table[i] \in Allowed
  BY DEF TableTypes
<1>2. table[i] \in Nat /\ FourBytes(table[i])
  BY <1>1, Counts
<1>3. Width(i) \in 20 .. 40 + 68 * table[i]
  BY <1>2, SizeBounds DEF Width, TableTypes
<1>4. QED
  BY <1>1, <1>2, <1>3, EntryBytes DEF Bytes, Width, TableTypes

LEMMA TablesInit ==
  ASSUME Bounds, EventTables!Init
  PROVE  TablesInv
<1> DEFINE s == [i \in 1 .. 1 |-> 0]
<1>1. table = <<>> /\ data = <<>> /\ packets = <<>> /\ processed = 0
      /\ kind \in EventTables!Kinds
  BY DEF EventTables!Init
<1>2. Laid(s)
  BY <1>1 DEF Laid
<1>3. processed = s[Len(packets) + 1]
  BY <1>1
<1> HIDE DEF s
<1>4. QED
  BY <1>1, <1>2, <1>3 DEF TablesInv, TableTypes, CutInv

LEMMA AddEntryStep ==
  ASSUME Bounds, TablesInv, EventTables!AddEntry
  PROVE  TablesInv'
<1> USE DEF TablesInv
<1>1. PICK c \in Allowed :
        /\ table' = Append(table, c)
        /\ data' = data \o EventTables!EntryBytes(Len(table) + 1, c)
  BY DEF EventTables!AddEntry, Allowed
<1>2. kind' = kind /\ processed' = processed /\ packets' = packets
  BY DEF EventTables!AddEntry
<1>20. PICK n, new, w : /\ n = Len(table) /\ w = EventTables!Size(kind, c)
                        /\ new = EventTables!EntryBytes(n + 1, c)
  OBVIOUS
<1>3. /\ n \in Nat /\ table' \in Seq(Allowed) /\ Len(table') = n + 1
      /\ table'[n + 1] = c /\ \A i \in 1 .. n : table'[i] = table[i]
  BY <1>1, <1>20, Added DEF TableTypes
<1>4. new \in Seq(Origins) /\ Len(new) = w /\ w \in Nat
  BY <1>3, <1>20, EntryBytes, SizeBounds, Counts DEF TableTypes
<1>21. data' = data \o new
  BY <1>1, <1>20
<1>5. /\ data' \in Seq(Origins) /\ Len(data) \in Nat /\ Len(data') = Len(data) + w
      /\ \A i \in 1 .. Len(data) : data'[i] = data[i]
      /\ \A i \in 1 .. w : data'[Len(data) + i] = new[i]
  <2>1. PICK old : old = data
    OBVIOUS
  <2>2. old \in Seq(Origins) /\ new \in Seq(Origins)
    BY <1>4, <2>1 DEF TableTypes
  <2>3. /\ old \o new \in Seq(Origins) /\ Len(old \o new) = Len(old) + Len(new)
        /\ \A i \in 1 .. Len(old) : (old \o new)[i] = old[i]
        /\ \A i \in 1 .. Len(new) : (old \o new)[Len(old) + i] = new[i]
        /\ Len(old) \in Nat
    BY ONLY <2>2, Joined
  <2>4. QED
    BY <1>4, <1>21, <2>1, <2>3
<1>6. PICK s : Laid(s) /\ processed = s[Len(packets) + 1]
  BY DEF CutInv
<1>7. /\ s \in [1 .. n + 1 -> Nat] /\ s[1] = 0 /\ s[n + 1] = Len(data)
      /\ \A i \in 1 .. n :
           /\ s[i + 1] = s[i] + Width(i) /\ s[i + 1] <= Len(data)
           /\ \A o \in 1 .. Width(i) : data[s[i] + o] = Bytes(i)[o]
  BY <1>6, <1>20 DEF Laid
<1>8. /\ \A i \in 1 .. n : Width(i)' = Width(i) /\ Bytes(i)' = Bytes(i)
      /\ Width(n + 1)' = w /\ Bytes(n + 1)' = new
  <2>1. ASSUME NEW i \in Nat, NEW d \in Allowed, table'[i] = d
        PROVE  /\ Width(i)' = EventTables!Size(kind, d)
               /\ Bytes(i)' = EventTables!EntryBytes(i, d)
    <3>1. Width(i)' = EventTables!Size(kind, d)
      BY <1>2, <2>1 DEF Width, EventTables!Size
    <3>2. Bytes(i)' = EventTables!EntryBytes(i, d)
      BY <1>2, <2>1 DEF Bytes, EventTables!EntryBytes, EventTables!Size
    <3>3. QED
      BY <3>1, <3>2
  <2>2. \A i \in 1 .. n : table[i] \in Allowed
    BY <1>20 DEF TableTypes
  <2>3. ASSUME NEW i \in 1 .. n
        PROVE  Width(i)' = Width(i) /\ Bytes(i)' = Bytes(i)
    BY <1>3, <2>1, <2>2 DEF Width, Bytes
  <2>4. QED
    BY <1>3, <1>20, <2>1, <2>3
<1>9. PICK r : /\ r \in [1 .. n + 2 -> Nat] /\ r[1] = 0 /\ r[n + 2] = Len(data')
               /\ \A i \in 1 .. n + 1 : r[i] = s[i]
  <2> DEFINE q == [i \in 1 .. n + 2 |-> IF i <= n + 1 THEN s[i] ELSE Len(data')]
  <2>1. /\ q \in [1 .. n + 2 -> Nat] /\ q[1] = 0 /\ q[n + 2] = Len(data')
        /\ \A i \in 1 .. n + 1 : q[i] = s[i]
    BY <1>3, <1>4, <1>5, <1>7
  <2> HIDE DEF q
  <2>2. QED
    BY <2>1
<1>10. ASSUME NEW i \in 1 .. n + 1
       PROVE  /\ r[i + 1] = r[i] + Width(i)' /\ r[i + 1] <= Len(data')
              /\ \A o \in 1 .. Width(i)' : data'[r[i] + o] = Bytes(i)'[o]
  <2>1. CASE i = n + 1
    <3>1. r[i + 1] = Len(data) + w /\ r[i] = Len(data)
      BY <1>3, <1>5, <1>7, <1>9, <2>1
    <3>2. QED
      BY <1>4, <1>5, <1>8, <2>1, <3>1
  <2>2. CASE i \in 1 .. n
    <3>1. Width(i) \in Nat
      BY <1>20, <2>2, Widths
    <3>2. /\ r[i + 1] = s[i + 1] /\ r[i] = s[i] /\ s[i] \in Nat
          /\ s[i + 1] = s[i] + Width(i) /\ s[i + 1] <= Len(data)
      <4>1. i \in 1 .. n + 1 /\ i + 1 \in 1 .. n + 1 /\ n \in Nat
        BY <1>3, <2>2
      <4>2. r[i + 1] = s[i + 1] /\ r[i] = s[i]
        BY <1>9, <4>1
      <4>3. s[i] \in Nat
        BY <1>7, <4>1
      <4>4. QED
        BY <1>7, <2>2, <4>2, <4>3
    <3>3. ASSUME NEW o \in 1 .. Width(i)
          PROVE  data'[r[i] + o] = Bytes(i)'[o]
      <4>1. s[i] + o \in 1 .. Len(data)
        BY <1>5, <3>1, <3>2
      <4>2. QED
        BY <1>5, <1>7, <1>8, <2>2, <3>2, <4>1
    <3>4. QED
      BY <1>4, <1>5, <1>8, <2>2, <3>1, <3>2, <3>3
  <2>3. QED
    BY <1>3, <2>1, <2>2
<1>11. Laid(r)'
  BY <1>3, <1>9, <1>10 DEF Laid
<1>12. processed' = r[Len(packets') + 1]
  BY <1>2, <1>3, <1>6, <1>9, <1>20 DEF CutInv
<1>13. \A i \in 1 .. Len(packets) : Packet(i)' = Packet(i)
  <2>1. ASSUME NEW i \in 1 .. n
        PROVE  Packet(i)' = Packet(i)
    <3>1. Length(i)' = Length(i)
      BY <1>2, <1>3, <1>8 DEF Length
    <3>2. QED
      BY <1>2, <1>3, <1>8, <3>1 DEF Packet
  <2>2. QED
    BY <1>3, <1>20, <2>1 DEF CutInv
<1>14. CutInv'
  BY <1>2, <1>3, <1>11, <1>12, <1>13, <1>20 DEF CutInv
<1>15. QED
  BY <1>2, <1>3, <1>5, <1>14 DEF TableTypes

(* Where the loop is, there is an entry, and what it copies is of that entry. *)
LEMMA AtEntry ==
  ASSUME Bounds, TablesInv, processed < Len(data), NEW i, i = Len(packets) + 1
  PROVE  /\ i \in 1 .. Len(table) /\ processed \in Nat
         /\ \A L \in 0 .. Width(i) :
              EventTables!Copy(processed, L) = [o \in 1 .. L |-> Bytes(i)[o]]
         /\ processed + Width(i) <= Len(data)
         /\ \A s : Laid(s) /\ processed = s[i] => processed + Width(i) = s[i + 1]
<1> USE DEF TablesInv
<1>1. PICK s : Laid(s) /\ processed = s[Len(packets) + 1]
  BY DEF CutInv
<1>2. Len(packets) \in Nat /\ Len(table) \in Nat /\ Len(data) \in Nat /\ processed \in Nat
  BY DEF CutInv, TableTypes
<1>3. i \in 1 .. Len(table)
  BY <1>1, <1>2 DEF CutInv, Laid
<1>4. Width(i) \in Nat
  BY <1>3, Widths
<1>5. /\ s[i + 1] = processed + Width(i) /\ s[i + 1] <= Len(data)
      /\ \A o \in 1 .. Width(i) : data[processed + o] = Bytes(i)[o]
  BY <1>1, <1>3 DEF Laid
<1>6. ASSUME NEW L \in 0 .. Width(i)
      PROVE  EventTables!Copy(processed, L) = [o \in 1 .. L |-> Bytes(i)[o]]
  <2>1. processed + 1 \in 1 .. Len(data) + 1 /\ processed + L \in processed .. Len(data)
    BY <1>2, <1>4, <1>5
  <2>2. /\ SubSeq(data, processed + 1, processed + L) \in Seq(Origins)
        /\ Len(SubSeq(data, processed + 1, processed + L)) = L
        /\ \A o \in 1 .. L :
             SubSeq(data, processed + 1, processed + L)[o] = data[processed + o]
    <3>1. data \in Seq(Origins)
      BY DEF TableTypes
    <3>2. PICK x, y : x = processed + 1 /\ y = processed + L
      OBVIOUS
    <3>3. x \in 1 .. Len(data) + 1 /\ y \in x - 1 .. Len(data) /\ y - x + 1 = L
      BY <1>2, <1>4, <2>1, <3>2
    <3>4. /\ SubSeq(data, x, y) \in Seq(Origins) /\ Len(SubSeq(data, x, y)) = L
          /\ \A o \in 1 .. L : SubSeq(data, x, y)[o] = data[x + o - 1]
      BY ONLY <3>1, <3>3, Parts
    <3>5. \A o \in 1 .. L : x + o - 1 = processed + o
      BY <1>2, <1>4, <3>2
    <3>6. QED
      BY <3>2, <3>4, <3>5
  <2>3. \A o \in 1 .. L : SubSeq(data, processed + 1, processed + L)[o] = Bytes(i)[o]
    BY <1>4, <1>5, <2>2
  <2>4. QED
    <3>1. PICK u : u = SubSeq(data, processed + 1, processed + L)
      OBVIOUS
    <3>2. u \in Seq(Origins) /\ Len(u) = L /\ \A o \in 1 .. L : u[o] = Bytes(i)[o]
      BY <2>2, <2>3, <3>1
    <3>3. u = [o \in 1 .. L |-> Bytes(i)[o]]
      BY <3>2
    <3>4. QED
      BY <3>1, <3>3 DEF EventTables!Copy
<1>7. ASSUME NEW r, Laid(r), processed = r[i]
      PROVE  processed + Width(i) = r[i + 1]
  BY <1>3, <1>7 DEF Laid
<1>8. QED
  BY <1>2, <1>3, <1>4, <1>5, <1>6, <1>7

(* The count is where the loop looks for it. *)
LEMMA CountFound ==
  ASSUME Bounds, TablesInv, NEW i \in 1 .. Len(table), kind # "value",
         NEW L \in EventTables!CountAt[kind] + 4 .. Width(i)
  PROVE  EventTables!Number([o \in 1 .. L |-> Bytes(i)[o]], EventTables!CountAt[kind])
           = table[i]
<1> DEFINE c == table[i]
           first == EventTables!CountAt[kind]
           p == [o \in 1 .. L |-> Bytes(i)[o]]
<1>1. first \in Nat
  BY DEF EventTables!CountAt, EventTables!Kinds, TablesInv, TableTypes
<1>2. c \in Nat /\ FourBytes(c) /\ Width(i) \in Nat
  BY Widths DEF TablesInv
<1>3. \A o \in 1 .. Width(i) : Bytes(i)[o].value = EventTables!CountByte(c, o - 1 - first)
  <2>1. \A o \in 1 .. Width(i) :
          Bytes(i)[o] = [entry |-> i, at |-> o - 1,
                         value |-> EventTables!CountByte(c, o - 1 - first)]
    BY Widths DEF TablesInv
  <2> HIDE DEF c, first
  <2>2. ASSUME NEW o \in 1 .. Width(i)
        PROVE  Bytes(i)[o].value = EventTables!CountByte(c, o - 1 - first)
    <3>1. Bytes(i)[o] = [entry |-> i, at |-> o - 1,
                         value |-> EventTables!CountByte(c, o - 1 - first)]
      BY <2>1
    <3>2. QED
      BY <3>1
  <2>3. QED
    BY <2>2
<1>20. L \in first + 4 .. Width(i)
  OBVIOUS
<1> HIDE DEF c, first
<1>4. ASSUME NEW k \in 0 .. 3
      PROVE  p[first + k + 1].value = EventTables!CountByte(c, k)
  <2>1. first + k + 1 \in 1 .. L /\ L <= Width(i) /\ (first + k + 1) - 1 - first = k
    BY <1>1, <1>2, <1>20
  <2>2. QED
    BY <1>1, <1>2, <1>3, <2>1
<1> HIDE DEF p
<1>5. /\ p[first + 1].value = EventTables!CountByte(c, 0)
      /\ p[first + 2].value = EventTables!CountByte(c, 1)
      /\ p[first + 3].value = EventTables!CountByte(c, 2)
      /\ p[first + 4].value = EventTables!CountByte(c, 3)
  BY <1>1, <1>4
<1>6. EventTables!Number(p, first) = c
  BY <1>2, <1>5, CountBytes DEF EventTables!Number
<1>7. QED
  BY <1>6 DEF c, first, p

(* A loop that raises the packet of its entry and goes to the next one. *)
LEMMA CutNext ==
  ASSUME Bounds, TablesInv, processed < Len(data),
         NEW i, i = Len(packets) + 1, i \in 1 .. Len(table),
         packets' = Append(packets, Packet(i)), processed' = processed + Width(i),
         kind' = kind, table' = table, data' = data
  PROVE  TablesInv'
<1> USE DEF TablesInv
<1>1. PICK s : Laid(s) /\ processed = s[i]
  BY DEF CutInv
<1>2. processed' = s[i + 1] /\ processed' \in Nat
  BY <1>1, AtEntry, Widths
<1>3. Len(packets) \in Nat /\ Len(table) \in Nat
  BY DEF CutInv, TableTypes
<1>4. Packet(i) \in [bytes : Seq(Origins), count : Nat]
  <2>1. Length(i) \in 0 .. Width(i) /\ Width(i) \in Nat /\ table[i] \in Nat
    <3>1. table[i] \in Nat /\ Width(i) \in 20 .. 40 + 68 * table[i]
      BY Widths
    <3>2. PICK x, w : x = table[i] /\ w = Width(i)
      OBVIOUS
    <3>3. x \in Nat /\ w \in 20 .. 40 + 68 * x
      BY <3>1, <3>2
    <3>4. (4 - (x % 4)) % 4 \in 0 .. 3
      BY ONLY <3>3, SMT
    <3>5. w \in Nat /\ w > 3
      BY ONLY <3>3
    <3>6. PICK y : y = (4 - (x % 4)) % 4
      OBVIOUS
    <3>7. Length(i) = IF kind = "text" THEN w - y ELSE w - 0
      BY <3>2, <3>6 DEF Length
    <3>8. w - y \in 0 .. w /\ w - 0 \in 0 .. w
      BY <3>4, <3>5, <3>6
    <3>9. QED
      BY <3>1, <3>2, <3>5, <3>7, <3>8
  <2>2. \A o \in 1 .. Length(i) : Bytes(i)[o] \in Origins
    BY <2>1, Widths
  <2>3. [o \in 1 .. Length(i) |-> Bytes(i)[o]] \in Seq(Origins)
    BY <2>1, <2>2
  <2>4. QED
    BY <2>1, <2>3 DEF Packet
<1>5. \A k \in 1 .. Len(table) : Packet(k)' = Packet(k)
  BY DEF Packet, Length, Width, Bytes, EventTables!EntryBytes, EventTables!Size
<1>6. /\ packets' \in Seq([bytes : Seq(Origins), count : Nat]) /\ Len(packets') = i
      /\ \A k \in 1 .. Len(packets) : packets'[k] = packets[k]
      /\ packets'[i] = Packet(i)
  BY <1>3, <1>4, Added DEF CutInv
<1>7. \A k \in 1 .. Len(packets') : packets'[k] = Packet(k)'
  <2>1. \A k \in 1 .. Len(packets') : k = i \/ k \in 1 .. Len(packets)
    BY <1>3, <1>6
  <2>2. QED
    <3>1. \A k \in 1 .. Len(packets) : packets'[k] = Packet(k) /\ k \in 1 .. Len(table)
      BY <1>3, <1>6 DEF CutInv
    <3>2. QED
      BY <1>5, <1>6, <2>1, <3>1
<1>8. Laid(s)'
  <2>1. ASSUME NEW k
        PROVE  Width(k)' = Width(k) /\ Bytes(k)' = Bytes(k)
    BY DEF Width, Bytes, EventTables!EntryBytes, EventTables!Size
  <2>2. table' = table /\ data' = data /\ Laid(s)
    BY <1>1
  <2>3. QED
    BY ONLY <2>1, <2>2 DEF Laid
<1>9. CutInv'
  <2>1. \E r : Laid(r)' /\ processed' = r[Len(packets') + 1]
    BY <1>2, <1>6, <1>8
  <2>2. Len(packets') <= Len(table')
    BY <1>3, <1>6
  <2>3. QED
    BY <1>6, <1>7, <2>1, <2>2 DEF CutInv
<1>10. QED
  BY <1>2, <1>9 DEF TableTypes

(* The filling of a text, as the loop reckons it and as the layout has it. *)
LEMMA Filled ==
  ASSUME NEW c \in Nat
  PROVE  /\ EventTables!Padding(c) = (4 - (c % 4)) % 4
         /\ c + EventTables!Padding(c) = 4 * ((c + 3) \div 4)
<1>1. PICK q, r : q = c \div 4 /\ r = c % 4
  OBVIOUS
<1>2. c = 4 * q + r /\ q \in Nat /\ r \in 0 .. 3
  BY <1>1
<1>3. CASE r = 0
  <2>1. (c + 3) \div 4 = q
    BY <1>2, <1>3
  <2>2. QED
    BY <1>1, <1>2, <1>3, <2>1 DEF EventTables!Padding
<1>4. CASE r \in 1 .. 3
  <2>1. (c + 3) \div 4 = q + 1
    BY <1>2, <1>4
  <2>2. (4 - r) % 4 = 4 - r
    BY <1>4
  <2>3. QED
    BY <1>1, <1>2, <1>4, <2>1, <2>2 DEF EventTables!Padding
<1>5. QED
  BY <1>2, <1>3, <1>4

LEMMA Lengths ==
  ASSUME Bounds, TableTypes, NEW i \in 1 .. Len(table)
  PROVE  /\ kind = "value" => Width(i) = 24 /\ Length(i) = 24
         /\ kind = "text" => /\ Width(i) = 36 + table[i] + EventTables!Padding(table[i])
                             /\ Length(i) = 36 + table[i] /\ Length(i) <= Width(i)
         /\ kind = "daytimer" => Width(i) = 28 + 24 * table[i] /\ Length(i) = Width(i)
         /\ kind = "weather" => Width(i) = 24 + 68 * table[i] /\ Length(i) = Width(i)
<1>1. table[i] \in Nat
  BY Widths
<1>2. CASE kind = "value"
  BY <1>1, <1>2 DEF Width, Length, EventTables!Size
<1>3. CASE kind = "text"
  <2>1. PICK c, f : c = table[i] /\ f = EventTables!Padding(c)
    OBVIOUS
  <2>2. f = (4 - (c % 4)) % 4 /\ c + f = 4 * ((c + 3) \div 4) /\ c \in Nat
    BY <1>1, <2>1, Filled
  <2>3. f \in Nat /\ (c + 3) \div 4 \in Nat
    BY <2>2
  <2>4. Width(i) = 36 + 4 * ((c + 3) \div 4)
    BY <1>3, <2>1 DEF Width, EventTables!Size
  <2>5. Length(i) = Width(i) - f
    BY <1>3, <2>1, <2>2 DEF Length
  <2>6. Width(i) = 36 + c + f
    BY <2>2, <2>3, <2>4
  <2>7. Length(i) = 36 + c /\ Length(i) <= Width(i)
    BY <2>2, <2>3, <2>5, <2>6
  <2>8. QED
    BY <1>3, <2>1, <2>6, <2>7
<1>4. CASE kind = "daytimer"
  BY <1>1, <1>4 DEF Width, Length, EventTables!Size
<1>5. CASE kind = "weather"
  BY <1>1, <1>5 DEF Width, Length, EventTables!Size
<1>6. QED
  BY <1>2, <1>3, <1>4, <1>5

(* A loop that finds the length of its packet in the bytes before first + 4. *)
LEMMA CutAt ==
  ASSUME Bounds, TablesInv, processed < Len(data), kind # "value",
         NEW i, i = Len(packets) + 1
  PROVE  LET first == EventTables!CountAt[kind] IN
         /\ i \in 1 .. Len(table) /\ table[i] \in Nat /\ Width(i) \in Nat
         /\ EventTables!Number(EventTables!Copy(processed, first + 4), first) = table[i]
         /\ Packet(i) = [bytes |-> EventTables!Copy(processed, Length(i)),
                         count |-> table[i]]
<1> DEFINE first == EventTables!CountAt[kind]
<1>1. i \in 1 .. Len(table) /\ TableTypes
  BY AtEntry DEF TablesInv
<1>2. table[i] \in Nat /\ Width(i) \in Nat
  BY <1>1, Widths
<1>3. first + 4 \in 0 .. Width(i) /\ Length(i) \in 0 .. Width(i)
  <2>1. EventTables!Padding(table[i]) \in Nat
    BY <1>2 DEF EventTables!Padding
  <2>2. CASE kind = "text"
    BY <1>1, <1>2, <2>1, <2>2, Lengths DEF EventTables!CountAt
  <2>3. CASE kind = "daytimer"
    BY <1>1, <1>2, <2>3, Lengths DEF EventTables!CountAt
  <2>4. CASE kind = "weather"
    BY <1>1, <1>2, <2>4, Lengths DEF EventTables!CountAt
  <2>5. QED
    BY <1>1, <2>2, <2>3, <2>4 DEF TableTypes, EventTables!Kinds
<1>4. \A L \in 0 .. Width(i) :
        EventTables!Copy(processed, L) = [o \in 1 .. L |-> Bytes(i)[o]]
  BY AtEntry
<1>5. first \in Nat
  BY <1>1 DEF TableTypes, EventTables!CountAt, EventTables!Kinds
<1>6. EventTables!Number([o \in 1 .. first + 4 |-> Bytes(i)[o]], first) = table[i]
  <2>1. first + 4 \in first + 4 .. Width(i)
    BY <1>2, <1>3, <1>5
  <2>2. QED
    BY <1>1, <2>1, CountFound
<1>7. Packet(i) = [bytes |-> EventTables!Copy(processed, Length(i)), count |-> table[i]]
  BY <1>3, <1>4 DEF Packet
<1> HIDE DEF first
<1>8. EventTables!Copy(processed, first + 4) = [o \in 1 .. first + 4 |-> Bytes(i)[o]]
  BY <1>3, <1>4
<1>9. QED
  BY <1>1, <1>2, <1>6, <1>7, <1>8 DEF first

LEMMA CutValueStep ==
  ASSUME Bounds, TablesInv, EventTables!CutValue
  PROVE  TablesInv'
<1>1. PICK i : i = Len(packets) + 1
  OBVIOUS
<1>2. kind = "value" /\ processed < Len(data) /\ TableTypes
  BY DEF EventTables!CutValue, TablesInv
<1>3. i \in 1 .. Len(table) /\ processed \in Nat
  BY <1>1, <1>2, AtEntry
<1>4. Width(i) = 24 /\ Length(i) = 24
  BY <1>2, <1>3, Lengths
<1>5. EventTables!Copy(processed, 24) = [o \in 1 .. 24 |-> Bytes(i)[o]]
  <2>1. 24 \in 0 .. Width(i)
    BY <1>4
  <2>2. \A L \in 0 .. Width(i) :
          EventTables!Copy(processed, L) = [o \in 1 .. L |-> Bytes(i)[o]]
    BY <1>1, <1>2, AtEntry
  <2>3. QED
    BY <2>1, <2>2
<1>6. packets' = Append(packets, Packet(i)) /\ processed' = processed + Width(i)
  BY <1>2, <1>4, <1>5 DEF EventTables!CutValue, EventTables!Raise, Packet
<1>7. QED
  BY <1>1, <1>2, <1>3, <1>6, CutNext DEF EventTables!CutValue

LEMMA CutTextStep ==
  ASSUME Bounds, TablesInv, EventTables!CutText
  PROVE  TablesInv'
<1>1. PICK i : i = Len(packets) + 1
  OBVIOUS
<1>2. /\ kind = "text" /\ kind # "value" /\ processed < Len(data) /\ TableTypes
      /\ processed \in Nat /\ EventTables!CountAt[kind] = 32
  BY DEF EventTables!CutText, EventTables!CountAt, TablesInv, TableTypes
<1>3. /\ i \in 1 .. Len(table) /\ table[i] \in Nat
      /\ EventTables!Number(EventTables!Copy(processed, 36), 32) = table[i]
      /\ Packet(i) = [bytes |-> EventTables!Copy(processed, Length(i)), count |-> table[i]]
  BY <1>1, <1>2, CutAt
<1>4. /\ Width(i) = 36 + table[i] + EventTables!Padding(table[i])
      /\ Length(i) = 36 + table[i] /\ EventTables!Padding(table[i]) \in Nat
  BY <1>2, <1>3, Lengths DEF EventTables!Padding
<1>5. /\ packets' = Append(packets, Packet(i))
      /\ processed' = processed + 36 + table[i] + EventTables!Padding(table[i])
  BY <1>3, <1>4 DEF EventTables!CutText, EventTables!Raise
<1>6. processed' = processed + Width(i)
  BY <1>2, <1>3, <1>4, <1>5
<1>7. QED
  BY <1>1, <1>2, <1>3, <1>5, <1>6, CutNext DEF EventTables!CutText

LEMMA CutDaytimerStep ==
  ASSUME Bounds, TablesInv, EventTables!CutDaytimer
  PROVE  TablesInv'
<1>1. PICK i : i = Len(packets) + 1
  OBVIOUS
<1>2. /\ kind = "daytimer" /\ kind # "value" /\ processed < Len(data) /\ TableTypes
      /\ processed \in Nat /\ EventTables!CountAt[kind] = 24
  BY DEF EventTables!CutDaytimer, EventTables!CountAt, TablesInv, TableTypes
<1>3. /\ i \in 1 .. Len(table) /\ table[i] \in Nat
      /\ EventTables!Number(EventTables!Copy(processed, 28), 24) = table[i]
      /\ Packet(i) = [bytes |-> EventTables!Copy(processed, Length(i)), count |-> table[i]]
  BY <1>1, <1>2, CutAt
<1>4. Width(i) = 28 + 24 * table[i] /\ Length(i) = 28 + 24 * table[i]
  BY <1>2, <1>3, Lengths
<1>5. packets' = Append(packets, Packet(i)) /\ processed' = processed + 28 + 24 * table[i]
  BY <1>3, <1>4 DEF EventTables!CutDaytimer, EventTables!Raise
<1>6. processed' = processed + Width(i)
  <2>1. PICK m : m = 24 * table[i]
    OBVIOUS
  <2>2. m \in Nat /\ Width(i) = 28 + m /\ processed' = processed + 28 + m
    BY <1>3, <1>4, <1>5, <2>1
  <2>3. QED
    BY <1>2, <2>2
<1>7. QED
  BY <1>1, <1>2, <1>3, <1>5, <1>6, CutNext DEF EventTables!CutDaytimer

LEMMA CutWeatherStep ==
  ASSUME Bounds, TablesInv, EventTables!CutWeather
  PROVE  TablesInv'
<1>1. PICK i : i = Len(packets) + 1
  OBVIOUS
<1>2. /\ kind = "weather" /\ kind # "value" /\ processed < Len(data) /\ TableTypes
      /\ processed \in Nat /\ EventTables!CountAt[kind] = 20
  BY DEF EventTables!CutWeather, EventTables!CountAt, TablesInv, TableTypes
<1>3. /\ i \in 1 .. Len(table) /\ table[i] \in Nat
      /\ EventTables!Number(EventTables!Copy(processed, 24), 20) = table[i]
      /\ Packet(i) = [bytes |-> EventTables!Copy(processed, Length(i)), count |-> table[i]]
  BY <1>1, <1>2, CutAt
<1>4. Width(i) = 24 + 68 * table[i] /\ Length(i) = 24 + 68 * table[i]
  BY <1>2, <1>3, Lengths
<1>5. packets' = Append(packets, Packet(i)) /\ processed' = processed + 24 + 68 * table[i]
  BY <1>3, <1>4 DEF EventTables!CutWeather, EventTables!Raise
<1>6. processed' = processed + Width(i)
  <2>1. PICK m : m = 68 * table[i]
    OBVIOUS
  <2>2. m \in Nat /\ Width(i) = 24 + m /\ processed' = processed + 24 + m
    BY <1>3, <1>4, <1>5, <2>1
  <2>3. QED
    BY <1>2, <2>2
<1>7. QED
  BY <1>1, <1>2, <1>3, <1>5, <1>6, CutNext DEF EventTables!CutWeather

LEMMA TablesNext ==
  ASSUME Bounds, TablesInv, EventTables!Next
  PROVE  TablesInv'
BY AddEntryStep, CutValueStep, CutTextStep, CutDaytimerStep, CutWeatherStep
   DEF EventTables!Next

-----------------------------------------------------------------------------
(* EventTables: its properties follow *)

LEMMA Raised ==
  ASSUME Bounds, TablesInv, NEW i \in DOMAIN packets
  PROVE  /\ i \in 1 .. Len(table) /\ packets[i] = Packet(i)
         /\ Length(i) \in 0 .. Width(i) /\ Length(i) \in Nat /\ Width(i) \in Nat
         /\ Len(packets[i].bytes) = Length(i)
         /\ DOMAIN packets[i].bytes = 1 .. Length(i)
         /\ \A o \in 1 .. Length(i) : packets[i].bytes[o] = Bytes(i)[o]
         /\ packets[i].count = IF kind = "value" THEN 0 ELSE table[i]
<1>1. /\ i \in 1 .. Len(packets) /\ i \in 1 .. Len(table) /\ TableTypes
      /\ packets[i] = Packet(i)
  <2>1. DOMAIN packets = 1 .. Len(packets) /\ Len(packets) \in Nat /\ Len(table) \in Nat
    BY DEF TablesInv, CutInv, TableTypes
  <2>2. QED
    BY <2>1 DEF TablesInv, CutInv
<1>2. Width(i) \in Nat /\ table[i] \in Nat
  BY <1>1, Widths
<1>3. Length(i) \in 0 .. Width(i)
  <2>1. EventTables!Padding(table[i]) \in Nat
    BY <1>2 DEF EventTables!Padding
  <2>2. CASE kind = "text"
    BY <1>1, <1>2, <2>1, <2>2, Lengths
  <2>3. CASE kind # "text"
    BY <1>2, <2>3 DEF Length
  <2>4. QED
    BY <2>2, <2>3
<1>4. packets[i].bytes = [o \in 1 .. Length(i) |-> Bytes(i)[o]]
  BY <1>1 DEF Packet
<1>5. packets[i].count = IF kind = "value" THEN 0 ELSE table[i]
  BY <1>1 DEF Packet
<1>6. Len(packets[i].bytes) = Length(i)
  BY <1>2, <1>3, <1>4
<1>7. QED
  BY <1>1, <1>2, <1>3, <1>4, <1>5, <1>6

LEMMA EntriesIntactFollows ==
  ASSUME Bounds, TablesInv
  PROVE  EventTables!EntriesIntact
<1>1. ASSUME processed = Len(data)
      PROVE  Len(packets) = Len(table)
  <2>1. PICK s : Laid(s) /\ processed = s[Len(packets) + 1]
    BY DEF TablesInv, CutInv
  <2>2. Len(packets) \in Nat /\ Len(table) \in Nat /\ Len(packets) <= Len(table)
    BY DEF TablesInv, CutInv, TableTypes
  <2>3. SUFFICES ASSUME Len(packets) < Len(table)
                 PROVE  FALSE
    BY <2>2
  <2>4. PICK i : i = Len(packets) + 1
    OBVIOUS
  <2>5. i \in 1 .. Len(table)
    BY <2>2, <2>3, <2>4
  <2>6. s[i + 1] = s[i] + Width(i) /\ s[i + 1] <= Len(data) /\ s[i] \in Nat
    BY <2>1, <2>2, <2>5 DEF Laid
  <2>7. Width(i) \in Nat /\ Width(i) > 0
    BY <2>5, Widths DEF TablesInv
  <2>8. QED
    BY <1>1, <2>1, <2>4, <2>6, <2>7
<1>2. ASSUME NEW i \in DOMAIN packets
      PROVE  /\ \A o \in DOMAIN packets[i].bytes :
                  packets[i].bytes[o].entry = i /\ packets[i].bytes[o].at = o - 1
             /\ kind # "value" => packets[i].count = table[i]
             /\ Len(packets[i].bytes) = Length(i)
  <2>1. ASSUME NEW o \in 1 .. Length(i)
        PROVE  packets[i].bytes[o].entry = i /\ packets[i].bytes[o].at = o - 1
    <3>1. /\ packets[i].bytes[o] = Bytes(i)[o] /\ o \in 1 .. Width(i)
          /\ i \in 1 .. Len(table)
      BY Raised
    <3>2. Bytes(i)[o] = [entry |-> i, at |-> o - 1,
             value |-> EventTables!CountByte(table[i], o - 1 - EventTables!CountAt[kind])]
      BY <3>1, Widths DEF TablesInv
    <3>3. QED
      BY <3>1, <3>2
  <2>2. QED
    BY <2>1, Raised
<1>3. QED
  BY <1>1, <1>2 DEF EventTables!EntriesIntact, Length, Width

LEMMA Uuids16 ==
  ASSUME NEW first \in Int
  PROVE  EventTables!Uuid(first) = EventTables!Span(first, 16)
<1> DEFINE order == <<3, 2, 1, 0, 5, 4, 7, 6, 8, 9, 10, 11, 12, 13, 14, 15>>
<1>1. \A i \in 1 .. 16 : order[i] \in 0 .. 15
  OBVIOUS
<1>2. \A k \in 0 .. 15 : \E i \in 1 .. 16 : order[i] = k
  <2>1. /\ order[4] = 0 /\ order[3] = 1 /\ order[2] = 2 /\ order[1] = 3
        /\ order[6] = 4 /\ order[5] = 5 /\ order[8] = 6 /\ order[7] = 7
        /\ order[9] = 8 /\ order[10] = 9 /\ order[11] = 10 /\ order[12] = 11
        /\ order[13] = 12 /\ order[14] = 13 /\ order[15] = 14 /\ order[16] = 15
    OBVIOUS
  <2> HIDE DEF order
  <2>2. QED
    BY <2>1
<1>3. EventTables!Uuid(first) = {first + order[i] : i \in 1 .. 16}
  BY DEF EventTables!Uuid
<1> HIDE DEF order
<1>4. ASSUME NEW x \in first .. first + 15
      PROVE  x \in {first + order[i] : i \in 1 .. 16}
  <2>1. PICK k : k = x - first
    OBVIOUS
  <2>2. k \in 0 .. 15 /\ x = first + k
    BY <2>1
  <2>3. PICK i \in 1 .. 16 : order[i] = k
    BY <1>2, <2>2
  <2>4. QED
    BY <2>2, <2>3
<1>5. \A i \in 1 .. 16 : first + order[i] \in first .. first + 15
  BY <1>1
<1>6. QED
  BY <1>3, <1>4, <1>5 DEF EventTables!Span

(* The fields of a packet with entries: the uuid, a field of w bytes, the count
   and the fields of the entries, which take the rest. *)
Holds(g, m, first, last) ==
  /\ \A i, j \in 1 .. m : i # j => g[i] \cap g[j] = {}
  /\ \A i \in 1 .. m : g[i] \subseteq first .. last
  /\ \A x \in first .. last : \E i \in 1 .. m : x \in g[i]

Listed(fs, w, m, g) ==
  /\ DOMAIN fs = 1 .. 2 + m /\ fs[1] = 0 .. 15 /\ fs[2] = 16 .. 15 + w
  /\ \A i \in 1 .. m : fs[2 + i] = g[i]
  /\ \A f \in DOMAIN fs : f = 1 \/ f = 2 \/ \E i \in 1 .. m : f = 2 + i

LEMMA FieldsListed ==
  ASSUME NEW w \in Nat, NEW m \in Nat, NEW g \in [1 .. m -> SUBSET Int],
         NEW fs, fs = << EventTables!Uuid(0), EventTables!Span(16, w) >> \o g
  PROVE  Listed(fs, w, m, g)
<1> DEFINE S == SUBSET Int
<1>1. PICK x, y : x = 0 .. 15 /\ y = 16 .. 15 + w
  OBVIOUS
<1>2. EventTables!Uuid(0) = x /\ EventTables!Span(16, w) = y
  <2>1. EventTables!Uuid(0) = x
    <3>1. EventTables!Uuid(0) = EventTables!Span(0, 16)
      BY Uuids16
    <3>2. EventTables!Span(0, 16) = 0 .. 15
      BY DEF EventTables!Span
    <3>3. QED
      BY <1>1, <3>1, <3>2
  <2>2. EventTables!Span(16, w) = y
    <3>1. 16 + w - 1 = 15 + w
      OBVIOUS
    <3>2. QED
      BY <1>1, <3>1 DEF EventTables!Span
  <2>3. QED
    BY <2>1, <2>2
<1>3. x \in S /\ y \in S
  BY <1>1
<1>4. g \in Seq(S) /\ Len(g) = m
  OBVIOUS
<1> HIDE DEF S
<1>5. PICK two : two = <<x, y>>
  OBVIOUS
<1>6. two \in Seq(S) /\ Len(two) = 2 /\ two[1] = x /\ two[2] = y
  BY <1>3, <1>5
<1>7. two \in Seq(S) /\ g \in Seq(S)
  BY <1>4, <1>6
<1>8. /\ two \o g \in Seq(S) /\ Len(two \o g) = Len(two) + Len(g)
      /\ \A i \in 1 .. Len(two) : (two \o g)[i] = two[i]
      /\ \A i \in 1 .. Len(g) : (two \o g)[Len(two) + i] = g[i]
  BY ONLY <1>7, Joined
<1>9. fs = two \o g
  BY <1>2, <1>5
<1>10. ASSUME NEW f \in 1 .. 2 + m, f # 1, f # 2
       PROVE  \E i \in 1 .. m : f = 2 + i
  <2>1. f - 2 \in 1 .. m /\ f = 2 + (f - 2)
    BY <1>10
  <2>2. QED
    BY <2>1
<1>11. fs \in Seq(S) /\ Len(fs) = 2 + m
  BY <1>4, <1>6, <1>8, <1>9
<1>12. DOMAIN fs = 1 .. 2 + m
  BY <1>11
<1>13. fs[1] = x /\ fs[2] = y /\ \A i \in 1 .. m : fs[2 + i] = g[i]
  BY <1>4, <1>6, <1>8, <1>9
<1>14. QED
  BY <1>1, <1>10, <1>12, <1>13 DEF Listed

LEMMA FieldsOfEntries ==
  ASSUME NEW w \in Nat, NEW m \in Nat, NEW len \in Nat, 20 + w <= len,
         NEW g \in [1 .. m -> SUBSET Int], Holds(g, m, 20 + w, len - 1),
         NEW fs, Listed(fs, w, m, g)
  PROVE  /\ \A f, h \in DOMAIN fs : f # h => fs[f] \cap fs[h] = {}
         /\ UNION EventTables!Range(fs) =
              EventTables!Span(0, len) \ EventTables!Span(16 + w, 4)
<1>1. /\ DOMAIN fs = 1 .. 2 + m /\ fs[1] = 0 .. 15 /\ fs[2] = 16 .. 15 + w
      /\ \A i \in 1 .. m : fs[2 + i] = g[i]
      /\ \A f \in DOMAIN fs : f = 1 \/ f = 2 \/ \E i \in 1 .. m : f = 2 + i
  BY DEF Listed
<1>2. \A i \in 1 .. m : g[i] \subseteq 20 + w .. len - 1
  BY DEF Holds
<1>3. /\ (0 .. 15) \cap (16 .. 15 + w) = {}
      /\ \A i \in 1 .. m : (0 .. 15) \cap g[i] = {} /\ (16 .. 15 + w) \cap g[i] = {}
  <2>1. (0 .. 15) \cap (16 .. 15 + w) = {}
    OBVIOUS
  <2>2. (0 .. 15) \cap (20 + w .. len - 1) = {}
    OBVIOUS
  <2>3. (16 .. 15 + w) \cap (20 + w .. len - 1) = {}
    OBVIOUS
  <2>4. QED
    BY ONLY <1>2, <2>1, <2>2, <2>3, Zenon
<1>4. ASSUME NEW f \in DOMAIN fs, NEW h \in DOMAIN fs, f # h
      PROVE  fs[f] \cap fs[h] = {}
  <2>1. ASSUME NEW i \in 1 .. m, f = 2 + i
        PROVE  fs[f] \cap fs[h] = {}
    <3>1. CASE h = 1
      BY <1>1, <1>3, <2>1, <3>1, Zenon
    <3>2. CASE h = 2
      BY <1>1, <1>3, <2>1, <3>2, Zenon
    <3>3. ASSUME NEW j \in 1 .. m, h = 2 + j
          PROVE  fs[f] \cap fs[h] = {}
      <4>1. i # j
        BY <1>4, <2>1, <3>3
      <4>2. QED
        BY <1>1, <2>1, <3>3, <4>1 DEF Holds
    <3>4. QED
      BY <1>1, <3>1, <3>2, <3>3
  <2>2. ASSUME NEW j \in 1 .. m, h = 2 + j, f = 1 \/ f = 2
        PROVE  fs[f] \cap fs[h] = {}
    BY <1>1, <1>3, <2>2, Zenon
  <2>3. ASSUME f = 1 \/ f = 2, h = 1 \/ h = 2
        PROVE  fs[f] \cap fs[h] = {}
    <3>1. CASE f = 1 /\ h = 2
      BY <1>1, <1>3, <3>1, Zenon
    <3>2. CASE f = 2 /\ h = 1
      BY <1>1, <1>3, <3>2, Zenon
    <3>3. QED
      BY <1>4, <2>3, <3>1, <3>2, Zenon
  <2>4. QED
    BY <1>1, <2>1, <2>2, <2>3
<1>5. EventTables!Span(0, len) \ EventTables!Span(16 + w, 4)
        = (0 .. 15) \cup (16 .. 15 + w) \cup (20 + w .. len - 1)
  <2>1. EventTables!Span(0, len) = 0 .. len - 1 /\ EventTables!Span(16 + w, 4) = 16 + w .. 19 + w
    <3>1. 0 + len - 1 = len - 1 /\ (16 + w) + 4 - 1 = 19 + w
      OBVIOUS
    <3>2. QED
      BY <3>1 DEF EventTables!Span
  <2>2. \A x \in Int : x \in (0 .. len - 1) \ (16 + w .. 19 + w)
          <=> x \in 0 .. 15 \/ x \in 16 .. 15 + w \/ x \in 20 + w .. len - 1
    OBVIOUS
  <2>3. (0 .. len - 1) \ (16 + w .. 19 + w) \subseteq Int
    OBVIOUS
  <2>4. (0 .. 15) \cup (16 .. 15 + w) \cup (20 + w .. len - 1) \subseteq Int
    OBVIOUS
  <2> DEFINE A == (0 .. len - 1) \ (16 + w .. 19 + w)
             B == (0 .. 15) \cup (16 .. 15 + w) \cup (20 + w .. len - 1)
  <2>5. \A x \in Int : x \in A <=> x \in B
    BY <2>2
  <2>6. A \subseteq Int /\ B \subseteq Int
    BY <2>3, <2>4
  <2> HIDE DEF A, B
  <2>7. A = B
    BY <2>5, <2>6
  <2>8. QED
    BY <2>1, <2>7 DEF A, B
<1>6. 1 \in DOMAIN fs /\ 2 \in DOMAIN fs /\ \A i \in 1 .. m : 2 + i \in DOMAIN fs
  BY <1>1
<1>7. UNION EventTables!Range(fs) = {x \in Int : \E f \in DOMAIN fs : x \in fs[f]}
  <2>1. \A f \in DOMAIN fs : fs[f] \subseteq Int
    <3>1. fs[1] \subseteq Int /\ fs[2] \subseteq Int
      BY <1>1
    <3>2. \A i \in 1 .. m : fs[2 + i] \subseteq Int
      BY <1>1
    <3>3. QED
      BY <1>1, <3>1, <3>2, Zenon
  <2>2. QED
    BY <2>1 DEF EventTables!Range
<1>8. ASSUME NEW x \in Int
      PROVE  (\E f \in DOMAIN fs : x \in fs[f])
               <=> x \in 0 .. 15 \/ x \in 16 .. 15 + w \/ x \in 20 + w .. len - 1
  <2>1. ASSUME NEW f \in DOMAIN fs, x \in fs[f]
        PROVE  x \in 0 .. 15 \/ x \in 16 .. 15 + w \/ x \in 20 + w .. len - 1
    <3>1. \A i \in 1 .. m : f = 2 + i => x \in 20 + w .. len - 1
      <4>1. ASSUME NEW i \in 1 .. m, f = 2 + i
            PROVE  x \in 20 + w .. len - 1
        <5>1. x \in g[i]
          BY <1>1, <2>1, <4>1
        <5>2. QED
          BY <1>2, <5>1
      <4>2. QED
        BY <4>1
    <3>2. f = 1 => x \in 0 .. 15
      BY <1>1, <2>1
    <3>3. f = 2 => x \in 16 .. 15 + w
      BY <1>1, <2>1
    <3>4. QED
      BY <1>1, <2>1, <3>1, <3>2, <3>3, Zenon
  <2>2. ASSUME x \in 20 + w .. len - 1
        PROVE  \E f \in DOMAIN fs : x \in fs[f]
    <3>1. PICK i \in 1 .. m : x \in g[i]
      BY <2>2 DEF Holds
    <3>2. QED
      BY <1>1, <1>6, <3>1
  <2>3. ASSUME x \in 0 .. 15 \/ x \in 16 .. 15 + w
        PROVE  \E f \in DOMAIN fs : x \in fs[f]
    BY <1>1, <1>6, <2>3, Zenon
  <2>4. QED
    BY <2>1, <2>2, <2>3
<1>9. (0 .. 15) \cup (16 .. 15 + w) \cup (20 + w .. len - 1) \subseteq Int
  OBVIOUS
<1>10. QED
  BY <1>4, <1>5, <1>7, <1>8, <1>9

(* n entries, each of e fields in w bytes: a time of a daytimer or an hour of
   the weather.  Field i of all is field Nth(i, e) of entry Of(i, e). *)
Entry(e, w) == (e = 5 /\ w = 24) \/ (e = 11 /\ w = 68)
Of(i, e) == (i - 1) \div e
Nth(i, e) == 1 + ((i - 1) % e)
Tile(first, w, q) == first + w * q .. first + w * q + w - 1
Tiling(e, w, n, first) ==
  /\ e \in Nat /\ w \in Nat /\ e * n \in Nat /\ w * n \in Nat
  /\ \A i \in 1 .. e * n : Of(i, e) \in 0 .. n - 1 /\ Nth(i, e) \in 1 .. e
  /\ \A i, j \in 1 .. e * n : Of(i, e) = Of(j, e) /\ Nth(i, e) = Nth(j, e) => i = j
  /\ \A q \in 0 .. n - 1 : \A r \in 1 .. e :
       \E i \in 1 .. e * n : Of(i, e) = q /\ Nth(i, e) = r
  /\ \A x \in first .. first + w * n - 1 : \E q \in 0 .. n - 1 : x \in Tile(first, w, q)
  /\ \A q \in 0 .. n - 1 : Tile(first, w, q) \subseteq first .. first + w * n - 1
  /\ \A q, p \in 0 .. n - 1 : q # p => Tile(first, w, q) \cap Tile(first, w, p) = {}

LEMMA Tiled ==
  ASSUME NEW e, NEW w, Entry(e, w), NEW n \in Nat, NEW first \in Nat
  PROVE  Tiling(e, w, n, first)
<1>1. ASSUME NEW i \in 1 .. e * n
      PROVE  /\ Of(i, e) \in 0 .. n - 1 /\ Nth(i, e) \in 1 .. e
             /\ i = e * Of(i, e) + Nth(i, e)
  <2>1. CASE e = 5
    BY <2>1 DEF Of, Nth
  <2>2. CASE e = 11
    BY <2>2 DEF Of, Nth
  <2>3. QED
    BY <2>1, <2>2 DEF Entry
<1>2. ASSUME NEW q \in 0 .. n - 1, NEW r \in 1 .. e
      PROVE  \E i \in 1 .. e * n : Of(i, e) = q /\ Nth(i, e) = r
  <2>1. CASE e = 5
    <3>1. PICK i : i = 5 * q + r
      OBVIOUS
    <3>2. i \in 1 .. 5 * n /\ (i - 1) \div 5 = q /\ 1 + ((i - 1) % 5) = r
      BY <2>1, <3>1
    <3>3. QED
      BY <2>1, <3>2 DEF Of, Nth
  <2>2. CASE e = 11
    <3>1. PICK i : i = 11 * q + r
      OBVIOUS
    <3>2. i \in 1 .. 11 * n /\ (i - 1) \div 11 = q /\ 1 + ((i - 1) % 11) = r
      BY <2>2, <3>1
    <3>3. QED
      BY <2>2, <3>2 DEF Of, Nth
  <2>3. QED
    BY <2>1, <2>2 DEF Entry
<1>3. ASSUME NEW x \in first .. first + w * n - 1
      PROVE  \E q \in 0 .. n - 1 : x \in Tile(first, w, q)
  <2>1. PICK q : q = (x - first) \div w
    OBVIOUS
  <2>2. CASE w = 24
    <3>1. q \in 0 .. n - 1 /\ x \in first + 24 * q .. first + 24 * q + 24 - 1
      BY <2>1, <2>2
    <3>2. QED
      BY <2>2, <3>1 DEF Tile
  <2>3. CASE w = 68
    <3>1. q \in 0 .. n - 1 /\ x \in first + 68 * q .. first + 68 * q + 68 - 1
      BY <2>1, <2>3
    <3>2. QED
      BY <2>3, <3>1 DEF Tile
  <2>4. QED
    BY <2>2, <2>3 DEF Entry
<1>4. ASSUME NEW q \in 0 .. n - 1
      PROVE  Tile(first, w, q) \subseteq first .. first + w * n - 1
  <2>1. CASE w = 24
    BY <2>1 DEF Tile
  <2>2. CASE w = 68
    BY <2>2 DEF Tile
  <2>3. QED
    BY <2>1, <2>2 DEF Entry
<1>5. ASSUME NEW q \in 0 .. n - 1, NEW p \in 0 .. n - 1, q # p
      PROVE  Tile(first, w, q) \cap Tile(first, w, p) = {}
  <2>1. CASE w = 24
    BY <1>5, <2>1 DEF Tile
  <2>2. CASE w = 68
    BY <1>5, <2>2 DEF Tile
  <2>3. QED
    BY <2>1, <2>2 DEF Entry
<1>6. e \in Nat /\ w \in Nat /\ e * n \in Nat /\ w * n \in Nat
  BY DEF Entry
<1>7. ASSUME NEW i \in 1 .. e * n, NEW j \in 1 .. e * n,
             Of(i, e) = Of(j, e), Nth(i, e) = Nth(j, e)
      PROVE  i = j
  BY <1>1, <1>7
<1>8. QED
  BY <1>1, <1>2, <1>3, <1>4, <1>5, <1>6, <1>7 DEF Tiling

Spread(g, F, e, w, n, first) ==
  /\ n \in Nat /\ first \in Nat /\ Tiling(e, w, n, first)
  /\ \A q \in 0 .. n - 1 : Holds(F[q], e, first + w * q, first + w * q + w - 1)
  /\ \A i \in 1 .. e * n : g[i] = F[Of(i, e)][Nth(i, e)]

LEMMA Tiles ==
  ASSUME NEW e, NEW w, NEW n, NEW first, NEW F, NEW g, Spread(g, F, e, w, n, first)
  PROVE  Holds(g, e * n, first, first + w * n - 1)
<1> USE DEF Spread
<1>1. \A q \in 0 .. n - 1 :
        /\ \A r, p \in 1 .. e : r # p => F[q][r] \cap F[q][p] = {}
        /\ \A r \in 1 .. e : F[q][r] \subseteq Tile(first, w, q)
        /\ \A x \in Tile(first, w, q) : \E r \in 1 .. e : x \in F[q][r]
  BY DEF Holds, Tile
<1>2. ASSUME NEW i \in 1 .. e * n
      PROVE  /\ Of(i, e) \in 0 .. n - 1 /\ Nth(i, e) \in 1 .. e
             /\ g[i] = F[Of(i, e)][Nth(i, e)]
             /\ g[i] \subseteq Tile(first, w, Of(i, e))
  <2>1. Of(i, e) \in 0 .. n - 1 /\ Nth(i, e) \in 1 .. e
    BY DEF Tiling
  <2>2. QED
    BY <1>1, <2>1
<1>3. ASSUME NEW i \in 1 .. e * n, NEW j \in 1 .. e * n, i # j
      PROVE  g[i] \cap g[j] = {}
  <2>1. CASE Of(i, e) = Of(j, e)
    <3>1. Nth(i, e) # Nth(j, e)
      BY <1>3, <2>1 DEF Tiling
    <3>2. QED
      BY <1>1, <1>2, <2>1, <3>1
  <2>2. CASE Of(i, e) # Of(j, e)
    <3>1. Tile(first, w, Of(i, e)) \cap Tile(first, w, Of(j, e)) = {}
      BY <1>2, <2>2 DEF Tiling
    <3>2. QED
      BY <1>2, <3>1
  <2>3. QED
    BY <2>1, <2>2
<1>4. ASSUME NEW i \in 1 .. e * n
      PROVE  g[i] \subseteq first .. first + w * n - 1
  <2>1. Tile(first, w, Of(i, e)) \subseteq first .. first + w * n - 1
    BY <1>2 DEF Tiling
  <2>2. QED
    BY <1>2, <2>1
<1>5. ASSUME NEW x \in first .. first + w * n - 1
      PROVE  \E i \in 1 .. e * n : x \in g[i]
  <2>1. PICK q \in 0 .. n - 1 : x \in Tile(first, w, q)
    BY DEF Tiling
  <2>2. PICK r \in 1 .. e : x \in F[q][r]
    BY <1>1, <2>1
  <2>3. PICK i \in 1 .. e * n : Of(i, e) = q /\ Nth(i, e) = r
    BY DEF Tiling
  <2>4. QED
    BY <1>2, <2>2, <2>3
<1>6. QED
  BY <1>3, <1>4, <1>5 DEF Holds

(* Fields that follow each other: field i begins off[i] bytes after the first. *)
Follow(E, m, first, off) ==
  /\ m \in Nat /\ first \in Nat /\ off \in [1 .. m + 1 -> Nat] /\ off[1] = 0
  /\ \A i, j \in 1 .. m + 1 : i < j => off[i] <= off[j]
  /\ \A d \in 0 .. off[m + 1] - 1 : \E i \in 1 .. m : off[i] <= d /\ d < off[i + 1]
  /\ \A i \in 1 .. m : E[i] = first + off[i] .. first + off[i + 1] - 1

LEMMA Consecutive ==
  ASSUME NEW m, NEW first, NEW off, NEW E, Follow(E, m, first, off)
  PROVE  Holds(E, m, first, first + off[m + 1] - 1)
<1>1. m \in Nat /\ first \in Nat /\ \A i \in 1 .. m + 1 : off[i] \in Nat
  BY DEF Follow
<1>2. \A i \in 1 .. m : E[i] = first + off[i] .. first + off[i + 1] - 1
  BY DEF Follow
<1>0. /\ off[1] = 0 /\ \A i, j \in 1 .. m + 1 : i < j => off[i] <= off[j]
      /\ \A d \in 0 .. off[m + 1] - 1 : \E i \in 1 .. m : off[i] <= d /\ d < off[i + 1]
  BY DEF Follow
<1>3. ASSUME NEW i \in 1 .. m, NEW j \in 1 .. m, i < j
      PROVE  E[i] \cap E[j] = {}
  <2>1. off[i + 1] <= off[j] /\ off[i + 1] \in Nat /\ off[j] \in Nat
    <3>1. i + 1 = j \/ i + 1 < j
      BY <1>1, <1>3
    <3>2. off[i + 1] \in Nat /\ off[j] \in Nat
      BY <1>1
    <3>3. CASE i + 1 = j
      BY <3>2, <3>3
    <3>4. CASE i + 1 < j
      <4>1. i + 1 \in 1 .. m + 1 /\ j \in 1 .. m + 1
        BY <1>1
      <4>2. QED
        BY <1>0, <3>2, <3>4, <4>1
    <3>5. QED
      BY <3>1, <3>2, <3>3, <3>4
  <2>2. PICK x, y, u, v : x = off[i] /\ y = off[i + 1] /\ u = off[j] /\ v = off[j + 1]
    OBVIOUS
  <2>3. x \in Nat /\ y \in Nat /\ u \in Nat /\ v \in Nat
    BY <1>1, <2>2
  <2>4. y <= u /\ E[i] = first + x .. first + y - 1 /\ E[j] = first + u .. first + v - 1
    BY <1>2, <2>1, <2>2
  <2>5. (first + x .. first + y - 1) \cap (first + u .. first + v - 1) = {}
    BY <1>1, <2>3, <2>4
  <2>6. QED
    BY <2>4, <2>5
<1>4. ASSUME NEW i \in 1 .. m, NEW j \in 1 .. m, i # j
      PROVE  E[i] \cap E[j] = {}
  <2>1. i < j \/ j < i
    BY <1>1, <1>4
  <2>2. QED
    BY <1>3, <2>1
<1>5. ASSUME NEW i \in 1 .. m
      PROVE  E[i] \subseteq first .. first + off[m + 1] - 1
  <2>1. off[i + 1] <= off[m + 1]
    <3>1. i + 1 = m + 1 \/ i + 1 < m + 1
      BY <1>1
    <3>2. i + 1 \in 1 .. m + 1 /\ m + 1 \in 1 .. m + 1 /\ off[i + 1] \in Nat
      BY <1>1
    <3>3. QED
      BY <1>0, <3>1, <3>2
  <2>2. PICK x, y, u : x = off[i] /\ y = off[i + 1] /\ u = off[m + 1]
    OBVIOUS
  <2>3. x \in Nat /\ y \in Nat /\ u \in Nat
    BY <1>1, <2>2
  <2>4. y <= u /\ E[i] = first + x .. first + y - 1
    BY <1>2, <2>1, <2>2
  <2>5. first + x .. first + y - 1 \subseteq first .. first + u - 1
    BY <1>1, <2>3, <2>4
  <2>6. QED
    BY <2>2, <2>4, <2>5
<1>6. ASSUME NEW x \in first .. first + off[m + 1] - 1
      PROVE  \E i \in 1 .. m : x \in E[i]
  <2>1. x - first \in 0 .. off[m + 1] - 1
    BY <1>1
  <2>2. PICK i \in 1 .. m : off[i] <= x - first /\ x - first < off[i + 1]
    BY <1>0, <2>1
  <2>3. PICK y, u : y = off[i] /\ u = off[i + 1]
    OBVIOUS
  <2>4. y \in Nat /\ u \in Nat /\ x \in Int
    BY <1>1, <2>3
  <2>5. y <= x - first /\ x - first < u /\ E[i] = first + y .. first + u - 1
    BY <1>2, <2>2, <2>3
  <2>6. x \in first + y .. first + u - 1
    BY <1>1, <2>4, <2>5
  <2>7. QED
    BY <2>5, <2>6
<1>7. QED
  BY <1>4, <1>5, <1>6 DEF Holds

LEMMA TimeFields ==
  ASSUME NEW first \in Nat
  PROVE  /\ EventTables!TimeEntry(first) \in [1 .. 5 -> SUBSET Int]
         /\ Holds(EventTables!TimeEntry(first), 5, first, first + 24 - 1)
<1>1. PICK off : off = [i \in 1 .. 5 + 1 |-> IF i <= 5 THEN 4 * (i - 1) ELSE 24]
  OBVIOUS
<1>2. off \in [1 .. 5 + 1 -> Nat] /\ off[1] = 0 /\ off[5 + 1] = 24
  BY <1>1
<1>3. \A i, j \in 1 .. 5 + 1 : i < j => off[i] <= off[j]
  BY <1>1
<1>4. ASSUME NEW d \in 0 .. off[5 + 1] - 1
      PROVE  \E i \in 1 .. 5 : off[i] <= d /\ d < off[i + 1]
  <2>1. CASE d < 16
    <3>1. PICK i : i = 1 + (d \div 4)
      OBVIOUS
    <3>2. i \in 1 .. 4 /\ 4 * (i - 1) <= d /\ d < 4 * ((i + 1) - 1)
      BY <1>2, <2>1, <3>1
    <3>3. QED
      BY <1>1, <3>2
  <2>2. CASE ~(d < 16)
    <3>1. off[5] = 16 /\ off[5 + 1] = 24
      BY <1>1
    <3>2. QED
      BY <2>2, <3>1
  <2>3. QED
    BY <2>1, <2>2
<1>5. EventTables!TimeEntry(first) = [i \in 1 .. 5 |-> first + off[i] .. first + off[i + 1] - 1]
  <2>1. ASSUME NEW i \in 1 .. 5
        PROVE  (IF i <= 4 THEN EventTables!Span(first + 4 * (i - 1), 4)
                ELSE EventTables!Span(first + 16, 8))
                  = first + off[i] .. first + off[i + 1] - 1
    <3>1. CASE i <= 4
      <4>1. off[i] = 4 * (i - 1) /\ off[i + 1] = 4 * (i - 1) + 4
        BY <1>1, <3>1
      <4>2. first + (4 * (i - 1) + 4) - 1 = first + 4 * (i - 1) + 4 - 1
        OBVIOUS
      <4>3. QED
        BY <3>1, <4>1, <4>2 DEF EventTables!Span
    <3>2. CASE i = 5
      <4>1. off[i] = 16 /\ off[i + 1] = 24
        BY <1>1, <3>2
      <4>2. first + 24 - 1 = first + 16 + 8 - 1
        OBVIOUS
      <4>3. QED
        BY <3>2, <4>1, <4>2 DEF EventTables!Span
    <3>3. QED
      BY <3>1, <3>2
  <2>2. QED
    BY <2>1 DEF EventTables!TimeEntry
<1>6. PICK E : E = EventTables!TimeEntry(first)
  OBVIOUS
<1>7. \A i \in 1 .. 5 : E[i] = first + off[i] .. first + off[i + 1] - 1
  BY <1>5, <1>6
<1>8. Follow(E, 5, first, off)
  BY <1>2, <1>3, <1>4, <1>7 DEF Follow
<1>9. Holds(E, 5, first, first + 24 - 1)
  BY <1>2, <1>8, Consecutive
<1>10. \A i \in 1 .. 5 : first + off[i] .. first + off[i + 1] - 1 \in SUBSET Int
  BY <1>2
<1>11. E \in [1 .. 5 -> SUBSET Int]
  BY <1>5, <1>6, <1>10
<1>12. QED
  BY <1>6, <1>9, <1>11

LEMMA HourFields ==
  ASSUME NEW first \in Nat
  PROVE  /\ EventTables!WeatherEntry(first) \in [1 .. 11 -> SUBSET Int]
         /\ Holds(EventTables!WeatherEntry(first), 11, first, first + 68 - 1)
<1>1. PICK off : off = [i \in 1 .. 11 + 1 |-> IF i <= 5 THEN 4 * (i - 1) ELSE 20 + 8 * (i - 6)]
  OBVIOUS
<1>2. off \in [1 .. 11 + 1 -> Nat] /\ off[1] = 0 /\ off[11 + 1] = 68
  BY <1>1
<1>3. \A i, j \in 1 .. 11 + 1 : i < j => off[i] <= off[j]
  BY <1>1
<1>4. ASSUME NEW d \in 0 .. off[11 + 1] - 1
      PROVE  \E i \in 1 .. 11 : off[i] <= d /\ d < off[i + 1]
  <2>1. CASE d < 20
    <3>1. PICK i : i = 1 + (d \div 4)
      OBVIOUS
    <3>2. i \in 1 .. 5 /\ 4 * (i - 1) <= d /\ d < 4 * (i - 1) + 4
      BY <1>2, <2>1, <3>1
    <3>3. off[i] = 4 * (i - 1) /\ off[i + 1] = 4 * (i - 1) + 4
      BY <1>1, <3>2
    <3>4. QED
      BY <3>2, <3>3
  <2>2. CASE ~(d < 20)
    <3>1. PICK i : i = 6 + ((d - 20) \div 8)
      OBVIOUS
    <3>2. i \in 6 .. 11 /\ 20 + 8 * (i - 6) <= d /\ d < 20 + 8 * (i - 6) + 8
      BY <1>2, <2>2, <3>1
    <3>3. off[i] = 20 + 8 * (i - 6) /\ off[i + 1] = 20 + 8 * (i - 6) + 8
      BY <1>1, <3>2
    <3>4. QED
      BY <3>2, <3>3
  <2>3. QED
    BY <2>1, <2>2
<1>5. EventTables!WeatherEntry(first)
        = [i \in 1 .. 11 |-> first + off[i] .. first + off[i + 1] - 1]
  <2>1. ASSUME NEW i \in 1 .. 11
        PROVE  (IF i <= 5 THEN EventTables!Span(first + 4 * (i - 1), 4)
                ELSE EventTables!Span(first + 20 + 8 * (i - 6), 8))
                  = first + off[i] .. first + off[i + 1] - 1
    <3>1. CASE i <= 5
      <4>1. off[i] = 4 * (i - 1) /\ off[i + 1] = 4 * (i - 1) + 4
        BY <1>1, <3>1
      <4>2. first + (4 * (i - 1) + 4) - 1 = first + 4 * (i - 1) + 4 - 1
        OBVIOUS
      <4>3. QED
        BY <3>1, <4>1, <4>2 DEF EventTables!Span
    <3>2. CASE i > 5
      <4>1. off[i] = 20 + 8 * (i - 6) /\ off[i + 1] = 20 + 8 * (i - 6) + 8
        BY <1>1, <3>2
      <4>2. /\ first + (20 + 8 * (i - 6) + 8) - 1 = first + 20 + 8 * (i - 6) + 8 - 1
            /\ first + (20 + 8 * (i - 6)) = first + 20 + 8 * (i - 6)
        OBVIOUS
      <4>3. QED
        BY <3>2, <4>1, <4>2 DEF EventTables!Span
    <3>3. QED
      BY <3>1, <3>2
  <2>2. QED
    BY <2>1 DEF EventTables!WeatherEntry
<1>6. PICK E : E = EventTables!WeatherEntry(first)
  OBVIOUS
<1>7. \A i \in 1 .. 11 : E[i] = first + off[i] .. first + off[i + 1] - 1
  BY <1>5, <1>6
<1>8. Follow(E, 11, first, off)
  BY <1>2, <1>3, <1>4, <1>7 DEF Follow
<1>9. Holds(E, 11, first, first + 68 - 1)
  BY <1>2, <1>8, Consecutive
<1>10. \A i \in 1 .. 11 : first + off[i] .. first + off[i + 1] - 1 \in SUBSET Int
  BY <1>2
<1>11. E \in [1 .. 11 -> SUBSET Int]
  BY <1>5, <1>6, <1>10
<1>12. QED
  BY <1>6, <1>9, <1>11

(* The fields of the packet of a daytimer with n times, or of n hours. *)
LEMMA FieldsOfDaytimer ==
  ASSUME NEW n \in Nat, NEW fs, fs = EventTables!DaytimerFields(n)
  PROVE  /\ \A f, h \in DOMAIN fs : f # h => fs[f] \cap fs[h] = {}
         /\ UNION EventTables!Range(fs) =
              EventTables!Span(0, 28 + 24 * n) \ EventTables!Span(24, 4)
<1>1. PICK F : F = [q \in 0 .. n - 1 |-> EventTables!TimeEntry(28 + 24 * q)]
  OBVIOUS
<1>2. PICK g : g = [i \in 1 .. 5 * n |-> F[Of(i, 5)][Nth(i, 5)]]
  OBVIOUS
<1>3. Tiling(5, 24, n, 28)
  BY Tiled DEF Entry
<1>4. ASSUME NEW q \in 0 .. n - 1
      PROVE  F[q] \in [1 .. 5 -> SUBSET Int] /\ Holds(F[q], 5, 28 + 24 * q, 28 + 24 * q + 24 - 1)
  <2>1. PICK first \in Nat : first = 28 + 24 * q
    OBVIOUS
  <2>2. 28 + 24 * q + 24 - 1 = first + 24 - 1 /\ F[q] = EventTables!TimeEntry(first)
    BY <1>1, <2>1
  <2>3. QED
    BY <2>1, <2>2, TimeFields
<1>5. F \in [0 .. n - 1 -> [1 .. 5 -> SUBSET Int]]
  BY <1>1, <1>4
<1>6. /\ g \in [1 .. 5 * n -> SUBSET Int]
      /\ Holds(g, 5 * n, 28, 28 + 24 * n - 1)
  <2>1. \A q \in 0 .. n - 1 : Holds(F[q], 5, 28 + 24 * q, 28 + 24 * q + 24 - 1)
    BY <1>4
  <2>2. Spread(g, F, 5, 24, n, 28)
    BY <1>2, <1>3, <2>1 DEF Spread
  <2>3. \A i \in 1 .. 5 * n : F[Of(i, 5)][Nth(i, 5)] \in SUBSET Int
    <3>1. \A i \in 1 .. 5 * n : Of(i, 5) \in 0 .. n - 1 /\ Nth(i, 5) \in 1 .. 5
      BY <1>3 DEF Tiling
    <3>2. QED
      BY <1>5, <3>1
  <2>4. QED
    BY <1>2, <2>2, <2>3, Tiles
<1>7. fs = << EventTables!Uuid(0), EventTables!Span(16, 8) >> \o g
  <2>1. \A i \in 1 .. 5 * n :
          EventTables!TimeEntry(28 + 24 * ((i - 1) \div 5))[1 + ((i - 1) % 5)] = g[i]
    <3>1. ASSUME NEW i \in 1 .. 5 * n
          PROVE  EventTables!TimeEntry(28 + 24 * ((i - 1) \div 5))[1 + ((i - 1) % 5)] = g[i]
      <4>1. Of(i, 5) \in 0 .. n - 1
        BY <1>3 DEF Tiling
      <4>2. F[Of(i, 5)] = EventTables!TimeEntry(28 + 24 * Of(i, 5))
        BY <1>1, <4>1
      <4>3. QED
        BY <1>2, <4>2 DEF Of, Nth
    <3>2. QED
      BY <3>1
  <2>2. g = [i \in 1 .. 5 * n |->
              EventTables!TimeEntry(28 + 24 * ((i - 1) \div 5))[1 + ((i - 1) % 5)]]
    BY <1>2, <2>1
  <2>3. QED
    BY <2>2 DEF EventTables!DaytimerFields
<1>8. Listed(fs, 8, 5 * n, g)
  <2>1. 8 \in Nat /\ 5 * n \in Nat
    OBVIOUS
  <2>2. QED
    BY ONLY <2>1, <1>6, <1>7, FieldsListed, Zenon
<1>9. 20 + 8 = 28 /\ 16 + 8 = 24 /\ 28 + 24 * n \in Nat /\ 5 * n \in Nat /\ 28 <= 28 + 24 * n
      /\ 8 \in Nat
  OBVIOUS
<1>10. QED
  <2>1. PICK len, m, k : len = 28 + 24 * n /\ m = 5 * n /\ k = 8
    OBVIOUS
  <2>2. /\ k \in Nat /\ m \in Nat /\ len \in Nat /\ 20 + k <= len
        /\ g \in [1 .. m -> SUBSET Int] /\ Holds(g, m, 20 + k, len - 1)
        /\ Listed(fs, k, m, g)
    BY <1>6, <1>8, <1>9, <2>1
  <2>3. /\ \A f, h \in DOMAIN fs : f # h => fs[f] \cap fs[h] = {}
        /\ UNION EventTables!Range(fs) =
             EventTables!Span(0, len) \ EventTables!Span(16 + k, 4)
    BY ONLY <2>2, FieldsOfEntries
  <2>4. QED
    BY <1>9, <2>1, <2>3

LEMMA FieldsOfWeather ==
  ASSUME NEW n \in Nat, NEW fs, fs = EventTables!WeatherFields(n)
  PROVE  /\ \A f, h \in DOMAIN fs : f # h => fs[f] \cap fs[h] = {}
         /\ UNION EventTables!Range(fs) =
              EventTables!Span(0, 24 + 68 * n) \ EventTables!Span(20, 4)
<1>1. PICK F : F = [q \in 0 .. n - 1 |-> EventTables!WeatherEntry(24 + 68 * q)]
  OBVIOUS
<1>2. PICK g : g = [i \in 1 .. 11 * n |-> F[Of(i, 11)][Nth(i, 11)]]
  OBVIOUS
<1>3. Tiling(11, 68, n, 24)
  BY Tiled DEF Entry
<1>4. ASSUME NEW q \in 0 .. n - 1
      PROVE  /\ F[q] \in [1 .. 11 -> SUBSET Int]
             /\ Holds(F[q], 11, 24 + 68 * q, 24 + 68 * q + 68 - 1)
  <2>1. PICK first \in Nat : first = 24 + 68 * q
    OBVIOUS
  <2>2. 24 + 68 * q + 68 - 1 = first + 68 - 1 /\ F[q] = EventTables!WeatherEntry(first)
    BY <1>1, <2>1
  <2>3. QED
    BY <2>1, <2>2, HourFields
<1>5. F \in [0 .. n - 1 -> [1 .. 11 -> SUBSET Int]]
  BY <1>1, <1>4
<1>6. /\ g \in [1 .. 11 * n -> SUBSET Int]
      /\ Holds(g, 11 * n, 24, 24 + 68 * n - 1)
  <2>1. \A q \in 0 .. n - 1 : Holds(F[q], 11, 24 + 68 * q, 24 + 68 * q + 68 - 1)
    BY <1>4
  <2>2. Spread(g, F, 11, 68, n, 24)
    BY <1>2, <1>3, <2>1 DEF Spread
  <2>3. \A i \in 1 .. 11 * n : F[Of(i, 11)][Nth(i, 11)] \in SUBSET Int
    <3>1. \A i \in 1 .. 11 * n : Of(i, 11) \in 0 .. n - 1 /\ Nth(i, 11) \in 1 .. 11
      BY <1>3 DEF Tiling
    <3>2. QED
      BY <1>5, <3>1
  <2>4. QED
    BY <1>2, <2>2, <2>3, Tiles
<1>7. fs = << EventTables!Uuid(0), EventTables!Span(16, 4) >> \o g
  <2>1. \A i \in 1 .. 11 * n :
          EventTables!WeatherEntry(24 + 68 * ((i - 1) \div 11))[1 + ((i - 1) % 11)] = g[i]
    <3>1. ASSUME NEW i \in 1 .. 11 * n
          PROVE  EventTables!WeatherEntry(24 + 68 * ((i - 1) \div 11))[1 + ((i - 1) % 11)]
                   = g[i]
      <4>1. Of(i, 11) \in 0 .. n - 1
        BY <1>3 DEF Tiling
      <4>2. F[Of(i, 11)] = EventTables!WeatherEntry(24 + 68 * Of(i, 11))
        BY <1>1, <4>1
      <4>3. QED
        BY <1>2, <4>2 DEF Of, Nth
    <3>2. QED
      BY <3>1
  <2>2. g = [i \in 1 .. 11 * n |->
              EventTables!WeatherEntry(24 + 68 * ((i - 1) \div 11))[1 + ((i - 1) % 11)]]
    BY <1>2, <2>1
  <2>3. QED
    BY <2>2 DEF EventTables!WeatherFields
<1>8. Listed(fs, 4, 11 * n, g)
  <2>1. 4 \in Nat /\ 11 * n \in Nat
    OBVIOUS
  <2>2. QED
    BY ONLY <2>1, <1>6, <1>7, FieldsListed, Zenon
<1>9. 20 + 4 = 24 /\ 16 + 4 = 20 /\ 24 + 68 * n \in Nat /\ 11 * n \in Nat /\ 24 <= 24 + 68 * n
      /\ 4 \in Nat
  OBVIOUS
<1>10. QED
  <2>1. PICK len, m, k : len = 24 + 68 * n /\ m = 11 * n /\ k = 4
    OBVIOUS
  <2>2. /\ k \in Nat /\ m \in Nat /\ len \in Nat /\ 20 + k <= len
        /\ g \in [1 .. m -> SUBSET Int] /\ Holds(g, m, 20 + k, len - 1)
        /\ Listed(fs, k, m, g)
    BY <1>6, <1>8, <1>9, <2>1
  <2>3. /\ \A f, h \in DOMAIN fs : f # h => fs[f] \cap fs[h] = {}
        /\ UNION EventTables!Range(fs) =
             EventTables!Span(0, len) \ EventTables!Span(16 + k, 4)
    BY ONLY <2>2, FieldsOfEntries
  <2>4. QED
    BY <1>9, <2>1, <2>3

LEMMA FieldsOfValue ==
  LET fs == EventTables!ValueFields IN
  /\ \A f, h \in DOMAIN fs : f # h => fs[f] \cap fs[h] = {}
  /\ UNION EventTables!Range(fs) = EventTables!Span(0, 24)
<1>1. EventTables!Uuid(0) = EventTables!Span(0, 16)
  BY Uuids16
<1>2. /\ EventTables!Span(0, 16) = 0 .. 15 /\ EventTables!Span(16, 8) = 16 .. 23
      /\ EventTables!Span(0, 24) = 0 .. 23
  BY DEF EventTables!Span
<1>3. PICK x, y : x = 0 .. 15 /\ y = 16 .. 23
  OBVIOUS
<1>4. EventTables!ValueFields = <<x, y>>
  BY <1>1, <1>2, <1>3 DEF EventTables!ValueFields
<1>5. x \cap y = {} /\ x \cup y = 0 .. 23
  BY <1>3
<1>6. EventTables!Range(<<x, y>>) = {x, y}
  BY DEF EventTables!Range
<1>7. \A f, h \in DOMAIN <<x, y>> : f # h => <<x, y>>[f] \cap <<x, y>>[h] = {}
  BY <1>5
<1>8. QED
  BY <1>2, <1>4, <1>5, <1>6, <1>7

LEMMA FieldsOfText ==
  ASSUME NEW n \in Nat, NEW fs, fs = EventTables!TextFields(n)
  PROVE  /\ \A f, h \in DOMAIN fs : f # h => fs[f] \cap fs[h] = {}
         /\ UNION EventTables!Range(fs) =
              EventTables!Span(0, 36 + n) \ EventTables!Span(32, 4)
<1>1. PICK x, y, z : x = 0 .. 15 /\ y = 16 .. 31 /\ z = 36 .. 35 + n
  OBVIOUS
<1>2. EventTables!Uuid(0) = x /\ EventTables!Uuid(16) = y
  <2>1. EventTables!Uuid(0) = EventTables!Span(0, 16) /\ EventTables!Uuid(16) = EventTables!Span(16, 16)
    BY Uuids16
  <2>2. EventTables!Span(0, 16) = 0 .. 15 /\ EventTables!Span(16, 16) = 16 .. 31
    BY DEF EventTables!Span
  <2>3. QED
    BY <1>1, <2>1, <2>2
<1>3. EventTables!Span(36, n) = z
  <2>1. 36 + n - 1 = 35 + n
    OBVIOUS
  <2>2. QED
    BY <1>1, <2>1 DEF EventTables!Span
<1>4. fs = <<x, y, z>>
  BY <1>2, <1>3 DEF EventTables!TextFields
<1>5. x \cap y = {} /\ x \cap z = {} /\ y \cap z = {}
  BY <1>1
<1>6. EventTables!Range(<<x, y, z>>) = {x, y, z}
  BY DEF EventTables!Range
<1>7. \A f, h \in DOMAIN <<x, y, z>> : f # h => <<x, y, z>>[f] \cap <<x, y, z>>[h] = {}
  BY <1>5
<1>8. UNION {x, y, z} = x \cup y \cup z
  OBVIOUS
<1>9. x \cup y \cup z = (0 .. 35 + n) \ (32 .. 35)
  <2>1. PICK A, B : A = x \cup y \cup z /\ B = (0 .. 35 + n) \ (32 .. 35)
    OBVIOUS
  <2>2. \A o \in Int : o \in A <=> o \in B
    BY <1>1, <2>1
  <2>3. A \subseteq Int /\ B \subseteq Int
    BY <1>1, <2>1
  <2>4. A = B
    BY <2>2, <2>3
  <2>5. QED
    BY <2>1, <2>4
<1>10. EventTables!Span(0, 36 + n) = 0 .. 35 + n /\ EventTables!Span(32, 4) = 32 .. 35
  <2>1. 0 + (36 + n) - 1 = 35 + n
    OBVIOUS
  <2>2. QED
    BY <2>1 DEF EventTables!Span
<1>11. QED
  BY <1>4, <1>6, <1>7, <1>8, <1>9, <1>10

LEMMA FieldsFitFollows ==
  ASSUME Bounds, TablesInv
  PROVE  EventTables!FieldsFit
<1>1. ASSUME NEW i \in DOMAIN packets
      PROVE  LET fs == EventTables!Fields(packets[i].count)
                 count == IF kind = "value" THEN {}
                          ELSE EventTables!Span(EventTables!CountAt[kind], 4)
             IN  /\ \A f, g \in DOMAIN fs : f # g => fs[f] \cap fs[g] = {}
                 /\ UNION EventTables!Range(fs)
                      = EventTables!Span(0, Len(packets[i].bytes)) \ count
  <2>1. PICK n, l : n = table[i] /\ l = Len(packets[i].bytes)
    OBVIOUS
  <2>2. /\ n \in Nat /\ l = Length(i) /\ i \in 1 .. Len(table)
        /\ packets[i].count = IF kind = "value" THEN 0 ELSE n
    BY <2>1, Raised, Widths DEF TablesInv
  <2>3. CASE kind = "value"
    <3>1. l = 24 /\ EventTables!Fields(packets[i].count) = EventTables!ValueFields
      BY <2>2, <2>3 DEF Length, Width, EventTables!Size, EventTables!Fields
    <3>2. QED
      BY <2>1, <2>3, <3>1, FieldsOfValue
  <2>4. CASE kind = "text"
    <3>1. l = 36 + n /\ EventTables!Fields(packets[i].count) = EventTables!TextFields(n)
      <4>1. Length(i) = 36 + n
        BY <2>1, <2>2, <2>4, Lengths DEF TablesInv
      <4>2. QED
        BY <2>2, <2>4, <4>1 DEF EventTables!Fields
    <3>2. EventTables!CountAt[kind] = 32
      BY <2>4 DEF EventTables!CountAt
    <3>3. QED
      BY <2>1, <2>2, <2>4, <3>1, <3>2, FieldsOfText
  <2>5. CASE kind = "daytimer"
    <3>1. l = 28 + 24 * n /\ EventTables!Fields(packets[i].count) = EventTables!DaytimerFields(n)
      BY <2>1, <2>2, <2>5 DEF Length, Width, EventTables!Size,
         EventTables!Fields
    <3>2. EventTables!CountAt[kind] = 24
      BY <2>5 DEF EventTables!CountAt
    <3>3. QED
      BY <2>1, <2>2, <2>5, <3>1, <3>2, FieldsOfDaytimer
  <2>6. CASE kind = "weather"
    <3>1. l = 24 + 68 * n /\ EventTables!Fields(packets[i].count) = EventTables!WeatherFields(n)
      BY <2>1, <2>2, <2>6 DEF Length, Width, EventTables!Size,
         EventTables!Fields
    <3>2. EventTables!CountAt[kind] = 20
      BY <2>6 DEF EventTables!CountAt
    <3>3. QED
      BY <2>1, <2>2, <2>6, <3>1, <3>2, FieldsOfWeather
  <2>7. QED
    BY <2>3, <2>4, <2>5, <2>6 DEF TablesInv, TableTypes, EventTables!Kinds
<1>2. QED
  BY <1>1 DEF EventTables!FieldsFit

-----------------------------------------------------------------------------
(* Framing: the inductive invariant *)

Identifiers == Tables \cup Signals \cup {"text"}
Types == {"http", "header", "table", "text", "close"}
Messages == [type : Types, of : Identifiers \cup Types]
Places == [msg : Nat, at : Nat]
Outs == [as : Identifiers \cup Types, msg : Nat]

SizeOf(m) == Framing!Size[sent[m].type]

(* A byte of a message that has been sent. *)
IsSent(byte) == byte.msg \in 1 .. Len(sent) /\ byte.at \in 1 .. SizeOf(byte.msg)
AllSent(bytes) == \A i \in 1 .. Len(bytes) : IsSent(bytes[i])

StreamTypes ==
  /\ sent \in Seq(Messages) /\ out \in Seq(Outs)
  /\ unread \in Seq(Places) /\ buffer \in Seq(Places)
  /\ http \in Seq(Places) /\ websocket \in Seq(Places)
  /\ identifier \in Identifiers /\ pieces \subseteq DOMAIN sent
  /\ stopped \in BOOLEAN /\ connections \in Nat
  /\ AllSent(unread) /\ AllSent(buffer) /\ AllSent(http) /\ AllSent(websocket)
  /\ processed \in 0 .. Len(buffer)
  /\ lpc = IF processed < Len(buffer) THEN "loop" ELSE "read"

(* What the Miniserver sends: the responses first, a table after its header,
   and nothing after a close frame. *)
InOrder ==
  \A m \in 1 .. Len(sent) :
    /\ sent[m].type = "http" <=> m <= Handshake
    /\ sent[m].type = "http" => sent[m] = Framing!Http
    /\ sent[m].type = "table" =>
         m > 1 /\ sent[m - 1].type = "header" /\ sent[m - 1].of = sent[m].of
    /\ sent[m].type = "header" => sent[m].of \in Identifiers
    /\ sent[m].type = "close" => m = Len(sent) /\ sent[m] = Framing!Close

(* Message m begins after the byte s[m] of the connection. *)
Starts(s) ==
  /\ s \in [1 .. Len(sent) + 1 -> Nat] /\ s[1] = 0
  /\ \A m \in 1 .. Len(sent) : s[m + 1] = s[m] + SizeOf(m)
  /\ \A l, m \in 1 .. Len(sent) + 1 : l < m => s[l] + SizeOf(l) <= s[m]

Place(s, byte) == s[byte.msg] + byte.at

(* The place up to which listen() has come. *)
Reached(s) == s[Len(sent) + 1] - Len(unread) - Len(buffer) + processed

(* Nothing is lost: the bytes are where they were sent. *)
Placed(s) ==
  /\ \A i \in 1 .. Len(unread) :
       Place(s, unread[i]) = s[Len(sent) + 1] - Len(unread) + i
  /\ \A i \in 1 .. Len(buffer) :
       Place(s, buffer[i]) = s[Len(sent) + 1] - Len(unread) - Len(buffer) + i
  /\ \A i \in 1 .. Len(websocket) :
       Place(s, websocket[i]) = Reached(s) - Len(websocket) + i

(* The next message begins where the parser does, and it is not complete. *)
AtNext(s) ==
  /\ Reached(s) - Len(websocket) = s[Len(out) + 1]
  /\ websocket # <<>> => Len(out) < Len(sent) /\ Len(websocket) < SizeOf(Len(out) + 1)

(* A response is the only message on its way, and it is read as a whole. *)
HttpAlone ==
  Len(out) < Len(sent) /\ sent[Len(out) + 1].type = "http" =>
    /\ Len(sent) = Len(out) + 1 /\ websocket = <<>>
    /\ \/ lpc = "read" /\ Len(unread) = 3
       \/ unread = <<>> /\ processed = 0 /\ Len(buffer) = 3

(* The last message was a close frame, with which the connection ends. *)
Closed == stopped /\ lpc = "read"

Straight ==
  /\ Len(out) <= Len(sent) /\ http = <<>>
  /\ \A i \in 1 .. Len(out) :
       /\ out[i].msg = i
       /\ sent[i].type = "table" => out[i].as = sent[i].of
  /\ Len(out) > 0 /\ sent[Len(out)].type = "header" => identifier = sent[Len(out)].of
  /\ HttpAlone
  /\ Closed \/ \E s : Starts(s) /\ Placed(s) /\ AtNext(s)

(* The last response has been read in pieces: as long as its first bytes are fed
   again, what is fed is not the response, and later nothing begins. *)
FedAgain ==
  \/ /\ http = <<>> \/ http = buffer
     /\ http = <<>> => websocket = <<>>
     /\ processed = 0 /\ Len(buffer) \in 1 .. 2
     /\ \A i \in 1 .. Len(buffer) : buffer[i] = [msg |-> Len(sent), at |-> i]
  \/ /\ Len(http) = 3 /\ \A i \in 1 .. 3 : http[i].at = IF i = 2 THEN 2 ELSE 1
     /\ processed = 1 /\ Len(buffer) = 2 /\ buffer[2].at = 2
  \/ /\ Len(http) > 1 /\ http[2].at = 1
     /\ lpc = "loop" => \A i \in 1 .. Len(buffer) : buffer[i].at > 1
  \/ http = <<>> /\ \A i \in processed + 1 .. Len(buffer) : buffer[i].at > 1

Lost ==
  /\ Len(sent) > 0 /\ Len(sent) <= Handshake /\ Len(sent) - 1 <= Len(out)
  /\ \A i \in 1 .. Len(out) : out[i].msg = IF i < Len(sent) THEN i ELSE 0
  /\ \A i \in 1 .. Len(unread) : unread[i].at > 1
  /\ FedAgain

FramingInv ==
  StreamTypes /\ InOrder /\ IF Framing!Confused THEN Lost ELSE Straight

(* What a parser consumes: no more than it needs for a message. *)
Fed(fed, bytes, n) == fed \o SubSeq(bytes, 1, n)

LEMMA HttpConsumed ==
  ASSUME NEW fed, NEW bytes, Len(bytes) \in Nat,
         NEW n \in Framing!Consumed(fed, bytes, Framing!HttpComplete)
  PROVE  /\ n \in 0 .. Len(bytes)
         /\ n = Len(bytes) \/ Framing!HttpComplete(Fed(fed, bytes, n))
         /\ \A e \in 0 .. n - 1 : ~Framing!HttpComplete(Fed(fed, bytes, e))
<1> DEFINE C(k) == Framing!HttpComplete(Fed(fed, bytes, k))
           ends == {k \in 0 .. Len(bytes) : C(k)}
<1>1. n \in {k \in 0 .. Len(bytes) :
               (\A end \in ends : k <= end) /\ k \in ends \cup {Len(bytes)}}
  BY DEF Framing!Consumed, Fed
<1> HIDE DEF C
<1>2. \A e \in 0 .. n - 1 : ~C(e)
  BY <1>1
<1>3. n \in 0 .. Len(bytes) /\ (n = Len(bytes) \/ C(n))
  BY <1>1
<1>4. QED
  BY <1>2, <1>3 DEF C

LEMMA FrameConsumed ==
  ASSUME NEW fed, NEW bytes, Len(bytes) \in Nat,
         NEW n \in Framing!Consumed(fed, bytes, Framing!FrameComplete)
  PROVE  /\ n \in 0 .. Len(bytes)
         /\ n = Len(bytes) \/ Framing!FrameComplete(Fed(fed, bytes, n))
         /\ \A e \in 0 .. n - 1 : ~Framing!FrameComplete(Fed(fed, bytes, e))
<1> DEFINE C(k) == Framing!FrameComplete(Fed(fed, bytes, k))
           ends == {k \in 0 .. Len(bytes) : C(k)}
<1>1. n \in {k \in 0 .. Len(bytes) :
               (\A end \in ends : k <= end) /\ k \in ends \cup {Len(bytes)}}
  BY DEF Framing!Consumed, Fed
<1> HIDE DEF C
<1>2. \A e \in 0 .. n - 1 : ~C(e)
  BY <1>1
<1>3. n \in 0 .. Len(bytes) /\ (n = Len(bytes) \/ C(n))
  BY <1>1
<1>4. QED
  BY <1>2, <1>3 DEF C

LEMMA FedBytes ==
  ASSUME NEW fed \in Seq(Places), NEW bytes \in Seq(Places), NEW n \in 0 .. Len(bytes)
  PROVE  /\ Fed(fed, bytes, n) \in Seq(Places) /\ Len(Fed(fed, bytes, n)) = Len(fed) + n
         /\ DOMAIN Fed(fed, bytes, n) = 1 .. Len(fed) + n /\ Len(fed) \in Nat
         /\ \A i \in 1 .. Len(fed) : Fed(fed, bytes, n)[i] = fed[i]
         /\ \A i \in 1 .. n : Fed(fed, bytes, n)[Len(fed) + i] = bytes[i]
<1>1. PICK u : u = SubSeq(bytes, 1, n)
  OBVIOUS
<1>2. u \in Seq(Places) /\ Len(u) = n /\ \A i \in 1 .. n : u[i] = bytes[i]
  <2>1. 1 \in 1 .. Len(bytes) + 1 /\ n \in 1 - 1 .. Len(bytes)
    OBVIOUS
  <2>2. /\ SubSeq(bytes, 1, n) \in Seq(Places) /\ Len(SubSeq(bytes, 1, n)) = n - 1 + 1
        /\ \A i \in 1 .. n - 1 + 1 : SubSeq(bytes, 1, n)[i] = bytes[1 + i - 1]
    BY <2>1, Parts
  <2>3. n - 1 + 1 = n /\ \A i \in 1 .. n : 1 + i - 1 = i
    OBVIOUS
  <2>4. QED
    BY <1>1, <2>2, <2>3
<1>3. /\ fed \o u \in Seq(Places) /\ Len(fed \o u) = Len(fed) + Len(u)
      /\ \A i \in 1 .. Len(fed) : (fed \o u)[i] = fed[i]
      /\ \A i \in 1 .. Len(u) : (fed \o u)[Len(fed) + i] = u[i]
      /\ Len(fed) \in Nat
  <2>1. fed \in Seq(Places) /\ u \in Seq(Places)
    BY <1>2
  <2>2. QED
    BY ONLY <2>1, Joined
<1>4. PICK v : v = fed \o u
  OBVIOUS
<1>5. DOMAIN v = 1 .. Len(v)
  BY <1>3, <1>4
<1>6. QED
  BY <1>1, <1>2, <1>3, <1>4, <1>5 DEF Fed

LEMMA RestBytes ==
  ASSUME buffer \in Seq(Places), NEW n \in 0 .. Len(buffer)
  PROVE  /\ Framing!Rest(n) \in Seq(Places) /\ Len(Framing!Rest(n)) = Len(buffer) - n
         /\ Len(buffer) \in Nat
         /\ \A i \in 1 .. Len(buffer) - n : Framing!Rest(n)[i] = buffer[n + i]
<1>1. PICK u, x, y : u = buffer /\ x = n + 1 /\ y = Len(buffer)
  OBVIOUS
<1>2. u \in Seq(Places) /\ x \in 1 .. Len(u) + 1 /\ y \in x - 1 .. Len(u)
  BY <1>1
<1>3. /\ SubSeq(u, x, y) \in Seq(Places) /\ Len(SubSeq(u, x, y)) = y - x + 1
      /\ \A i \in 1 .. y - x + 1 : SubSeq(u, x, y)[i] = u[x + i - 1]
  BY ONLY <1>2, Parts
<1>4. y - x + 1 = Len(buffer) - n /\ \A i \in 1 .. Len(buffer) - n : x + i - 1 = n + i
  BY <1>1
<1>5. QED
  BY <1>1, <1>3, <1>4 DEF Framing!Rest

LEMMA Sizes ==
  ASSUME StreamTypes, NEW m \in 1 .. Len(sent)
  PROVE  /\ SizeOf(m) \in 1 .. 3 /\ sent[m] \in Messages
         /\ sent[m].type = "http" => SizeOf(m) = 3
         /\ Len(sent) \in Nat /\ DOMAIN sent = 1 .. Len(sent)
<1>1. sent[m] \in Messages
  BY DEF StreamTypes
<1>2. sent[m].type \in Types
  BY <1>1 DEF Messages
<1>3. QED
  BY <1>1, <1>2 DEF SizeOf, Framing!Size, Types, StreamTypes

LEMMA StreamBytes ==
  ASSUME StreamTypes
  PROVE  /\ Len(unread) \in Nat /\ Len(buffer) \in Nat /\ Len(websocket) \in Nat
         /\ Len(http) \in Nat /\ Len(out) \in Nat /\ processed \in Nat
         /\ \A i \in 1 .. Len(unread) : unread[i] \in Places /\ IsSent(unread[i])
         /\ \A i \in 1 .. Len(buffer) : buffer[i] \in Places /\ IsSent(buffer[i])
         /\ \A i \in 1 .. Len(websocket) : websocket[i] \in Places /\ IsSent(websocket[i])
<1>1. /\ Len(unread) \in Nat /\ Len(buffer) \in Nat /\ Len(websocket) \in Nat
      /\ Len(http) \in Nat /\ Len(out) \in Nat /\ processed \in Nat
  BY DEF StreamTypes
<1>2. \A i \in 1 .. Len(unread) : unread[i] \in Places /\ IsSent(unread[i])
  BY DEF StreamTypes, AllSent
<1>3. \A i \in 1 .. Len(buffer) : buffer[i] \in Places /\ IsSent(buffer[i])
  BY DEF StreamTypes, AllSent
<1>4. \A i \in 1 .. Len(websocket) : websocket[i] \in Places /\ IsSent(websocket[i])
  BY DEF StreamTypes, AllSent
<1>5. QED
  BY <1>1, <1>2, <1>3, <1>4

(* Which byte is at a place. *)
LEMMA ByteAt ==
  ASSUME StreamTypes, NEW s, Starts(s), NEW byte \in Places, IsSent(byte),
         NEW m \in 1 .. Len(sent), NEW o \in 1 .. SizeOf(m), Place(s, byte) = s[m] + o
  PROVE  byte = [msg |-> m, at |-> o]
<1>1. PICK l, p : l = byte.msg /\ p = byte.at
  OBVIOUS
<1>2. l \in 1 .. Len(sent) /\ p \in 1 .. SizeOf(l) /\ s[l] + p = s[m] + o
  BY <1>1 DEF IsSent, Place
<1>3. /\ SizeOf(l) \in Nat /\ SizeOf(m) \in Nat /\ Len(sent) \in Nat
      /\ s[l] \in Nat /\ s[m] \in Nat
  <2>1. SizeOf(l) \in 1 .. 3 /\ SizeOf(m) \in 1 .. 3 /\ Len(sent) \in Nat
    BY <1>2, Sizes
  <2>2. s[l] \in Nat /\ s[m] \in Nat
    BY <1>2, <2>1 DEF Starts
  <2>3. QED
    BY <2>1, <2>2
<1>4. ~(l < m)
  BY <1>2, <1>3 DEF Starts
<1>5. ~(m < l)
  BY <1>2, <1>3 DEF Starts
<1>6. l = m /\ p = o
  BY <1>2, <1>3, <1>4, <1>5
<1>7. byte = [msg |-> byte.msg, at |-> byte.at]
  BY DEF Places
<1>8. QED
  BY <1>1, <1>6, <1>7

(* A message that is whole is handed on as the one it is. *)
LEMMA WholeIsHandedOn ==
  ASSUME StreamTypes, NEW m \in 1 .. Len(sent), NEW fed \in Seq(Places),
         Len(fed) = SizeOf(m), \A i \in 1 .. SizeOf(m) : fed[i] = [msg |-> m, at |-> i],
         NEW as, Framing!Process(fed, as)
  PROVE  out' = Append(out, [as |-> as, msg |-> m])
<1>1. SizeOf(m) \in 1 .. 3 /\ DOMAIN sent = 1 .. Len(sent)
  BY Sizes
<1>2. fed = Framing!Whole(m)
  <2>1. DOMAIN fed = 1 .. SizeOf(m) /\ fed = [i \in DOMAIN fed |-> fed[i]]
    BY <1>1
  <2>2. fed = [i \in 1 .. SizeOf(m) |-> [msg |-> m, at |-> i]]
    BY <2>1
  <2>3. QED
    BY <2>2 DEF Framing!Whole, SizeOf
<1>3. fed[1].msg = m
  <2>1. fed[1] = [msg |-> m, at |-> 1]
    BY <1>1
  <2>2. QED
    BY <2>1
<1>4. \E l \in DOMAIN sent : fed = Framing!Whole(l)
  BY <1>1, <1>2
<1>5. QED
  BY <1>3, <1>4 DEF Framing!Process

(* What is not the whole of a message is handed on as nobody's. *)
LEMMA OtherIsHandedOn ==
  ASSUME StreamTypes, NEW fed, \A m \in 1 .. Len(sent) : fed # Framing!Whole(m),
         NEW as, Framing!Process(fed, as)
  PROVE  out' = Append(out, [as |-> as, msg |-> 0])
<1>1. DOMAIN sent = 1 .. Len(sent)
  BY DEF StreamTypes
<1>2. ~ \E m \in DOMAIN sent : fed = Framing!Whole(m)
  BY <1>1
<1>3. QED
  BY <1>2 DEF Framing!Process

(* How many requests are answered. *)
LEMMA AnsweredAtMost ==
  ASSUME StreamTypes, NEW n \in Nat,
         \A i \in 1 .. Len(out) : out[i].msg # 0 => i <= n
  PROVE  Framing!Answered \in Nat /\ Framing!Answered <= n
<1>1. {i \in DOMAIN out : out[i].as = "http" /\ out[i].msg # 0} \subseteq 1 .. n
  BY DEF StreamTypes
<1>2. IsFiniteSet(1 .. n) /\ Cardinality(1 .. n) = n
  BY FS_Interval
<1>3. PICK A : A = {i \in DOMAIN out : out[i].as = "http" /\ out[i].msg # 0}
  OBVIOUS
<1>4. Cardinality(A) \in Nat /\ Cardinality(A) <= n
  BY <1>1, <1>2, <1>3, FS_Subset, FS_CardinalityType
<1>5. Framing!Cardinality(A) = Cardinality(A)
  BY DEF Framing!Cardinality, Cardinality
<1>6. QED
  BY <1>3, <1>4, <1>5 DEF Framing!Answered

LEMMA StreamInit ==
  ASSUME Framing!Init
  PROVE  FramingInv
<1>1. /\ sent = <<>> /\ unread = <<>> /\ buffer = <<>> /\ processed = 0 /\ lpc = "read"
      /\ http = <<>> /\ websocket = <<>> /\ identifier \in Identifiers
      /\ stopped = FALSE /\ connections = 1 /\ out = <<>> /\ pieces = {}
  BY DEF Framing!Init, Identifiers
<1>2. StreamTypes
  <2>1. <<>> \in Seq(Messages) /\ <<>> \in Seq(Outs) /\ <<>> \in Seq(Places) /\ 0 \in 0 .. Len(<<>>)
    OBVIOUS
  <2>2. 1 .. Len(<<>>) = {} /\ ~(0 < Len(<<>>)) /\ 1 \in Nat
    OBVIOUS
  <2>3. QED
    BY <1>1, <2>1, <2>2, Zenon DEF StreamTypes, AllSent
<1>3. InOrder
  BY <1>1 DEF InOrder
<1>4. ~Framing!Confused
  BY <1>1 DEF Framing!Confused
<1>5. PICK s : s = [i \in 1 .. 1 |-> 0]
  OBVIOUS
<1>6. Starts(s) /\ Placed(s) /\ AtNext(s)
  BY <1>1, <1>5 DEF Starts, Placed, AtNext, Reached
<1>7. Straight
  BY <1>1, <1>6 DEF Straight, HttpAlone
<1>8. QED
  BY <1>2, <1>3, <1>4, <1>7 DEF FramingInv

LEMMA ReconnectStep ==
  ASSUME FramingInv, Framing!Reconnect
  PROVE  FramingInv'
<1>1. /\ sent' = <<>> /\ unread' = <<>> /\ buffer' = <<>> /\ processed' = 0
      /\ lpc' = "read" /\ http' = <<>> /\ websocket' = <<>> /\ identifier' \in Identifiers
      /\ stopped' = FALSE /\ connections' \in Nat /\ out' = <<>> /\ pieces' = {}
  BY DEF Framing!Reconnect, FramingInv, StreamTypes
<1>2. StreamTypes'
  <2>1. <<>> \in Seq(Messages) /\ <<>> \in Seq(Outs) /\ <<>> \in Seq(Places) /\ 0 \in 0 .. Len(<<>>)
    OBVIOUS
  <2>2. 1 .. Len(<<>>) = {} /\ ~(0 < Len(<<>>)) /\ 1 \in Nat
    OBVIOUS
  <2>3. QED
    BY <1>1, <2>1, <2>2, Zenon DEF StreamTypes, AllSent
<1>3. InOrder'
  BY <1>1 DEF InOrder
<1>4. ~Framing!Confused'
  BY <1>1 DEF Framing!Confused
<1>5. PICK s : s = [i \in 1 .. 1 |-> 0]
  OBVIOUS
<1>6. (Starts(s) /\ Placed(s) /\ AtNext(s))'
  BY <1>1, <1>5 DEF Starts, Placed, AtNext, Reached
<1>7. Straight'
  BY <1>1, <1>6 DEF Straight, HttpAlone
<1>8. QED
  BY <1>2, <1>3, <1>4, <1>7 DEF FramingInv

LEMMA FailStep ==
  ASSUME FramingInv, Framing!Fail
  PROVE  FramingInv'
<1>1. /\ sent' = sent /\ unread' = unread /\ buffer' = buffer /\ processed' = processed
      /\ lpc' = lpc /\ http' = http /\ websocket' = websocket /\ identifier' = identifier
      /\ stopped' = TRUE /\ connections' = connections /\ out' = out /\ pieces' = pieces
      /\ ~stopped
  BY DEF Framing!Fail, Framing!wireVars, Framing!parserVars
<1>2. StreamTypes'
  BY <1>1 DEF FramingInv, StreamTypes, AllSent, IsSent, SizeOf
<1>3. InOrder'
  BY <1>1 DEF FramingInv, InOrder
<1>4. Framing!Confused' = Framing!Confused
  BY <1>1 DEF Framing!Confused
<1>5. ASSUME Straight
      PROVE  Straight'
  <2>1. PICK s : Starts(s) /\ Placed(s) /\ AtNext(s)
    BY <1>1, <1>5 DEF Straight, Closed
  <2>2. (Starts(s) /\ Placed(s) /\ AtNext(s))'
    BY <1>1, <2>1 DEF Starts, Placed, AtNext, Reached, Place, SizeOf
  <2>3. HttpAlone'
    BY <1>1, <1>5 DEF Straight, HttpAlone
  <2>4. QED
    BY <1>1, <1>5, <2>2, <2>3 DEF Straight
<1>6. ASSUME Lost
      PROVE  Lost'
  BY <1>1, <1>6 DEF Lost, FedAgain
<1>7. QED
  BY <1>2, <1>3, <1>4, <1>5, <1>6 DEF FramingInv

(* The Miniserver sends a message: the bytes of those before stay in place. *)
LEMMA SendsStep ==
  ASSUME StreamTypes, NEW message \in Messages, Framing!Sends(message),
         NEW n \in Nat, n = Len(sent), Len(out) <= n
  PROVE  /\ StreamTypes'
         /\ Len(sent') = n + 1 /\ sent'[n + 1] = message
         /\ \A m \in 1 .. n : sent'[m] = sent[m]
         /\ Len(unread') = Len(unread) + Framing!Size[message.type]
         /\ \A s : Starts(s) /\ Placed(s) /\ AtNext(s)
              => \E r : (Starts(r) /\ Placed(r) /\ AtNext(r))'
<1>1. /\ buffer' = buffer /\ processed' = processed /\ lpc' = lpc /\ http' = http
      /\ websocket' = websocket /\ identifier' = identifier /\ stopped' = stopped
      /\ connections' = connections /\ out' = out /\ pieces' = pieces
  BY DEF Framing!Sends, Framing!parserVars
<1>2. /\ sent' \in Seq(Messages) /\ Len(sent') = n + 1 /\ DOMAIN sent' = 1 .. n + 1
      /\ DOMAIN sent = 1 .. n /\ sent'[n + 1] = message /\ \A m \in 1 .. n : sent'[m] = sent[m]
  BY Added DEF Framing!Sends, StreamTypes
<1>3. PICK z, new : /\ z = Framing!Size[message.type]
                    /\ new = [o \in 1 .. z |-> [msg |-> n + 1, at |-> o]]
  OBVIOUS
<1>4. z \in 1 .. 3
  <2>1. message.type \in Types
    BY DEF Messages
  <2>2. QED
    BY <1>3, <2>1 DEF Types, Framing!Size
<1>5. /\ new \in Seq(Places) /\ Len(new) = z
      /\ \A i \in 1 .. z : new[i] = [msg |-> n + 1, at |-> i]
  <2>1. \A o \in 1 .. z : [msg |-> n + 1, at |-> o] \in Places
    BY <1>4 DEF Places
  <2>2. QED
    BY <1>3, <1>4, <2>1
<1>6. PICK k : k = Len(unread)
  OBVIOUS
<1>7. /\ unread' \in Seq(Places) /\ Len(unread') = k + z /\ k \in Nat
      /\ \A i \in 1 .. k : unread'[i] = unread[i]
      /\ \A i \in 1 .. z : unread'[k + i] = [msg |-> n + 1, at |-> i]
  <2>1. PICK old : old = unread
    OBVIOUS
  <2>2. old \in Seq(Places) /\ new \in Seq(Places)
    BY <1>5, <2>1 DEF StreamTypes
  <2>3. /\ old \o new \in Seq(Places) /\ Len(old \o new) = Len(old) + Len(new)
        /\ \A i \in 1 .. Len(old) : (old \o new)[i] = old[i]
        /\ \A i \in 1 .. Len(new) : (old \o new)[Len(old) + i] = new[i]
        /\ Len(old) \in Nat
    BY ONLY <2>2, Joined
  <2>4. unread' = old \o new
    BY <1>3, <2>1 DEF Framing!Sends
  <2>5. QED
    BY <1>5, <1>6, <2>1, <2>3, <2>4
<1>8. /\ \A m \in 1 .. n : SizeOf(m)' = SizeOf(m) /\ SizeOf(m) \in Nat
      /\ SizeOf(n + 1)' = z
  <2>1. \A m \in 1 .. n : SizeOf(m) \in 1 .. 3
    BY Sizes
  <2>2. QED
    BY <1>2, <1>3, <2>1 DEF SizeOf
<1>9. \A byte \in Places : IsSent(byte) => IsSent(byte)'
  <2>1. ASSUME NEW byte \in Places, IsSent(byte)
        PROVE  IsSent(byte)'
    BY <1>2, <1>8, <2>1 DEF IsSent
  <2>2. QED
    BY <2>1
<1>10. AllSent(unread)'
  <2>1. PICK u : u = unread'
    OBVIOUS
  <2>2. ASSUME NEW i \in 1 .. k
        PROVE  IsSent(u[i])'
    <3>1. unread[i] \in Places /\ IsSent(unread[i]) /\ u[i] = unread[i]
      BY <1>6, <1>7, <2>1, StreamBytes
    <3>2. PICK byte : byte = unread[i]
      OBVIOUS
    <3>3. IsSent(byte)'
      BY <1>9, <3>1, <3>2
    <3>4. QED
      BY <3>1, <3>2, <3>3
  <2>3. ASSUME NEW o \in 1 .. z
        PROVE  IsSent(u[k + o])'
    <3>1. u[k + o] = [msg |-> n + 1, at |-> o]
      BY <1>7, <2>1
    <3>2. u[k + o].msg = n + 1 /\ u[k + o].at = o
      BY <3>1
    <3>3. QED
      BY <1>2, <1>4, <1>8, <3>2 DEF IsSent
  <2>4. ASSUME NEW i \in 1 .. k + z, ~(i <= k)
        PROVE  IsSent(u[i])'
    <3>1. i - k \in 1 .. z /\ i = k + (i - k)
      BY <1>4, <1>7, <2>4
    <3>2. QED
      BY <2>3, <3>1
  <2>5. Len(u) = k + z /\ \A i \in 1 .. k + z : i <= k => i \in 1 .. k
    BY <1>4, <1>7, <2>1
  <2>6. AllSent(u)'
    BY <2>2, <2>4, <2>5 DEF AllSent
  <2>7. QED
    BY <2>1, <2>6 DEF AllSent
<1>11. StreamTypes'
  <2>1. ASSUME NEW u \in Seq(Places), AllSent(u)
        PROVE  AllSent(u)'
    <3>1. \A i \in 1 .. Len(u) : u[i] \in Places
      OBVIOUS
    <3>2. QED
      BY <1>9, <2>1, <3>1 DEF AllSent
  <2>2. AllSent(buffer)' /\ AllSent(http)' /\ AllSent(websocket)'
    <3>1. PICK x, y, u : x = buffer /\ y = http /\ u = websocket
      OBVIOUS
    <3>2. AllSent(x)' /\ AllSent(y)' /\ AllSent(u)'
      BY <2>1, <3>1 DEF StreamTypes
    <3>3. x = buffer' /\ y = http' /\ u = websocket'
      BY <1>1, <3>1
    <3>4. QED
      BY <3>2, <3>3
  <2>3. pieces' \subseteq DOMAIN sent'
    BY <1>1, <1>2 DEF StreamTypes
  <2>4. QED
    BY <1>1, <1>2, <1>7, <1>10, <2>2, <2>3, Zenon DEF StreamTypes
<1>12. ASSUME NEW s, Starts(s), Placed(s), AtNext(s)
       PROVE  \E r : (Starts(r) /\ Placed(r) /\ AtNext(r))'
  <2>1. /\ s \in [1 .. n + 1 -> Nat] /\ s[1] = 0
        /\ \A m \in 1 .. n : s[m + 1] = s[m] + SizeOf(m)
        /\ \A l, m \in 1 .. n + 1 : l < m => s[l] + SizeOf(l) <= s[m]
    BY <1>12 DEF Starts
  <2>2. PICK r : r = [m \in 1 .. n + 2 |-> IF m <= n + 1 THEN s[m] ELSE s[n + 1] + z]
    OBVIOUS
  <2>3. /\ r \in [1 .. n + 2 -> Nat] /\ \A m \in 1 .. n + 1 : r[m] = s[m] /\ s[m] \in Nat
        /\ r[n + 2] = s[n + 1] + z
    <3>1. \A m \in 1 .. n + 1 : s[m] \in Nat
      BY <2>1
    <3>2. s[n + 1] + z \in Nat
      BY <1>4, <3>1
    <3>3. \A m \in 1 .. n + 2 : (IF m <= n + 1 THEN s[m] ELSE s[n + 1] + z) \in Nat
      BY <3>1, <3>2
    <3>4. r \in [1 .. n + 2 -> Nat]
      BY <2>2, <3>3
    <3>5. r[n + 2] = s[n + 1] + z /\ \A m \in 1 .. n + 1 : r[m] = s[m]
      BY <2>2
    <3>6. QED
      BY <3>1, <3>4, <3>5
  <2>4. ASSUME NEW m \in 1 .. n + 1
        PROVE  r[m + 1] = r[m] + SizeOf(m)'
    <3>1. CASE m = n + 1
      BY <1>8, <2>3, <3>1
    <3>2. CASE m \in 1 .. n
      BY <1>8, <2>1, <2>3, <3>2
    <3>3. QED
      BY <3>1, <3>2
  <2>5. ASSUME NEW l \in 1 .. n + 2, NEW m \in 1 .. n + 2, l < m
        PROVE  r[l] + SizeOf(l)' <= r[m]
    <3>1. l \in 1 .. n + 1
      BY <2>5
    <3>2. CASE m \in 1 .. n + 1
      <4>1. l \in 1 .. n
        BY <2>5, <3>2
      <4>2. QED
        BY <1>8, <2>1, <2>3, <2>5, <3>2, <4>1
    <3>3. CASE m = n + 2
      <4>1. CASE l = n + 1
        BY <1>8, <2>3, <3>3, <4>1
      <4>2. CASE l \in 1 .. n
        <5>1. s[l] + SizeOf(l) <= s[n + 1]
          BY <2>1, <4>2
        <5>2. r[l] = s[l] /\ s[l] \in Nat /\ s[n + 1] \in Nat /\ r[m] = s[n + 1] + z
              /\ SizeOf(l)' = SizeOf(l) /\ SizeOf(l) \in Nat
          BY <1>8, <2>3, <3>3, <4>2
        <5>3. QED
          BY <1>4, <5>1, <5>2
      <4>3. QED
        BY <3>1, <4>1, <4>2
    <3>4. QED
      BY <3>2, <3>3
  <2>6. Starts(r)'
    <3>1. r \in [1 .. (n + 1) + 1 -> Nat] /\ r[1] = 0 /\ (n + 1) + 1 = n + 2
      BY <2>1, <2>3
    <3>2. QED
      BY <1>2, <2>4, <2>5, <3>1 DEF Starts
  <2>7. PICK e, j, g : e = s[n + 1] /\ j = Len(buffer) /\ g = Len(websocket)
    OBVIOUS
  <2>8. /\ e \in Nat /\ j \in Nat /\ g \in Nat /\ processed \in Nat /\ k \in Nat
        /\ r[Len(sent') + 1] = e + z
    BY <1>2, <1>7, <2>3, <2>7 DEF StreamTypes
  <2>9. Reached(s) = e - k - j + processed /\ Reached(r)' = e - k - j + processed
    <3>1. Reached(s) = e - k - j + processed
      BY <1>6, <2>7 DEF Reached
    <3>2. Reached(r)' = (e + z) - (k + z) - j + processed
      BY <1>1, <1>7, <2>7, <2>8 DEF Reached
    <3>3. QED
      BY <1>4, <2>8, <3>1, <3>2
  <2>10. \A byte \in Places : IsSent(byte) => Place(r, byte) = Place(s, byte)
    <3>1. ASSUME NEW byte \in Places, IsSent(byte)
          PROVE  Place(r, byte) = Place(s, byte)
      <4>1. byte.msg \in 1 .. n + 1
        BY <3>1 DEF IsSent
      <4>2. QED
        BY <2>3, <4>1 DEF Place
    <3>2. QED
      BY <3>1
  <2>11. /\ \A i \in 1 .. k : Place(s, unread[i]) = e - k + i
         /\ \A i \in 1 .. j : Place(s, buffer[i]) = e - k - j + i
         /\ \A i \in 1 .. g : Place(s, websocket[i]) = Reached(s) - g + i
    BY <1>6, <1>12, <2>7 DEF Placed
  <2>12. /\ \A i \in 1 .. k : Place(r, unread[i]) = e - k + i
         /\ \A i \in 1 .. j : Place(r, buffer[i]) = e - k - j + i
         /\ \A i \in 1 .. g : Place(r, websocket[i]) = Reached(s) - g + i
    <3>1. /\ \A i \in 1 .. k : unread[i] \in Places /\ IsSent(unread[i])
          /\ \A i \in 1 .. j : buffer[i] \in Places /\ IsSent(buffer[i])
          /\ \A i \in 1 .. g : websocket[i] \in Places /\ IsSent(websocket[i])
      BY <1>6, <2>7, StreamBytes
    <3>2. QED
      BY <2>10, <2>11, <3>1
  <2>13. ASSUME NEW i \in 1 .. k + z
         PROVE  Place(r, unread'[i]) = (e + z) - (k + z) + i
    <3>1. CASE i <= k
      BY <1>4, <1>7, <2>8, <2>12, <3>1
    <3>2. CASE ~(i <= k)
      <4>1. PICK o : o = i - k
        OBVIOUS
      <4>2. o \in 1 .. z /\ i = k + o
        BY <1>4, <1>7, <3>2, <4>1
      <4>3. unread'[i].msg = n + 1 /\ unread'[i].at = o
        <5>1. unread'[k + o] = [msg |-> n + 1, at |-> o]
          BY <1>7, <4>2
        <5>2. unread'[i] = [msg |-> n + 1, at |-> o]
          BY <4>2, <5>1
        <5>3. QED
          BY <5>2
      <4>4. r[n + 1] = e
        BY <2>3, <2>7
      <4>5. QED
        BY <1>4, <2>8, <4>2, <4>3, <4>4 DEF Place
    <3>3. QED
      BY <3>1, <3>2
  <2>14. \A i \in 1 .. j : Place(r, buffer[i]) = (e + z) - (k + z) - j + i
    BY <1>4, <2>8, <2>12
  <2>15. Placed(r)'
    <3>1. \A byte : Place(r, byte)' = Place(r, byte)
      BY DEF Place
    <3>2. QED
      BY <1>1, <1>7, <2>7, <2>8, <2>9, <2>12, <2>13, <2>14, <3>1 DEF Placed
  <2>16. AtNext(r)'
    <3>1. PICK d : d = Len(out)
      OBVIOUS
    <3>2. /\ Reached(s) - g = s[d + 1] /\ d \in Nat /\ d <= n
          /\ websocket # <<>> => d < n /\ g < SizeOf(d + 1)
      BY <1>12, <2>7, <3>1, StreamBytes DEF AtNext
    <3>3. r[d + 1] = s[d + 1]
      BY <2>3, <3>2
    <3>4. Reached(r)' - g = r[d + 1]
      BY <2>9, <3>2, <3>3
    <3>5. websocket # <<>> => d < n + 1 /\ g < SizeOf(d + 1)'
      BY <1>8, <3>2
    <3>6. QED
      BY <1>1, <1>2, <2>7, <3>1, <3>4, <3>5 DEF AtNext
  <2>17. QED
    BY <2>6, <2>15, <2>16
<1>13. QED
  BY <1>2, <1>3, <1>6, <1>7, <1>11, <1>12

LEMMA NoMoreAnswers ==
  ASSUME FramingInv,
         \/ Framing!Answered = Handshake
         \/ Len(sent) < Handshake /\ Framing!Answered = Len(sent)
  PROVE  /\ ~Framing!Confused /\ Straight /\ Len(sent) \in Nat /\ Handshake \in Nat
         /\ Framing!Answered <= Len(out) /\ Len(out) <= Len(sent) /\ Len(out) \in Nat
<1>1. /\ StreamTypes /\ Len(sent) \in Nat /\ Handshake \in Nat /\ Len(out) \in Nat
      /\ \A i \in 1 .. Len(out) : out[i].msg # 0 => i <= Len(out)
  BY ConstantsAssumption DEF FramingInv, StreamTypes, Framing!BoundsAssumption
<1>2. Framing!Answered <= Len(out)
  BY <1>1, AnsweredAtMost
<1>3. ASSUME Lost
      PROVE  FALSE
  <2>1. PICK m : m = Len(sent) - 1
    OBVIOUS
  <2>2. /\ m \in Nat /\ m + 1 <= Handshake /\ Len(sent) = m + 1
        /\ \A i \in 1 .. Len(out) : out[i].msg = IF i < Len(sent) THEN i ELSE 0
    BY <1>1, <1>3, <2>1 DEF Lost
  <2>3. \A i \in 1 .. Len(out) : out[i].msg # 0 => i <= m
    BY <1>1, <2>2
  <2>4. Framing!Answered <= m /\ Framing!Answered \in Nat
    BY <1>1, <2>2, <2>3, AnsweredAtMost
  <2>5. QED
    BY <1>1, <2>2, <2>4
<1>4. ~Framing!Confused /\ Straight
  BY <1>3 DEF FramingInv
<1>5. QED
  BY <1>1, <1>2, <1>4 DEF Straight

(* What the next message adds to Straight. *)
LEMMA SentStraight ==
  ASSUME FramingInv, Straight, ~Framing!Confused, ~stopped, NEW message \in Messages,
         Framing!Sends(message), NEW n \in Nat, n = Len(sent),
         HttpAlone', InOrder'
  PROVE  FramingInv'
<1>1. StreamTypes /\ Len(out) <= n /\ Len(out) \in Nat /\ DOMAIN sent = 1 .. n
  BY DEF FramingInv, StreamTypes, Straight
<1>2. /\ StreamTypes' /\ Len(sent') = n + 1 /\ \A m \in 1 .. n : sent'[m] = sent[m]
      /\ \A s : Starts(s) /\ Placed(s) /\ AtNext(s)
              => \E r : (Starts(r) /\ Placed(r) /\ AtNext(r))'
  BY <1>1, SendsStep
<1>3. /\ http' = http /\ out' = out /\ pieces' = pieces /\ identifier' = identifier
  BY DEF Framing!Sends, Framing!parserVars
<1>4. \E s : (Starts(s) /\ Placed(s) /\ AtNext(s))'
  <2>1. PICK s : Starts(s) /\ Placed(s) /\ AtNext(s)
    BY DEF Straight, Closed
  <2>2. QED
    BY <1>2, <2>1
<1>5. Straight'
  <2>1. Len(out') <= Len(sent') /\ http' = <<>>
    BY <1>1, <1>2, <1>3 DEF Straight
  <2>2. ASSUME NEW i \in 1 .. Len(out')
        PROVE  /\ out'[i].msg = i
               /\ sent'[i].type = "table" => out'[i].as = sent'[i].of
    <3>1. i \in 1 .. n /\ i \in 1 .. Len(out) /\ sent'[i] = sent[i]
      BY <1>1, <1>2, <1>3
    <3>2. QED
      BY <1>3, <3>1 DEF Straight
  <2>3. Len(out') > 0 /\ sent'[Len(out')].type = "header"
          => identifier' = sent'[Len(out')].of
    <3>1. Len(out) > 0 => sent'[Len(out)] = sent[Len(out)]
      BY <1>1, <1>2
    <3>2. QED
      BY <1>3, <3>1 DEF Straight
  <2>4. QED
    BY <1>4, <2>1, <2>2, <2>3 DEF Straight
<1>6. ~Framing!Confused'
  <2>1. \A m \in pieces : sent'[m] = sent[m]
    BY <1>1, <1>2 DEF StreamTypes
  <2>2. QED
    BY <1>3, <2>1 DEF Framing!Confused
<1>7. QED
  BY <1>2, <1>5, <1>6 DEF FramingInv

LEMMA RespondStep ==
  ASSUME FramingInv, Framing!Respond
  PROVE  FramingInv'
<1>1. /\ ~stopped /\ Len(sent) < Handshake /\ Framing!Answered = Len(sent)
      /\ Framing!Sends(Framing!Http)
  BY DEF Framing!Respond
<1>2. /\ ~Framing!Confused /\ Straight /\ Len(sent) \in Nat /\ Handshake \in Nat
      /\ Len(out) = Len(sent)
  BY <1>1, NoMoreAnswers
<1>3. PICK n \in Nat : n = Len(sent)
  BY <1>2
<1>4. Framing!Http \in Messages /\ Framing!Http.type = "http"
      /\ Framing!Size[Framing!Http.type] = 3
  BY DEF Framing!Http, Messages, Types, Framing!Size
<1>5. StreamTypes
  BY DEF FramingInv
<1>6. /\ StreamTypes' /\ Len(sent') = n + 1 /\ sent'[n + 1] = Framing!Http
      /\ \A m \in 1 .. n : sent'[m] = sent[m]
      /\ Len(unread') = Len(unread) + 3
  BY <1>1, <1>2, <1>3, <1>4, <1>5, SendsStep
<1>7. /\ buffer' = buffer /\ processed' = processed /\ lpc' = lpc
      /\ websocket' = websocket /\ out' = out
  BY <1>1 DEF Framing!Sends, Framing!parserVars
<1>8. websocket = <<>> /\ Len(unread) = 0 /\ lpc = "read"
  <2>1. PICK s : Starts(s) /\ Placed(s) /\ AtNext(s)
    BY <1>1, <1>2 DEF Straight, Closed
  <2>2. websocket = <<>> /\ Reached(s) - Len(websocket) = s[n + 1]
    BY <1>2, <1>3, <2>1 DEF AtNext
  <2>3. s[n + 1] \in Nat
    BY <1>3, <2>1 DEF Starts
  <2>4. Reached(s) = s[n + 1] - Len(unread) - Len(buffer) + processed
    BY <1>3 DEF Reached
  <2>5. /\ Len(unread) \in Nat /\ Len(buffer) \in Nat /\ processed \in 0 .. Len(buffer)
        /\ lpc = IF processed < Len(buffer) THEN "loop" ELSE "read"
    BY <1>5 DEF StreamTypes
  <2>6. Len(websocket) = 0
    BY <2>2
  <2>7. QED
    BY <2>2, <2>3, <2>4, <2>5, <2>6
<1>9. HttpAlone'
  BY <1>2, <1>3, <1>6, <1>7, <1>8 DEF HttpAlone
<1>10. InOrder'
  <2>1. ASSUME NEW m \in 1 .. n + 1
        PROVE  /\ sent'[m].type = "http" <=> m <= Handshake
               /\ sent'[m].type = "http" => sent'[m] = Framing!Http
               /\ sent'[m].type = "table" =>
                    m > 1 /\ sent'[m - 1].type = "header" /\ sent'[m - 1].of = sent'[m].of
               /\ sent'[m].type = "header" => sent'[m].of \in Identifiers
               /\ sent'[m].type = "close" => m = n + 1 /\ sent'[m] = Framing!Close
    <3>1. CASE m \in 1 .. n
      <4>1. sent[m].type = "http" /\ sent[m] = Framing!Http /\ m <= Handshake
        BY <1>1, <1>2, <1>3, <3>1 DEF FramingInv, InOrder
      <4>2. QED
        BY <1>6, <3>1, <4>1
    <3>2. CASE m = n + 1
      BY <1>1, <1>2, <1>3, <1>4, <1>6, <3>2
    <3>3. QED
      BY <3>1, <3>2
  <2>2. QED
    BY <1>6, <2>1 DEF InOrder
<1>11. QED
  BY <1>1, <1>2, <1>3, <1>4, <1>9, <1>10, SentStraight

LEMMA SendStep ==
  ASSUME FramingInv, Framing!Send
  PROVE  FramingInv'
<1>1. ~stopped /\ Framing!Answered = Handshake
  BY DEF Framing!Send
<1>2. /\ ~Framing!Confused /\ Straight /\ Len(sent) \in Nat /\ Handshake \in Nat
      /\ Len(out) \in Nat /\ Handshake <= Len(out) /\ Len(out) <= Len(sent)
  <2>1. /\ ~Framing!Confused /\ Straight /\ Len(sent) \in Nat /\ Handshake \in Nat
        /\ Framing!Answered <= Len(out) /\ Len(out) <= Len(sent) /\ Len(out) \in Nat
    BY <1>1, NoMoreAnswers
  <2>2. QED
    BY <1>1, <2>1
<1>3. PICK n \in Nat : n = Len(sent)
  BY <1>2
<1>4. StreamTypes /\ InOrder
  BY DEF FramingInv
<1>5. \A m \in 1 .. n : sent[m] \in Messages
  BY <1>3, <1>4 DEF StreamTypes
(* What is sent, and what it follows. *)
<1>6. \E message \in Messages :
        /\ Framing!Sends(message) /\ message.type # "http"
        /\ message.type = "table" =>
             n > 0 /\ sent[n].type = "header" /\ sent[n].of = message.of
        /\ message.type = "header" => message.of \in Identifiers
        /\ message.type = "close" => message = Framing!Close
        /\ n > 0 => sent[n].type # "close"
  <2>1. PICK last : last = IF sent = <<>> THEN Framing!Http ELSE sent[n]
    OBVIOUS
  <2>2. last.type = "header" => n > 0 /\ last = sent[n]
    BY <1>3, <1>4, <2>1 DEF Framing!Http, StreamTypes
  <2>3. n > 0 => last = sent[n]
    BY <1>3, <1>4, <2>1 DEF StreamTypes
  <2>4. n > 0 /\ sent[n].type = "close" => sent[n] = Framing!Close
    BY <1>3, <1>4 DEF InOrder
  <2>5. CASE last.type = "header" /\ last.of \notin Signals
    <3>1. \/ Framing!Sends(last)
          \/ Framing!Sends(IF last.of = "text" THEN Framing!Text ELSE Framing!Table(last.of))
      BY <1>3, <2>1, <2>5 DEF Framing!Send
    <3>2. /\ n > 0 /\ last = sent[n] /\ last \in Messages /\ sent[n].type = "header"
          /\ last.of \in Identifiers
      <4>1. n > 0 /\ last = sent[n] /\ last \in Messages /\ sent[n].type = "header"
        BY <1>5, <2>2, <2>5
      <4>2. QED
        BY <1>3, <1>4, <4>1 DEF InOrder
    <3>3. CASE Framing!Sends(last)
      BY <2>5, <3>2, <3>3
    <3>4. CASE last.of = "text" /\ Framing!Sends(Framing!Text)
      <4>1. Framing!Text \in Messages /\ Framing!Text.type = "text"
        BY DEF Framing!Text, Messages, Types
      <4>2. QED
        BY <3>2, <3>4, <4>1
    <3>5. CASE Framing!Sends(Framing!Table(last.of))
      <4>1. last.of \in Identifiers \cup Types
        BY <3>2 DEF Messages
      <4>2. /\ Framing!Table(last.of) \in Messages /\ Framing!Table(last.of).type = "table"
            /\ Framing!Table(last.of).of = last.of
        BY <4>1 DEF Framing!Table, Messages, Types
      <4>3. QED
        BY <3>2, <3>5, <4>2
    <3>6. QED
      BY <3>1, <3>3, <3>4, <3>5
  <2>6. CASE ~(last.type = "header" /\ last.of \notin Signals)
    <3>1. /\ last # Framing!Close
          /\ \/ Framing!Sends(Framing!Close)
             \/ \E k \in Tables \cup Signals \cup {"text"} : Framing!Sends(Framing!Header(k))
      BY <1>3, <2>1, <2>6 DEF Framing!Send
    <3>2. n > 0 => sent[n].type # "close"
      BY <2>3, <2>4, <3>1
    <3>3. CASE Framing!Sends(Framing!Close)
      <4>1. Framing!Close \in Messages /\ Framing!Close.type = "close"
        BY DEF Framing!Close, Messages, Types
      <4>2. QED
        BY <3>2, <3>3, <4>1
    <3>4. ASSUME NEW k \in Tables \cup Signals \cup {"text"}, Framing!Sends(Framing!Header(k))
          PROVE  \E message \in Messages :
                   /\ Framing!Sends(message) /\ message.type = "header"
                   /\ message.of \in Identifiers
      <4>1. /\ Framing!Header(k) \in Messages /\ Framing!Header(k).type = "header"
            /\ Framing!Header(k).of \in Identifiers
        BY DEF Framing!Header, Messages, Types, Identifiers
      <4>2. QED
        BY <3>4, <4>1
    <3>5. QED
      BY <3>1, <3>2, <3>3, <3>4
  <2>7. QED
    BY <2>5, <2>6
<1>7. PICK message \in Messages :
        /\ Framing!Sends(message) /\ message.type # "http"
        /\ message.type = "table" =>
             n > 0 /\ sent[n].type = "header" /\ sent[n].of = message.of
        /\ message.type = "header" => message.of \in Identifiers
        /\ message.type = "close" => message = Framing!Close
        /\ n > 0 => sent[n].type # "close"
  BY <1>6
<1>8. /\ Len(sent') = n + 1 /\ sent'[n + 1] = message
      /\ \A m \in 1 .. n : sent'[m] = sent[m]
  BY <1>2, <1>3, <1>4, <1>7, SendsStep
<1>9. out' = out
  BY <1>7 DEF Framing!Sends
<1>10. InOrder'
  <2>1. ASSUME NEW m \in 1 .. n + 1
        PROVE  /\ sent'[m].type = "http" <=> m <= Handshake
               /\ sent'[m].type = "http" => sent'[m] = Framing!Http
               /\ sent'[m].type = "table" =>
                    m > 1 /\ sent'[m - 1].type = "header" /\ sent'[m - 1].of = sent'[m].of
               /\ sent'[m].type = "header" => sent'[m].of \in Identifiers
               /\ sent'[m].type = "close" => m = n + 1 /\ sent'[m] = Framing!Close
    <3>1. CASE m \in 1 .. n
      <4>1. /\ sent[m].type = "http" <=> m <= Handshake
            /\ sent[m].type = "http" => sent[m] = Framing!Http
            /\ sent[m].type = "table" =>
                 m > 1 /\ sent[m - 1].type = "header" /\ sent[m - 1].of = sent[m].of
            /\ sent[m].type = "header" => sent[m].of \in Identifiers
            /\ sent[m].type # "close"
        <5>1. m \in 1 .. Len(sent)
          BY <1>3, <3>1
        <5>2. sent[m].type = "close" => m = n /\ n > 0
          BY <1>3, <1>4, <5>1 DEF InOrder
        <5>3. sent[m].type # "close"
          BY <1>7, <5>2
        <5>4. QED
          BY <1>4, <5>1, <5>3 DEF InOrder
      <4>2. m > 1 => sent'[m - 1] = sent[m - 1]
        BY <1>8, <3>1
      <4>3. sent'[m] = sent[m]
        BY <1>8, <3>1
      <4>4. QED
        BY <4>1, <4>2, <4>3
    <3>2. CASE m = n + 1
      <4>1. sent'[m] = message /\ ~(m <= Handshake)
        BY <1>2, <1>3, <1>8, <3>2
      <4>2. n > 0 => m > 1 /\ sent'[m - 1] = sent[n]
        BY <1>8, <3>2
      <4>3. QED
        BY <1>7, <3>2, <4>1, <4>2
    <3>3. QED
      BY <3>1, <3>2
  <2>2. QED
    BY <1>8, <2>1 DEF InOrder
<1>11. HttpAlone'
  <2>1. ASSUME Len(out) < n + 1, sent'[Len(out) + 1].type = "http"
        PROVE  FALSE
    <3>1. Len(out) + 1 \in 1 .. n + 1
      BY <1>2, <2>1
    <3>2. Len(out) + 1 <= Handshake
      BY <1>8, <1>10, <2>1, <3>1 DEF InOrder
    <3>3. QED
      BY <1>2, <3>2
  <2>2. QED
    BY <1>8, <1>9, <2>1 DEF HttpAlone
<1>12. QED
  BY <1>1, <1>2, <1>3, <1>7, <1>10, <1>11, SentStraight

(* What is ahead of listen(): the message that comes next. *)
LEMMA Ahead ==
  ASSUME StreamTypes, Straight, NEW s, Starts(s), Placed(s), AtNext(s),
         unread # <<>> \/ lpc = "loop"
  PROVE  /\ Len(out) \in Nat /\ Len(out) < Len(sent) /\ Len(sent) \in Nat
         /\ Len(out) + 1 \in 1 .. Len(sent) /\ Len(websocket) < SizeOf(Len(out) + 1)
         /\ SizeOf(Len(out) + 1) \in 1 .. 3
         /\ s[Len(out) + 1] \in Nat /\ s[Len(out) + 2] = s[Len(out) + 1] + SizeOf(Len(out) + 1)
         /\ s[Len(out) + 2] <= s[Len(sent) + 1] /\ s[Len(sent) + 1] \in Nat
<1>1. PICK d, n : d = Len(out) /\ n = Len(sent)
  OBVIOUS
<1>2. d \in Nat /\ n \in Nat /\ d <= n
  BY <1>1 DEF StreamTypes, Straight
<1>3. /\ s[d + 1] \in Nat /\ s[n + 1] \in Nat
  BY <1>1, <1>2 DEF Starts
<1>4. /\ Len(unread) \in Nat /\ Len(buffer) \in Nat /\ processed \in 0 .. Len(buffer)
      /\ unread # <<>> => Len(unread) > 0
      /\ lpc = "loop" => processed < Len(buffer)
  BY DEF StreamTypes
<1>5. Reached(s) = s[n + 1] - Len(unread) - Len(buffer) + processed
  BY <1>1 DEF Reached
<1>6. Reached(s) < s[n + 1] /\ Reached(s) \in Int
  BY <1>3, <1>4, <1>5
<1>7. Len(websocket) \in Nat /\ Reached(s) - Len(websocket) = s[d + 1]
  BY <1>1 DEF AtNext, StreamTypes
<1>8. d < n
  BY <1>2, <1>3, <1>6, <1>7
<1>9. d + 1 \in 1 .. n /\ SizeOf(d + 1) \in 1 .. 3
  BY <1>1, <1>2, <1>8, Sizes
<1>10. Len(websocket) < SizeOf(d + 1)
  <2>1. CASE websocket = <<>>
    <3>1. Len(websocket) = 0
      BY <2>1
    <3>2. QED
      BY <1>9, <3>1
  <2>2. CASE websocket # <<>>
    BY <1>1, <2>2 DEF AtNext
  <2>3. QED
    BY <2>1, <2>2
<1>11. s[d + 2] = s[d + 1] + SizeOf(d + 1)
  <2>1. s[(d + 1) + 1] = s[d + 1] + SizeOf(d + 1) /\ (d + 1) + 1 = d + 2
    BY <1>1, <1>2, <1>9 DEF Starts
  <2>2. QED
    BY <2>1
<1>12. s[d + 2] <= s[n + 1]
  <2>1. CASE d + 2 = n + 1
    BY <1>3, <2>1
  <2>2. CASE d + 2 < n + 1
    <3>1. d + 1 \in 1 .. n + 1 /\ n + 1 \in 1 .. n + 1 /\ d + 1 < n + 1
      BY <1>2, <1>9, <2>2
    <3>2. s[d + 1] + SizeOf(d + 1) <= s[n + 1]
      BY <1>1, <3>1 DEF Starts
    <3>3. QED
      BY <1>11, <3>2
  <2>3. QED
    BY <1>2, <1>8, <2>1, <2>2
<1>13. QED
  BY <1>1, <1>2, <1>3, <1>8, <1>9, <1>10, <1>11, <1>12

LEMMA ReadStep ==
  ASSUME FramingInv, Framing!Read
  PROVE  FramingInv'
<1>1. /\ sent' = sent /\ http' = http /\ websocket' = websocket /\ identifier' = identifier
      /\ stopped' = stopped /\ connections' = connections /\ out' = out
      /\ processed' = 0 /\ lpc' = "loop" /\ lpc = "read" /\ ~stopped /\ unread # <<>>
  BY DEF Framing!Read, Framing!parserVars
<1>2. PICK n \in 1 .. MaxRead :
        /\ n <= Len(unread) /\ buffer' = SubSeq(unread, 1, n)
        /\ unread' = SubSeq(unread, n + 1, Len(unread))
        /\ pieces' = IF unread[n].at = Framing!Size[Framing!TypeOf(unread[n])] THEN pieces
                     ELSE pieces \cup {unread[n].msg}
  BY DEF Framing!Read
<1>3. PICK u, k : u = unread /\ k = Len(unread)
  OBVIOUS
<1>4. /\ StreamTypes /\ InOrder /\ u \in Seq(Places) /\ k \in Nat /\ n \in 1 .. k
      /\ \A i \in 1 .. k : u[i] \in Places /\ IsSent(u[i])
  <2>1. StreamTypes /\ InOrder /\ MaxRead \in Nat
    BY ConstantsAssumption DEF FramingInv, Framing!BoundsAssumption
  <2>2. u \in Seq(Places) /\ k \in Nat
    BY <1>3, <2>1 DEF StreamTypes
  <2>3. QED
    BY <1>2, <1>3, <2>1, <2>2, StreamBytes
<1>5. /\ buffer' \in Seq(Places) /\ Len(buffer') = n /\ \A i \in 1 .. n : buffer'[i] = u[i]
  <2>1. 1 \in 1 .. Len(u) + 1 /\ n \in 1 - 1 .. Len(u)
    BY <1>3, <1>4
  <2>2. /\ SubSeq(u, 1, n) \in Seq(Places) /\ Len(SubSeq(u, 1, n)) = n - 1 + 1
        /\ \A i \in 1 .. n - 1 + 1 : SubSeq(u, 1, n)[i] = u[1 + i - 1]
    <3>1. u \in Seq(Places)
      BY <1>4
    <3>2. QED
      BY ONLY <2>1, <3>1, Parts
  <2>3. n - 1 + 1 = n /\ \A i \in 1 .. n : 1 + i - 1 = i
    OBVIOUS
  <2>4. QED
    BY <1>2, <1>3, <2>2, <2>3
<1>6. /\ unread' \in Seq(Places) /\ Len(unread') = k - n
      /\ \A i \in 1 .. k - n : unread'[i] = u[n + i]
  <2>1. PICK x : x = n + 1
    OBVIOUS
  <2>2. x \in 1 .. Len(u) + 1 /\ k \in x - 1 .. Len(u)
    BY <1>3, <1>4, <2>1
  <2>3. u \in Seq(Places)
    BY <1>4
  <2>4. /\ SubSeq(u, x, k) \in Seq(Places) /\ Len(SubSeq(u, x, k)) = k - x + 1
        /\ \A i \in 1 .. k - x + 1 : SubSeq(u, x, k)[i] = u[x + i - 1]
    BY ONLY <2>2, <2>3, Parts
  <2>5. k - x + 1 = k - n /\ \A i \in 1 .. k - n : x + i - 1 = n + i
    BY <1>4, <2>1
  <2>6. QED
    BY <1>2, <1>3, <2>1, <2>4, <2>5
<1>7. AllSent(unread)' /\ AllSent(buffer)'
  <2>1. PICK x, y : x = buffer' /\ y = unread'
    OBVIOUS
  <2>2. AllSent(x)' /\ AllSent(y)'
    <3>1. \A i \in 1 .. n : IsSent(x[i])
      BY <1>4, <1>5, <2>1
    <3>2. \A i \in 1 .. k - n : IsSent(y[i])
      <4>1. ASSUME NEW i \in 1 .. k - n
            PROVE  IsSent(y[i])
        <5>1. n + i \in 1 .. k /\ y[i] = u[n + i]
          BY <1>4, <1>6, <2>1
        <5>2. QED
          BY <1>4, <5>1
      <4>2. QED
        BY <4>1
    <3>3. \A byte : IsSent(byte)' = IsSent(byte)
      BY <1>1 DEF IsSent, SizeOf
    <3>4. QED
      BY <1>5, <1>6, <2>1, <3>1, <3>2, <3>3 DEF AllSent
  <2>3. QED
    BY <2>1, <2>2
<1>8. u[n].msg \in 1 .. Len(sent) /\ DOMAIN sent = 1 .. Len(sent)
  BY <1>4 DEF IsSent, StreamTypes
<1>9. StreamTypes'
  <2>1. pieces' \subseteq DOMAIN sent'
    BY <1>1, <1>2, <1>3, <1>4, <1>8 DEF StreamTypes
  <2>2. AllSent(http)' /\ AllSent(websocket)'
    BY <1>1, <1>4 DEF StreamTypes, AllSent, IsSent, SizeOf
  <2>3. processed' \in 0 .. Len(buffer') /\ processed' < Len(buffer')
    BY <1>1, <1>4, <1>5
  <2>4. QED
    BY <1>1, <1>4, <1>5, <1>6, <1>7, <2>1, <2>2, <2>3, Zenon DEF StreamTypes
<1>10. InOrder'
  BY <1>1, <1>4 DEF InOrder
<1>11. processed = Len(buffer) /\ Len(buffer) \in Nat
  BY <1>1, <1>4 DEF StreamTypes
<1>12. ASSUME Lost
       PROVE  Lost'
  <2>1. \A i \in 1 .. k : u[i].at > 1
    BY <1>3, <1>12 DEF Lost, FedAgain
  <2>2. (\A i \in 1 .. n : buffer'[i].at > 1) /\ \A i \in 1 .. Len(unread') : unread'[i].at > 1
    <3>1. \A i \in 1 .. n : buffer'[i].at > 1
      BY <1>4, <1>5, <2>1
    <3>2. \A i \in 1 .. k - n : n + i \in 1 .. k
      BY <1>4
    <3>3. QED
      BY <1>6, <2>1, <3>1, <3>2
  <2>3. \/ Len(http) > 1 /\ http[2].at = 1
        \/ http = <<>>
    BY <1>11, <1>12 DEF Lost, FedAgain
  <2>4. QED
    BY <1>1, <1>5, <1>12, <2>2, <2>3 DEF Lost, FedAgain
<1>13. ASSUME Straight, ~Framing!Confused
       PROVE  IF Framing!Confused' THEN Lost' ELSE Straight'
  <2>1. PICK s : Starts(s) /\ Placed(s) /\ AtNext(s)
    BY <1>1, <1>13 DEF Straight, Closed
  <2>2. PICK d, e, g : d = Len(out) /\ e = s[Len(sent) + 1] /\ g = Len(websocket)
    OBVIOUS
  <2>3. /\ d \in Nat /\ d < Len(sent) /\ Len(sent) \in Nat /\ d + 1 \in 1 .. Len(sent)
        /\ s[d + 1] \in Nat /\ e \in Nat /\ g \in Nat
    BY <1>1, <1>4, <1>13, <2>1, <2>2, Ahead, StreamBytes
  <2>4. Reached(s) = e - k /\ e - k - g = s[d + 1]
    <3>1. Reached(s) = e - k
      BY <1>3, <1>4, <1>11, <2>2, <2>3 DEF Reached
    <3>2. QED
      BY <2>1, <2>2, <3>1 DEF AtNext
  <2>5. \A i \in 1 .. k : Place(s, u[i]) = e - k + i
    BY <1>3, <2>1, <2>2 DEF Placed
(* If the next message is a response, all of it is unread. *)
  <2>6. ASSUME sent[d + 1].type = "http"
        PROVE  /\ Len(sent) = d + 1 /\ websocket = <<>> /\ k = 3
               /\ \A i \in 1 .. 3 : u[i] = [msg |-> d + 1, at |-> i]
    <3>1. Len(sent) = d + 1 /\ websocket = <<>>
      BY <1>13, <2>2, <2>3, <2>6 DEF Straight, HttpAlone
    <3>2. k = 3
      <4>1. Len(unread) = 3 \/ unread = <<>>
        BY <1>13, <2>2, <2>3, <2>6 DEF Straight, HttpAlone
      <4>2. QED
        BY <1>1, <1>3, <4>1
    <3>3. SizeOf(d + 1) = 3
      BY <1>4, <2>3, <2>6, Sizes
    <3>4. ASSUME NEW i \in 1 .. 3
          PROVE  u[i] = [msg |-> d + 1, at |-> i]
      <4>1. g = 0
        BY <2>2, <3>1
      <4>2. Place(s, u[i]) = s[d + 1] + i
        BY <2>3, <2>4, <2>5, <3>2, <4>1
      <4>3. u[i] \in Places /\ IsSent(u[i]) /\ i \in 1 .. SizeOf(d + 1)
        BY <1>4, <3>2, <3>3
      <4>4. QED
        BY <1>4, <2>1, <2>3, <4>2, <4>3, ByteAt
    <3>5. QED
      BY <3>1, <3>2, <3>4
  <2>7. CASE Framing!Confused'
    <3>1. PICK m \in pieces' : sent[m] = Framing!Http
      BY <1>1, <2>7 DEF Framing!Confused
    <3>2. m \notin pieces
      BY <1>13, <3>1 DEF Framing!Confused
    <3>3. m = u[n].msg /\ u[n].at # Framing!Size[Framing!TypeOf(u[n])]
      BY <1>2, <1>3, <3>1, <3>2
    <3>4. m \in 1 .. Len(sent) /\ m <= Handshake /\ sent[m].type = "http"
      <4>1. Framing!Http.type = "http"
        BY DEF Framing!Http
      <4>2. QED
        BY <1>4, <1>8, <3>1, <3>3, <4>1 DEF InOrder
    <3>5. m > d
      <4>1. IsSent(u[n]) /\ Place(s, u[n]) = e - k + n
        BY <1>4, <2>5
      <4>2. SizeOf(m) \in 1 .. 3 /\ u[n].at <= SizeOf(m) /\ u[n].at \in Nat
        BY <1>4, <3>3, <3>4, <4>1, Sizes DEF IsSent
      <4>3. s[m] + u[n].at = e - k + n
        BY <3>3, <4>1 DEF Place
      <4>4. s[m] \in Nat
        BY <2>1, <3>4 DEF Starts
      <4>5. m < d + 1 => s[m] + SizeOf(m) <= s[d + 1]
        BY <2>1, <2>3, <3>4 DEF Starts
      <4>6. s[d + 1] <= e - k
        BY <1>4, <2>3, <2>4
      <4>7. PICK x, y, z, w : x = s[m] /\ y = u[n].at /\ z = SizeOf(m) /\ w = s[d + 1]
        OBVIOUS
      <4>8. /\ x \in Nat /\ y \in Nat /\ z \in Nat /\ w \in Nat /\ m \in Nat /\ d \in Nat
            /\ e \in Nat /\ k \in Nat /\ n \in Nat /\ n > 0
        BY <1>4, <2>3, <3>4, <4>2, <4>4, <4>7
      <4>9. y <= z /\ x + y = e - k + n /\ w <= e - k /\ (m < d + 1 => x + z <= w)
        BY <4>2, <4>3, <4>5, <4>6, <4>7
      <4>10. QED
        BY ONLY <4>8, <4>9
    <3>6. Handshake \in Nat
      BY ConstantsAssumption DEF Framing!BoundsAssumption
    <3>7. sent[d + 1].type = "http"
      <4>1. d + 1 <= Handshake
        BY <2>3, <3>4, <3>5, <3>6
      <4>2. QED
        BY <1>4, <2>3, <4>1 DEF InOrder
    <3>8. /\ Len(sent) = d + 1 /\ websocket = <<>> /\ k = 3
          /\ \A i \in 1 .. 3 : u[i] = [msg |-> d + 1, at |-> i]
      BY <2>6, <3>7
    <3>9. m = d + 1
      BY <2>3, <3>4, <3>5, <3>8
    <3>10. n \in 1 .. 2
      <4>1. n = 3 => u[n].at = 3
        <5>1. u[3] = [msg |-> d + 1, at |-> 3]
          BY <3>8
        <5>2. QED
          BY <5>1
      <4>2. Framing!Size[Framing!TypeOf(u[n])] = 3
        BY <3>3, <3>4 DEF Framing!TypeOf, Framing!Size
      <4>3. QED
        BY <1>4, <3>3, <3>8, <4>1, <4>2
    <3>11. \A i \in 1 .. Len(buffer') : buffer'[i] = [msg |-> Len(sent'), at |-> i]
      BY <1>1, <1>5, <3>8, <3>10
    <3>12. \A i \in 1 .. Len(unread') : unread'[i].at > 1
      <4>1. ASSUME NEW i \in 1 .. k - n
            PROVE  unread'[i].at > 1
        <5>1. n + i \in 1 .. 3 /\ n + i > 1 /\ unread'[i] = u[n + i]
          BY <1>6, <3>8, <3>10
        <5>2. u[n + i] = [msg |-> d + 1, at |-> n + i]
          BY <3>8, <5>1
        <5>3. u[n + i].at = n + i
          BY <5>2
        <5>4. QED
          BY <5>1, <5>3
      <4>2. QED
        BY <1>6, <4>1
    <3>13. \A i \in 1 .. Len(out') : out'[i].msg = IF i < Len(sent') THEN i ELSE 0
      BY <1>1, <1>13, <2>2, <2>3, <3>8 DEF Straight
    <3>14. http' = <<>> /\ websocket' = <<>> /\ Len(buffer') \in 1 .. 2
      BY <1>1, <1>5, <1>13, <3>8, <3>10 DEF Straight
    <3>15. Len(sent') > 0 /\ Len(sent') <= Handshake /\ Len(sent') - 1 <= Len(out')
      BY <1>1, <2>2, <2>3, <3>4, <3>6, <3>8, <3>9
    <3>16. Lost'
      BY <1>1, <3>11, <3>12, <3>13, <3>14, <3>15 DEF Lost, FedAgain
    <3>17. QED
      BY <2>7, <3>16
  <2>8. CASE ~Framing!Confused'
    <3>1. Starts(s)'
      BY <1>1, <2>1 DEF Starts, SizeOf
    <3>2. Reached(s)' = Reached(s)
      <4>1. Reached(s)' = e - (k - n) - n + 0
        BY <1>1, <1>5, <1>6, <2>2 DEF Reached
      <4>2. QED
        BY <1>4, <2>3, <2>4, <4>1
    <3>3. Placed(s)'
      <4>1. \A i \in 1 .. k - n : Place(s, unread'[i]) = e - (k - n) + i
        <5>1. ASSUME NEW i \in 1 .. k - n
              PROVE  Place(s, unread'[i]) = e - (k - n) + i
          <6>1. n + i \in 1 .. k /\ e - k + (n + i) = e - (k - n) + i
            BY <1>4, <2>3
          <6>2. Place(s, u[n + i]) = e - k + (n + i)
            BY <2>5, <6>1
          <6>3. QED
            BY <1>6, <6>1, <6>2
        <5>2. QED
          BY <5>1
      <4>2. \A i \in 1 .. n : Place(s, buffer'[i]) = e - (k - n) - n + i
        <5>1. ASSUME NEW i \in 1 .. n
              PROVE  Place(s, buffer'[i]) = e - (k - n) - n + i
          <6>1. i \in 1 .. k /\ e - k + i = e - (k - n) - n + i
            BY <1>4, <2>3
          <6>2. QED
            BY <1>5, <2>5, <6>1
        <5>2. QED
          BY <5>1
      <4>3. \A i \in 1 .. Len(websocket') : Place(s, websocket'[i]) = Reached(s)' - Len(websocket') + i
        BY <1>1, <2>1, <3>2 DEF Placed
      <4>4. \A byte : Place(s, byte)' = Place(s, byte)
        BY DEF Place
      <4>5. QED
        BY <1>1, <1>5, <1>6, <2>2, <4>1, <4>2, <4>3, <4>4 DEF Placed
    <3>4. AtNext(s)'
      BY <1>1, <2>1, <3>2 DEF AtNext, SizeOf
    <3>5. HttpAlone'
      <4>1. ASSUME sent[d + 1].type = "http"
            PROVE  n = 3
        <5>1. /\ Len(sent) = d + 1 /\ k = 3 /\ u[n] = [msg |-> d + 1, at |-> n]
          BY <1>4, <2>6, <4>1
        <5>2. u[n].msg = d + 1 /\ u[n].at = n
          BY <5>1
        <5>3. d + 1 \notin pieces'
          <6>1. sent[d + 1] = Framing!Http
            BY <1>4, <2>3, <4>1 DEF InOrder
          <6>2. QED
            BY <1>1, <2>8, <6>1 DEF Framing!Confused
        <5>4. u[n].at = Framing!Size[Framing!TypeOf(u[n])]
          BY <1>2, <1>3, <5>2, <5>3
        <5>5. Framing!Size[Framing!TypeOf(u[n])] = 3
          BY <4>1, <5>2 DEF Framing!TypeOf, Framing!Size
        <5>6. QED
          BY <5>2, <5>4, <5>5
      <4>2. ASSUME sent[d + 1].type = "http"
            PROVE  /\ Len(sent') = d + 1 /\ websocket' = <<>>
                   /\ unread' = <<>> /\ processed' = 0 /\ Len(buffer') = 3
        <5>1. Len(sent) = d + 1 /\ websocket = <<>> /\ k = 3 /\ n = 3
          BY <2>6, <4>1, <4>2
        <5>2. Len(unread') = 0
          BY <1>6, <5>1
        <5>3. unread' = <<>>
          BY <1>6, <5>2
        <5>4. QED
          BY <1>1, <1>5, <5>1, <5>3
      <4>3. QED
        BY <1>1, <2>2, <4>2 DEF HttpAlone
    <3>6. Straight'
      <4>1. \E r : (Starts(r) /\ Placed(r) /\ AtNext(r))'
        BY <3>1, <3>3, <3>4
      <4>2. QED
        BY <1>1, <1>13, <3>5, <4>1 DEF Straight
    <3>7. QED
      BY <2>8, <3>6
  <2>9. QED
    BY <2>7, <2>8
<1>14. ASSUME Framing!Confused
       PROVE  Framing!Confused'
  <2>1. pieces \subseteq pieces'
    BY <1>2
  <2>2. QED
    BY <1>1, <1>14, <2>1 DEF Framing!Confused
<1>15. QED
  BY <1>9, <1>10, <1>12, <1>13, <1>14 DEF FramingInv

(* A response that has been read whole is processed whole. *)
LEMMA HttpStraight ==
  ASSUME FramingInv, Straight, ~Framing!Confused, Framing!LoopHttp
  PROVE  FramingInv'
<1>1. /\ sent' = sent /\ unread' = unread /\ buffer' = buffer /\ websocket' = websocket
      /\ identifier' = identifier /\ stopped' = stopped /\ connections' = connections
      /\ pieces' = pieces /\ lpc = "loop"
  BY DEF Framing!LoopHttp, Framing!wireVars
<1>2. StreamTypes /\ InOrder /\ http = <<>>
  BY DEF FramingInv, Straight
<1>3. PICK q \in Framing!Consumed(<<>>, Framing!Rest(processed), Framing!HttpComplete) :
        /\ Framing!BeginsHttp
        /\ Framing!HttpStep(SubSeq(Framing!Rest(processed), 1, q), q)
  BY <1>2 DEF Framing!LoopHttp
<1>4. PICK s : Starts(s) /\ Placed(s) /\ AtNext(s)
  BY <1>1 DEF Straight, Closed
<1>5. PICK d, n : d = Len(out) /\ n = Len(sent)
  OBVIOUS
<1>6. /\ d \in Nat /\ d < n /\ n \in Nat /\ d + 1 \in 1 .. n
      /\ s[d + 1] \in Nat /\ s[n + 1] \in Nat /\ SizeOf(d + 1) \in 1 .. 3
  BY <1>1, <1>2, <1>4, <1>5, Ahead
<1>7. /\ Len(buffer) \in Nat /\ Len(unread) \in Nat /\ processed \in 0 .. Len(buffer)
      /\ processed < Len(buffer) /\ Reached(s) = s[n + 1] - Len(unread) - Len(buffer) + processed
  BY <1>1, <1>2, <1>5 DEF StreamTypes, Reached
<1>8. websocket = <<>> /\ Framing!TypeOf(buffer[processed + 1]) = "http"
  BY <1>3 DEF Framing!BeginsHttp
<1>9. Reached(s) = s[d + 1]
  <2>1. Len(websocket) = 0 /\ Reached(s) - Len(websocket) = s[d + 1]
    BY <1>4, <1>5, <1>8 DEF AtNext
  <2>2. QED
    BY <1>6, <1>7, <2>1
<1>10. \A i \in 1 .. Len(buffer) :
         /\ buffer[i] \in Places /\ IsSent(buffer[i])
         /\ Place(s, buffer[i]) = s[n + 1] - Len(unread) - Len(buffer) + i
  BY <1>2, <1>4, <1>5, StreamBytes DEF Placed
<1>11. sent[d + 1].type = "http"
  <2>1. processed + 1 \in 1 .. Len(buffer)
    BY <1>7
  <2>2. Place(s, buffer[processed + 1]) = s[d + 1] + 1
    <3>1. Place(s, buffer[processed + 1])
            = s[n + 1] - Len(unread) - Len(buffer) + (processed + 1)
      BY <1>10, <2>1
    <3>2. s[n + 1] - Len(unread) - Len(buffer) + (processed + 1) = Reached(s) + 1
      BY <1>6, <1>7
    <3>3. QED
      BY <1>9, <3>1, <3>2
  <2>3. buffer[processed + 1] = [msg |-> d + 1, at |-> 1]
    <3>1. 1 \in 1 .. SizeOf(d + 1)
      BY <1>6
    <3>2. QED
      BY <1>2, <1>4, <1>5, <1>6, <1>10, <2>1, <2>2, <3>1, ByteAt
  <2>4. buffer[processed + 1].msg = d + 1
    BY <2>3
  <2>5. QED
    BY <1>8, <2>4 DEF Framing!TypeOf
<1>12. n = d + 1 /\ unread = <<>> /\ processed = 0 /\ Len(buffer) = 3
  BY <1>1, <1>5, <1>6, <1>11 DEF Straight, HttpAlone
<1>13. SizeOf(d + 1) = 3
  BY <1>2, <1>5, <1>6, <1>11, Sizes
<1>14. ASSUME NEW i \in 1 .. 3
       PROVE  buffer[i] = [msg |-> d + 1, at |-> i]
  <2>1. Len(unread) = 0
    BY <1>12
  <2>2. Place(s, buffer[i]) = s[d + 1] + i
    <3>1. PICK e, c : e = s[n + 1] /\ c = s[d + 1]
      OBVIOUS
    <3>2. i \in 1 .. Len(buffer) /\ Place(s, buffer[i]) = e - 0 - 3 + i
      BY <1>10, <1>12, <2>1, <3>1
    <3>3. c = e - 0 - 3 + 0 /\ c \in Nat /\ e \in Nat
      BY <1>6, <1>7, <1>9, <1>12, <2>1, <3>1
    <3>4. e - 0 - 3 + i = c + i
      BY ONLY <3>3
    <3>5. QED
      BY <3>1, <3>2, <3>4
  <2>3. buffer[i] \in Places /\ IsSent(buffer[i]) /\ i \in 1 .. SizeOf(d + 1)
    BY <1>10, <1>12, <1>13
  <2>4. d + 1 \in 1 .. Len(sent)
    BY <1>5, <1>6
  <2>5. QED
    BY <1>2, <1>4, <2>2, <2>3, <2>4, ByteAt
(* The parser stops at the end of the response. *)
<1>15. PICK rest : rest = Framing!Rest(0)
  OBVIOUS
<1>16. /\ rest \in Seq(Places) /\ Len(rest) = 3
       /\ \A i \in 1 .. 3 : rest[i] = [msg |-> d + 1, at |-> i]
  <2>1. buffer \in Seq(Places) /\ 0 \in 0 .. Len(buffer)
    BY <1>2, <1>7 DEF StreamTypes
  <2>2. /\ Framing!Rest(0) \in Seq(Places) /\ Len(Framing!Rest(0)) = Len(buffer) - 0
        /\ \A i \in 1 .. Len(buffer) - 0 : Framing!Rest(0)[i] = buffer[0 + i]
    BY <2>1, RestBytes
  <2>3. QED
    BY <1>12, <1>14, <1>15, <2>2
<1>17. ASSUME NEW k \in 0 .. 3
       PROVE  /\ SubSeq(rest, 1, k) \in Seq(Places) /\ Len(SubSeq(rest, 1, k)) = k
              /\ DOMAIN SubSeq(rest, 1, k) = 1 .. k
              /\ \A i \in 1 .. k : SubSeq(rest, 1, k)[i] = [msg |-> d + 1, at |-> i]
              /\ Fed(<<>>, rest, k) = SubSeq(rest, 1, k)
  <2>1. <<>> \in Seq(Places) /\ Len(<<>>) = 0 /\ rest \in Seq(Places) /\ k \in 0 .. Len(rest)
    BY <1>16
  <2>2. 1 \in 1 .. Len(rest) + 1 /\ k \in 1 - 1 .. Len(rest)
    BY <1>16
  <2>3. /\ SubSeq(rest, 1, k) \in Seq(Places) /\ Len(SubSeq(rest, 1, k)) = k - 1 + 1
        /\ DOMAIN SubSeq(rest, 1, k) = 1 .. k - 1 + 1
        /\ \A i \in 1 .. k - 1 + 1 : SubSeq(rest, 1, k)[i] = rest[1 + i - 1]
    BY ONLY <2>1, <2>2, Parts
  <2>4. k - 1 + 1 = k /\ \A i \in 1 .. k : 1 + i - 1 = i
    OBVIOUS
  <2>5. PICK u : u = SubSeq(rest, 1, k)
    OBVIOUS
  <2>6. u \in Seq(Places) /\ <<>> \o u = u
    BY <2>3, <2>5
  <2>7. QED
    BY <1>16, <2>3, <2>4, <2>5, <2>6 DEF Fed
<1>18. ASSUME NEW k \in 0 .. 3
       PROVE  Framing!HttpComplete(SubSeq(rest, 1, k)) <=> k = 3
  <2>1. PICK u : u = SubSeq(rest, 1, k)
    OBVIOUS
  <2>2. \A i \in 1 .. k : u[i].msg = d + 1 /\ u[i].at = i
    <3>1. \A i \in 1 .. k : u[i] = [msg |-> d + 1, at |-> i]
      BY <1>17, <2>1
    <3>2. ASSUME NEW i \in 1 .. k
          PROVE  u[i].msg = d + 1 /\ u[i].at = i
      <4>1. u[i] = [msg |-> d + 1, at |-> i]
        BY <3>1
      <4>2. QED
        BY <4>1
    <3>3. QED
      BY <3>2
  <2>3. \A i \in 1 .. k : Framing!TypeOf(u[i]) = "http"
    BY <1>11, <2>2 DEF Framing!TypeOf
  <2>4. Framing!HttpComplete(u) <=> \E i \in 1 .. k : i = 2 /\ k - i = 1
    <3>1. DOMAIN u = 1 .. k /\ Len(u) = k
      BY <1>17, <2>1
    <3>2. Framing!Size.http - 2 = 1
      BY DEF Framing!Size
    <3>3. Framing!HttpComplete(u) <=>
            \E i \in 1 .. k : Framing!TypeOf(u[i]) = "http" /\ u[i].at = 2 /\ k - i = 1
      BY <3>1, <3>2 DEF Framing!HttpComplete
    <3>4. QED
      BY <2>2, <2>3, <3>3
  <2>5. QED
    BY <2>1, <2>4
<1>19. q = 3
  <2>1. Len(rest) \in Nat /\ Len(rest) = 3
    BY <1>16
  <2>2. /\ q \in 0 .. Len(rest)
        /\ q = Len(rest) \/ Framing!HttpComplete(Fed(<<>>, rest, q))
    BY <1>3, <1>12, <1>15, <2>1, HttpConsumed
  <2>3. QED
    BY <1>17, <1>18, <2>1, <2>2
<1>20. PICK fed : fed = SubSeq(rest, 1, 3)
  OBVIOUS
<1>21. /\ fed \in Seq(Places) /\ Len(fed) = SizeOf(d + 1)
       /\ \A i \in 1 .. SizeOf(d + 1) : fed[i] = [msg |-> d + 1, at |-> i]
  BY <1>13, <1>17, <1>20
<1>22. Framing!Process(fed, "http") /\ http' = <<>> /\ Framing!Advance(3)
  BY <1>3, <1>12, <1>15, <1>18, <1>19, <1>20 DEF Framing!HttpStep
<1>23. PICK entry : entry = [as |-> "http", msg |-> d + 1]
  OBVIOUS
<1>24. out' = Append(out, entry)
  BY <1>2, <1>5, <1>6, <1>21, <1>22, <1>23, WholeIsHandedOn
<1>25. entry \in Outs /\ entry.msg = d + 1
  BY <1>6, <1>23 DEF Outs, Types
<1>26. /\ out' \in Seq(Outs) /\ Len(out') = d + 1
       /\ \A i \in 1 .. d : out'[i] = out[i]
       /\ out'[d + 1].msg = d + 1
  <2>1. out \in Seq(Outs)
    BY <1>2 DEF StreamTypes
  <2>2. QED
    BY <1>5, <1>24, <1>25, <2>1, Added
<1>27. processed' = 3 /\ lpc' = "read"
  BY <1>12, <1>22 DEF Framing!Advance
<1>28. StreamTypes'
  <2>1. AllSent(http')
    BY <1>22 DEF AllSent
  <2>2. \A u : AllSent(u) => AllSent(u)'
    BY <1>1 DEF AllSent, IsSent, SizeOf
  <2>3. AllSent(unread)' /\ AllSent(buffer)' /\ AllSent(websocket)' /\ AllSent(http)'
    BY <1>1, <1>2, <1>22 DEF StreamTypes, AllSent, IsSent, SizeOf
  <2>4. processed' \in 0 .. Len(buffer') /\ ~(processed' < Len(buffer')) /\ http' \in Seq(Places)
    BY <1>1, <1>12, <1>22, <1>27
  <2>5. QED
    BY <1>1, <1>2, <1>26, <1>27, <2>3, <2>4, Zenon DEF StreamTypes
<1>29. InOrder'
  BY <1>1, <1>2 DEF InOrder
<1>30. Starts(s)' /\ Placed(s)' /\ AtNext(s)'
  <2>1. Starts(s)'
    BY <1>1, <1>4 DEF Starts, SizeOf
  <2>2. Reached(s)' = s[n + 1]
    <3>1. Reached(s)' = s[n + 1] - 0 - 3 + 3
      BY <1>1, <1>5, <1>12, <1>27 DEF Reached
    <3>2. QED
      BY <1>6, <3>1
  <2>3. \A byte : Place(s, byte)' = Place(s, byte)
    BY DEF Place
  <2>4. Placed(s)'
    BY <1>1, <1>4, <1>8, <2>3 DEF Placed
  <2>5. AtNext(s)'
    <3>1. Len(websocket') = 0 /\ Len(out') + 1 = n + 1 /\ s[n + 1] - 0 = s[n + 1]
      BY <1>1, <1>6, <1>8, <1>12, <1>26
    <3>2. QED
      BY <1>1, <1>8, <2>2, <3>1 DEF AtNext
  <2>6. QED
    BY <2>1, <2>4, <2>5
<1>31. Straight'
  <2>1. Len(out') <= Len(sent') /\ http' = <<>>
    BY <1>1, <1>5, <1>12, <1>22, <1>26
  <2>2. ASSUME NEW i \in 1 .. d + 1
        PROVE  /\ out'[i].msg = i
               /\ sent[i].type = "table" => out'[i].as = sent[i].of
    <3>1. CASE i = d + 1
      BY <1>11, <1>26, <3>1
    <3>2. CASE i \in 1 .. d
      BY <1>5, <1>26, <3>2 DEF Straight
    <3>3. QED
      BY <1>6, <3>1, <3>2
  <2>3. HttpAlone'
    BY <1>1, <1>5, <1>12, <1>26 DEF HttpAlone
  <2>4. QED
    BY <1>1, <1>11, <1>26, <1>30, <2>1, <2>2, <2>3 DEF Straight
<1>32. ~Framing!Confused'
  BY <1>1 DEF Framing!Confused
<1>33. QED
  BY <1>28, <1>29, <1>31, <1>32 DEF FramingInv

(* The bytes of a frame that are there are the first of the next message, and the
   parser stops at its end. *)
LEMMA FrameStraight ==
  ASSUME FramingInv, Straight, ~Framing!Confused, Framing!LoopWebsocket
  PROVE  FramingInv'
<1>1. /\ sent' = sent /\ unread' = unread /\ buffer' = buffer /\ http' = http
      /\ connections' = connections /\ pieces' = pieces /\ lpc = "loop" /\ ~Framing!BeginsHttp
  BY DEF Framing!LoopWebsocket, Framing!wireVars
<1>2. StreamTypes /\ InOrder /\ http = <<>>
  BY DEF FramingInv, Straight
<1>3. PICK s : Starts(s) /\ Placed(s) /\ AtNext(s)
  BY <1>1 DEF Straight, Closed
<1>4. PICK d, n, g, p : d = Len(out) /\ n = Len(sent) /\ g = Len(websocket) /\ p = processed
  OBVIOUS
<1>5. /\ d \in Nat /\ d < n /\ n \in Nat /\ d + 1 \in 1 .. n /\ g < SizeOf(d + 1)
      /\ s[d + 1] \in Nat /\ s[n + 1] \in Nat /\ SizeOf(d + 1) \in 1 .. 3
      /\ s[d + 2] = s[d + 1] + SizeOf(d + 1) /\ s[d + 2] <= s[n + 1]
  BY <1>1, <1>2, <1>3, <1>4, Ahead
<1>6. /\ Len(buffer) \in Nat /\ Len(unread) \in Nat /\ p \in 0 .. Len(buffer)
      /\ p < Len(buffer) /\ g \in Nat
  BY <1>1, <1>2, <1>4 DEF StreamTypes
<1>7. PICK f : f = s[n + 1] - Len(unread) - Len(buffer)
  OBVIOUS
<1>8. f \in Int /\ f + p = s[d + 1] + g /\ Reached(s) = f + p
  <2>1. Reached(s) = f + p /\ Reached(s) - g = s[d + 1]
    BY <1>3, <1>4, <1>7 DEF Reached, AtNext
  <2>2. f \in Int
    BY <1>5, <1>6, <1>7
  <2>3. QED
    BY <1>5, <1>6, <2>1, <2>2
<1>33. PICK c, e, z, y, k : /\ c = s[d + 1] /\ e = s[n + 1] /\ z = SizeOf(d + 1)
                            /\ y = s[d + 2] /\ k = Len(buffer)
  OBVIOUS
<1>34. /\ c \in Nat /\ e \in Nat /\ z \in 1 .. 3 /\ y = c + z /\ y <= e /\ k \in Nat
       /\ f \in Int /\ p \in 0 .. k /\ p < k /\ g \in Nat /\ g < z /\ f + p = c + g
       /\ d \in Nat /\ n \in Nat /\ d < n
  BY <1>5, <1>6, <1>8, <1>33
<1>9. \A i \in 1 .. Len(buffer) :
        buffer[i] \in Places /\ IsSent(buffer[i]) /\ Place(s, buffer[i]) = f + i
  BY <1>2, <1>3, <1>4, <1>7, StreamBytes DEF Placed
<1>10. \A i \in 1 .. g :
         /\ websocket[i] \in Places /\ IsSent(websocket[i])
         /\ Place(s, websocket[i]) = s[d + 1] + i
  <2>1. \A i \in 1 .. g : Place(s, websocket[i]) = Reached(s) - g + i
    BY <1>3, <1>4 DEF Placed
  <2>2. \A i \in 1 .. g : Reached(s) - g + i = s[d + 1] + i
    <3>1. PICK r : r = Reached(s)
      OBVIOUS
    <3>2. r = f + p
      BY <1>8, <3>1
    <3>3. \A i \in 1 .. g : r - g + i = c + i
      BY ONLY <1>34, <3>2
    <3>4. QED
      BY <1>33, <3>1, <3>3
  <2>3. QED
    BY <1>2, <1>4, <2>1, <2>2, StreamBytes
<1>11. sent[d + 1].type # "http"
  <2>1. SUFFICES ASSUME sent[d + 1].type = "http"
                 PROVE  FALSE
    OBVIOUS
  <2>2. websocket = <<>>
    BY <1>4, <1>5, <2>1 DEF Straight, HttpAlone
  <2>3. g = 0
    BY <1>4, <2>2
  <2>4. p + 1 \in 1 .. Len(buffer) /\ f + (p + 1) = s[d + 1] + 1
    BY <1>5, <1>6, <1>8, <2>3
  <2>5. Place(s, buffer[p + 1]) = s[d + 1] + 1 /\ 1 \in 1 .. SizeOf(d + 1)
    BY <1>5, <1>9, <2>4
  <2>6. buffer[p + 1] = [msg |-> d + 1, at |-> 1]
    <3>1. buffer[p + 1] \in Places /\ IsSent(buffer[p + 1]) /\ d + 1 \in 1 .. Len(sent)
      BY <1>4, <1>5, <1>9, <2>4
    <3>2. QED
      BY <1>2, <1>3, <2>5, <3>1, ByteAt
  <2>7. buffer[p + 1].msg = d + 1 /\ buffer[p + 1].at = 1
    BY <2>6
  <2>8. QED
    BY <1>1, <1>2, <1>4, <2>1, <2>2, <2>7 DEF Framing!BeginsHttp, Framing!TypeOf
<1>12. PICK rest : rest = Framing!Rest(p)
  OBVIOUS
<1>13. /\ rest \in Seq(Places) /\ Len(rest) = Len(buffer) - p /\ Len(rest) \in Nat
       /\ \A i \in 1 .. Len(rest) : rest[i] = buffer[p + i] /\ p + i \in 1 .. Len(buffer)
  <2>1. buffer \in Seq(Places)
    BY <1>2 DEF StreamTypes
  <2>2. /\ Framing!Rest(p) \in Seq(Places) /\ Len(Framing!Rest(p)) = Len(buffer) - p
        /\ \A i \in 1 .. Len(buffer) - p : Framing!Rest(p)[i] = buffer[p + i]
    BY <1>6, <2>1, RestBytes
  <2>3. QED
    BY <1>6, <1>12, <2>2
<1>14. websocket \in Seq(Places)
  BY <1>2 DEF StreamTypes
(* The bytes a parser may be fed: websocket, and the first k of the rest. *)
<1>15. ASSUME NEW l \in 0 .. Len(rest), NEW u, u = Fed(websocket, rest, l)
       PROVE  /\ u \in Seq(Places) /\ Len(u) = g + l /\ DOMAIN u = 1 .. g + l
              /\ \A i \in 1 .. g + l : IsSent(u[i]) /\ Place(s, u[i]) = s[d + 1] + i
              /\ \A i \in 1 .. g + l : i <= SizeOf(d + 1) => u[i] = [msg |-> d + 1, at |-> i]
  <2>1. PICK w : w = websocket
    OBVIOUS
  <2>2. w \in Seq(Places) /\ rest \in Seq(Places) /\ l \in 0 .. Len(rest) /\ u = Fed(w, rest, l)
    BY <1>13, <1>14, <1>15, <2>1
  <2>3. /\ u \in Seq(Places) /\ Len(u) = Len(w) + l /\ DOMAIN u = 1 .. Len(w) + l
        /\ \A i \in 1 .. Len(w) : u[i] = w[i]
        /\ \A i \in 1 .. l : u[Len(w) + i] = rest[i]
    BY ONLY <2>2, FedBytes
  <2>4. Len(w) = g
    BY <1>4, <2>1
  <2>5. ASSUME NEW i \in 1 .. g + l
        PROVE  u[i] \in Places /\ IsSent(u[i]) /\ Place(s, u[i]) = s[d + 1] + i
    <3>1. CASE i <= g
      <4>1. i \in 1 .. g /\ u[i] = websocket[i]
        BY <1>6, <2>1, <2>3, <2>4, <3>1
      <4>2. QED
        BY <1>10, <4>1
    <3>2. CASE ~(i <= g)
      <4>1. PICK j : j = i - g
        OBVIOUS
      <4>2. j \in 1 .. l /\ i = g + j /\ j \in 1 .. Len(rest) /\ p + j \in 1 .. Len(buffer)
        <5>1. PICK r : r = Len(rest)
          OBVIOUS
        <5>2. r = k - p /\ l \in 0 .. r /\ i \in 1 .. g + l /\ ~(i <= g) /\ j = i - g
          BY <1>13, <1>33, <2>5, <3>2, <4>1, <5>1
        <5>3. j \in 1 .. l /\ i = g + j /\ j \in 1 .. r /\ p + j \in 1 .. k
          BY ONLY <1>34, <5>2
        <5>4. QED
          BY <1>33, <5>1, <5>3
      <4>3. u[i] = buffer[p + j]
        BY <1>13, <2>3, <2>4, <4>2
      <4>4. f + (p + j) = s[d + 1] + i
        <5>1. j \in Nat /\ i = g + j
          BY <4>2
        <5>3. f + (p + j) = c + i
          BY ONLY <1>34, <5>1
        <5>4. QED
          BY <1>33, <5>3
      <4>5. QED
        BY <1>9, <4>2, <4>3, <4>4
    <3>3. QED
      BY <3>1, <3>2
  <2>6. ASSUME NEW i \in 1 .. g + l, i <= SizeOf(d + 1)
        PROVE  u[i] = [msg |-> d + 1, at |-> i]
    <3>1. i \in 1 .. SizeOf(d + 1) /\ d + 1 \in 1 .. Len(sent)
      BY <1>4, <1>5, <2>6
    <3>2. QED
      BY <1>2, <1>3, <2>5, <3>1, ByteAt
  <2>7. QED
    BY <2>3, <2>4, <2>5, <2>6
<1>16. ASSUME NEW l \in 0 .. Len(rest), NEW u, u = Fed(websocket, rest, l)
       PROVE  Framing!FrameComplete(u) <=> g + l = SizeOf(d + 1)
  <2>1. /\ u \in Seq(Places) /\ Len(u) = g + l /\ l \in Nat
        /\ g + l > 0 => u[1] = [msg |-> d + 1, at |-> 1]
    <3>1. l \in Nat /\ u \in Seq(Places) /\ Len(u) = g + l
      BY <1>13, <1>15, <1>16
    <3>2. ASSUME g + l > 0
          PROVE  u[1] = [msg |-> d + 1, at |-> 1]
      <4>1. 1 \in 1 .. g + l /\ 1 <= z
        BY ONLY <1>34, <3>1, <3>2
      <4>2. QED
        BY <1>15, <1>16, <1>33, <4>1
    <3>3. QED
      BY <3>1, <3>2
  <2>2. CASE g + l > 0
    <3>1. u # <<>> /\ u[1] = [msg |-> d + 1, at |-> 1]
      BY <2>1, <2>2
    <3>2. u[1].msg = d + 1 /\ u[1].at = 1
      BY <3>1
    <3>3. Framing!TypeOf(u[1]) = sent[d + 1].type
      BY <3>2 DEF Framing!TypeOf
    <3>4. QED
      BY <1>11, <2>1, <3>1, <3>2, <3>3 DEF Framing!FrameComplete, SizeOf
  <2>3. CASE ~(g + l > 0)
    <3>1. g + l = 0
      BY <1>6, <2>1, <2>3
    <3>2. u = <<>>
      BY <2>1, <3>1
    <3>3. g + l # SizeOf(d + 1)
      BY <1>5, <3>1
    <3>4. QED
      BY <3>2, <3>3 DEF Framing!FrameComplete
  <2>4. QED
    BY <2>2, <2>3
<1>31. PICK q \in Framing!Consumed(websocket, Framing!Rest(processed), Framing!FrameComplete) :
        LET u == websocket \o SubSeq(Framing!Rest(processed), 1, q) IN
          /\ Framing!Advance(processed + q)
          /\ IF Framing!FrameComplete(u) THEN Framing!FrameEnds(u)
             ELSE websocket' = u /\ UNCHANGED <<identifier, out, stopped>>
  BY DEF Framing!LoopWebsocket
<1>18. PICK fed : fed = websocket \o SubSeq(Framing!Rest(processed), 1, q)
  OBVIOUS
<1>17. /\ Framing!Advance(processed + q) /\ fed = Fed(websocket, rest, q)
       /\ Framing!FrameComplete(fed) => Framing!FrameEnds(fed)
       /\ ~Framing!FrameComplete(fed) =>
            websocket' = fed /\ identifier' = identifier /\ out' = out /\ stopped' = stopped
  BY <1>4, <1>12, <1>18, <1>31 DEF Fed
<1>19. /\ q \in 0 .. Len(rest)
       /\ q = Len(rest) \/ Framing!FrameComplete(Fed(websocket, rest, q))
       /\ \A l \in 0 .. q - 1 : ~Framing!FrameComplete(Fed(websocket, rest, l))
  BY <1>4, <1>12, <1>13, <1>31, FrameConsumed
<1>20. g + q <= SizeOf(d + 1)
  <2>1. PICK l : l = z - g
    OBVIOUS
  <2>2. PICK r : r = Len(rest)
    OBVIOUS
  <2>3. r \in Nat /\ q \in 0 .. r
    BY <1>13, <1>19, <2>2
  <2>4. ASSUME l < q
        PROVE  FALSE
    <3>1. l \in 0 .. q - 1 /\ l \in 0 .. r /\ g + l = z
      BY ONLY <1>34, <2>1, <2>3, <2>4
    <3>2. Framing!FrameComplete(Fed(websocket, rest, l))
      BY <1>16, <1>33, <2>2, <3>1
    <3>3. QED
      BY <1>19, <3>1, <3>2
  <2>5. g + q <= z
    <3>1. ~(l < q)
      BY <2>4
    <3>2. QED
      BY ONLY <1>34, <2>1, <2>3, <3>1
  <2>6. QED
    BY <1>33, <2>5
<1>21. /\ fed \in Seq(Places) /\ Len(fed) = g + q
       /\ \A i \in 1 .. g + q : IsSent(fed[i]) /\ Place(s, fed[i]) = s[d + 1] + i
       /\ \A i \in 1 .. g + q : fed[i] = [msg |-> d + 1, at |-> i]
       /\ Framing!FrameComplete(fed) <=> g + q = SizeOf(d + 1)
  <2>1. /\ fed \in Seq(Places) /\ Len(fed) = g + q
        /\ \A i \in 1 .. g + q : IsSent(fed[i]) /\ Place(s, fed[i]) = s[d + 1] + i
        /\ \A i \in 1 .. g + q : i <= SizeOf(d + 1) => fed[i] = [msg |-> d + 1, at |-> i]
    BY <1>15, <1>17, <1>19
  <2>2. Framing!FrameComplete(fed) <=> g + q = SizeOf(d + 1)
    BY <1>16, <1>17, <1>19
  <2>3. \A i \in 1 .. g + q : i <= SizeOf(d + 1)
    <3>1. q \in Nat /\ g + q <= z
      BY <1>13, <1>19, <1>20, <1>33
    <3>2. \A i \in 1 .. g + q : i <= z
      BY ONLY <1>34, <3>1
    <3>3. QED
      BY <1>33, <3>2
  <2>4. QED
    BY <2>1, <2>2, <2>3
<1>22. /\ processed' = p + q /\ p + q \in 0 .. Len(buffer) /\ q \in Nat
       /\ lpc' = IF p + q < Len(buffer) THEN "loop" ELSE "read"
  BY <1>4, <1>6, <1>13, <1>17, <1>19 DEF Framing!Advance
<1>23. Starts(s)' /\ InOrder' /\ ~Framing!Confused'
  BY <1>1, <1>2, <1>3 DEF Starts, SizeOf, InOrder, Framing!Confused
<1>24. Reached(s)' = s[d + 1] + g + q
  <2>1. Reached(s)' = f + (p + q)
    BY <1>1, <1>4, <1>7, <1>22 DEF Reached
  <2>2. QED
    <3>1. PICK r : r = Reached(s)'
      OBVIOUS
    <3>2. r = f + (p + q) /\ q \in Nat
      BY <1>22, <2>1, <3>1
    <3>3. r = c + g + q
      BY ONLY <1>34, <3>2
    <3>4. QED
      BY <1>33, <3>1, <3>3
<1>25. \A byte : Place(s, byte)' = Place(s, byte)
  BY DEF Place
<1>26. \A i \in 1 .. g + q : IsSent(fed[i])'
  BY <1>1, <1>21 DEF IsSent, SizeOf
<1>27. AllSent(unread)' /\ AllSent(buffer)' /\ AllSent(http)' /\ AllSent(fed)'
  <2>1. AllSent(fed)'
    BY <1>21, <1>26 DEF AllSent
  <2>2. QED
    BY <1>1, <1>2, <2>1 DEF StreamTypes, AllSent, IsSent, SizeOf
<1>28. \/ d + 2 > n
       \/ d + 2 \in 1 .. n /\ sent[d + 2].type # "http"
  <2>1. SUFFICES ASSUME d + 2 <= n
                 PROVE  sent[d + 2].type # "http" /\ d + 2 \in 1 .. n
    BY <1>5
  <2>2. d + 2 \in 1 .. n /\ d + 1 \in 1 .. n /\ Handshake \in Nat
    BY <1>5, <2>1, ConstantsAssumption DEF Framing!BoundsAssumption
  <2>3. ~(d + 1 <= Handshake)
    BY <1>2, <1>4, <1>11, <2>2 DEF InOrder
  <2>4. ~(d + 2 <= Handshake)
    BY <1>5, <2>2, <2>3
  <2>5. QED
    BY <1>2, <1>4, <2>2, <2>4 DEF InOrder
<1>29. CASE Framing!FrameComplete(fed)
  <2>1. g + q = SizeOf(d + 1) /\ Framing!FrameEnds(fed)
    BY <1>17, <1>21, <1>29
  <2>2. PICK frame, as : /\ frame = sent[d + 1]
                         /\ as = IF frame.type = "table" THEN identifier ELSE frame.type
    OBVIOUS
  <2>3. fed[1].msg = d + 1
    <3>1. fed[1] = [msg |-> d + 1, at |-> 1]
      BY <1>5, <1>21, <2>1
    <3>2. QED
      BY <3>1
  <2>4. /\ identifier' = IF frame.type = "header" THEN frame.of ELSE identifier
        /\ Framing!Process(fed, as)
        /\ websocket' = IF frame.type = "close" THEN fed ELSE <<>>
        /\ stopped' = (stopped \/ frame.type = "close")
    BY <2>1, <2>2, <2>3 DEF Framing!FrameEnds, Framing!Identify
  <2>5. PICK entry : entry = [as |-> as, msg |-> d + 1]
    OBVIOUS
  <2>6. out' = Append(out, entry)
    <3>1. /\ fed \in Seq(Places) /\ Len(fed) = SizeOf(d + 1) /\ d + 1 \in 1 .. Len(sent)
          /\ \A i \in 1 .. SizeOf(d + 1) : fed[i] = [msg |-> d + 1, at |-> i]
      BY <1>4, <1>5, <1>21, <2>1
    <3>2. QED
      BY <1>2, <2>4, <2>5, <3>1, WholeIsHandedOn
  <2>7. frame \in Messages /\ frame.type \in Types /\ frame.of \in Identifiers \cup Types
    <3>1. frame \in Messages
      BY <1>2, <1>4, <1>5, <2>2, Sizes
    <3>2. QED
      BY <3>1 DEF Messages
  <2>8. identifier \in Identifiers
    BY <1>2 DEF StreamTypes
  <2>9. entry \in Outs /\ entry.msg = d + 1 /\ entry.as = as
    BY <1>5, <2>2, <2>5, <2>7, <2>8 DEF Outs
  <2>10. /\ out' \in Seq(Outs) /\ Len(out') = d + 1
         /\ \A i \in 1 .. d : out'[i] = out[i]
         /\ out'[d + 1] = entry
    <3>1. out \in Seq(Outs)
      BY <1>2 DEF StreamTypes
    <3>2. QED
      BY <1>4, <2>6, <2>9, <3>1, Added
(* The header before a table says what it is. *)
  <2>11. frame.type = "table" => as = frame.of
    <3>1. SUFFICES ASSUME frame.type = "table"
                   PROVE  identifier = frame.of
      BY <2>2
    <3>2. d + 1 > 1 /\ sent[d].type = "header" /\ sent[d].of = frame.of
      <4>1. (d + 1) - 1 = d
        BY <1>5
      <4>2. QED
        BY <1>2, <1>4, <1>5, <2>2, <3>1, <4>1 DEF InOrder
    <3>3. d > 0
      BY <1>5, <3>2
    <3>4. QED
      BY <1>4, <3>2, <3>3 DEF Straight
  <2>12. StreamTypes'
    <3>1. websocket' \in Seq(Places) /\ AllSent(websocket)'
      <4>1. CASE websocket' = fed
        BY <1>21, <1>27, <4>1
      <4>2. CASE websocket' = <<>>
        BY <4>2 DEF AllSent
      <4>3. QED
        BY <2>4, <4>1, <4>2
    <3>2. stopped' \in BOOLEAN
      BY <1>2, <2>4 DEF StreamTypes
    <3>3. identifier' \in Identifiers
      <4>1. CASE frame.type = "header"
        <5>1. frame.of \in Identifiers
          BY <1>2, <1>4, <1>5, <2>2, <4>1 DEF InOrder
        <5>2. QED
          BY <2>4, <4>1, <5>1
      <4>2. QED
        BY <2>4, <2>8, <4>1
    <3>4. processed' \in 0 .. Len(buffer')
          /\ lpc' = IF processed' < Len(buffer') THEN "loop" ELSE "read"
      BY <1>1, <1>22
    <3>5. QED
      BY <1>1, <1>2, <1>27, <2>10, <3>1, <3>2, <3>3, <3>4, Zenon DEF StreamTypes
  <2>13. Closed' \/ (Placed(s)' /\ AtNext(s)')
    <3>1. CASE frame.type = "close"
      <4>1. d + 1 = n
        BY <1>2, <1>4, <1>5, <2>2, <3>1 DEF InOrder
      <4>2. p + q = Len(buffer)
        <5>1. q \in Nat /\ p + q \in 0 .. k /\ g + q = z
          BY <1>22, <1>33, <2>1
        <5>2. d + 2 = n + 1
          BY ONLY <1>34, <4>1
        <5>3. y = e
          BY <1>33, <5>2
        <5>4. f = e - Len(unread) - k /\ Len(unread) \in Nat
          BY <1>6, <1>7, <1>33
        <5>5. PICK r : r = Len(unread)
          OBVIOUS
        <5>6. f = e - r - k /\ r \in Nat
          BY <5>4, <5>5
        <5>7. p + q = k
          BY ONLY <1>34, <5>1, <5>3, <5>6
        <5>8. QED
          BY <1>33, <5>7
      <4>3. lpc' = "read" /\ stopped'
        <5>1. ~(p + q < Len(buffer))
          BY <1>6, <4>2
        <5>2. lpc' = "read"
          BY <1>22, <5>1
        <5>3. stopped'
          BY <2>4, <3>1
        <5>4. QED
          BY <5>2, <5>3
      <4>4. QED
        BY <4>3 DEF Closed
    <3>2. CASE frame.type # "close"
      <4>1. websocket' = <<>> /\ Len(websocket') = 0
        BY <2>4, <3>2
      <4>2. Placed(s)'
        BY <1>1, <1>3, <1>25, <4>1 DEF Placed
      <4>3. AtNext(s)'
        <5>1. Reached(s)' - 0 = s[d + 2] /\ Len(out') + 1 = d + 2
          <6>1. Reached(s)' = c + g + q /\ g + q = z /\ q \in Nat
            BY <1>22, <1>24, <1>33, <2>1
          <6>2. PICK r : r = Reached(s)'
            OBVIOUS
          <6>3. r = c + g + q /\ g + q = z /\ q \in Nat
            BY <6>1, <6>2
          <6>4. r - 0 = y
            BY ONLY <1>34, <6>3
          <6>5. (d + 1) + 1 = d + 2
            BY ONLY <1>34
          <6>6. QED
            BY <1>33, <2>10, <6>2, <6>4, <6>5
        <5>2. QED
          BY <4>1, <5>1 DEF AtNext
      <4>4. QED
        BY <4>2, <4>3
    <3>3. QED
      BY <3>1, <3>2
  <2>14. HttpAlone'
    <3>1. Len(out') + 1 = d + 2 /\ ~(d + 1 < n /\ sent[d + 2].type = "http")
      BY <1>5, <1>28, <2>10
    <3>2. QED
      BY <1>1, <1>4, <2>10, <3>1 DEF HttpAlone
  <2>15. Straight'
    <3>1. ASSUME NEW i \in 1 .. d + 1
          PROVE  /\ out'[i].msg = i
                 /\ sent[i].type = "table" => out'[i].as = sent[i].of
      <4>1. CASE i = d + 1
        BY <2>2, <2>9, <2>10, <2>11, <4>1
      <4>2. CASE i \in 1 .. d
        BY <1>4, <2>10, <4>2 DEF Straight
      <4>3. QED
        BY <1>5, <4>1, <4>2
    <3>2. sent[d + 1].type = "header" => identifier' = sent[d + 1].of
      BY <2>2, <2>4
    <3>3. Closed' \/ \E r : (Starts(r) /\ Placed(r) /\ AtNext(r))'
      BY <1>23, <2>13
    <3>4. QED
      BY <1>1, <1>2, <1>4, <1>5, <2>10, <2>14, <3>1, <3>2, <3>3 DEF Straight
  <2>16. QED
    BY <1>23, <2>12, <2>15 DEF FramingInv
<1>30. CASE ~Framing!FrameComplete(fed)
  <2>1. /\ websocket' = fed /\ identifier' = identifier /\ out' = out /\ stopped' = stopped
        /\ g + q < SizeOf(d + 1)
    <3>1. q \in Nat /\ g + q <= z /\ g + q # z
      BY <1>20, <1>21, <1>22, <1>30, <1>33
    <3>2. g + q < z
      BY ONLY <1>34, <3>1
    <3>3. QED
      BY <1>17, <1>30, <1>33, <3>2
  <2>2. StreamTypes'
    <3>1. websocket' \in Seq(Places) /\ AllSent(websocket)'
      BY <1>21, <1>27, <2>1
    <3>2. processed' \in 0 .. Len(buffer')
          /\ lpc' = IF processed' < Len(buffer') THEN "loop" ELSE "read"
      BY <1>1, <1>22
    <3>3. QED
      BY <1>1, <1>2, <1>27, <2>1, <3>1, <3>2, Zenon DEF StreamTypes
  <2>3. Placed(s)'
    <3>1. \A i \in 1 .. g + q : Place(s, fed[i]) = Reached(s)' - (g + q) + i
      <4>1. \A i \in 1 .. g + q : s[d + 1] + i = Reached(s)' - (g + q) + i
        <5>1. Reached(s)' = c + g + q /\ q \in Nat
          BY <1>22, <1>24, <1>33
        <5>2. PICK r : r = Reached(s)'
          OBVIOUS
        <5>3. r = c + g + q /\ q \in Nat
          BY <5>1, <5>2
        <5>4. \A i \in 1 .. g + q : c + i = r - (g + q) + i
          BY ONLY <1>34, <5>3
        <5>5. QED
          BY <1>33, <5>2, <5>4
      <4>2. QED
        BY <1>21, <4>1
    <3>2. QED
      BY <1>1, <1>3, <1>21, <1>25, <2>1, <3>1 DEF Placed
  <2>4. AtNext(s)'
    <3>1. Reached(s)' - (g + q) = s[d + 1]
      <4>1. Reached(s)' = c + g + q /\ q \in Nat
        BY <1>22, <1>24, <1>33
      <4>2. PICK r : r = Reached(s)'
        OBVIOUS
      <4>3. r = c + g + q /\ q \in Nat
        BY <4>1, <4>2
      <4>4. r - (g + q) = c
        BY ONLY <1>34, <4>3
      <4>5. QED
        BY <1>33, <4>2, <4>4
    <3>2. SizeOf(d + 1)' = SizeOf(d + 1)
      BY <1>1 DEF SizeOf
    <3>3. QED
      BY <1>1, <1>4, <1>5, <1>21, <2>1, <3>1, <3>2 DEF AtNext
  <2>5. HttpAlone'
    BY <1>1, <1>4, <1>11, <2>1 DEF HttpAlone
  <2>6. Straight'
    <3>1. \E r : (Starts(r) /\ Placed(r) /\ AtNext(r))'
      BY <1>23, <2>3, <2>4
    <3>2. QED
      BY <1>1, <2>1, <2>5, <3>1 DEF Straight
  <2>7. QED
    BY <1>23, <2>2, <2>6 DEF FramingInv
<1>32. QED
  BY <1>29, <1>30

(* While a response is lost, only bytes of responses are on their way. *)
LEMMA LostBytes ==
  ASSUME StreamTypes, InOrder, Lost, NEW byte, IsSent(byte)
  PROVE  Framing!TypeOf(byte) = "http" /\ SizeOf(byte.msg) = 3 /\ byte.at \in 1 .. 3
<1>1. byte.msg \in 1 .. Len(sent) /\ byte.at \in 1 .. SizeOf(byte.msg)
  BY DEF IsSent
<1>2. Len(sent) \in Nat /\ Len(sent) <= Handshake /\ Handshake \in Nat
  BY ConstantsAssumption DEF StreamTypes, Lost, Framing!BoundsAssumption
<1>3. byte.msg <= Handshake
  BY <1>1, <1>2
<1>4. sent[byte.msg].type = "http"
  BY <1>1, <1>3 DEF InOrder
<1>5. SizeOf(byte.msg) = 3
  BY <1>1, <1>4, Sizes
<1>6. QED
  BY <1>1, <1>4, <1>5 DEF Framing!TypeOf

(* A response ends after its second byte and one more; a frame never does. *)
LEMMA LostComplete ==
  ASSUME StreamTypes, InOrder, Lost, NEW u \in Seq(Places), AllSent(u)
  PROVE  /\ Framing!HttpComplete(u) <=> Len(u) > 1 /\ u[Len(u) - 1].at = 2
         /\ ~Framing!FrameComplete(u)
<1>1. Len(u) \in Nat /\ DOMAIN u = 1 .. Len(u) /\ (u # <<>> => Len(u) > 0)
  OBVIOUS
<1>2. \A i \in 1 .. Len(u) : Framing!TypeOf(u[i]) = "http"
  BY LostBytes DEF AllSent
<1>3. Framing!Size.http - 2 = 1
  BY DEF Framing!Size
<1>4. Framing!HttpComplete(u) <=> \E i \in 1 .. Len(u) : u[i].at = 2 /\ Len(u) - i = 1
  BY <1>1, <1>2, <1>3 DEF Framing!HttpComplete
<1>5. ASSUME Len(u) > 1, u[Len(u) - 1].at = 2
      PROVE  \E i \in 1 .. Len(u) : u[i].at = 2 /\ Len(u) - i = 1
  <2>1. Len(u) - 1 \in 1 .. Len(u) /\ Len(u) - (Len(u) - 1) = 1
    BY <1>1, <1>5
  <2>2. QED
    BY <1>5, <2>1
<1>6. ASSUME NEW i \in 1 .. Len(u), u[i].at = 2, Len(u) - i = 1
      PROVE  Len(u) > 1 /\ u[Len(u) - 1].at = 2
  <2>1. PICK n : n = Len(u)
    OBVIOUS
  <2>2. n \in Nat /\ i \in 1 .. n /\ n - i = 1
    BY <1>1, <1>6, <2>1
  <2>3. i = n - 1 /\ n > 1
    BY ONLY <2>2
  <2>4. QED
    BY <1>6, <2>1, <2>3
<1>7. ~Framing!FrameComplete(u)
  <2>1. u # <<>> => Framing!TypeOf(u[1]) = "http"
    BY <1>1, <1>2
  <2>2. QED
    BY <2>1 DEF Framing!FrameComplete
<1>8. QED
  BY <1>4, <1>5, <1>6, <1>7

(* A parser is fed bytes that have been sent. *)
LEMMA FedSent ==
  ASSUME StreamTypes, NEW w \in Seq(Places), AllSent(w), NEW n \in 0 .. Len(buffer),
         NEW k \in 0 .. Len(Framing!Rest(n))
  PROVE  LET u == Fed(w, Framing!Rest(n), k) IN
           /\ u \in Seq(Places) /\ AllSent(u) /\ Len(u) = Len(w) + k /\ Len(w) \in Nat
           /\ Len(Framing!Rest(n)) = Len(buffer) - n
           /\ \A i \in 1 .. Len(w) : u[i] = w[i]
           /\ \A i \in 1 .. k : u[Len(w) + i] = buffer[n + i]
<1>1. PICK r : r = Framing!Rest(n)
  OBVIOUS
<1>2. buffer \in Seq(Places) /\ Len(buffer) \in Nat /\ AllSent(buffer)
  BY DEF StreamTypes
<1>3. /\ r \in Seq(Places) /\ Len(r) = Len(buffer) - n
      /\ \A i \in 1 .. Len(buffer) - n : r[i] = buffer[n + i]
  BY <1>1, <1>2, RestBytes
<1>4. k \in 0 .. Len(r)
  BY <1>1
<1>5. /\ Fed(w, r, k) \in Seq(Places) /\ Len(Fed(w, r, k)) = Len(w) + k /\ Len(w) \in Nat
      /\ \A i \in 1 .. Len(w) : Fed(w, r, k)[i] = w[i]
      /\ \A i \in 1 .. k : Fed(w, r, k)[Len(w) + i] = r[i]
  <2>1. w \in Seq(Places) /\ r \in Seq(Places)
    BY <1>3
  <2>2. QED
    BY ONLY <1>4, <2>1, FedBytes
<1>6. PICK u, l : u = Fed(w, r, k) /\ l = Len(w)
  OBVIOUS
<1>7. /\ u \in Seq(Places) /\ Len(u) = l + k /\ l \in Nat
      /\ \A i \in 1 .. l : u[i] = w[i]
      /\ \A i \in 1 .. k : u[l + i] = r[i]
  BY <1>5, <1>6
<1>8. \A i \in 1 .. k : r[i] = buffer[n + i] /\ n + i \in 1 .. Len(buffer)
  <2>1. ASSUME NEW i \in 1 .. k
        PROVE  i \in 1 .. Len(buffer) - n /\ n + i \in 1 .. Len(buffer)
    BY <1>2, <1>3, <1>4
  <2>2. QED
    BY <1>3, <2>1
<1>9. AllSent(u)
  <2>1. ASSUME NEW i \in 1 .. l + k
        PROVE  IsSent(u[i])
    <3>1. CASE i <= l
      <4>1. i \in 1 .. l
        BY <1>7, <3>1
      <4>2. QED
        BY <1>6, <1>7, <4>1 DEF AllSent
    <3>2. CASE ~(i <= l)
      <4>1. PICK j : j = i - l
        OBVIOUS
      <4>2. k \in Nat
        BY <1>3, <1>4
      <4>3. j \in 1 .. k /\ i = l + j
        BY <1>7, <3>2, <4>1, <4>2
      <4>4. u[i] = buffer[n + j] /\ n + j \in 1 .. Len(buffer)
        BY <1>7, <1>8, <4>3
      <4>5. QED
        BY <1>2, <4>4 DEF AllSent
    <3>3. QED
      BY <3>1, <3>2
  <2>2. QED
    BY <1>7, <2>1 DEF AllSent
<1>10. QED
  BY <1>1, <1>3, <1>6, <1>7, <1>8, <1>9

LEMMA LostFrame ==
  ASSUME FramingInv, Framing!Confused, Lost, Framing!LoopWebsocket
  PROVE  FramingInv'
<1>1. /\ sent' = sent /\ unread' = unread /\ buffer' = buffer /\ http' = http
      /\ connections' = connections /\ pieces' = pieces
      /\ lpc = "loop" /\ http = <<>> /\ ~Framing!BeginsHttp
  BY DEF Framing!LoopWebsocket, Framing!wireVars
<1>2. StreamTypes /\ InOrder
  BY DEF FramingInv
<1>3. /\ Len(buffer) \in Nat /\ processed \in 0 .. Len(buffer) /\ processed < Len(buffer)
      /\ Len(sent) \in Nat
  BY <1>1, <1>2 DEF StreamTypes
<1>4. \A i \in processed + 1 .. Len(buffer) : buffer[i].at > 1
  <2>1. SUFFICES ASSUME websocket = <<>>, processed = 0,
                        buffer[1] = [msg |-> Len(sent), at |-> 1], Len(buffer) \in 1 .. 2
                 PROVE  FALSE
    <3>1. Len(http) = 0
      BY <1>1
    <3>2. \/ /\ websocket = <<>> /\ processed = 0 /\ Len(buffer) \in 1 .. 2
             /\ \A i \in 1 .. Len(buffer) : buffer[i] = [msg |-> Len(sent), at |-> i]
          \/ \A i \in processed + 1 .. Len(buffer) : buffer[i].at > 1
      <4>1. http = buffer => websocket = <<>>
        BY <1>1, <1>3
      <4>2. QED
        BY <1>1, <3>1, <4>1 DEF Lost, FedAgain
    <3>3. 1 \in 1 .. Len(buffer)
      BY <1>3
    <3>4. QED
      BY <2>1, <3>2, <3>3
  <2>2. IsSent(buffer[1]) /\ buffer[1].at = 1
    <3>1. 1 \in 1 .. Len(buffer)
      BY <1>3
    <3>2. QED
      BY <1>2, <2>1, <3>1, StreamBytes
  <2>3. Framing!TypeOf(buffer[0 + 1]) = "http" /\ buffer[0 + 1].at = 1
    <3>1. 0 + 1 = 1
      OBVIOUS
    <3>2. QED
      BY <1>2, <2>2, <3>1, LostBytes
  <2>4. QED
    BY <1>1, <2>1, <2>3 DEF Framing!BeginsHttp
<1>5. PICK q \in Framing!Consumed(websocket, Framing!Rest(processed), Framing!FrameComplete) :
        LET u == websocket \o SubSeq(Framing!Rest(processed), 1, q) IN
          /\ Framing!Advance(processed + q)
          /\ IF Framing!FrameComplete(u) THEN Framing!FrameEnds(u)
             ELSE websocket' = u /\ UNCHANGED <<identifier, out, stopped>>
  BY DEF Framing!LoopWebsocket
<1>6. Len(Framing!Rest(processed)) = Len(buffer) - processed
  BY <1>2, <1>3, RestBytes DEF StreamTypes
<1>7. q \in 0 .. Len(Framing!Rest(processed)) /\ q \in 0 .. Len(buffer) - processed
  <2>1. Len(Framing!Rest(processed)) \in Nat
    BY <1>3, <1>6
  <2>2. q \in 0 .. Len(Framing!Rest(processed))
    BY <1>5, <2>1, FrameConsumed
  <2>3. QED
    BY <1>6, <2>2
<1>8. PICK u : u = Fed(websocket, Framing!Rest(processed), q)
  OBVIOUS
<1>9. u \in Seq(Places) /\ AllSent(u)
  <2>1. websocket \in Seq(Places) /\ AllSent(websocket)
    BY <1>2 DEF StreamTypes
  <2>2. QED
    BY <1>2, <1>3, <1>7, <1>8, <2>1, FedSent
<1>10. ~Framing!FrameComplete(u)
  BY <1>2, <1>9, LostComplete
<1>11. /\ websocket' = u /\ identifier' = identifier /\ out' = out /\ stopped' = stopped
       /\ Framing!Advance(processed + q)
  BY <1>5, <1>8, <1>10 DEF Fed
<1>12. PICK n : n = processed + q
  OBVIOUS
<1>13. /\ processed' = n /\ n \in 0 .. Len(buffer) /\ n >= processed
       /\ lpc' = IF n < Len(buffer) THEN "loop" ELSE "read"
  BY <1>3, <1>7, <1>11, <1>12 DEF Framing!Advance
<1>14. StreamTypes'
  <2>1. AllSent(unread)' /\ AllSent(buffer)' /\ AllSent(http)' /\ AllSent(websocket)'
    BY <1>1, <1>2, <1>9, <1>11 DEF StreamTypes, AllSent, IsSent, SizeOf
  <2>2. websocket' \in Seq(Places)
    BY <1>9, <1>11
  <2>3. processed' \in 0 .. Len(buffer')
        /\ lpc' = IF processed' < Len(buffer') THEN "loop" ELSE "read"
    BY <1>1, <1>13
  <2>4. QED
    BY <1>1, <1>2, <1>11, <2>1, <2>2, <2>3, Zenon DEF StreamTypes
<1>15. InOrder' /\ Framing!Confused'
  BY <1>1, <1>2 DEF InOrder, Framing!Confused
<1>16. Lost'
  <2>1. \A i \in processed' + 1 .. Len(buffer') : buffer'[i].at > 1
    <3>1. \A i \in n + 1 .. Len(buffer) : i \in processed + 1 .. Len(buffer)
      BY <1>3, <1>13
    <3>2. QED
      BY <1>1, <1>4, <1>13, <3>1
  <2>2. QED
    BY <1>1, <1>11, <2>1 DEF Lost, FedAgain
<1>17. QED
  BY <1>14, <1>15, <1>16 DEF FramingInv

(* What is lost is not handed on as the response. *)
LEMMA LostHttp ==
  ASSUME FramingInv, Framing!Confused, Lost, Framing!LoopHttp
  PROVE  FramingInv'
<1>1. /\ sent' = sent /\ unread' = unread /\ buffer' = buffer /\ websocket' = websocket
      /\ identifier' = identifier /\ stopped' = stopped /\ connections' = connections
      /\ pieces' = pieces /\ lpc = "loop"
  BY DEF Framing!LoopHttp, Framing!wireVars
<1>2. StreamTypes /\ InOrder
  BY DEF FramingInv
<1>3. /\ Len(buffer) \in Nat /\ processed \in 0 .. Len(buffer) /\ processed < Len(buffer)
      /\ Len(sent) \in Nat /\ Len(sent) > 0 /\ Len(http) \in Nat /\ Len(out) \in Nat
      /\ http \in Seq(Places) /\ AllSent(http) /\ buffer \in Seq(Places) /\ AllSent(buffer)
      /\ out \in Seq(Outs)
  BY <1>1, <1>2 DEF StreamTypes, Lost
<1>4. InOrder' /\ Framing!Confused'
  BY <1>1, <1>2 DEF InOrder, Framing!Confused
(* What a step leaves to be shown. *)
<1>5. ASSUME http' \in Seq(Places), AllSent(http'), NEW n \in 0 .. Len(buffer),
             Framing!Advance(n), FedAgain',
             out' = out \/ out' = Append(out, [as |-> "http", msg |-> 0])
      PROVE  FramingInv'
  <2>1. out' \in Seq(Outs)
        /\ \A i \in 1 .. Len(out') : out'[i].msg = IF i < Len(sent) THEN i ELSE 0
    <3>1. CASE out' = out
      BY <1>3, <3>1 DEF Lost
    <3>2. CASE out' = Append(out, [as |-> "http", msg |-> 0])
      <4>1. PICK entry : entry = [as |-> "http", msg |-> 0]
        OBVIOUS
      <4>2. entry \in Outs /\ entry.msg = 0
        BY <4>1 DEF Outs, Types
      <4>3. /\ out' \in Seq(Outs) /\ Len(out') = Len(out) + 1 /\ out'[Len(out) + 1] = entry
            /\ \A i \in 1 .. Len(out) : out'[i] = out[i]
        BY <1>3, <3>2, <4>1, <4>2, Added
      <4>4. ASSUME NEW i \in 1 .. Len(out) + 1
            PROVE  out'[i].msg = IF i < Len(sent) THEN i ELSE 0
        <5>1. CASE i = Len(out) + 1
          <6>1. ~(i < Len(sent))
            BY <1>3, <5>1 DEF Lost
          <6>2. QED
            BY <4>2, <4>3, <5>1, <6>1
        <5>2. CASE i \in 1 .. Len(out)
          BY <4>3, <5>2 DEF Lost
        <5>3. QED
          BY <1>3, <5>1, <5>2
      <4>5. QED
        BY <4>3, <4>4
    <3>3. QED
      BY <1>5, <3>1, <3>2
  <2>2. Len(sent) - 1 <= Len(out')
    <3>1. PICK l : l = Len(out)
      OBVIOUS
    <3>2. Len(out') = l \/ Len(out') = l + 1
      BY <1>3, <1>5, <3>1
    <3>3. QED
      BY <1>3, <3>1, <3>2 DEF Lost
  <2>3. AllSent(unread)' /\ AllSent(buffer)' /\ AllSent(http)' /\ AllSent(websocket)'
    <3>1. PICK u : u = http'
      OBVIOUS
    <3>2. \A i \in 1 .. Len(u) : IsSent(u[i])
      BY <1>5, <3>1 DEF AllSent
    <3>3. AllSent(http)'
      BY <1>1, <3>1, <3>2 DEF AllSent, IsSent, SizeOf
    <3>4. QED
      BY <1>1, <1>2, <3>3 DEF StreamTypes, AllSent, IsSent, SizeOf
  <2>4. processed' \in 0 .. Len(buffer')
        /\ lpc' = IF processed' < Len(buffer') THEN "loop" ELSE "read"
    BY <1>1, <1>5 DEF Framing!Advance
  <2>5. StreamTypes'
    BY <1>1, <1>2, <1>5, <2>1, <2>3, <2>4, Zenon DEF StreamTypes
  <2>6. Lost'
    BY <1>1, <1>5, <2>1, <2>2 DEF Lost
  <2>7. QED
    BY <1>4, <2>5, <2>6 DEF FramingInv
(* A response that nobody sent. *)
<1>6. ASSUME NEW u \in Seq(Places), \A l \in 1 .. Len(sent) : u # Framing!Whole(l),
             NEW n \in 0 .. Len(buffer), AllSent(u), Len(u) > 1, u[Len(u) - 1].at = 2,
             Framing!HttpStep(u, n), \A i \in n + 1 .. Len(buffer) : buffer[i].at > 1
      PROVE  FramingInv'
  <2>1. Framing!HttpComplete(u)
    BY <1>2, <1>6, LostComplete
  <2>2. Framing!Process(u, "http") /\ http' = <<>> /\ Framing!Advance(n)
    BY <1>6, <2>1 DEF Framing!HttpStep
  <2>3. out' = Append(out, [as |-> "http", msg |-> 0])
    BY <1>2, <1>6, <2>2, OtherIsHandedOn
  <2>4. http' \in Seq(Places) /\ AllSent(http')
    BY <2>2 DEF AllSent
  <2>5. processed' = n
    BY <2>2 DEF Framing!Advance
  <2>6. FedAgain'
    BY <1>1, <1>6, <2>2, <2>5 DEF FedAgain
  <2>7. QED
    BY <1>5, <2>2, <2>3, <2>4, <2>6
(* A response that is given the rest of the buffer. *)
<1>7. ASSUME NEW u \in Seq(Places), NEW n \in 0 .. Len(buffer), AllSent(u),
             Len(u) > 1 => u[Len(u) - 1].at # 2, Framing!HttpStep(u, n)
      PROVE  \E more \in 0 .. Len(buffer) - n : \E v \in Seq(Places) :
               /\ http' = v /\ AllSent(v) /\ Len(v) = Len(u) + more
               /\ \A i \in 1 .. Len(u) : v[i] = u[i]
               /\ \A i \in 1 .. more : v[Len(u) + i] = buffer[n + i]
               /\ Framing!Advance(more) /\ out' = out
               /\ more = Len(buffer) - n \/ Framing!HttpComplete(v)
               /\ \A e \in 0 .. more - 1 :
                    ~Framing!HttpComplete(Fed(u, Framing!Rest(n), e))
  <2>1. ~Framing!HttpComplete(u)
    BY <1>2, <1>7, LostComplete
  <2>2. PICK more \in Framing!Consumed(u, Framing!Rest(n), Framing!HttpComplete) :
          /\ http' = u \o SubSeq(Framing!Rest(n), 1, more)
          /\ Framing!Advance(more) /\ UNCHANGED out
    BY <1>7, <2>1 DEF Framing!HttpStep
  <2>3. PICK v : v = Fed(u, Framing!Rest(n), more)
    OBVIOUS
  <2>4. Len(Framing!Rest(n)) = Len(buffer) - n /\ Len(Framing!Rest(n)) \in Nat
    BY <1>3, RestBytes
  <2>5. /\ more \in 0 .. Len(Framing!Rest(n))
        /\ more = Len(Framing!Rest(n)) \/ Framing!HttpComplete(v)
        /\ \A e \in 0 .. more - 1 : ~Framing!HttpComplete(Fed(u, Framing!Rest(n), e))
    BY <2>2, <2>3, <2>4, HttpConsumed
  <2>6. /\ v \in Seq(Places) /\ AllSent(v) /\ Len(v) = Len(u) + more
        /\ \A i \in 1 .. Len(u) : v[i] = u[i]
        /\ \A i \in 1 .. more : v[Len(u) + i] = buffer[n + i]
    <3>1. /\ StreamTypes /\ u \in Seq(Places) /\ AllSent(u) /\ n \in 0 .. Len(buffer)
      BY <1>2, <1>7
    <3>2. more \in 0 .. Len(Framing!Rest(n))
      BY <2>5
    <3>3. LET x == Fed(u, Framing!Rest(n), more) IN
            /\ x \in Seq(Places) /\ AllSent(x) /\ Len(x) = Len(u) + more
            /\ \A i \in 1 .. Len(u) : x[i] = u[i]
            /\ \A i \in 1 .. more : x[Len(u) + i] = buffer[n + i]
      BY <3>1, <3>2, FedSent
    <3>4. QED
      BY <2>3, <3>3
  <2>7. http' = v
    BY <2>2, <2>3 DEF Fed
  <2>8. more \in 0 .. Len(buffer) - n
    BY <2>4, <2>5
  <2>9. QED
    BY <2>2, <2>4, <2>5, <2>6, <2>7, <2>8
<1>8. \A u \in Seq(Places), v \in Seq(Places) :
        Len(u) = Len(v) /\ (\A i \in 1 .. Len(u) : u[i] = v[i]) => u = v
  BY SeqEqual
<1>9. ASSUME NEW l \in 1 .. Len(sent), NEW u, u = Framing!Whole(l)
      PROVE  u[2].at = 2 /\ u[3].at = 3
  <2>1. l <= Handshake
    BY <1>3, ConstantsAssumption DEF Lost, Framing!BoundsAssumption
  <2>2. sent[l].type = "http"
    BY <1>2, <2>1 DEF InOrder
  <2>3. SizeOf(l) = 3
    BY <1>2, <2>2, Sizes
  <2>4. u = [i \in 1 .. 3 |-> [msg |-> l, at |-> i]]
    BY <1>9, <2>3 DEF Framing!Whole, SizeOf
  <2>5. u[2] = [msg |-> l, at |-> 2] /\ u[3] = [msg |-> l, at |-> 3]
    BY <2>4
  <2>6. QED
    BY <2>5
<1>10. ASSUME Len(buffer) \in 1 .. 2,
              \A i \in 1 .. Len(buffer) : buffer[i] = [msg |-> Len(sent), at |-> i]
       PROVE  /\ \A i \in 1 .. Len(buffer) : buffer[i].at = i
              /\ Len(buffer) > 1 => Len(buffer) - 1 = 1
              /\ Len(buffer) > 1 => buffer[Len(buffer) - 1].at # 2
              /\ 1 \in 1 .. Len(buffer) /\ 1 \in 0 .. Len(buffer)
  <2>1. PICK k : k = Len(buffer)
    OBVIOUS
  <2>2. k \in 1 .. 2
    BY <1>10, <2>1
  <2>3. k > 1 => k - 1 = 1
    BY ONLY <2>2
  <2>4. 1 \in 1 .. k /\ 1 \in 0 .. k
    BY ONLY <2>2
  <2>5. ASSUME NEW i \in 1 .. k
        PROVE  buffer[i].at = i
    <3>1. buffer[i] = [msg |-> Len(sent), at |-> i]
      BY <1>10, <2>1
    <3>2. QED
      BY <3>1
  <2>6. k > 1 => buffer[k - 1].at # 2
    BY <2>3, <2>4, <2>5
  <2>7. QED
    BY <2>1, <2>3, <2>4, <2>5, <2>6
<1>11. CASE http = <<>>
  <2>1. PICK q \in Framing!Consumed(<<>>, Framing!Rest(processed), Framing!HttpComplete) :
          /\ Framing!BeginsHttp
          /\ Framing!HttpStep(SubSeq(Framing!Rest(processed), 1, q), q)
    BY <1>11 DEF Framing!LoopHttp
  <2>2. buffer[processed + 1].at = 1 /\ websocket = <<>>
    BY <2>1 DEF Framing!BeginsHttp
  <2>3. /\ processed = 0 /\ Len(buffer) \in 1 .. 2
        /\ \A i \in 1 .. Len(buffer) : buffer[i] = [msg |-> Len(sent), at |-> i]
    <3>1. processed + 1 \in processed + 1 .. Len(buffer)
      BY <1>3
    <3>2. Len(http) = 0
      BY <1>11
    <3>3. QED
      BY <1>11, <2>2, <3>1, <3>2 DEF Lost, FedAgain
  <2>4. \A i \in 1 .. Len(buffer) : buffer[i].at = i
    BY <1>10, <2>3
  <2>5. PICK r : r = Framing!Rest(0)
    OBVIOUS
  <2>6. /\ r \in Seq(Places) /\ Len(r) = Len(buffer)
        /\ \A i \in 1 .. Len(buffer) : r[i] = buffer[i]
    <3>1. 0 \in 0 .. Len(buffer)
      BY <1>3
    <3>2. /\ Framing!Rest(0) \in Seq(Places) /\ Len(Framing!Rest(0)) = Len(buffer) - 0
          /\ \A i \in 1 .. Len(buffer) - 0 : Framing!Rest(0)[i] = buffer[0 + i]
      BY <1>3, <3>1, RestBytes
    <3>3. Len(buffer) - 0 = Len(buffer) /\ \A i \in 1 .. Len(buffer) : 0 + i = i
      BY <1>3
    <3>4. QED
      BY <2>5, <3>2, <3>3
  <2>7. r = buffer
    BY <1>3, <1>8, <2>6
  <2>8. /\ q \in 0 .. Len(buffer)
        /\ q = Len(buffer) \/ Framing!HttpComplete(Fed(<<>>, r, q))
    BY <1>3, <2>1, <2>3, <2>5, <2>7, HttpConsumed
  <2>9. PICK v : v = Fed(<<>>, r, q)
    OBVIOUS
  <2>10. v \in Seq(Places) /\ AllSent(v) /\ Len(v) = q /\ \A i \in 1 .. q : v[i] = buffer[i]
    <3>1. PICK w, z : w = <<>> /\ z = 0
      OBVIOUS
    <3>2. w \in Seq(Places) /\ AllSent(w) /\ Len(w) = 0 /\ z \in 0 .. Len(buffer)
      BY <1>3, <3>1 DEF AllSent
    <3>3. q \in 0 .. Len(Framing!Rest(z)) /\ v = Fed(w, Framing!Rest(z), q)
      BY <2>5, <2>7, <2>8, <2>9, <3>1
    <3>4. /\ v \in Seq(Places) /\ AllSent(v) /\ Len(v) = Len(w) + q
          /\ \A i \in 1 .. q : v[Len(w) + i] = buffer[z + i]
      <4>1. StreamTypes /\ w \in Seq(Places) /\ AllSent(w)
        BY <1>2, <3>2
      <4>2. z \in 0 .. Len(buffer)
        BY <3>2
      <4>3. q \in 0 .. Len(Framing!Rest(z))
        BY <3>3
      <4>4. /\ Fed(w, Framing!Rest(z), q) \in Seq(Places) /\ AllSent(Fed(w, Framing!Rest(z), q))
            /\ Len(Fed(w, Framing!Rest(z), q)) = Len(w) + q
            /\ \A i \in 1 .. q : Fed(w, Framing!Rest(z), q)[Len(w) + i] = buffer[z + i]
        BY <4>1, <4>2, <4>3, FedSent
      <4>5. QED
        BY <3>3, <4>4
    <3>5. q \in Nat /\ Len(w) + q = q /\ \A i \in 1 .. q : Len(w) + i = i /\ z + i = i
      BY <1>3, <2>8, <3>1, <3>2
    <3>6. QED
      BY <3>4, <3>5
  <2>11. q = Len(buffer)
    <3>1. ASSUME Len(v) > 1, v[Len(v) - 1].at = 2
          PROVE  FALSE
      <4>1. q = 2 /\ q - 1 = 1 /\ 1 \in 1 .. q /\ 1 \in 1 .. Len(buffer)
        BY <2>3, <2>8, <2>10, <3>1
      <4>2. v[1] = buffer[1] /\ buffer[1].at = 1
        BY <2>4, <2>10, <4>1
      <4>3. QED
        BY <2>10, <3>1, <4>1, <4>2
    <3>2. ~Framing!HttpComplete(v)
      BY <1>2, <2>10, <3>1, LostComplete
    <3>3. QED
      BY <2>8, <2>9, <3>2
  <2>12. SubSeq(Framing!Rest(processed), 1, q) = buffer
    <3>1. PICK u : u = SubSeq(r, 1, q)
      OBVIOUS
    <3>2. 1 \in 1 .. Len(r) + 1 /\ q \in 1 - 1 .. Len(r)
      BY <1>3, <2>7, <2>8
    <3>3. /\ SubSeq(r, 1, q) \in Seq(Places) /\ Len(SubSeq(r, 1, q)) = q - 1 + 1
          /\ \A i \in 1 .. q - 1 + 1 : SubSeq(r, 1, q)[i] = r[1 + i - 1]
      BY <2>6, <3>2, Parts
    <3>4. q - 1 + 1 = q /\ \A i \in 1 .. q : 1 + i - 1 = i
      BY <1>3, <2>8
    <3>5. u \in Seq(Places) /\ Len(u) = Len(buffer) /\ \A i \in 1 .. Len(u) : u[i] = buffer[i]
      BY <2>7, <2>11, <3>1, <3>3, <3>4
    <3>6. QED
      BY <1>3, <1>8, <2>3, <2>5, <3>1, <3>5
  <2>13. Framing!HttpStep(buffer, q)
    BY <2>1, <2>12
  <2>14. Len(buffer) > 1 => buffer[Len(buffer) - 1].at # 2
    BY <1>10, <2>3
  <2>15. PICK more \in 0 .. Len(buffer) - q : \E x \in Seq(Places) :
           /\ http' = x /\ AllSent(x) /\ Len(x) = Len(buffer) + more
           /\ \A i \in 1 .. Len(buffer) : x[i] = buffer[i]
           /\ Framing!Advance(more) /\ out' = out
    BY <1>3, <1>7, <2>8, <2>13, <2>14
  <2>16. more = 0
    BY <1>3, <2>11, <2>15
  <2>17. PICK x \in Seq(Places) :
           /\ http' = x /\ AllSent(x) /\ Len(x) = Len(buffer) + 0
           /\ \A i \in 1 .. Len(buffer) : x[i] = buffer[i]
           /\ Framing!Advance(0) /\ out' = out
    BY <2>15, <2>16
  <2>18. http' = buffer
    <3>1. Len(x) = Len(buffer)
      BY <1>3, <2>17
    <3>2. QED
      BY <1>3, <1>8, <2>17, <3>1
  <2>19. FedAgain'
    <3>1. processed' = 0
      BY <2>17 DEF Framing!Advance
    <3>2. QED
      BY <1>1, <2>2, <2>3, <2>18, <3>1 DEF FedAgain
  <2>20. 0 \in 0 .. Len(buffer)
    BY <1>3
  <2>21. QED
    BY <1>3, <1>5, <2>17, <2>18, <2>19, <2>20
<1>12. CASE http # <<>>
  <2>1. Framing!HttpStep(http, processed)
    BY <1>12 DEF Framing!LoopHttp, Framing!BeginsHttp
  <2>2. CASE /\ http = buffer /\ processed = 0 /\ Len(buffer) \in 1 .. 2
             /\ \A i \in 1 .. Len(buffer) : buffer[i] = [msg |-> Len(sent), at |-> i]
    <3>1. \A i \in 1 .. Len(buffer) : buffer[i].at = i
      BY <1>10, <2>2
    <3>2. Len(buffer) > 1 => buffer[Len(buffer) - 1].at # 2
      BY <1>10, <2>2
    <3>3. PICK r : r = Framing!Rest(0)
      OBVIOUS
    <3>4. Framing!HttpStep(buffer, 0) /\ 0 \in 0 .. Len(buffer)
      BY <1>3, <2>1, <2>2
    <3>5. PICK more \in 0 .. Len(buffer) - 0 : \E v \in Seq(Places) :
            /\ http' = v /\ AllSent(v) /\ Len(v) = Len(buffer) + more
            /\ \A i \in 1 .. Len(buffer) : v[i] = buffer[i]
            /\ \A i \in 1 .. more : v[Len(buffer) + i] = buffer[0 + i]
            /\ Framing!Advance(more) /\ out' = out
            /\ more = Len(buffer) - 0 \/ Framing!HttpComplete(v)
            /\ \A e \in 0 .. more - 1 :
                 ~Framing!HttpComplete(Fed(buffer, Framing!Rest(0), e))
      BY <1>3, <1>7, <3>2, <3>4
    <3>6. PICK v \in Seq(Places) :
            /\ http' = v /\ AllSent(v) /\ Len(v) = Len(buffer) + more
            /\ \A i \in 1 .. Len(buffer) : v[i] = buffer[i]
            /\ \A i \in 1 .. more : v[Len(buffer) + i] = buffer[0 + i]
            /\ Framing!Advance(more) /\ out' = out
            /\ more = Len(buffer) - 0 \/ Framing!HttpComplete(v)
            /\ \A e \in 0 .. more - 1 :
                 ~Framing!HttpComplete(Fed(buffer, Framing!Rest(0), e))
      BY <3>5
    <3>7. Framing!HttpComplete(v) => Len(v) > 1 /\ v[Len(v) - 1].at = 2
      BY <1>2, <3>6, LostComplete
    <3>8. more = 1
      <4>1. ASSUME more = 0
            PROVE  FALSE
        <5>1. Len(v) = Len(buffer) /\ ~(more = Len(buffer) - 0)
          BY <1>3, <2>2, <3>6, <4>1
        <5>2. Len(buffer) > 1 /\ v[Len(buffer) - 1].at = 2
          BY <3>6, <3>7, <5>1
        <5>3. Len(buffer) - 1 = 1 /\ 1 \in 1 .. Len(buffer)
          BY <1>10, <2>2, <5>2
        <5>4. QED
          BY <3>2, <3>6, <5>2, <5>3
      <4>2. ASSUME more = 2
            PROVE  FALSE
        <5>1. Len(buffer) = 2 /\ 1 \in 0 .. more - 1
          BY <2>2, <3>5, <4>2
        <5>2. PICK u : u = Fed(buffer, r, 1)
          OBVIOUS
        <5>3. 1 \in 0 .. Len(Framing!Rest(0))
          <6>1. Len(Framing!Rest(0)) = Len(buffer) - 0
            BY <1>3, <3>4, RestBytes
          <6>2. Len(Framing!Rest(0)) = 2
            BY <5>1, <6>1
          <6>3. QED
            BY <6>2
        <5>4. /\ u \in Seq(Places) /\ AllSent(u) /\ Len(u) = Len(buffer) + 1
              /\ \A i \in 1 .. Len(buffer) : u[i] = buffer[i]
          BY <1>2, <1>3, <3>3, <3>4, <5>2, <5>3, FedSent
        <5>5. Len(u) = 3 /\ u[2].at = 2 /\ 3 - 1 = 2 /\ 3 > 1
          <6>1. 2 \in 1 .. Len(buffer) /\ 2 + 1 = 3
            BY <5>1
          <6>2. u[2] = buffer[2] /\ buffer[2].at = 2
            BY <3>1, <5>4, <6>1
          <6>3. QED
            BY <5>1, <5>4, <6>1, <6>2
        <5>6. Framing!HttpComplete(u)
          BY <1>2, <5>4, <5>5, LostComplete
        <5>7. QED
          BY <3>3, <3>6, <5>1, <5>2, <5>6
      <4>3. more \in 0 .. 2
        BY <2>2, <3>5
      <4>4. QED
        BY <4>1, <4>2, <4>3
    <3>9. processed' = 1 /\ lpc' = IF 1 < Len(buffer) THEN "loop" ELSE "read"
      BY <3>6, <3>8 DEF Framing!Advance
    <3>10. FedAgain'
      <4>1. CASE Len(buffer) = 1
        <5>1. Len(v) = 2 /\ 1 \in 1 .. more /\ Len(buffer) + 1 = 2 /\ 0 + 1 = 1
          BY <3>6, <3>8, <4>1
        <5>2. v[2] = buffer[1] /\ buffer[1].at = 1
          <6>1. v[Len(buffer) + 1] = buffer[0 + 1]
            BY <3>6, <5>1
          <6>2. 1 \in 1 .. Len(buffer)
            BY <4>1
          <6>3. QED
            BY <3>1, <5>1, <6>1, <6>2
        <5>3. lpc' # "loop"
          BY <3>9, <4>1
        <5>4. Len(http') > 1 /\ http'[2].at = 1
          BY <3>6, <5>1, <5>2
        <5>5. QED
          BY <5>3, <5>4 DEF FedAgain
      <4>2. CASE Len(buffer) = 2
        <5>1. Len(v) = 3 /\ 1 \in 1 .. more /\ Len(buffer) + 1 = 3 /\ 0 + 1 = 1
          BY <3>6, <3>8, <4>2
        <5>2. v[3] = buffer[1]
          <6>1. v[Len(buffer) + 1] = buffer[0 + 1]
            BY <3>6, <5>1
          <6>2. QED
            BY <5>1, <6>1
        <5>3. 1 \in 1 .. Len(buffer) /\ 2 \in 1 .. Len(buffer)
          BY <4>2
        <5>4. v[1].at = 1 /\ v[2].at = 2 /\ v[3].at = 1 /\ buffer[2].at = 2
          BY <3>1, <3>6, <5>2, <5>3
        <5>5. \A i \in 1 .. 3 : v[i].at = IF i = 2 THEN 2 ELSE 1
          <6>1. \A i \in 1 .. 3 : i = 1 \/ i = 2 \/ i = 3
            OBVIOUS
          <6>2. QED
            BY <5>4, <6>1
        <5>6. Len(http') = 3 /\ \A i \in 1 .. 3 : http'[i].at = IF i = 2 THEN 2 ELSE 1
          BY <3>6, <5>1, <5>5
        <5>7. processed' = 1 /\ Len(buffer') = 2 /\ buffer'[2].at = 2
          BY <1>1, <3>9, <4>2, <5>4
        <5>8. QED
          BY <5>6, <5>7 DEF FedAgain
      <4>3. QED
        BY <2>2, <4>1, <4>2
    <3>11. 1 \in 0 .. Len(buffer)
      BY <1>10, <2>2
    <3>12. QED
      BY <1>5, <3>6, <3>8, <3>10, <3>11
  <2>3. CASE /\ Len(http) = 3 /\ \A i \in 1 .. 3 : http[i].at = IF i = 2 THEN 2 ELSE 1
             /\ processed = 1 /\ Len(buffer) = 2 /\ buffer[2].at = 2
    <3>1. http[2].at = 2 /\ http[3].at = 1
      BY <2>3
    <3>2. \A l \in 1 .. Len(sent) : http # Framing!Whole(l)
      BY <1>9, <3>1
    <3>3. Len(http) > 1 /\ http[Len(http) - 1].at = 2
      <4>1. Len(http) - 1 = 2 /\ Len(http) > 1
        BY <2>3
      <4>2. QED
        BY <3>1, <4>1
    <3>4. \A i \in processed + 1 .. Len(buffer) : buffer[i].at > 1
      <4>1. \A i \in processed + 1 .. Len(buffer) : i = 2
        BY <2>3
      <4>2. QED
        BY <2>3, <4>1
    <3>5. QED
      BY <1>3, <1>6, <2>1, <3>2, <3>3, <3>4
  <2>4. CASE /\ Len(http) > 1 /\ http[2].at = 1
             /\ \A i \in 1 .. Len(buffer) : buffer[i].at > 1
    <3>1. CASE http[Len(http) - 1].at = 2
      <4>1. \A l \in 1 .. Len(sent) : http # Framing!Whole(l)
        BY <1>9, <2>4
      <4>2. \A i \in processed + 1 .. Len(buffer) : buffer[i].at > 1
        <5>1. \A i \in processed + 1 .. Len(buffer) : i \in 1 .. Len(buffer)
          BY <1>3
        <5>2. QED
          BY <2>4, <5>1
      <4>3. QED
        BY <1>3, <1>6, <2>1, <2>4, <3>1, <4>1, <4>2
    <3>2. CASE http[Len(http) - 1].at # 2
      <4>1. PICK more \in 0 .. Len(buffer) - processed : \E v \in Seq(Places) :
              /\ http' = v /\ AllSent(v) /\ Len(v) = Len(http) + more
              /\ \A i \in 1 .. Len(http) : v[i] = http[i]
              /\ Framing!Advance(more) /\ out' = out
        BY <1>3, <1>7, <2>1, <3>2
      <4>2. PICK v \in Seq(Places) :
              /\ http' = v /\ AllSent(v) /\ Len(v) = Len(http) + more
              /\ \A i \in 1 .. Len(http) : v[i] = http[i]
              /\ Framing!Advance(more) /\ out' = out
        BY <4>1
      <4>3. 2 \in 1 .. Len(http) /\ Len(v) > 1 /\ more \in 0 .. Len(buffer)
        <5>1. PICK l, k : l = Len(http) /\ k = Len(buffer)
          OBVIOUS
        <5>2. l \in Nat /\ l > 1 /\ k \in Nat /\ processed \in 0 .. k /\ more \in 0 .. k - processed
          BY <1>3, <2>4, <5>1
        <5>3. 2 \in 1 .. l /\ l + more > 1 /\ more \in 0 .. k
          BY ONLY <5>2
        <5>4. QED
          BY <4>2, <5>1, <5>3
      <4>4. Len(http') > 1 /\ http'[2].at = 1
        BY <2>4, <4>2, <4>3
      <4>5. FedAgain'
        BY <1>1, <2>4, <4>4 DEF FedAgain
      <4>6. QED
        BY <1>5, <4>2, <4>3, <4>5
    <3>3. QED
      BY <3>1, <3>2
  <2>5. QED
    BY <1>1, <1>12, <2>2, <2>3, <2>4 DEF Lost, FedAgain
<1>13. QED
  BY <1>11, <1>12

LEMMA FramingNext ==
  ASSUME FramingInv, Framing!Next
  PROVE  FramingInv'
<1>1. IF Framing!Confused THEN Lost ELSE Straight
  BY DEF FramingInv
<1>2. \/ Framing!Respond \/ Framing!Send \/ Framing!Read \/ Framing!LoopHttp
      \/ Framing!LoopWebsocket \/ Framing!Fail \/ Framing!Reconnect
  BY DEF Framing!Next, Framing!Listen
<1>3. CASE Framing!LoopHttp
  BY <1>1, <1>3, HttpStraight, LostHttp
<1>4. CASE Framing!LoopWebsocket
  BY <1>1, <1>4, FrameStraight, LostFrame
<1>5. QED
  BY <1>2, <1>3, <1>4, RespondStep, SendStep, ReadStep, FailStep, ReconnectStep

(* What the invariant says of the messages. *)
LEMMA OneByOneFollows ==
  ASSUME FramingInv
  PROVE  Framing!OneByOne
<1>1. DOMAIN out = 1 .. Len(out)
  BY DEF FramingInv, StreamTypes
<1>2. QED
  BY <1>1 DEF FramingInv, Straight, Framing!OneByOne

LEMMA TablesMatchFollows ==
  ASSUME FramingInv
  PROVE  Framing!TablesMatch
<1>1. /\ DOMAIN out = 1 .. Len(out) /\ Len(out) \in Nat /\ Len(sent) \in Nat
      /\ InOrder /\ Handshake \in Nat
  BY ConstantsAssumption DEF FramingInv, StreamTypes, Framing!BoundsAssumption
<1>2. SUFFICES ASSUME NEW i \in 1 .. Len(out), out[i].msg # 0,
                      sent[out[i].msg].type = "table"
               PROVE  out[i].as = sent[out[i].msg].of
  BY <1>1 DEF Framing!TablesMatch
<1>3. CASE Framing!Confused
  <2>1. Lost
    BY <1>3 DEF FramingInv
  <2>2. i < Len(sent) /\ out[i].msg = i /\ Len(sent) <= Handshake
    BY <1>2, <2>1 DEF Lost
  <2>3. i \in 1 .. Len(sent) /\ i <= Handshake
    BY <1>1, <2>2
  <2>4. sent[i].type = "http"
    BY <1>1, <2>3 DEF InOrder
  <2>5. QED
    BY <1>2, <2>2, <2>4
<1>4. CASE ~Framing!Confused
  BY <1>2, <1>4 DEF FramingInv, Straight
<1>5. QED
  BY <1>3, <1>4

LEMMA NothingWithheldFollows ==
  ASSUME FramingInv
  PROVE  Framing!NothingWithheld
<1>1. SUFFICES ASSUME lpc = "read", ~stopped, unread = <<>>, ~Framing!Confused
               PROVE  Len(out) = Len(sent)
  BY DEF Framing!NothingWithheld
<1>2. StreamTypes /\ Straight
  BY <1>1 DEF FramingInv
<1>3. PICK s : Starts(s) /\ Placed(s) /\ AtNext(s)
  BY <1>1, <1>2 DEF Straight, Closed
<1>4. PICK d, n, g, k, l : /\ d = Len(out) /\ n = Len(sent) /\ g = Len(websocket)
                           /\ k = Len(buffer) /\ l = Len(unread)
  OBVIOUS
<1>5. /\ d \in Nat /\ n \in Nat /\ g \in Nat /\ k \in Nat /\ l = 0 /\ d <= n
      /\ processed = k
  <2>1. Len(unread) = 0
    BY <1>1
  <2>2. processed \in 0 .. Len(buffer) /\ ~(processed < Len(buffer))
    BY <1>1, <1>2 DEF StreamTypes
  <2>3. Len(buffer) \in Nat
    BY <1>2 DEF StreamTypes
  <2>4. QED
    BY <1>2, <1>4, <2>1, <2>2, <2>3 DEF StreamTypes, Straight
<1>6. ASSUME d < n
      PROVE  FALSE
  <2>1. d + 1 \in 1 .. n + 1 /\ n + 1 \in 1 .. n + 1 /\ d + 1 < n + 1 /\ d + 1 \in 1 .. n
    BY <1>5, <1>6
  <2>2. PICK c, e, z : c = s[d + 1] /\ e = s[n + 1] /\ z = SizeOf(d + 1)
    OBVIOUS
  <2>3. c \in Nat /\ e \in Nat /\ z \in 1 .. 3 /\ c + z <= e
    <3>1. z \in 1 .. 3
      BY <1>2, <1>4, <2>1, <2>2, Sizes
    <3>2. c \in Nat /\ e \in Nat /\ c + z <= e
      BY <1>3, <1>4, <2>1, <2>2 DEF Starts
    <3>3. QED
      BY <3>1, <3>2
  <2>4. e - l - k + processed - g = c
    <3>1. Reached(s) = e - l - k + processed
      BY <1>4, <2>2 DEF Reached
    <3>2. Reached(s) - g = c
      BY <1>3, <1>4, <2>2 DEF AtNext
    <3>3. PICK r : r = Reached(s)
      OBVIOUS
    <3>4. r = e - l - k + processed /\ r - g = c
      BY <3>1, <3>2, <3>3
    <3>5. QED
      BY ONLY <1>5, <2>3, <3>4
  <2>5. g >= z /\ g > 0
    BY ONLY <1>5, <2>3, <2>4
  <2>6. websocket # <<>>
    BY <1>4, <2>5
  <2>7. g < z
    BY <1>3, <1>4, <2>2, <2>6 DEF AtNext
  <2>8. QED
    BY ONLY <1>5, <2>3, <2>5, <2>7
<1>7. d = n
  BY ONLY <1>5, <1>6
<1>8. QED
  BY <1>4, <1>7

-----------------------------------------------------------------------------
(* The module that runs *)

ReceiveInv ==
  /\ runs = "EventTables" => TablesInv
  /\ runs = "Framing" => FramingInv

LEMMA BoundsHold == Bounds
BY ConstantsAssumption DEF Bounds

LEMMA InvariantInit == Init => ReceiveInv
<1>1. runs = "EventTables" /\ EventTables!Init => TablesInv
  BY BoundsHold, TablesInit
<1>2. runs = "Framing" /\ Framing!Init => FramingInv
  BY StreamInit
<1>3. Init => \/ runs = "Framing" /\ Framing!Init
              \/ runs = "EventTables" /\ EventTables!Init
              \/ runs = "Central"
              \/ runs = "Peer"
  BY DEF Init
<1>4. QED
  BY <1>1, <1>2, <1>3 DEF ReceiveInv

LEMMA InvariantNext == ReceiveInv /\ [Next]_vars => ReceiveInv'
<1> SUFFICES ASSUME ReceiveInv, [Next]_vars
             PROVE  ReceiveInv'
  OBVIOUS
<1>1. CASE InFraming(Framing!Next)
  <2>1. runs = "Framing" /\ runs' = "Framing" /\ Framing!Next
    BY <1>1 DEF InFraming
  <2>2. FramingInv'
    BY <2>1, FramingNext DEF ReceiveInv
  <2>3. QED
    BY <2>1, <2>2 DEF ReceiveInv
<1>2. CASE InTables(EventTables!Next)
  <2>1. runs = "EventTables" /\ runs' = "EventTables" /\ EventTables!Next
    BY <1>2 DEF InTables
  <2>2. TablesInv'
    BY <2>1, BoundsHold, TablesNext DEF ReceiveInv
  <2>3. QED
    BY <2>1, <2>2 DEF ReceiveInv
<1>3. CASE InCentral(Central!Next) \/ InPeer(Peer!Next)
  <2>1. (runs = "Central" \/ runs = "Peer") /\ runs' = runs
    BY <1>3 DEF InCentral, InPeer
  <2>2. QED
    BY <2>1 DEF ReceiveInv
<1>4. CASE UNCHANGED vars
  <2>1. /\ runs' = runs /\ processed' = processed /\ lpc' = lpc
        /\ framing' = framing /\ tables' = tables
    BY <1>4 DEF vars
  <2>2. TablesInv => TablesInv'
    <3>1. kind' = kind /\ table' = table /\ data' = data /\ packets' = packets
      BY <2>1 DEF tables
    <3>2. \A i : Bytes(i)' = Bytes(i) /\ Width(i)' = Width(i) /\ Length(i)' = Length(i)
      <4>1. ASSUME NEW i
            PROVE  Bytes(i)' = Bytes(i) /\ Width(i)' = Width(i)
        BY <3>1 DEF Bytes, Width, EventTables!EntryBytes
      <4>2. ASSUME NEW i
            PROVE  Length(i)' = Length(i)
        BY <3>1, <4>1 DEF Length
      <4>3. QED
        BY <4>1, <4>2
    <3>3. \A i : Packet(i)' = Packet(i)
      BY <3>1, <3>2 DEF Packet
    <3>4. \A s : Laid(s)' = Laid(s)
      BY <3>1, <3>2 DEF Laid
    <3>5. TableTypes => TableTypes'
      BY <2>1, <3>1 DEF TableTypes
    <3>6. CutInv => CutInv'
      BY <2>1, <3>1, <3>3, <3>4 DEF CutInv
    <3>7. QED
      BY <3>5, <3>6 DEF TablesInv
  <2>3. FramingInv => FramingInv'
    <3>1. /\ sent' = sent /\ unread' = unread /\ buffer' = buffer /\ http' = http
          /\ websocket' = websocket /\ identifier' = identifier /\ stopped' = stopped
          /\ connections' = connections /\ out' = out /\ pieces' = pieces
      BY <2>1 DEF framing
    <3>2. StreamTypes => StreamTypes'
      BY <2>1, <3>1 DEF StreamTypes, AllSent, IsSent, SizeOf
    <3>3. InOrder => InOrder'
      BY <3>1 DEF InOrder
    <3>4. Framing!Confused' = Framing!Confused
      BY <3>1 DEF Framing!Confused
    <3>5. Lost => Lost'
      BY <2>1, <3>1 DEF Lost, FedAgain
    <3>6. Straight => Straight'
      <4>1. \A s : Starts(s) /\ Placed(s) /\ AtNext(s) => (Starts(s) /\ Placed(s) /\ AtNext(s))'
        BY <2>1, <3>1 DEF Starts, Placed, AtNext, Reached, Place, SizeOf
      <4>2. (\E s : Starts(s) /\ Placed(s) /\ AtNext(s))
              => \E r : (Starts(r) /\ Placed(r) /\ AtNext(r))'
        BY <4>1
      <4>3. (HttpAlone => HttpAlone') /\ (Closed => Closed')
        BY <2>1, <3>1 DEF HttpAlone, Closed
      <4>4. QED
        BY <3>1, <4>2, <4>3 DEF Straight
    <3>7. QED
      BY <3>2, <3>3, <3>4, <3>5, <3>6 DEF FramingInv
  <2>4. QED
    BY <2>1, <2>2, <2>3 DEF ReceiveInv
<1>5. QED
  BY <1>1, <1>2, <1>3, <1>4 DEF Next

LEMMA Invariant == Spec => []ReceiveInv
BY InvariantInit, InvariantNext, PTL DEF Spec

(* The types of the two, which no run lists. *)

(* What a read() returned fits in its buffer. *)
BufferFits == Len(buffer) <= MaxRead

LEMMA BufferFitsNext ==
  ASSUME FramingInv, BufferFits, Framing!Next
  PROVE  BufferFits'
<1>1. MaxRead \in Nat
  BY ConstantsAssumption DEF Framing!BoundsAssumption
<1>2. CASE Framing!Read
  <2>1. PICK n \in 1 .. MaxRead : n <= Len(unread) /\ buffer' = SubSeq(unread, 1, n)
    BY <1>2 DEF Framing!Read
  <2>2. unread \in Seq(Places) /\ Len(unread) \in Nat
    BY DEF FramingInv, StreamTypes
  <2>3. Len(buffer') = n
    BY <1>1, <2>1, <2>2, Parts
  <2>4. QED
    BY <1>1, <2>1, <2>3 DEF BufferFits
<1>3. CASE Framing!Reconnect
  <2>1. buffer' = <<>>
    BY <1>3 DEF Framing!Reconnect
  <2>2. QED
    BY <1>1, <2>1 DEF BufferFits
<1>4. CASE ~ (Framing!Read \/ Framing!Reconnect)
  <2>1. buffer' = buffer
    BY <1>4 DEF Framing!Next, Framing!Respond, Framing!Send, Framing!Sends,
       Framing!Listen, Framing!LoopHttp, Framing!LoopWebsocket, Framing!Fail
  <2>2. QED
    BY <2>1 DEF BufferFits
<1>5. QED
  BY <1>2, <1>3, <1>4

LEMMA StreamTypesFollow ==
  ASSUME FramingInv, BufferFits
  PROVE  Framing!TypeOK
<1>1. /\ processed \in 0 .. Len(buffer) /\ Len(buffer) \in Nat /\ MaxRead \in Nat
      /\ lpc = IF processed < Len(buffer) THEN "loop" ELSE "read"
      /\ identifier \in Identifiers /\ stopped \in BOOLEAN /\ pieces \subseteq DOMAIN sent
  BY ConstantsAssumption DEF FramingInv, StreamTypes, Framing!BoundsAssumption
<1>2. processed \in 0 .. MaxRead /\ (lpc = "loop" => processed < Len(buffer))
  BY <1>1 DEF BufferFits
<1>3. ASSUME NEW i \in DOMAIN out
      PROVE  out[i].msg \in 0 .. Len(sent)
  <2>1. i \in 1 .. Len(out) /\ Len(out) \in Nat /\ Len(sent) \in Nat
    BY DEF FramingInv, StreamTypes
  <2>2. CASE Framing!Confused
    BY <2>1, <2>2 DEF FramingInv, Lost
  <2>3. CASE ~Framing!Confused
    BY <2>1, <2>3 DEF FramingInv, Straight
  <2>4. QED
    BY <2>2, <2>3
<1>4. QED
  BY <1>1, <1>2, <1>3 DEF Framing!TypeOK, BufferFits, Identifiers

LEMMA TableTypesFollow ==
  ASSUME Bounds, TablesInv
  PROVE  EventTables!TypeOK
<1>1. PICK s : Laid(s) /\ processed = s[Len(packets) + 1]
  BY DEF TablesInv, CutInv
<1>2. /\ Len(packets) \in Nat /\ Len(table) \in Nat /\ Len(packets) <= Len(table)
      /\ DOMAIN packets = 1 .. Len(packets) /\ Len(data) \in Nat
      /\ DOMAIN data = 1 .. Len(data) /\ kind \in EventTables!Kinds
  BY DEF TablesInv, CutInv, TableTypes
<1>3. ASSUME NEW i \in 1 .. Len(table)
      PROVE  /\ s[i + 1] = s[i] + Width(i) /\ s[i + 1] <= Len(data) /\ s[i] \in Nat
             /\ \A o \in 1 .. Width(i) : data[s[i] + o] = Bytes(i)[o]
  <2>1. i \in 1 .. Len(table) + 1 /\ s \in [1 .. Len(table) + 1 -> Nat]
    BY <1>1, <1>2 DEF Laid
  <2>2. s[i] \in Nat
    BY ONLY <2>1
  <2>3. QED
    BY <1>1, <2>2 DEF Laid
<1>4. processed \in 0 .. Len(data)
  <2>1. CASE Len(packets) = Len(table)
    BY <1>1, <1>2, <2>1 DEF Laid
  <2>2. CASE Len(packets) # Len(table)
    <3>1. PICK i : i = Len(packets) + 1
      OBVIOUS
    <3>2. i \in 1 .. Len(table)
      BY <1>2, <2>2, <3>1
    <3>3. s[i + 1] = s[i] + Width(i) /\ s[i + 1] <= Len(data) /\ s[i] \in Nat
      BY <1>3, <3>2
    <3>4. Width(i) \in Nat
      BY <3>2, Widths DEF TablesInv
    <3>5. QED
      BY <1>1, <1>2, <3>1, <3>3, <3>4
  <2>3. QED
    BY <2>1, <2>2
<1>5. ASSUME NEW i \in DOMAIN packets
      PROVE  /\ EventTables!Range(packets[i].bytes) \subseteq EventTables!Range(data)
             /\ packets[i].count \in Nat
  <2>1. i \in 1 .. Len(packets) /\ i \in 1 .. Len(table)
    BY <1>2
  <2>2. packets[i] = Packet(i)
    BY <2>1 DEF TablesInv, CutInv
  <2>3. packets[i].count \in Nat
    <3>1. table[i] \in Nat
      BY <2>1, Widths DEF TablesInv
    <3>2. QED
      BY <2>2, <3>1 DEF Packet
  <2>4. /\ s[i + 1] = s[i] + Width(i) /\ s[i + 1] <= Len(data) /\ s[i] \in Nat
        /\ \A o \in 1 .. Width(i) : data[s[i] + o] = Bytes(i)[o]
    BY <1>3, <2>1
  <2>5. Width(i) \in Nat /\ Length(i) <= Width(i) /\ Length(i) \in Int
    <3>1. Width(i) \in Nat /\ table[i] \in Nat
      BY <2>1, Widths DEF TablesInv
    <3>2. (4 - (table[i] % 4)) % 4 \in 0 .. 3
      BY ONLY <3>1
    <3>3. QED
      BY ONLY <3>1, <3>2 DEF Length
  <2>6. ASSUME NEW o \in 1 .. Length(i)
        PROVE  Bytes(i)[o] \in EventTables!Range(data)
    <3>1. o \in 1 .. Width(i) /\ s[i] + o \in 1 .. Len(data)
      BY <1>2, <2>4, <2>5
    <3>2. data[s[i] + o] \in EventTables!Range(data)
      BY <1>2, <3>1 DEF EventTables!Range
    <3>3. QED
      BY <2>4, <3>1, <3>2
  <2>7. packets[i].bytes = [o \in 1 .. Length(i) |-> Bytes(i)[o]]
    BY <2>2 DEF Packet
  <2>8. QED
    BY <2>3, <2>6, <2>7 DEF EventTables!Range
<1>6. QED
  BY <1>2, <1>4, <1>5 DEF EventTables!TypeOK

(* While bytes are cut into messages and tables into packets, the offset stays
   within the buffer or the table, a packet is made of bytes of its table, and
   nothing is processed that has not been sent, but what init() takes for a
   response (Miniserver.cpp, lines 590 to 650 and 738 to 850). *)
TypesOK ==
  /\ runs = "Framing" => Framing!TypeOK
  /\ runs = "EventTables" => EventTables!TypeOK

THEOREM TypeCorrect == Spec => []TypesOK
<1> DEFINE Fits == runs = "Framing" => BufferFits
<1>1. Init => Fits
  <2>1. Framing!Init => buffer = <<>>
    BY DEF Framing!Init
  <2>2. Init /\ runs = "Framing" => Framing!Init
    BY DEF Init
  <2>3. Len(<<>>) = 0 /\ MaxRead \in Nat
    BY ConstantsAssumption DEF Framing!BoundsAssumption
  <2>4. QED
    BY <2>1, <2>2, <2>3 DEF BufferFits
<1>2. ReceiveInv /\ Fits /\ [Next]_vars => Fits'
  <2> SUFFICES ASSUME ReceiveInv, Fits, [Next]_vars, runs' = "Framing"
               PROVE  BufferFits'
    OBVIOUS
  <2>1. CASE InFraming(Framing!Next)
    <3>1. runs = "Framing" /\ Framing!Next
      BY <2>1 DEF InFraming
    <3>2. QED
      BY <3>1, BufferFitsNext DEF ReceiveInv
  <2>2. CASE UNCHANGED vars
    <3>1. runs' = runs /\ framing' = framing
      BY <2>2 DEF vars
    <3>2. buffer' = buffer
      BY <3>1 DEF framing
    <3>3. QED
      BY <3>1, <3>2 DEF BufferFits
  <2>3. CASE InTables(EventTables!Next) \/ InCentral(Central!Next) \/ InPeer(Peer!Next)
    BY <2>3 DEF InTables, InCentral, InPeer
  <2>4. QED
    BY <2>1, <2>2, <2>3 DEF Next
<1>3. ReceiveInv /\ Fits => TypesOK
  BY BoundsHold, StreamTypesFollow, TableTypesFollow DEF ReceiveInv, TypesOK
<1>4. Spec => []Fits
  BY <1>1, <1>2, Invariant, PTL DEF Spec
<1>5. QED
  BY <1>3, <1>4, Invariant, PTL

(* The messages of a connection are processed whole, once and in their order,
   a table is taken for what its own header says, and what has been read is
   processed before the next read, wherever the reads of listen() cut the bytes,
   unless a response came in pieces (Miniserver.cpp, lines 546 to 652). *)
THEOREM MessagesArriveIntact == Spec => []MessagesIntact
<1>1. ReceiveInv => MessagesIntact
  BY OneByOneFollows, TablesMatchFollows, NothingWithheldFollows
  DEF ReceiveInv, MessagesIntact
<1>2. QED
  BY <1>1, Invariant, PTL

(* The loops over a table raise each of its entries once, with its own bytes, and
   what a packet reads lies inside of them, whatever the entries count (the four
   loops of Miniserver.cpp from line 738, the constructors of LoxonePacket.cpp). *)
THEOREM EntriesAreRaised == Spec => []EntriesIntact
<1>1. ReceiveInv => EntriesIntact
  BY BoundsHold, EntriesIntactFollows, FieldsFitFollows DEF ReceiveInv,
     EntriesIntact
<1>2. QED
  BY <1>1, Invariant, PTL
=============================================================================
