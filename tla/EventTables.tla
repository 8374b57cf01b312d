----------------------------- MODULE EventTables -----------------------------
(***************************************************************************)
(* The event tables of the Miniserver: the four loops of Miniserver.cpp    *)
(* that cut a table into packets, and the constructors of LoxonePacket.cpp *)
(* that read the fields of a packet at fixed offsets.  The loops and the   *)
(* constructors know the layout independently of each other.               *)
(*                                                                         *)
(* A byte is [entry, at, value]: it comes from the at-th byte of an entry  *)
(* of the table; only the bytes of counts have a value that matters.       *)
(***************************************************************************)
EXTENDS Integers, Sequences, FiniteSets, SequencesExt

CONSTANTS
  MaxEntries,  \* bound: entries of a table
  MaxCount     \* bound: characters of a text, times or hours of an entry

\* A table has less than 2^31 bytes: lengths and offsets of 32 bits do not wrap.
BoundsAssumption ==
  /\ MaxEntries \in Nat /\ MaxCount \in Nat
  /\ MaxCount <= 30000000 /\ MaxEntries * (40 + 68 * MaxCount) <= 2147483647

Kinds == {"value", "text", "daytimer", "weather"}

VARIABLES
  kind,       \* the identifier of the Loxone header
  table,      \* the entries the Miniserver has put into the table: their counts
  data,       \* their bytes
  processed,  \* bytes the loop has processed
  packets     \* the packets raised so far

vars == <<kind, table, data, processed, packets>>

-----------------------------------------------------------------------------
(* What the Miniserver sends *)

CountAt == [value |-> 24, text |-> 32, daytimer |-> 24, weather |-> 20]

\* A text is filled up to a multiple of four.
Size(k, count) ==
  CASE k = "value" -> 24
    [] k = "text" -> 36 + 4 * ((count + 3) \div 4)
    [] k = "daytimer" -> 28 + 24 * count
    [] k = "weather" -> 24 + 68 * count

\* Four bytes, the lowest first.
CountByte(count, k) ==
  IF k \in 0 .. 3
  THEN << count % 256, (count \div 256) % 256, (count \div 65536) % 256,
          count \div 16777216 >>[k + 1]
  ELSE 0

EntryBytes(i, count) ==
  [o \in 1 .. Size(kind, count) |->
     [entry |-> i, at |-> o - 1, value |-> CountByte(count, o - 1 - CountAt[kind])]]

\* The table is whole before the loop over it begins.
AddEntry ==
  /\ processed = 0 /\ Len(table) < MaxEntries
  /\ \E count \in 0 .. MaxCount :
       /\ table' = Append(table, count)
       /\ data' = data \o EntryBytes(Len(table) + 1, count)
  /\ UNCHANGED <<kind, processed, packets>>

-----------------------------------------------------------------------------
(* The loops of Miniserver.cpp *)

Copy(first, length) == SubSeq(data, first + 1, first + length)

Number(p, at) ==
  p[at + 1].value + 256 * (p[at + 2].value + 256 * (p[at + 3].value
    + 256 * p[at + 4].value))

\* raisePacketReceived() of a packet with its count of characters or entries.
Raise(bytes, count) == packets' = Append(packets, [bytes |-> bytes, count |-> count])

CutValue ==
  /\ kind = "value" /\ processed < Len(data)
  /\ Raise(Copy(processed, 24), 0)
  /\ processed' = processed + 24
  /\ UNCHANGED <<kind, table, data>>

Padding(length) == IF length % 4 = 0 THEN 0 ELSE 4 - (length % 4)

(* Mutant of CutText: the filling is added to strLength before the copy. *)
CutTextFilled ==
  /\ kind = "text" /\ processed < Len(data)
  /\ LET length == Number(Copy(processed, 36), 32)
         strLength == length + Padding(length)
     IN  /\ Raise(Copy(processed, 36 + strLength), strLength)
         /\ processed' = processed + 36 + strLength
  /\ UNCHANGED <<kind, table, data>>

CutText ==
  /\ kind = "text" /\ processed < Len(data)
  /\ LET length == Number(Copy(processed, 36), 32) IN
       /\ Raise(Copy(processed, 36 + length), length)
       /\ processed' = processed + 36 + length + Padding(length)
  /\ UNCHANGED <<kind, table, data>>

CutDaytimer ==
  /\ kind = "daytimer" /\ processed < Len(data)
  /\ LET nrEntrys == Number(Copy(processed, 28), 24) IN
       /\ Raise(Copy(processed, 28 + 24 * nrEntrys), nrEntrys)
       /\ processed' = processed + 28 + 24 * nrEntrys
  /\ UNCHANGED <<kind, table, data>>

CutWeather ==
  /\ kind = "weather" /\ processed < Len(data)
  /\ LET nrEntrys == Number(Copy(processed, 24), 20) IN
       /\ Raise(Copy(processed, 24 + 68 * nrEntrys), nrEntrys)
       /\ processed' = processed + 24 + 68 * nrEntrys
  /\ UNCHANGED <<kind, table, data>>

-----------------------------------------------------------------------------
(* The constructors of LoxonePacket.cpp: the sets of offsets they read.    *)

Span(first, length) == first .. first + length - 1

\* getUuidFromPacket: three groups with their bytes turned round, and the rest.
\* Which byte is read is kept here, the text made of them is not.
Uuid(at) ==
  LET order == <<3, 2, 1, 0, 5, 4, 7, 6, 8, 9, 10, 11, 12, 13, 14, 15>> IN
  {at + order[i] : i \in 1 .. 16}

ValueFields == << Uuid(0), Span(16, 8) >>

TextFields(length) == << Uuid(0), Uuid(16), Span(36, length) >>

\* mode, from, to, needActivate, value
TimeEntry(at) ==
  [i \in 1 .. 5 |-> IF i <= 4 THEN Span(at + 4 * (i - 1), 4) ELSE Span(at + 16, 8)]

(* Mutant of DaytimerFields: the entries begin before their number. *)
DaytimerFieldsEarly(nrEntrys) ==
  << Uuid(0), Span(16, 8) >>
  \o [i \in 1 .. 5 * nrEntrys |->
        TimeEntry(24 + 24 * ((i - 1) \div 5))[1 + ((i - 1) % 5)]]

DaytimerFields(nrEntrys) ==
  << Uuid(0), Span(16, 8) >>
  \o [i \in 1 .. 5 * nrEntrys |->
        TimeEntry(28 + 24 * ((i - 1) \div 5))[1 + ((i - 1) % 5)]]

\* Five integers, from timestamp to relativeHumidity, and six doubles.
WeatherEntry(at) ==
  [i \in 1 .. 11 |-> IF i <= 5 THEN Span(at + 4 * (i - 1), 4)
                      ELSE Span(at + 20 + 8 * (i - 6), 8)]

WeatherFields(nrEntrys) ==
  << Uuid(0), Span(16, 4) >>
  \o [i \in 1 .. 11 * nrEntrys |->
        WeatherEntry(24 + 68 * ((i - 1) \div 11))[1 + ((i - 1) % 11)]]

Fields(count) ==
  CASE kind = "value" -> ValueFields
    [] kind = "text" -> TextFields(count)
    [] kind = "daytimer" -> DaytimerFields(count)
    [] kind = "weather" -> WeatherFields(count)

-----------------------------------------------------------------------------
Init ==
  /\ kind \in Kinds /\ table = <<>> /\ data = <<>>
  /\ processed = 0 /\ packets = <<>>

Next == AddEntry \/ CutValue \/ CutText \/ CutDaytimer \/ CutWeather

Spec == Init /\ [][Next]_vars

-----------------------------------------------------------------------------
(* Properties *)

\* The loops never leave the table, and a packet holds bytes of it.
TypeOK ==
  /\ kind \in Kinds /\ processed \in 0 .. Len(data)
  /\ Len(packets) <= Len(table)
  /\ \A i \in DOMAIN packets :
       Range(packets[i].bytes) \subseteq Range(data) /\ packets[i].count \in Nat

\* Every entry is raised once, in its place and with exactly its own bytes,
\* the filling of texts left out, whatever precedes it in the table, and a
\* loop that has nothing more to do has raised them all.
EntriesIntact ==
  /\ processed = Len(data) => Len(packets) = Len(table)
  /\ \A i \in DOMAIN packets :
       LET p == packets[i] IN
       /\ \A o \in DOMAIN p.bytes : p.bytes[o].entry = i /\ p.bytes[o].at = o - 1
       /\ kind # "value" => p.count = table[i]
       /\ Len(p.bytes) = Size(kind, table[i])
            - (IF kind = "text" THEN (4 - (table[i] % 4)) % 4 ELSE 0)

\* What a constructor reads lies inside the packet its loop made, no byte
\* belongs to two fields, and what is read by none is the count alone.
FieldsFit ==
  \A i \in DOMAIN packets :
    LET fs == Fields(packets[i].count)
        count == IF kind = "value" THEN {} ELSE Span(CountAt[kind], 4)
    IN  /\ \A f, g \in DOMAIN fs : f # g => fs[f] \cap fs[g] = {}
        /\ UNION Range(fs) = Span(0, Len(packets[i].bytes)) \ count
=============================================================================
