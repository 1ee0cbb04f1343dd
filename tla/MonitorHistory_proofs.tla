------------------------ MODULE MonitorHistory_proofs ------------------------
(***************************************************************************)
(* Proofs about the ring of the monitor, for rings of every size: it keeps *)
(* its types, a marked trigger stays in order, no sample is alone between  *)
(* two gaps, and the ring is a sliding window of the last entries.         *)
(*                                                                         *)
(* An iteration writes up to three entries, so the invariant is one of the *)
(* record that AddEntryRaw takes and returns (RingInv), and each entry     *)
(* keeps it.                                                               *)
(***************************************************************************)
EXTENDS MonitorHistory, SequenceTheorems, TLAPS

Rings ==
  [buffer : [Positions -> Entries], last : Positions \cup {NoPos}, next : Positions,
   values : 0..(CounterSize - 1)]

(* The i-th oldest entry. *)
EntryAt(ring, i) == ring.buffer[SlotFrom(ring.next, i)]

LastIsBeforeNext(ring) ==
  ring.last # NoPos => ring.next = Successor(ring.last)

(* The counter knows a last sample, and a sample that follows a gap.       *)
CounterIsRight(ring) ==
  /\ ring.values # 0 => ring.last # NoPos /\ ring.buffer[ring.last] = "value"
  /\ HistoryCount >= 2 /\ EntryAt(ring, HistoryCount) = "value"
       /\ EntryAt(ring, HistoryCount - 1) = "gap" => ring.values = 1

NoneStandsAlone(ring) ==
  \A i \in 1..(HistoryCount - 2) :
    ~ /\ EntryAt(ring, i) = "gap"
      /\ EntryAt(ring, i + 1) = "value"
      /\ EntryAt(ring, i + 2) = "gap"

MarksAreInOrder(ring) ==
  triggerStartPos # NoPos =>
    /\ ring.last # NoPos
    /\ triggerEndPos # NoPos
    /\ RelativeTo(ring.next, triggerStartPos) <= RelativeTo(ring.next, triggerEndPos)

MarkTypes == {triggerStartPos, triggerEndPos} \subseteq Positions \cup {NoPos}

RingInv(ring) ==
  /\ ring \in Rings
  /\ LastIsBeforeNext(ring)
  /\ CounterIsRight(ring)
  /\ NoneStandsAlone(ring)
  /\ MarksAreInOrder(ring)

HistoryInv == TypeOK /\ RingInv(Ring)

-----------------------------------------------------------------------------
(* Positions, without the remainders.                                      *)

(* The remainder of what passes the end of the ring at most once.          *)
LEMMA SmallRemainder ==
  ASSUME NEW a \in Nat, a < 2 * HistoryCount
  PROVE  a % HistoryCount = IF a < HistoryCount THEN a ELSE a - HistoryCount
BY HistoryAssumption

(* The position after the last one is the first one.                       *)
LEMMA SuccessorValue ==
  ASSUME NEW pos \in Positions
  PROVE  /\ Successor(pos) = IF pos = HistoryCount - 1 THEN 0 ELSE pos + 1
         /\ Successor(pos) \in Positions
<1> DEFINE a == pos + 1
<1>1. a \in Nat /\ a < 2 * HistoryCount
  BY HistoryAssumption DEF Positions
<1>2. a % HistoryCount = IF a < HistoryCount THEN a ELSE a - HistoryCount
  <2> HIDE DEF a
  <2> QED
    BY <1>1, SmallRemainder
<1> QED
  BY <1>1, <1>2, HistoryAssumption DEF Successor, Positions

(* The distance from the next position, around the end of the ring.        *)
LEMMA RelativeValue ==
  ASSUME NEW next \in Positions, NEW pos \in Positions
  PROVE  /\ RelativeTo(next, pos)
              = IF pos < next THEN pos + HistoryCount - next ELSE pos - next
         /\ RelativeTo(next, pos) \in Positions
<1> DEFINE a == pos + (HistoryCount - next)
<1>1. a \in Nat /\ a < 2 * HistoryCount
  BY HistoryAssumption DEF Positions
<1>2. a % HistoryCount = IF a < HistoryCount THEN a ELSE a - HistoryCount
  <2> HIDE DEF a
  <2> QED
    BY <1>1, SmallRemainder
<1> QED
  BY <1>1, <1>2, HistoryAssumption DEF RelativeTo, Positions

(* The slot of the i-th oldest entry, around the end of the ring.          *)
LEMMA SlotValue ==
  ASSUME NEW next \in Positions, NEW i \in 1..HistoryCount
  PROVE  /\ SlotFrom(next, i)
              = IF next + i - 1 < HistoryCount THEN next + i - 1
                ELSE next + i - 1 - HistoryCount
         /\ SlotFrom(next, i) \in Positions
<1> DEFINE a == next + i - 1
<1>1. a \in Nat /\ a < 2 * HistoryCount
  BY HistoryAssumption DEF Positions
<1>2. a % HistoryCount = IF a < HistoryCount THEN a ELSE a - HistoryCount
  <2> HIDE DEF a
  <2> QED
    BY <1>1, SmallRemainder
<1> QED
  BY <1>1, <1>2, HistoryAssumption DEF SlotFrom, Positions

(* The relative position of an entry that stays decreases by one.          *)
LEMMA RelativeStep ==
  ASSUME NEW next \in Positions, NEW pos \in Positions, pos # next
  PROVE  RelativeTo(Successor(next), pos) = RelativeTo(next, pos) - 1
<1> DEFINE succ == Successor(next)
<1>1. succ \in Positions /\ succ = IF next = HistoryCount - 1 THEN 0 ELSE next + 1
  BY SuccessorValue
<1> HIDE DEF succ
<1>2. RelativeTo(succ, pos) = IF pos < succ THEN pos + HistoryCount - succ ELSE pos - succ
  BY <1>1, RelativeValue
<1>3. RelativeTo(next, pos) = IF pos < next THEN pos + HistoryCount - next ELSE pos - next
  BY RelativeValue
<1>4. RelativeTo(succ, pos) = RelativeTo(next, pos) - 1
  BY <1>1, <1>2, <1>3, HistoryAssumption DEF Positions
<1> QED
  BY <1>4 DEF succ

(* The next position is the lowest, and that of the last entry the highest. *)
LEMMA RelativeEnds ==
  ASSUME NEW pos \in Positions
  PROVE  /\ RelativeTo(pos, pos) = 0
         /\ RelativeTo(Successor(pos), pos) = HistoryCount - 1
<1> DEFINE succ == Successor(pos)
<1>1. succ \in Positions /\ succ = IF pos = HistoryCount - 1 THEN 0 ELSE pos + 1
  BY SuccessorValue
<1> HIDE DEF succ
<1>2. RelativeTo(succ, pos) = IF pos < succ THEN pos + HistoryCount - succ ELSE pos - succ
  BY <1>1, RelativeValue
<1>3. RelativeTo(pos, pos) = pos - pos
  BY RelativeValue DEF Positions
<1>4. RelativeTo(succ, pos) = HistoryCount - 1
  BY <1>1, <1>2, HistoryAssumption DEF Positions
<1> QED
  BY <1>3, <1>4 DEF succ, Positions

(* The slots after the next one are what they were, one place older; the   *)
(* last one is the slot that was written.                                  *)
LEMMA SlotStep ==
  ASSUME NEW next \in Positions
  PROVE  /\ SlotFrom(Successor(next), HistoryCount) = next
         /\ \A i \in 1..(HistoryCount - 1) :
              /\ SlotFrom(Successor(next), i) = SlotFrom(next, i + 1)
              /\ SlotFrom(next, i + 1) # next
<1> DEFINE succ == Successor(next)
<1>1. succ \in Positions /\ succ = IF next = HistoryCount - 1 THEN 0 ELSE next + 1
  BY SuccessorValue
<1> HIDE DEF succ
<1>2. \A i \in 1..HistoryCount :
        SlotFrom(succ, i) = IF succ + i - 1 < HistoryCount THEN succ + i - 1
                            ELSE succ + i - 1 - HistoryCount
  BY <1>1, SlotValue
<1>3. \A i \in 1..HistoryCount :
        SlotFrom(next, i) = IF next + i - 1 < HistoryCount THEN next + i - 1
                            ELSE next + i - 1 - HistoryCount
  BY SlotValue
<1>4. SlotFrom(succ, HistoryCount) = next
  <2>1. HistoryCount \in 1..HistoryCount
    BY HistoryAssumption
  <2> QED
    BY <1>1, <1>2, <2>1, HistoryAssumption DEF Positions
<1>5. ASSUME NEW i \in 1..(HistoryCount - 1)
      PROVE  SlotFrom(succ, i) = SlotFrom(next, i + 1) /\ SlotFrom(next, i + 1) # next
  <2>1. i \in 1..HistoryCount /\ i + 1 \in 1..HistoryCount
    BY HistoryAssumption
  <2>2. SlotFrom(succ, i) = IF succ + i - 1 < HistoryCount THEN succ + i - 1
                            ELSE succ + i - 1 - HistoryCount
    BY <1>2, <2>1
  <2>3. SlotFrom(next, i + 1) = IF next + (i + 1) - 1 < HistoryCount
                                THEN next + (i + 1) - 1
                                ELSE next + (i + 1) - 1 - HistoryCount
    BY <1>3, <2>1
  <2> QED
    BY <1>1, <2>1, <2>2, <2>3, HistoryAssumption DEF Positions
<1> QED
  BY <1>4, <1>5 DEF succ

(* An entry that is not refused makes all others one place older.          *)
LEMMA EntryStep ==
  ASSUME NEW ring \in Rings, NEW entry \in Entries, ~IsFullAt(ring.next)
  PROVE  LET new == AddEntryRaw(ring, entry)
         IN /\ new \in Rings
            /\ new.last = ring.next /\ new.next = Successor(ring.next)
            /\ new.values = IF entry = "gap" THEN 0 ELSE (ring.values + 1) % CounterSize
            /\ new.buffer[new.last] = entry
            /\ EntryAt(new, HistoryCount) = entry
            /\ \A i \in 1..(HistoryCount - 1) : EntryAt(new, i) = EntryAt(ring, i + 1)
<1> DEFINE new == AddEntryRaw(ring, entry)
<1>1. /\ ring.buffer \in [Positions -> Entries] /\ ring.next \in Positions
      /\ ring.values \in 0..(CounterSize - 1)
  BY DEF Rings
<1>2. new = [buffer |-> [ring.buffer EXCEPT ![ring.next] = entry],
             last |-> ring.next, next |-> Successor(ring.next),
             values |-> IF entry = "gap" THEN 0 ELSE (ring.values + 1) % CounterSize]
  BY DEF AddEntryRaw
<1>3. (ring.values + 1) % CounterSize \in 0..(CounterSize - 1)
  BY <1>1, HistoryAssumption
<1>4. new \in Rings
  BY <1>1, <1>2, <1>3, SuccessorValue, HistoryAssumption DEF Rings
<1>5. new.buffer[new.last] = entry
  BY <1>1, <1>2
<1>6. EntryAt(new, HistoryCount) = entry
  BY <1>1, <1>2, SlotStep DEF EntryAt
<1>7. ASSUME NEW i \in 1..(HistoryCount - 1)
      PROVE  EntryAt(new, i) = EntryAt(ring, i + 1)
  <2>1. SlotFrom(new.next, i) = SlotFrom(ring.next, i + 1)
    BY <1>1, <1>2, SlotStep
  <2>2. SlotFrom(ring.next, i + 1) # ring.next
    BY <1>1, SlotStep
  <2>3. i + 1 \in 1..HistoryCount
    BY HistoryAssumption
  <2>4. SlotFrom(ring.next, i + 1) \in Positions
    BY <1>1, <2>3, SlotValue
  <2> QED
    BY <1>1, <1>2, <2>1, <2>2, <2>4 DEF EntryAt
<1> QED
  BY <1>2, <1>4, <1>5, <1>6, <1>7

-----------------------------------------------------------------------------
(* Only the next position is the oldest place.                             *)
LEMMA OldestPlace ==
  ASSUME NEW next \in Positions, NEW pos \in Positions
  PROVE  RelativeTo(next, pos) = 0 <=> pos = next
<1>1. /\ RelativeTo(next, pos)
           = IF pos < next THEN pos + HistoryCount - next ELSE pos - next
  BY RelativeValue
<1>2. /\ pos \in Int /\ next \in Int /\ pos >= 0 /\ next < HistoryCount
  BY HistoryAssumption DEF Positions
<1> QED
  BY <1>1, <1>2, HistoryAssumption

(* While the first entry of a trigger stays, so does the last one.         *)
LEMMA EndIsKept ==
  ASSUME MarkTypes, NEW ring \in Rings, MarksAreInOrder(ring),
         triggerStartPos # NoPos, triggerStartPos # ring.next
  PROVE  triggerEndPos # ring.next
<1>1. /\ triggerStartPos \in Positions /\ triggerEndPos \in Positions
      /\ ring.next \in Positions
      /\ RelativeTo(ring.next, triggerStartPos) <= RelativeTo(ring.next, triggerEndPos)
  BY DEF MarkTypes, MarksAreInOrder, Rings
<1>2. RelativeTo(ring.next, triggerStartPos) # 0
  BY <1>1, OldestPlace
<1>3. RelativeTo(ring.next, triggerStartPos) \in Positions
  BY <1>1, RelativeValue
<1>4. RelativeTo(ring.next, triggerEndPos) # 0
  BY <1>1, <1>2, <1>3, HistoryAssumption DEF Positions
<1> QED
  BY <1>1, <1>4, OldestPlace

(* A sample, or a gap that does not follow a single sample, keeps it all.  *)
LEMMA EntryKeepsRingInv ==
  ASSUME MarkTypes, NEW ring, RingInv(ring), NEW entry \in Entries,
         entry = "gap" => ring.values # 1
  PROVE  RingInv(AddEntryRaw(ring, entry))
<1>1. CASE IsFullAt(ring.next)
  <2>1. AddEntryRaw(ring, entry) = ring
    BY <1>1 DEF AddEntryRaw
  <2> QED
    BY <2>1
<1>2. CASE ~IsFullAt(ring.next)
  <2> DEFINE new == AddEntryRaw(ring, entry)
  <2>1. ring \in Rings
    BY DEF RingInv
  <2>2. /\ new \in Rings
        /\ new.last = ring.next /\ new.next = Successor(ring.next)
        /\ new.values = IF entry = "gap" THEN 0 ELSE (ring.values + 1) % CounterSize
        /\ new.buffer[new.last] = entry
        /\ EntryAt(new, HistoryCount) = entry
        /\ \A i \in 1..(HistoryCount - 1) : EntryAt(new, i) = EntryAt(ring, i + 1)
    BY <1>2, <2>1, EntryStep
  <2> HIDE DEF new
  <2>3. ring.next \in Positions /\ ring.next # NoPos
    BY <2>1, HistoryAssumption DEF Rings, Positions, NoPos
  <2>4. LastIsBeforeNext(new)
    BY <2>2 DEF LastIsBeforeNext
  <2>5. CounterIsRight(new)
    <3>1. new.values # 0 => new.last # NoPos /\ new.buffer[new.last] = "value"
      BY <2>2, <2>3 DEF Entries
    <3>2. ASSUME HistoryCount >= 2, entry = "value",
                 EntryAt(new, HistoryCount - 1) = "gap"
          PROVE  new.values = 1
      <4>1. HistoryCount - 1 \in 1..(HistoryCount - 1) /\ (HistoryCount - 1) + 1 = HistoryCount
        BY <3>2, HistoryAssumption
      <4>2. EntryAt(ring, HistoryCount) = "gap"
        BY <2>2, <3>2, <4>1
      <4>3. ring.values = 0
        <5>1. SlotFrom(ring.next, HistoryCount) = ring.last \/ ring.last = NoPos
          BY <2>1, SlotStep DEF RingInv, LastIsBeforeNext, Rings
        <5> QED
          BY <4>2, <5>1 DEF RingInv, CounterIsRight, EntryAt
      <4>4. (0 + 1) % CounterSize = 1
        BY HistoryAssumption
      <4> QED
        BY <2>2, <3>2, <4>3, <4>4
    <3> QED
      BY <2>2, <3>1, <3>2 DEF CounterIsRight
  <2>6. NoneStandsAlone(new)
    <3> SUFFICES ASSUME NEW i \in 1..(HistoryCount - 2), EntryAt(new, i) = "gap",
                        EntryAt(new, i + 1) = "value", EntryAt(new, i + 2) = "gap"
                 PROVE  FALSE
      BY DEF NoneStandsAlone
    <3>1. /\ i \in 1..(HistoryCount - 1) /\ i + 1 \in 1..(HistoryCount - 1)
          /\ (i + 1) + 1 = i + 2 /\ HistoryCount >= 2
      BY HistoryAssumption
    <3>2. EntryAt(ring, i + 1) = "gap" /\ EntryAt(ring, i + 2) = "value"
      BY <2>2, <3>1
    <3>3. CASE i = HistoryCount - 2
      <4>1. i + 2 = HistoryCount /\ i + 1 = HistoryCount - 1
        BY <3>3, HistoryAssumption
      <4>2. entry = "gap"
        BY <2>2, <4>1
      <4>3. ring.values = 1
        BY <3>1, <3>2, <4>1 DEF RingInv, CounterIsRight
      <4> QED
        BY <4>2, <4>3
    <3>4. CASE i # HistoryCount - 2
      <4>1. /\ i + 2 \in 1..(HistoryCount - 1) /\ (i + 2) + 1 = (i + 1) + 2
            /\ i + 1 \in 1..(HistoryCount - 2)
        BY <3>4, HistoryAssumption
      <4>2. EntryAt(ring, (i + 1) + 2) = "gap"
        BY <2>2, <4>1
      <4> QED
        BY <3>1, <3>2, <4>1, <4>2 DEF RingInv, NoneStandsAlone
    <3> QED
      BY <3>3, <3>4
  <2>7. MarksAreInOrder(new)
    <3> SUFFICES ASSUME triggerStartPos # NoPos
                 PROVE  /\ new.last # NoPos
                        /\ triggerEndPos # NoPos
                        /\ RelativeTo(new.next, triggerStartPos)
                             <= RelativeTo(new.next, triggerEndPos)
      BY DEF MarksAreInOrder
    <3>1. /\ triggerStartPos \in Positions /\ triggerEndPos \in Positions
          /\ triggerEndPos # NoPos
          /\ RelativeTo(ring.next, triggerStartPos) <= RelativeTo(ring.next, triggerEndPos)
      BY DEF MarkTypes, RingInv, MarksAreInOrder
    <3>2. triggerStartPos # ring.next
      BY <1>2 DEF IsFullAt
    <3>3. triggerEndPos # ring.next
      BY <2>1, <3>2, EndIsKept DEF RingInv
    <3>4. /\ RelativeTo(ring.next, triggerStartPos) \in Positions
          /\ RelativeTo(ring.next, triggerEndPos) \in Positions
      BY <2>3, <3>1, RelativeValue
    <3>5. /\ RelativeTo(new.next, triggerStartPos) = RelativeTo(ring.next, triggerStartPos) - 1
          /\ RelativeTo(new.next, triggerEndPos) = RelativeTo(ring.next, triggerEndPos) - 1
      BY <2>2, <2>3, <3>1, <3>2, <3>3, RelativeStep
    <3> QED
      BY <2>2, <2>3, <3>1, <3>4, <3>5 DEF Positions
  <2>8. RingInv(new)
    BY <2>2, <2>4, <2>5, <2>6, <2>7 DEF RingInv
  <2> QED
    BY <2>8 DEF new
<1> QED
  BY <1>1, <1>2

(* A gap keeps it too: a single sample is doubled before, and then it is   *)
(* not single, or the ring is full and refuses the gap as well.            *)
LEMMA GapKeepsRingInv ==
  ASSUME MarkTypes, NEW ring, RingInv(ring)
  PROVE  RingInv(AddGap(ring))
<1>1. "gap" \in Entries /\ "value" \in Entries /\ "value" # "gap"
  BY DEF Entries
<1>2. CASE ring.values # 1
  BY <1>1, <1>2, EntryKeepsRingInv DEF AddGap
<1>3. CASE ring.values = 1
  <2> DEFINE doubled == AddEntryRaw(ring, "value")
  <2>1. AddGap(ring) = AddEntryRaw(doubled, "gap")
    BY <1>3 DEF AddGap, RingInv, CounterIsRight
  <2>2. RingInv(doubled)
    BY <1>1, EntryKeepsRingInv
  <2>3. CASE IsFullAt(ring.next)
    <3>1. doubled = ring
      BY <2>3 DEF AddEntryRaw
    <3> HIDE DEF doubled
    <3>2. AddGap(ring) = ring
      BY <2>1, <2>3, <3>1 DEF AddEntryRaw
    <3> QED
      BY <3>2
  <2>4. CASE ~IsFullAt(ring.next)
    <3>1. doubled.values = (1 + 1) % CounterSize
      BY <1>1, <1>3, <2>4 DEF AddEntryRaw
    <3>2. (1 + 1) % CounterSize # 1
      BY HistoryAssumption
    <3> HIDE DEF doubled
    <3>3. RingInv(AddEntryRaw(doubled, "gap"))
      BY <1>1, <2>2, <3>1, <3>2, EntryKeepsRingInv
    <3> QED
      BY <2>1, <3>3
  <2> QED
    BY <2>3, <2>4
<1> QED
  BY <1>2, <1>3

-----------------------------------------------------------------------------

(* The ring as a record holds what the variables hold.                     *)
LEMMA RingFields ==
  /\ Ring.buffer = ringBuffer /\ Ring.last = lastWritePos
  /\ Ring.next = nextWritePos /\ Ring.values = numberValuesAfterLastGap
  /\ Ring = [buffer |-> ringBuffer, last |-> lastWritePos, next |-> nextWritePos,
             values |-> numberValuesAfterLastGap]
BY DEF Ring

(* An empty ring has nothing that could be wrong.                          *)
LEMMA InitKeepsHistoryInv == Init => HistoryInv
<1> SUFFICES ASSUME Init
             PROVE  HistoryInv
  OBVIOUS
<1>1. "value" \in Entries /\ "value" # "gap"
  BY DEF Entries
<1>2. TypeOK
  BY <1>1, HistoryAssumption DEF Init, TypeOK, Positions, NoPos
<1>3. Ring \in Rings
  BY <1>2, RingFields DEF TypeOK, Rings
<1>4. ASSUME NEW i \in 1..HistoryCount
      PROVE  EntryAt(Ring, i) = "value"
  BY <1>2, <1>4, RingFields, SlotValue DEF EntryAt, Init, TypeOK
<1>5. LastIsBeforeNext(Ring) /\ CounterIsRight(Ring) /\ MarksAreInOrder(Ring)
  <2>1. HistoryCount >= 2 => HistoryCount - 1 \in 1..HistoryCount
    BY HistoryAssumption
  <2> QED
    BY <1>1, <1>4, <2>1, RingFields
    DEF Init, LastIsBeforeNext, CounterIsRight, MarksAreInOrder
<1>6. NoneStandsAlone(Ring)
  <2>1. \A i \in 1..(HistoryCount - 2) : i \in 1..HistoryCount
    BY HistoryAssumption
  <2> QED
    BY <1>1, <1>4, <2>1 DEF NoneStandsAlone
<1> QED
  BY <1>2, <1>3, <1>5, <1>6 DEF HistoryInv, RingInv

(* What an iteration writes keeps it, entry for entry.                     *)
LEMMA EntriesKeepHistoryInv ==
  ASSUME HistoryInv, NEW timing \in Timings, AddPadHistoryEntry(timing)
  PROVE  HistoryInv'
<1> DEFINE ring == CASE timing = "early" -> Ring
                     [] timing = "regular" -> AddEntryRaw(Ring, "value")
                     [] timing = "late" -> AddEntryRaw(AddGap(Ring), "value")
<1>1. MarkTypes /\ RingInv(Ring)
  BY DEF HistoryInv, TypeOK, MarkTypes
<1>2. RingInv(ring)
  <2>1. "value" \in Entries /\ "value" # "gap"
    BY DEF Entries
  <2>2. CASE timing = "early"
    BY <1>1, <2>2
  <2>3. CASE timing = "regular"
    <3>1. RingInv(AddEntryRaw(Ring, "value"))
      BY <1>1, <2>1, EntryKeepsRingInv
    <3> QED
      BY <2>3, <3>1
  <2>4. CASE timing = "late"
    <3>1. RingInv(AddGap(Ring))
      BY <1>1, GapKeepsRingInv
    <3>2. RingInv(AddEntryRaw(AddGap(Ring), "value"))
      BY <1>1, <2>1, <3>1, EntryKeepsRingInv
    <3> QED
      BY <2>4, <3>2
  <2> QED
    BY <2>2, <2>3, <2>4 DEF Timings
<1>3. /\ ringBuffer' = ring.buffer /\ lastWritePos' = ring.last
      /\ nextWritePos' = ring.next /\ numberValuesAfterLastGap' = ring.values
      /\ msgBuffer' = NothingSent
      /\ triggerStartPos' = triggerStartPos /\ triggerEndPos' = triggerEndPos
  BY DEF AddPadHistoryEntry, marks
<1> HIDE DEF ring
<1>4. Ring' = ring
  <2>1. ring \in Rings
    BY <1>2 DEF RingInv
  <2> QED
    BY <1>3, <2>1 DEF Ring, Rings
<1>5. RingInv(Ring)'
  BY <1>2, <1>3, <1>4
  DEF RingInv, LastIsBeforeNext, CounterIsRight, NoneStandsAlone, MarksAreInOrder,
      EntryAt, Rings
<1>6. TypeOK'
  <2>1. ring \in Rings
    BY <1>2 DEF RingInv
  <2> QED
    BY <1>3, <2>1 DEF HistoryInv, TypeOK, Rings, NothingSent
<1> QED
  BY <1>5, <1>6 DEF HistoryInv

(* Marks at the last entry: its relative position is the highest.          *)
LEMMA MarksKeepHistoryInv ==
  ASSUME HistoryInv, SetTriggerStartPos \/ SetTriggerEndPos
  PROVE  HistoryInv'
<1>1. /\ TypeOK /\ RingInv(Ring)
      /\ UNCHANGED writing /\ msgBuffer' = NothingSent
  BY DEF HistoryInv, SetTriggerStartPos, SetTriggerEndPos
<1>2. Ring' = Ring
  BY <1>1 DEF Ring, writing
<1>3. /\ lastWritePos # NoPos /\ lastWritePos \in Positions
      /\ triggerEndPos' = lastWritePos
      /\ triggerStartPos' \in Positions
  BY <1>1, RingFields
  DEF SetTriggerStartPos, SetTriggerEndPos, TypeOK, RingInv, MarksAreInOrder
<1>4. TypeOK'
  BY <1>1, <1>3 DEF TypeOK, writing
<1>5. MarksAreInOrder(Ring)'
  <2>1. nextWritePos = Successor(lastWritePos)
    BY <1>1, <1>3, RingFields DEF RingInv, LastIsBeforeNext
  <2>2. nextWritePos \in Positions
    BY <1>1 DEF TypeOK
  <2>3. RelativeTo(nextWritePos, triggerEndPos') = HistoryCount - 1
    BY <1>3, <2>1, RelativeEnds
  <2>4. RelativeTo(nextWritePos, triggerStartPos') \in Positions
    BY <1>3, <2>2, RelativeValue
  <2>5. RelativeTo(nextWritePos, triggerStartPos')
          <= RelativeTo(nextWritePos, triggerEndPos')
    BY <2>3, <2>4, HistoryAssumption DEF Positions
  <2> QED
    BY <1>2, <1>3, <2>5, RingFields DEF MarksAreInOrder, RelativeTo
<1>6. RingInv(Ring)'
  BY <1>1, <1>2, <1>5
  DEF RingInv, LastIsBeforeNext, CounterIsRight, NoneStandsAlone, EntryAt, Rings
<1> QED
  BY <1>4, <1>6 DEF HistoryInv

(* The copy has one entry for each position, and so the relative positions *)
(* are places of it.                                                       *)
LEMMA SendKeepsHistoryInv ==
  ASSUME HistoryInv, SendHitMessage
  PROVE  HistoryInv'
<1>1. /\ TypeOK /\ RingInv(Ring) /\ UNCHANGED writing
      /\ triggerStartPos # NoPos /\ triggerStartPos' = NoPos /\ triggerEndPos' = NoPos
      /\ msgBuffer' = [history |-> CopyTo, start |-> RelativePos(triggerStartPos),
                       end |-> RelativePos(triggerEndPos)]
  BY DEF HistoryInv, SendHitMessage
<1>2. Ring' = Ring
  BY <1>1 DEF Ring, writing
<1>3. /\ triggerStartPos \in Positions /\ triggerEndPos \in Positions
      /\ nextWritePos \in Positions
  BY <1>1 DEF TypeOK, RingInv, MarksAreInOrder
<1>4. /\ RelativePos(triggerStartPos) \in Positions
      /\ RelativePos(triggerEndPos) \in Positions
  BY <1>3, RelativeValue DEF RelativePos
<1>5. CopyTo \in [1..HistoryCount -> Entries]
  <2> DEFINE slots == [i \in 1..HistoryCount |-> ringBuffer[i - 1]]
             older == SubSeq(slots, nextWritePos + 1, HistoryCount)
             newer == SubSeq(slots, 1, nextWritePos)
  <2>1. \A i \in 1..HistoryCount : slots[i] \in Entries
    <3>1. \A i \in 1..HistoryCount : i - 1 \in Positions
      BY HistoryAssumption DEF Positions
    <3> QED
      BY <1>1, <3>1 DEF TypeOK
  <2>2. slots \in Seq(Entries) /\ Len(slots) = HistoryCount
    BY <2>1, HistoryAssumption
  <2> HIDE DEF slots
  <2>3. /\ nextWritePos \in Nat /\ nextWritePos < HistoryCount /\ HistoryCount \in Nat
    BY <1>3, HistoryAssumption DEF Positions
  <2>4. older \in Seq(Entries) /\ Len(older) = HistoryCount - nextWritePos
    BY <2>2, <2>3
  <2>5. newer \in Seq(Entries) /\ Len(newer) = nextWritePos
    BY <2>2, <2>3
  <2>6. CopyTo = older \o newer
    BY DEF CopyTo, slots
  <2> HIDE DEF older, newer
  <2>7. older \o newer \in Seq(Entries) /\ Len(older \o newer) = HistoryCount
    BY <2>3, <2>4, <2>5
  <2>8. ASSUME NEW history \in Seq(Entries)
        PROVE  history \in [1..Len(history) -> Entries]
    BY <2>8
  <2> QED
    BY <2>6, <2>7, <2>8
<1>6. TypeOK'
  BY <1>1, <1>4, <1>5 DEF TypeOK, writing
<1>7. RingInv(Ring)'
  BY <1>1, <1>2
  DEF RingInv, LastIsBeforeNext, CounterIsRight, NoneStandsAlone, MarksAreInOrder,
      EntryAt, Rings
<1> QED
  BY <1>6, <1>7 DEF HistoryInv

(* HistoryInv holds in every state, for rings of every size.               *)
THEOREM HistoryIsConsistent == Spec => []HistoryInv
<1>1. HistoryInv /\ [Next]_vars => HistoryInv'
  <2> SUFFICES ASSUME HistoryInv, [Next]_vars
               PROVE  HistoryInv'
    OBVIOUS
  <2>1. CASE \E timing \in Timings : AddPadHistoryEntry(timing)
    BY <2>1, EntriesKeepHistoryInv
  <2>2. CASE SetTriggerStartPos \/ SetTriggerEndPos
    BY <2>2, MarksKeepHistoryInv
  <2>3. CASE SendHitMessage
    BY <2>3, SendKeepsHistoryInv
  <2>4. CASE UNCHANGED vars
    <3>1. /\ TypeOK /\ RingInv(Ring) /\ UNCHANGED writing /\ UNCHANGED marks
          /\ msgBuffer' = msgBuffer
      BY <2>4 DEF HistoryInv, vars
    <3>2. Ring' = Ring
      BY <3>1 DEF Ring, writing
    <3>3. TypeOK'
      BY <3>1 DEF TypeOK, writing, marks
    <3>4. RingInv(Ring)'
      BY <3>1, <3>2
      DEF RingInv, LastIsBeforeNext, CounterIsRight, NoneStandsAlone, MarksAreInOrder,
          EntryAt, Rings, marks
    <3> QED
      BY <3>3, <3>4 DEF HistoryInv
  <2> QED
    BY <2>1, <2>2, <2>3, <2>4 DEF Next
<1> QED
  BY <1>1, InitKeepsHistoryInv, PTL DEF Spec

(* Every position is one of the ring, and a message holds HistoryCount     *)
(* entries with both marks inside of it (monitor_history.cpp:22-52).       *)
THEOREM HistoryTypes == Spec => []TypeOK
<1>1. HistoryInv => TypeOK
  BY DEF HistoryInv
<1> QED
  BY <1>1, HistoryIsConsistent, PTL

(* The trigger that the page highlights never ends before it starts,       *)
(* however long it is and wherever the ring wraps around                   *)
(* (monitor_history.h:31, 119).                                            *)
THEOREM TriggersStayInOrder == Spec => []TriggerIsInOrder
<1>1. HistoryInv => TriggerIsInOrder
  BY RingFields DEF HistoryInv, RingInv, MarksAreInOrder, TriggerIsInOrder, RelativePos
<1> QED
  BY <1>1, HistoryIsConsistent, PTL

(* No sample is ever alone between two gaps, although a full ring refuses  *)
(* entries in the middle of a group (monitor.cpp:158-168).                 *)
THEOREM NoLonelySamples == Spec => []NoSampleStandsAlone
<1>1. HistoryInv => NoSampleStandsAlone
  BY RingFields
  DEF HistoryInv, RingInv, NoneStandsAlone, NoSampleStandsAlone, EntryAt, Slot
<1> QED
  BY <1>1, HistoryIsConsistent, PTL

-----------------------------------------------------------------------------
(* The ring is a window: the places of its entries, oldest first, slide by *)
(* one with each entry that is not refused.                                *)

Marks == Positions \cup {NoPos}
PlaceIn(next, pos) == IF pos = NoPos THEN 0 ELSE RelativeTo(next, pos) + 1

WindowFrom(buffer, next, start, end) ==
  [entries |-> [i \in 1..HistoryCount |-> buffer[SlotFrom(next, i)]],
   start |-> PlaceIn(next, start), end |-> PlaceIn(next, end)]

WindowOf(ring) == WindowFrom(ring.buffer, ring.next, triggerStartPos, triggerEndPos)

(* What the refinement makes of the variables. *)
TheWindow ==
  [entries |-> [i \in 1..HistoryCount |-> ringBuffer[Slot(i)]],
   start |-> PlaceOf(triggerStartPos), end |-> PlaceOf(triggerEndPos)]

(* A position is that of a single place, its relative one.                 *)
LEMMA PlaceLemma ==
  ASSUME NEW next \in Positions, NEW pos \in Marks
  PROVE  (IF pos = NoPos THEN 0
          ELSE CHOOSE i \in 1..HistoryCount : SlotFrom(next, i) = pos) = PlaceIn(next, pos)
<1>1. CASE pos = NoPos
  BY <1>1 DEF PlaceIn
<1>2. CASE pos # NoPos
  <2> DEFINE place == RelativeTo(next, pos) + 1
             Is(i) == SlotFrom(next, i) = pos
  <2>1. pos \in Positions
    BY <1>2 DEF Marks
  <2>2. /\ RelativeTo(next, pos) = IF pos < next THEN pos + HistoryCount - next ELSE pos - next
        /\ RelativeTo(next, pos) \in Positions
    BY <2>1, RelativeValue
  <2>3. place \in 1..HistoryCount
    BY <2>2, HistoryAssumption DEF Positions
  <2>4. ASSUME NEW i \in 1..HistoryCount
        PROVE  Is(i) <=> i = place
    <3>1. SlotFrom(next, i) = IF next + i - 1 < HistoryCount THEN next + i - 1
                              ELSE next + i - 1 - HistoryCount
      BY SlotValue
    <3>2. /\ pos \in Int /\ pos >= 0 /\ pos < HistoryCount
          /\ next \in Int /\ next >= 0 /\ next < HistoryCount
          /\ i \in Int /\ i >= 1 /\ i <= HistoryCount
      BY <2>1, HistoryAssumption DEF Positions
    <3> QED
      BY <2>2, <3>1, <3>2, HistoryAssumption
  <2> HIDE DEF place, Is
  <2>5. (CHOOSE i \in 1..HistoryCount : Is(i)) = place
    BY <2>3, <2>4
  <2> QED
    BY <1>2, <2>5 DEF PlaceIn, place, Is
<1> QED
  BY <1>1, <1>2

LEMMA TheWindowLemma ==
  ASSUME TypeOK
  PROVE  TheWindow = WindowFrom(ringBuffer, nextWritePos, triggerStartPos, triggerEndPos)
BY PlaceLemma DEF TypeOK, TheWindow, WindowFrom, PlaceOf, Slot, Marks

(* The same of the next state. *)
LEMMA NextWindowLemma ==
  ASSUME TypeOK'
  PROVE  TheWindow' = WindowFrom(ringBuffer', nextWritePos', triggerStartPos', triggerEndPos')
BY PlaceLemma DEF TypeOK, TheWindow, WindowFrom, PlaceOf, Slot, Marks

(* The last place is that of the entry that was written last.              *)
LEMMA PlaceOfLast ==
  ASSUME NEW pos \in Positions
  PROVE  PlaceIn(Successor(pos), pos) = HistoryCount
<1>1. RelativeTo(Successor(pos), pos) = HistoryCount - 1
  BY RelativeEnds
<1>2. pos # NoPos
  BY HistoryAssumption DEF Positions, NoPos
<1> QED
  BY <1>1, <1>2, HistoryAssumption DEF PlaceIn

(* A mark whose entry stays gets one place older.                          *)
LEMMA OlderLemma ==
  ASSUME NEW next \in Positions, NEW pos \in Marks, pos # next
  PROVE  PlaceIn(Successor(next), pos) = Window!Older(PlaceIn(next, pos))
<1>1. CASE pos = NoPos
  BY <1>1 DEF PlaceIn, Window!Older
<1>2. CASE pos # NoPos
  <2>1. pos \in Positions
    BY <1>2 DEF Marks
  <2>2. RelativeTo(Successor(next), pos) = RelativeTo(next, pos) - 1
    BY <2>1, RelativeStep
  <2>3. RelativeTo(next, pos) \in Positions
    BY <2>1, RelativeValue
  <2>4. RelativeTo(next, pos) \in Nat
    BY <2>3, HistoryAssumption DEF Positions
  <2> HIDE DEF Positions
  <2> QED
    BY <1>2, <2>2, <2>4 DEF PlaceIn, Window!Older
<1> QED
  BY <1>1, <1>2

MarksGoTogether == triggerStartPos = NoPos => triggerEndPos = NoPos

(* An entry slides the window, or is refused when the window stands still. *)
LEMMA EntrySlides ==
  ASSUME MarkTypes, MarksGoTogether, NEW ring, RingInv(ring), NEW entry \in Entries
  PROVE  Window!Slide(WindowOf(ring), entry) = WindowOf(AddEntryRaw(ring, entry))
<1> DEFINE w == WindowOf(ring)
           new == AddEntryRaw(ring, entry)
<1>1. /\ ring \in Rings /\ ring.next \in Positions /\ MarksAreInOrder(ring)
      /\ triggerStartPos \in Marks /\ triggerEndPos \in Marks
  BY DEF RingInv, Rings, MarkTypes, Marks
<1>2. ring.next # NoPos
  BY <1>1, HistoryAssumption DEF Positions, NoPos
<1>3. w.start = PlaceIn(ring.next, triggerStartPos)
  BY DEF WindowOf, WindowFrom
<1>4. CASE IsFullAt(ring.next)
  <2>1. RelativeTo(ring.next, ring.next) = 0
    BY <1>1, RelativeEnds
  <2>2. w.start = 1
    BY <1>3, <1>4, <2>1 DEF IsFullAt, PlaceIn
  <2> HIDE DEF w
  <2>3. new = ring /\ Window!Slide(w, entry) = w
    BY <1>4, <2>2 DEF AddEntryRaw, Window!Slide
  <2> QED
    BY <2>3 DEF w
<1>5. CASE ~IsFullAt(ring.next)
  <2>1. triggerStartPos # ring.next
    BY <1>2, <1>5 DEF IsFullAt
  <2>2. triggerEndPos # ring.next
    BY <1>1, <1>2, <2>1, EndIsKept DEF MarksGoTogether
  <2>3. w.start # 1
    <3>1. CASE triggerStartPos = NoPos
      BY <1>3, <3>1 DEF PlaceIn
    <3>2. CASE triggerStartPos # NoPos
      <4>1. RelativeTo(ring.next, triggerStartPos) # 0
        BY <1>1, <2>1, <3>2, OldestPlace DEF Marks
      <4>2. RelativeTo(ring.next, triggerStartPos) \in Nat
        <5>1. RelativeTo(ring.next, triggerStartPos) \in Positions
          BY <1>1, <3>2, RelativeValue DEF Marks
        <5> QED
          BY <5>1, HistoryAssumption DEF Positions
      <4> HIDE DEF w
      <4> QED
        BY <1>3, <3>2, <4>1, <4>2 DEF PlaceIn
    <3> QED
      BY <3>1, <3>2
  <2>4. /\ new.next = Successor(ring.next)
        /\ EntryAt(new, HistoryCount) = entry
        /\ \A i \in 1..(HistoryCount - 1) : EntryAt(new, i) = EntryAt(ring, i + 1)
    BY <1>1, <1>5, EntryStep
  <2> DEFINE old == w.entries
             e(i) == EntryAt(ring, i)
  <2>5. old = [i \in 1..HistoryCount |-> e(i)]
    BY DEF WindowOf, WindowFrom, EntryAt
  <2>6. \A i \in 1..HistoryCount : e(i) \in Entries
    BY <1>1, SlotValue DEF EntryAt, Rings
  <2> HIDE DEF e, old
  <2>7. old \in Seq(Entries) /\ Len(old) = HistoryCount
    <3>1. [i \in 1..HistoryCount |-> e(i)] \in Seq(Entries)
      BY <2>6, IsASeq, HistoryAssumption
    <3>2. old \in Seq(Entries) /\ DOMAIN old = 1..HistoryCount
      BY <2>5, <3>1
    <3> QED
      BY <3>2, LenProperties, HistoryAssumption
  <2>8. /\ Tail(old) \in Seq(Entries) /\ Len(Tail(old)) = HistoryCount - 1
        /\ \A i \in 1..(HistoryCount - 1) : Tail(old)[i] = old[i + 1]
    <3>1. old # <<>>
      BY <2>7, EmptySeq, HistoryAssumption
    <3> QED
      BY <2>7, <3>1, HeadTailProperties
  <2> DEFINE slid == Append(Tail(old), entry)
  <2>9. /\ slid \in Seq(Entries) /\ Len(slid) = HistoryCount
        /\ \A i \in 1..(HistoryCount - 1) : slid[i] = old[i + 1]
        /\ slid[HistoryCount] = entry
    <3>1. /\ slid \in Seq(Entries) /\ Len(slid) = (HistoryCount - 1) + 1
          /\ \A i \in 1..(HistoryCount - 1) : slid[i] = Tail(old)[i]
          /\ slid[(HistoryCount - 1) + 1] = entry
      BY <2>8, AppendProperties
    <3> HIDE DEF slid
    <3> QED
      BY <2>8, <3>1, HistoryAssumption
  <2> HIDE DEF slid
  <2>10. \A i \in 1..HistoryCount : slid[i] = EntryAt(new, i)
    <3> SUFFICES ASSUME NEW i \in 1..HistoryCount PROVE slid[i] = EntryAt(new, i)
      OBVIOUS
    <3>1. CASE i = HistoryCount
      BY <2>4, <2>9, <3>1
    <3>2. CASE i # HistoryCount
      <4>1. i \in 1..(HistoryCount - 1) /\ i + 1 \in 1..HistoryCount
        BY <3>2, HistoryAssumption
      <4> QED
        BY <2>4, <2>5, <2>9, <4>1 DEF e
    <3> QED
      BY <3>1, <3>2
  <2>11. slid = WindowOf(new).entries
    <3>1. DOMAIN slid = 1..HistoryCount
      BY <2>9, LenProperties
    <3>2. slid = [i \in 1..HistoryCount |-> slid[i]]
      BY <2>9, <3>1, LenProperties
    <3> HIDE DEF new
    <3> QED
      BY <2>10, <3>2 DEF WindowOf, WindowFrom, EntryAt
  <2>12. /\ WindowOf(new).start = Window!Older(w.start)
         /\ WindowOf(new).end = Window!Older(w.end)
    <3> HIDE DEF new
    <3> QED
      BY <1>1, <2>1, <2>2, <2>4, OlderLemma DEF WindowOf, WindowFrom
  <2>13. Window!Slide(w, entry)
           = [entries |-> slid, start |-> Window!Older(w.start), end |-> Window!Older(w.end)]
    BY <2>3 DEF Window!Slide, slid, old
  <2>14. WindowOf(new) = [entries |-> WindowOf(new).entries, start |-> WindowOf(new).start,
                          end |-> WindowOf(new).end]
    BY DEF WindowOf, WindowFrom
  <2> HIDE DEF new, w
  <2> QED
    BY <2>11, <2>12, <2>13, <2>14 DEF new, w
<1> QED
  BY <1>4, <1>5

(* A batch of up to three entries slides them in, one after the other.     *)
IsSlid(w, batch, n, f) ==
  f = [i \in 0..n |-> IF i = 0 THEN w ELSE Window!Slide(f[i - 1], batch[i])]

LEMMA SlideAllLemma ==
  ASSUME NEW w, NEW n \in 0..3, NEW batch \in [1..n -> Entries]
  PROVE  LET s1 == Window!Slide(w, batch[1])
             s2 == Window!Slide(s1, batch[2])
         IN  Window!SlideAll(w, batch)
               = IF n = 0 THEN w ELSE IF n = 1 THEN s1 ELSE IF n = 2 THEN s2
                 ELSE Window!Slide(s2, batch[3])
<1> DEFINE s1 == Window!Slide(w, batch[1])
           s2 == Window!Slide(s1, batch[2])
           s3 == Window!Slide(s2, batch[3])
           f == [i \in 0..n |-> IF i = 0 THEN w ELSE IF i = 1 THEN s1 ELSE IF i = 2 THEN s2
                                ELSE s3]
           g == CHOOSE h : IsSlid(w, batch, n, h)
<1>1. Len(batch) = n
  <2>1. batch \in Seq(Entries) /\ DOMAIN batch = 1..n
    OBVIOUS
  <2> QED
    BY <2>1, LenProperties
<1>2. IsSlid(w, batch, n, f)
  <2>1. ASSUME NEW i \in 0..n
        PROVE  f[i] = IF i = 0 THEN w ELSE Window!Slide(f[i - 1], batch[i])
    <3>1. i \in {0, 1, 2, 3} /\ (i # 0 => i - 1 \in 0..n)
      OBVIOUS
    <3>2. CASE i = 0
      BY <3>2
    <3>3. CASE i = 1
      BY <3>1, <3>3
    <3>4. CASE i = 2
      BY <3>1, <3>4
    <3>5. CASE i = 3
      BY <3>1, <3>5
    <3> QED
      BY <3>1, <3>2, <3>3, <3>4, <3>5
  <2>2. f = [i \in 0..n |-> f[i]]
    OBVIOUS
  <2> HIDE DEF f
  <2>3. f = [i \in 0..n |-> IF i = 0 THEN w ELSE Window!Slide(f[i - 1], batch[i])]
    BY <2>1, <2>2
  <2> QED
    BY <2>3 DEF IsSlid
<1> HIDE DEF f
<1>3. IsSlid(w, batch, n, g)
  BY <1>2
<1>4. Window!SlideAll(w, batch) = g[n]
  BY <1>1 DEF Window!SlideAll, IsSlid
<1> HIDE DEF g
<1>5. \A i \in 0..n : g[i] = IF i = 0 THEN w ELSE Window!Slide(g[i - 1], batch[i])
  BY <1>3, Zenon DEF IsSlid
<1>6. g[0] = w
  BY <1>5
<1>7. n >= 1 => g[1] = s1
  BY <1>5, <1>6
<1>8. n >= 2 => g[2] = s2
  BY <1>5, <1>7
<1>9. n >= 3 => g[3] = s3
  BY <1>5, <1>8
<1> HIDE DEF s1, s2, s3
<1>10. g[n] = IF n = 0 THEN w ELSE IF n = 1 THEN s1 ELSE IF n = 2 THEN s2 ELSE s3
  BY <1>6, <1>7, <1>8, <1>9
<1> QED
  BY <1>4, <1>10 DEF s1, s2, s3

(* A batch of three, and of none. *)
LEMMA ThreeSlide ==
  ASSUME NEW w0, NEW w1, NEW w2, NEW w3, NEW batch \in [1..3 -> Entries],
         w1 = Window!Slide(w0, batch[1]), w2 = Window!Slide(w1, batch[2]),
         w3 = Window!Slide(w2, batch[3])
  PROVE  Window!SlideAll(w0, batch) = w3
<1>1. 3 \in 0..3 /\ 3 # 0 /\ 3 # 1 /\ 3 # 2
  OBVIOUS
<1>2. Window!SlideAll(w0, batch)
        = Window!Slide(Window!Slide(Window!Slide(w0, batch[1]), batch[2]), batch[3])
  BY <1>1, SlideAllLemma
<1> QED
  BY <1>2

LEMMA NoneSlides ==
  ASSUME NEW w, NEW batch \in [1..0 -> Entries]
  PROVE  Window!SlideAll(w, batch) = w
<1>1. 0 \in 0..3
  OBVIOUS
<1> QED
  BY <1>1, SlideAllLemma
-----------------------------------------------------------------------------
(* The steps of the ring are those of the window.                          *)

MarksInv == HistoryInv /\ MarksGoTogether

(* Marks are set and cleared together. *)
LEMMA MarksInvariance == Spec => []MarksInv
<1>1. Init => MarksGoTogether
  BY DEF Init, MarksGoTogether
<1>2. HistoryInv /\ MarksGoTogether /\ [Next]_vars => MarksGoTogether'
  <2> SUFFICES ASSUME HistoryInv, MarksGoTogether, [Next]_vars
               PROVE  MarksGoTogether'
    OBVIOUS
  <2>1. triggerStartPos' = triggerStartPos /\ triggerEndPos' = triggerEndPos
          => MarksGoTogether'
    BY DEF MarksGoTogether
  <2>2. CASE SetTriggerStartPos \/ SetTriggerEndPos \/ SendHitMessage
    BY <2>2 DEF SetTriggerStartPos, SetTriggerEndPos, SendHitMessage, MarksGoTogether
  <2> QED
    BY <2>1, <2>2 DEF Next, AddPadHistoryEntry, marks, vars
<1> QED
  BY <1>1, <1>2, HistoryIsConsistent, PTL DEF Spec, MarksInv

(* The ring starts as a window of samples without a trigger.               *)
LEMMA InitIsWindowInit == Init => Window!Init
<1> SUFFICES ASSUME Init PROVE Window!Init
  OBVIOUS
<1>1. HistoryInv
  BY InitKeepsHistoryInv
<1>2. TypeOK /\ nextWritePos \in Positions
  BY <1>1 DEF HistoryInv, TypeOK
<1>3. \A i \in 1..HistoryCount : ringBuffer[Slot(i)] = "value"
  BY <1>2, SlotValue DEF Init, Slot
<1>4. TheWindow = [entries |-> [i \in 1..HistoryCount |-> "value"], start |-> 0, end |-> 0]
  BY <1>3 DEF Init, TheWindow, PlaceOf
<1>5. msgBuffer = [history |-> <<>>]
  BY DEF Init, NothingSent
<1> QED
  BY <1>4, <1>5 DEF Window!Init, Window!NoMessage, TheWindow, Entries

(* An iteration writes a batch of none to three entries.                   *)
LEMMA EntriesFill ==
  ASSUME MarksInv, NEW timing \in Timings, AddPadHistoryEntry(timing)
  PROVE  \E n \in 0..3 : \E batch \in [1..n -> Entries] :
           TheWindow' = Window!SlideAll(TheWindow, batch)
<1> DEFINE ring == CASE timing = "early" -> Ring
                     [] timing = "regular" -> AddEntryRaw(Ring, "value")
                     [] timing = "late" -> AddEntryRaw(AddGap(Ring), "value")
<1>1. TypeOK /\ TypeOK' /\ MarkTypes /\ RingInv(Ring) /\ MarksGoTogether
  BY EntriesKeepHistoryInv DEF MarksInv, HistoryInv, TypeOK, MarkTypes
<1>2. /\ ringBuffer' = ring.buffer /\ nextWritePos' = ring.next
      /\ triggerStartPos' = triggerStartPos /\ triggerEndPos' = triggerEndPos
  BY DEF AddPadHistoryEntry, marks
<1> HIDE DEF ring
<1>3. TheWindow = WindowOf(Ring)
  BY <1>1, RingFields, TheWindowLemma DEF WindowOf
<1>4. TheWindow' = WindowOf(ring)
  BY <1>1, <1>2, NextWindowLemma DEF WindowOf
<1>5. "value" \in Entries /\ "gap" \in Entries /\ "value" # "gap"
  BY DEF Entries
<1>6. CASE timing = "early"
  <2> DEFINE batch == [i \in 1..0 |-> "value"]
  <2>1. batch \in [1..0 -> Entries] /\ ring = Ring
    BY <1>5, <1>6 DEF ring
  <2> HIDE DEF batch
  <2>2. Window!SlideAll(TheWindow, batch) = TheWindow
    BY <2>1, NoneSlides
  <2>3. TheWindow' = Window!SlideAll(TheWindow, batch)
    BY <1>3, <1>4, <2>1, <2>2
  <2>4. 0 \in 0..3
    OBVIOUS
  <2> QED
    BY <2>1, <2>3, <2>4
<1>7. CASE timing = "regular"
  <2> DEFINE batch == [i \in 1..1 |-> "value"]
  <2>1. /\ batch \in [1..1 -> Entries] /\ batch[1] = "value"
        /\ ring = AddEntryRaw(Ring, "value")
    BY <1>5, <1>7 DEF ring
  <2> HIDE DEF batch
  <2>2. Window!SlideAll(TheWindow, batch) = Window!Slide(TheWindow, "value")
    BY <2>1, SlideAllLemma
  <2>3. Window!Slide(TheWindow, "value") = WindowOf(ring)
    BY <1>1, <1>3, <1>5, <2>1, EntrySlides
  <2> QED
    BY <1>4, <2>1, <2>2, <2>3
<1>8. CASE timing = "late"
  <2>0. ring = AddEntryRaw(AddGap(Ring), "value") /\ RingInv(AddGap(Ring))
    BY <1>1, <1>8, GapKeepsRingInv DEF ring
  <2>1. CASE Ring.values = 1
    <3> DEFINE doubled == AddEntryRaw(Ring, "value")
               batch == [i \in 1..3 |-> IF i = 2 THEN "gap" ELSE "value"]
    <3>1. /\ batch \in [1..3 -> Entries]
          /\ batch[1] = "value" /\ batch[2] = "gap" /\ batch[3] = "value"
      BY <1>5
    <3>2. AddGap(Ring) = AddEntryRaw(doubled, "gap") /\ RingInv(doubled)
      BY <1>1, <1>5, <2>1, EntryKeepsRingInv DEF AddGap, RingInv, CounterIsRight
    <3> HIDE DEF doubled, batch
    <3>3. Window!Slide(TheWindow, batch[1]) = WindowOf(doubled)
      BY <1>1, <1>3, <1>5, <3>1, EntrySlides DEF doubled
    <3>4. Window!Slide(WindowOf(doubled), batch[2]) = WindowOf(AddGap(Ring))
      BY <1>1, <1>5, <3>1, <3>2, EntrySlides
    <3>5. Window!Slide(WindowOf(AddGap(Ring)), batch[3]) = WindowOf(ring)
      BY <1>1, <1>5, <2>0, <3>1, EntrySlides
    <3>6. Window!SlideAll(TheWindow, batch) = WindowOf(ring)
      <4> DEFINE w1 == WindowOf(doubled)
                 w2 == WindowOf(AddGap(Ring))
                 w3 == WindowOf(ring)
      <4>1. /\ w1 = Window!Slide(TheWindow, batch[1])
            /\ w2 = Window!Slide(w1, batch[2]) /\ w3 = Window!Slide(w2, batch[3])
        BY <3>3, <3>4, <3>5
      <4> HIDE DEF w1, w2, w3
      <4>2. Window!SlideAll(TheWindow, batch) = w3
        BY <3>1, <4>1, ThreeSlide
      <4> QED
        BY <4>2 DEF w3
    <3> QED
      BY <1>4, <3>1, <3>6
  <2>2. CASE Ring.values # 1
    <3> DEFINE batch == [i \in 1..2 |-> IF i = 1 THEN "gap" ELSE "value"]
    <3>1. batch \in [1..2 -> Entries] /\ batch[1] = "gap" /\ batch[2] = "value"
      BY <1>5
    <3>2. AddGap(Ring) = AddEntryRaw(Ring, "gap")
      BY <2>2 DEF AddGap
    <3> HIDE DEF batch
    <3>3. Window!Slide(TheWindow, batch[1]) = WindowOf(AddGap(Ring))
      BY <1>1, <1>3, <1>5, <3>1, <3>2, EntrySlides
    <3>4. Window!Slide(WindowOf(AddGap(Ring)), batch[2]) = WindowOf(ring)
      BY <1>1, <1>5, <2>0, <3>1, EntrySlides
    <3>5. Window!SlideAll(TheWindow, batch) = WindowOf(ring)
      BY <3>1, <3>3, <3>4, SlideAllLemma
    <3> QED
      BY <1>4, <3>1, <3>5
  <2> QED
    BY <2>1, <2>2
<1> QED
  BY <1>6, <1>7, <1>8 DEF Timings

(* A mark is put at the last place.                                        *)
LEMMA MarksMark ==
  ASSUME MarksInv, SetTriggerStartPos \/ SetTriggerEndPos
  PROVE  \/ TheWindow' = [TheWindow EXCEPT !.start = HistoryCount, !.end = HistoryCount]
         \/ TheWindow.start # 0 /\ TheWindow' = [TheWindow EXCEPT !.end = HistoryCount]
<1> DEFINE old == [i \in 1..HistoryCount |-> ringBuffer[SlotFrom(nextWritePos, i)]]
<1>1. TypeOK /\ TypeOK' /\ RingInv(Ring)
  BY MarksKeepHistoryInv DEF MarksInv, HistoryInv
<1>2. ringBuffer' = ringBuffer /\ nextWritePos' = nextWritePos
  BY DEF SetTriggerStartPos, SetTriggerEndPos, writing
<1>3. /\ TheWindow = [entries |-> old, start |-> PlaceIn(nextWritePos, triggerStartPos),
                      end |-> PlaceIn(nextWritePos, triggerEndPos)]
      /\ TheWindow' = [entries |-> old, start |-> PlaceIn(nextWritePos, triggerStartPos'),
                       end |-> PlaceIn(nextWritePos, triggerEndPos')]
  BY <1>1, <1>2, TheWindowLemma, NextWindowLemma DEF WindowFrom
<1>4. lastWritePos # NoPos /\ lastWritePos \in Positions /\ triggerEndPos' = lastWritePos
  BY <1>1, RingFields
  DEF SetTriggerStartPos, SetTriggerEndPos, TypeOK, RingInv, MarksAreInOrder
<1>5. PlaceIn(nextWritePos, lastWritePos) = HistoryCount
  BY <1>1, <1>4, RingFields, PlaceOfLast DEF RingInv, LastIsBeforeNext
<1> HIDE DEF old
<1>6. CASE SetTriggerStartPos
  <2>1. triggerStartPos' = lastWritePos
    BY <1>6 DEF SetTriggerStartPos
  <2>2. TheWindow' = [entries |-> old, start |-> HistoryCount, end |-> HistoryCount]
    BY <1>3, <1>4, <1>5, <2>1
  <2>3. [TheWindow EXCEPT !.start = HistoryCount]
          = [entries |-> old, start |-> HistoryCount, end |-> TheWindow.end]
    BY <1>3
  <2>4. [TheWindow EXCEPT !.start = HistoryCount, !.end = HistoryCount]
          = [[TheWindow EXCEPT !.start = HistoryCount] EXCEPT !.end = HistoryCount]
    BY <1>3
  <2>5. [TheWindow EXCEPT !.start = HistoryCount, !.end = HistoryCount]
          = [entries |-> old, start |-> HistoryCount, end |-> HistoryCount]
    <3> DEFINE started == [entries |-> old, start |-> HistoryCount, end |-> TheWindow.end]
    <3>1. [started EXCEPT !.end = HistoryCount]
            = [entries |-> old, start |-> HistoryCount, end |-> HistoryCount]
      OBVIOUS
    <3> QED
      BY <2>3, <2>4, <3>1
  <2> QED
    BY <2>2, <2>5
<1>7. CASE SetTriggerEndPos
  <2>1. triggerStartPos' = triggerStartPos /\ triggerStartPos # NoPos
    BY <1>7 DEF SetTriggerEndPos
  <2>2. triggerStartPos \in Positions /\ nextWritePos \in Positions
    BY <1>1, <2>1 DEF TypeOK
  <2>3. RelativeTo(nextWritePos, triggerStartPos) \in Nat
    BY <2>2, RelativeValue, HistoryAssumption DEF Positions
  <2>4. TheWindow.start # 0
    BY <1>3, <2>1, <2>3 DEF PlaceIn
  <2> QED
    BY <1>3, <1>4, <1>5, <2>1, <2>4
<1> QED
  BY <1>6, <1>7

(* The copy of the ring is the window: the slots from the next one to the  *)
(* end of the ring, then those from its beginning.                         *)
LEMMA CopyIsTheWindow ==
  ASSUME TypeOK
  PROVE  CopyTo = TheWindow.entries
<1> DEFINE e(i) == ringBuffer[i - 1]
           slots == [i \in 1..HistoryCount |-> e(i)]
           older == SubSeq(slots, nextWritePos + 1, HistoryCount)
           newer == SubSeq(slots, 1, nextWritePos)
           w == [i \in 1..HistoryCount |-> ringBuffer[Slot(i)]]
<1>1. /\ nextWritePos \in Nat /\ nextWritePos < HistoryCount /\ HistoryCount \in Nat
      /\ nextWritePos \in Positions
  BY HistoryAssumption DEF TypeOK, Positions
<1>2. \A i \in 1..HistoryCount : e(i) \in Entries
  <2>1. \A i \in 1..HistoryCount : i - 1 \in Positions
    BY <1>1 DEF Positions
  <2> QED
    BY <2>1 DEF TypeOK
<1>3. CopyTo = older \o newer
  BY DEF CopyTo
<1>4. \A i \in 1..HistoryCount : slots[i] = ringBuffer[i - 1] /\ slots[i] \in Entries
  BY <1>2
<1> HIDE DEF e, slots
<1>5. /\ older \in Seq(Entries) /\ Len(older) = HistoryCount - nextWritePos
      /\ \A i \in 1..(HistoryCount - nextWritePos) : older[i] = slots[nextWritePos + i]
  <2>1. \A i \in (nextWritePos + 1)..HistoryCount : slots[i] \in Entries
    BY <1>1, <1>4
  <2>2. /\ older \in Seq(Entries)
        /\ Len(older) = IF nextWritePos + 1 <= HistoryCount
                        THEN HistoryCount - (nextWritePos + 1) + 1 ELSE 0
        /\ \A i \in 1..(HistoryCount - (nextWritePos + 1) + 1) :
             older[i] = slots[(nextWritePos + 1) + i - 1]
    BY <1>1, <2>1, SubSeqProperties
  <2> HIDE DEF older
  <2>3. ASSUME NEW i \in 1..(HistoryCount - nextWritePos)
        PROVE  /\ i \in 1..(HistoryCount - (nextWritePos + 1) + 1)
               /\ (nextWritePos + 1) + i - 1 = nextWritePos + i
    BY <1>1
  <2> QED
    BY <1>1, <2>2, <2>3
<1>6. /\ newer \in Seq(Entries) /\ Len(newer) = nextWritePos
      /\ \A i \in 1..nextWritePos : newer[i] = slots[i]
  <2>1. \A i \in 1..nextWritePos : slots[i] \in Entries
    BY <1>1, <1>4
  <2>2. /\ newer \in Seq(Entries)
        /\ Len(newer) = IF 1 <= nextWritePos THEN nextWritePos - 1 + 1 ELSE 0
        /\ \A i \in 1..(nextWritePos - 1 + 1) : newer[i] = slots[1 + i - 1]
    BY <1>1, <2>1, SubSeqProperties
  <2> HIDE DEF newer
  <2>3. ASSUME NEW i \in 1..nextWritePos
        PROVE  i \in 1..(nextWritePos - 1 + 1) /\ 1 + i - 1 = i
    BY <1>1
  <2> QED
    BY <1>1, <2>2, <2>3
<1> HIDE DEF older, newer
<1>7. /\ older \o newer \in Seq(Entries) /\ Len(older \o newer) = HistoryCount
      /\ \A i \in 1..HistoryCount :
           (older \o newer)[i] = IF i <= HistoryCount - nextWritePos THEN older[i]
                                 ELSE newer[i - (HistoryCount - nextWritePos)]
  <2>1. /\ older \o newer \in Seq(Entries)
        /\ Len(older \o newer) = Len(older) + Len(newer)
        /\ \A i \in 1..(Len(older) + Len(newer)) :
             (older \o newer)[i] = IF i <= Len(older) THEN older[i]
                                   ELSE newer[i - Len(older)]
    BY <1>5, <1>6, ConcatProperties
  <2>2. Len(older) + Len(newer) = HistoryCount
    BY <1>1, <1>5, <1>6
  <2> QED
    BY <1>5, <2>1, <2>2
<1>8. ASSUME NEW i \in 1..HistoryCount
      PROVE  (older \o newer)[i] = ringBuffer[Slot(i)]
  <2>1. Slot(i) = IF nextWritePos + i - 1 < HistoryCount THEN nextWritePos + i - 1
                  ELSE nextWritePos + i - 1 - HistoryCount
    BY <1>1, SlotValue DEF Slot
  <2>2. CASE i <= HistoryCount - nextWritePos
    <3>1. i \in 1..(HistoryCount - nextWritePos) /\ nextWritePos + i \in 1..HistoryCount
      BY <1>1, <2>2
    <3>2. (older \o newer)[i] = ringBuffer[(nextWritePos + i) - 1]
      BY <1>4, <1>5, <1>7, <2>2, <3>1
    <3>3. Slot(i) = (nextWritePos + i) - 1
      BY <1>1, <2>1, <2>2
    <3> QED
      BY <3>2, <3>3
  <2>3. CASE ~(i <= HistoryCount - nextWritePos)
    <3> DEFINE k == i - (HistoryCount - nextWritePos)
    <3>1. k \in 1..nextWritePos /\ k \in 1..HistoryCount
      BY <1>1, <2>3
    <3>2. Slot(i) = k - 1
      BY <1>1, <2>1, <2>3
    <3>3. (older \o newer)[i] = newer[k]
      BY <1>7, <2>3
    <3> HIDE DEF k
    <3>4. newer[k] = ringBuffer[k - 1]
      BY <1>4, <1>6, <3>1
    <3> QED
      BY <3>2, <3>3, <3>4
  <2> QED
    BY <2>2, <2>3
<1> DEFINE copy == older \o newer
<1>9. copy = [i \in 1..HistoryCount |-> copy[i]]
  BY <1>7, LenProperties
<1>10. \A i \in 1..HistoryCount : copy[i] = ringBuffer[Slot(i)]
  BY <1>8
<1>11. CopyTo = copy
  BY <1>3
<1> HIDE DEF copy
<1>12. copy = w
  BY <1>9, <1>10
<1> QED
  BY <1>11, <1>12 DEF TheWindow

(* A message shows the window, with the places of the marks counted from 0 *)
(* as the page does, and clears the marks.                                 *)
LEMMA SendShows ==
  ASSUME MarksInv, SendHitMessage
  PROVE  /\ TheWindow.start # 0
         /\ msgBuffer' = [history |-> TheWindow.entries, start |-> TheWindow.start - 1,
                          end |-> TheWindow.end - 1]
         /\ TheWindow' = [TheWindow EXCEPT !.start = 0, !.end = 0]
<1> DEFINE old == [i \in 1..HistoryCount |-> ringBuffer[SlotFrom(nextWritePos, i)]]
<1>1. TypeOK /\ TypeOK' /\ RingInv(Ring)
  BY SendKeepsHistoryInv DEF MarksInv, HistoryInv
<1>2. /\ ringBuffer' = ringBuffer /\ nextWritePos' = nextWritePos
      /\ triggerStartPos # NoPos /\ triggerStartPos' = NoPos /\ triggerEndPos' = NoPos
      /\ msgBuffer' = [history |-> CopyTo, start |-> RelativePos(triggerStartPos),
                       end |-> RelativePos(triggerEndPos)]
  BY DEF SendHitMessage, writing
<1>3. /\ TheWindow = [entries |-> old, start |-> PlaceIn(nextWritePos, triggerStartPos),
                      end |-> PlaceIn(nextWritePos, triggerEndPos)]
      /\ TheWindow' = [entries |-> old, start |-> 0, end |-> 0]
  <2>1. PlaceIn(nextWritePos, NoPos) = 0
    BY DEF PlaceIn
  <2> QED
    BY <1>1, <1>2, <2>1, TheWindowLemma, NextWindowLemma DEF WindowFrom
<1>4. /\ triggerStartPos \in Positions /\ triggerEndPos \in Positions
      /\ triggerEndPos # NoPos /\ nextWritePos \in Positions
  BY <1>1, <1>2 DEF TypeOK, RingInv, MarksAreInOrder
<1>5. /\ RelativeTo(nextWritePos, triggerStartPos) \in Positions
      /\ RelativeTo(nextWritePos, triggerEndPos) \in Positions
  BY <1>4, RelativeValue
<1>6. /\ RelativeTo(nextWritePos, triggerStartPos) \in Nat
      /\ RelativeTo(nextWritePos, triggerEndPos) \in Nat
  BY <1>5, HistoryAssumption DEF Positions
<1>7. /\ PlaceIn(nextWritePos, triggerStartPos) # 0
      /\ PlaceIn(nextWritePos, triggerStartPos) - 1 = RelativePos(triggerStartPos)
      /\ PlaceIn(nextWritePos, triggerEndPos) - 1 = RelativePos(triggerEndPos)
  BY <1>2, <1>4, <1>6 DEF PlaceIn, RelativePos
<1>8. CopyTo = old
  BY <1>1, <1>3, CopyIsTheWindow
<1> HIDE DEF old
<1>9. /\ TheWindow.start # 0 /\ TheWindow.entries = CopyTo
      /\ TheWindow.start - 1 = RelativePos(triggerStartPos)
      /\ TheWindow.end - 1 = RelativePos(triggerEndPos)
  BY <1>3, <1>7, <1>8
<1>10. msgBuffer' = [history |-> TheWindow.entries, start |-> TheWindow.start - 1,
                     end |-> TheWindow.end - 1]
  BY <1>2, <1>9
<1>11. [TheWindow EXCEPT !.start = 0, !.end = 0] = [entries |-> old, start |-> 0, end |-> 0]
  <2>1. [TheWindow EXCEPT !.start = 0]
          = [entries |-> old, start |-> 0, end |-> TheWindow.end]
    BY <1>3
  <2>2. [TheWindow EXCEPT !.start = 0, !.end = 0]
          = [[TheWindow EXCEPT !.start = 0] EXCEPT !.end = 0]
    BY <1>3
  <2> DEFINE cleared == [entries |-> old, start |-> 0, end |-> TheWindow.end]
  <2>3. [cleared EXCEPT !.end = 0] = [entries |-> old, start |-> 0, end |-> 0]
    OBVIOUS
  <2> QED
    BY <2>1, <2>2, <2>3
<1> QED
  BY <1>3, <1>9, <1>10, <1>11

(* The ring implements the sliding window: what the page gets is the       *)
(* window of the last entries with the trigger where it was marked, for    *)
(* rings of every size and wherever they wrap around                       *)
(* (monitor_history.cpp:22-52, monitor_history.h:31, 119).                 *)
THEOREM HistoryIsASlidingWindow == Spec => ImplementsWindow
<1>1. MarksInv /\ [Next]_vars => [Window!Next]_(<<TheWindow, msgBuffer>>)
  <2> SUFFICES ASSUME MarksInv, [Next]_vars
               PROVE  [Window!Next]_(<<TheWindow, msgBuffer>>)
    OBVIOUS
  <2>1. CASE \E timing \in Timings : AddPadHistoryEntry(timing)
    <3>1. PICK timing \in Timings : AddPadHistoryEntry(timing)
      BY <2>1
    <3>2. \E n \in 0..3 : \E batch \in [1..n -> Entries] :
            TheWindow' = Window!SlideAll(TheWindow, batch)
      BY <3>1, EntriesFill
    <3>3. msgBuffer' = [history |-> <<>>]
      BY <3>1 DEF AddPadHistoryEntry, NothingSent
    <3>4. Window!Fill
      BY <3>2, <3>3 DEF Window!Fill, Window!NoMessage, TheWindow
    <3> QED
      BY <3>4 DEF Window!Next
  <2>2. CASE SetTriggerStartPos \/ SetTriggerEndPos
    <3>1. msgBuffer' = [history |-> <<>>]
      BY <2>2 DEF SetTriggerStartPos, SetTriggerEndPos, NothingSent
    <3>2. Window!MarkTrigger
      BY <2>2, <3>1, MarksMark DEF Window!MarkTrigger, Window!NoMessage, TheWindow
    <3> QED
      BY <3>2 DEF Window!Next
  <2>3. CASE SendHitMessage
    <3>1. Window!Show
      BY <2>3, SendShows DEF Window!Show, TheWindow
    <3> QED
      BY <3>1 DEF Window!Next
  <2>4. CASE UNCHANGED vars
    BY <2>4 DEF vars, writing, marks, TheWindow, PlaceOf, Slot
  <2> QED
    BY <2>1, <2>2, <2>3, <2>4 DEF Next
<1> QED
  BY <1>1, InitIsWindowInit, MarksInvariance, PTL
  DEF Spec, ImplementsWindow, Window!Spec, TheWindow
=============================================================================
