--------------------------- MODULE MonitorHistory ---------------------------
(***************************************************************************)
(* The ring of the last samples that the monitor keeps of a pad            *)
(* (monitor_history.h, monitor_history.cpp) and what DrumMonitor writes    *)
(* into it (monitor.cpp:149-171).                                          *)
(*                                                                         *)
(* A trigger (the scan of a hit, a move of the pedal) has its first and    *)
(* last entry marked.  While it is, its first entry is not overwritten: at *)
(* that point the ring is full and takes no more entries.  The order in    *)
(* which DrumMonitor marks and sends is the subject of Monitor; here it is *)
(* any order in which an end is marked after a start.                      *)
(***************************************************************************)
EXTENDS Integers, Sequences

CONSTANTS
  HistoryCount,    (* entries of the ring, MONITOR_HISTORY_COUNT            *)
  CounterSize      (* numberValuesAfterLastGap counts modulo this, 2^16     *)

ASSUME HistoryAssumption ==
  /\ HistoryCount \in Nat \ {0}
  /\ CounterSize \in Nat \ {0, 1}

(* A sample, or a gap in time; the values and the durations are left out.  *)
Entries == {"value", "gap"}

Positions == 0..(HistoryCount - 1)
NoPos == -1

VARIABLES
  ringBuffer,
  lastWritePos,
  nextWritePos,
  triggerStartPos,
  triggerEndPos,
  numberValuesAfterLastGap,
  msgBuffer        (* the history and marks that are sent in this step      *)

writing == <<ringBuffer, lastWritePos, nextWritePos, numberValuesAfterLastGap>>
marks == <<triggerStartPos, triggerEndPos>>
vars == <<writing, marks, msgBuffer>>

NothingSent == [history |-> <<>>]

TypeOK ==
  /\ ringBuffer \in [Positions -> Entries]
  /\ {lastWritePos, triggerStartPos, triggerEndPos} \subseteq Positions \cup {NoPos}
  /\ nextWritePos \in Positions
  /\ numberValuesAfterLastGap \in 0..(CounterSize - 1)
  /\ \/ msgBuffer = NothingSent
     \/ msgBuffer \in [history : [1..HistoryCount -> Entries],
                       start : Positions, end : Positions]

Init ==
  /\ ringBuffer = [pos \in Positions |-> "value"]
  /\ lastWritePos = NoPos
  /\ nextWritePos = 0
  /\ triggerStartPos = NoPos
  /\ triggerEndPos = NoPos
  /\ numberValuesAfterLastGap = 0
  /\ msgBuffer = NothingSent

-----------------------------------------------------------------------------

(* A plausible slip: position 0 is taken for none. *)
IsFullAboveFirst(pos) == triggerStartPos > 0 /\ triggerStartPos = pos

IsFullAt(pos) == triggerStartPos # NoPos /\ triggerStartPos = pos
IsFull == IsFullAt(nextWritePos)

(* A plausible slip: the ring has no end. *)
SuccessorUncut(pos) == pos + 1

Successor(pos) == (pos + 1) % HistoryCount

(* The writing half of the ring as a record, for several entries in a row. *)
Ring ==
  [buffer |-> ringBuffer, last |-> lastWritePos, next |-> nextWritePos,
   values |-> numberValuesAfterLastGap]

AddEntryRaw(ring, entry) ==
  IF IsFullAt(ring.next) THEN ring
  ELSE [buffer |-> [ring.buffer EXCEPT ![ring.next] = entry],
        last |-> ring.next,
        next |-> Successor(ring.next),
        values |-> IF entry = "gap" THEN 0 ELSE (ring.values + 1) % CounterSize]

(* A plausible slip: a gap is a gap. *)
AddGapOnly(ring) == AddEntryRaw(ring, "gap")

(* A single sample before a gap is doubled, to be seen in a line graph.    *)
AddGap(ring) ==
  IF ring.values = 1
  THEN AddEntryRaw(AddEntryRaw(ring, ring.buffer[ring.last]), "gap")
  ELSE AddEntryRaw(ring, "gap")

(* The time since the last entry: too short for another one, or so long    *)
(* that there is a gap.                                                    *)
Timings == {"early", "regular", "late"}

AddPadHistoryEntry(timing) ==
  LET ring == CASE timing = "early" -> Ring
                [] timing = "regular" -> AddEntryRaw(Ring, "value")
                [] timing = "late" -> AddEntryRaw(AddGap(Ring), "value")
  IN /\ ringBuffer' = ring.buffer
     /\ lastWritePos' = ring.last
     /\ nextWritePos' = ring.next
     /\ numberValuesAfterLastGap' = ring.values
     /\ msgBuffer' = NothingSent
     /\ UNCHANGED marks

SetTriggerStartPos ==
  /\ lastWritePos # NoPos
  /\ triggerStartPos' = lastWritePos
  /\ triggerEndPos' = lastWritePos
  /\ msgBuffer' = NothingSent
  /\ UNCHANGED writing

SetTriggerEndPos ==
  /\ triggerStartPos # NoPos
  /\ triggerEndPos' = lastWritePos
  /\ msgBuffer' = NothingSent
  /\ UNCHANGED <<writing, triggerStartPos>>

(* A plausible slip: the slots in their order, the ring not turned.        *)
CopySlots == [i \in 1..HistoryCount |-> ringBuffer[i - 1]]

(* The ring from its next position to its end, then from its beginning.    *)
CopyTo ==
  LET slots == [i \in 1..HistoryCount |-> ringBuffer[i - 1]]
  IN SubSeq(slots, nextWritePos + 1, HistoryCount) \o SubSeq(slots, 1, nextWritePos)

RelativeTo(next, pos) == (pos + (HistoryCount - next)) % HistoryCount
RelativePos(pos) == RelativeTo(nextWritePos, pos)

SendHitMessage ==
  /\ triggerStartPos # NoPos
  /\ msgBuffer' = [history |-> CopyTo, start |-> RelativePos(triggerStartPos),
                   end |-> RelativePos(triggerEndPos)]
  /\ triggerStartPos' = NoPos
  /\ triggerEndPos' = NoPos
  /\ UNCHANGED writing

Next ==
  \/ \E timing \in Timings : AddPadHistoryEntry(timing)
  \/ SetTriggerStartPos
  \/ SetTriggerEndPos
  \/ SendHitMessage

Spec == Init /\ [][Next]_vars

-----------------------------------------------------------------------------
(* Properties.                                                             *)

(* The slot of the i-th oldest entry. *)
SlotFrom(next, i) == (next + i - 1) % HistoryCount
Slot(i) == SlotFrom(nextWritePos, i)

PlaceOf(pos) ==
  IF pos = NoPos THEN 0 ELSE CHOOSE i \in 1..HistoryCount : Slot(i) = pos

Window == INSTANCE SlidingWindow WITH
  Size <- HistoryCount,
  Entry <- Entries,
  MaxBatch <- 3,
  window <- [entries |-> [i \in 1..HistoryCount |-> ringBuffer[Slot(i)]],
             start |-> PlaceOf(triggerStartPos), end |-> PlaceOf(triggerEndPos)],
  message <- msgBuffer

(* What the page gets is the window of the last entries, oldest first,     *)
(* with the trigger where it was marked: the write position, the protected *)
(* start, the copy and the relative positions agree, wherever the ring     *)
(* wraps around (monitor_history.cpp:22-52, monitor_history.h:31, 119).    *)
ImplementsWindow == Window!Spec

(* No sample stands alone between two gaps, where the line graph of the    *)
(* page would not show it (monitor.cpp:160-162), although entries are      *)
(* refused in the middle of a group while the ring is full.                *)
NoSampleStandsAlone ==
  \A i \in 1..(HistoryCount - 2) :
    ~ /\ ringBuffer[Slot(i)] = "gap"
      /\ ringBuffer[Slot(i + 1)] = "value"
      /\ ringBuffer[Slot(i + 2)] = "gap"

(* The trigger that the page highlights does not end before it starts,     *)
(* seen from the oldest entry: no entry of it is overwritten, wherever the *)
(* ring wraps around (monitor_history.h:55-65, 119).                       *)
TriggerIsInOrder ==
  triggerStartPos # NoPos =>
    /\ triggerEndPos # NoPos
    /\ RelativePos(triggerStartPos) <= RelativePos(triggerEndPos)
=============================================================================
