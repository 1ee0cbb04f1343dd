------------------------- MODULE NoteOutput_proofs --------------------------
(***************************************************************************)
(* Theorems about DrumKit's note output, for every set of notes and        *)
(* outputs, every size of the queue, every gate time and every clock.      *)
(*                                                                         *)
(* The first part is about the notes: none hangs.  The second is about the *)
(* gate time: the poll that looks at the oldest entry only overlooks no    *)
(* note, although millis() wraps around; no note is taken out early; and   *)
(* the queue is a drum machine with a fixed number of voices               *)
(* (GatedVoices).                                                          *)
(***************************************************************************)
EXTENDS NoteOutput, SequenceTheorems, TLAPS

(* Dropping one entry keeps the others in their order. *)
LEMMA RemoveIndexLemma ==
  ASSUME NEW S, NEW q \in Seq(S), NEW k \in 1..Len(q)
  PROVE  /\ RemoveIndex(q, k) \in Seq(S)
         /\ Len(RemoveIndex(q, k)) = Len(q) - 1
         /\ \A i \in 1..(Len(q) - 1) :
              RemoveIndex(q, k)[i] = IF i < k THEN q[i] ELSE q[i + 1]
<1> DEFINE e(i) == IF i < k THEN q[i] ELSE q[i + 1]
<1>1. Len(q) - 1 \in Nat
  BY LenProperties
<1>2. \A i \in 1..(Len(q) - 1) : e(i) \in S
  BY ElementOfSeq, LenProperties
<1>3. [i \in 1..(Len(q) - 1) |-> e(i)] \in Seq(S)
  BY <1>1, <1>2, IsASeq
<1> QED
  BY <1>1, <1>3, LenProperties DEF RemoveIndex

(* Dropping the oldest entries keeps the others in their order. *)
LEMMA RemoveOldestLemma ==
  ASSUME NEW S, NEW q \in Seq(S), NEW c \in 0..Len(q)
  PROVE  /\ RemoveOldestNotes(q, c) \in Seq(S)
         /\ Len(RemoveOldestNotes(q, c)) = Len(q) - c
         /\ \A i \in 1..(Len(q) - c) : RemoveOldestNotes(q, c)[i] = q[i + c]
<1> DEFINE e(i) == q[i + c]
<1>1. Len(q) - c \in Nat
  BY LenProperties
<1>2. \A i \in 1..(Len(q) - c) : e(i) \in S
  BY ElementOfSeq, LenProperties
<1>3. [i \in 1..(Len(q) - c) |-> e(i)] \in Seq(S)
  BY <1>1, <1>2, IsASeq
<1> QED
  BY <1>1, <1>3, LenProperties DEF RemoveOldestNotes

(* A queue of unique notes. *)
Unique(q) == \A i, j \in DOMAIN q : q[i].note = q[j].note => i = j

(* removeNote() takes the note out of a queue of unique notes, and leaves  *)
(* the other notes in their order.                                         *)
LEMMA RemoveNoteLemma ==
  ASSUME NEW q \in Seq(MidiNoteEvent), Unique(q), NEW n \in Notes
  PROVE  /\ RemoveNote(q, n) \in Seq(MidiNoteEvent)
         /\ Len(RemoveNote(q, n)) <= Len(q)
         /\ Unique(RemoveNote(q, n))
         /\ PendingNotes(RemoveNote(q, n)) = PendingNotes(q) \ {n}
         /\ \/ RemoveNote(q, n) = q /\ n \notin PendingNotes(q)
            \/ \E k \in 1..Len(q) :
                  q[k].note = n /\ RemoveNote(q, n) = RemoveIndex(q, k)
<1>0. Len(q) \in Nat /\ DOMAIN q = 1..Len(q)
  BY LenProperties
<1>1. CASE n \notin PendingNotes(q)
  <2>1. RemoveNote(q, n) = q
    BY <1>1 DEF RemoveNote
  <2> QED
    BY <1>0, <1>1, <2>1
<1>2. CASE n \in PendingNotes(q)
  <2>1. PICK k \in DOMAIN q : q[k].note = n
    BY <1>2 DEF PendingNotes
  <2>2. \A j \in 1..(k - 1) : q[j].note # n
    BY <1>0, <2>1 DEF Unique
  <2> DEFINE First(i) == /\ q[i].note = n
                         /\ \A j \in 1..(i - 1) : q[j].note # n
  <2>3. \A i \in DOMAIN q : First(i) => i = k
    BY <2>1 DEF Unique
  <2>4. First(k)
    BY <2>1, <2>2
  <2> HIDE DEF First
  <2>5. (CHOOSE i \in DOMAIN q : First(i)) = k
    BY <2>1, <2>3, <2>4
  <2>6. RemoveNote(q, n) = RemoveIndex(q, k)
    BY <1>2, <2>5 DEF RemoveNote, First
  <2> DEFINE r == RemoveIndex(q, k)
  <2>7. /\ r \in Seq(MidiNoteEvent)
        /\ Len(r) = Len(q) - 1
        /\ \A i \in 1..(Len(q) - 1) : r[i] = IF i < k THEN q[i] ELSE q[i + 1]
    BY <1>0, RemoveIndexLemma
  <2>8. DOMAIN r = 1..(Len(q) - 1)
    BY <2>7, LenProperties
  <2> HIDE DEF r
  <2> DEFINE old(i) == IF i < k THEN i ELSE i + 1
  <2>9. \A i \in DOMAIN r : old(i) \in DOMAIN q /\ r[i] = q[old(i)] /\ old(i) # k
    BY <1>0, <2>7, <2>8
  <2>10. \A i, j \in DOMAIN r : old(i) = old(j) => i = j
    BY <1>0, <2>8
  <2> HIDE DEF old
  <2>11. Unique(r)
    BY <2>9, <2>10 DEF Unique
  <2>12. PendingNotes(r) = PendingNotes(q) \ {n}
    <3>1. ASSUME NEW i \in DOMAIN r
          PROVE  r[i].note \in PendingNotes(q) \ {n}
      BY <2>1, <2>9 DEF Unique, PendingNotes
    <3>2. ASSUME NEW i \in DOMAIN q, q[i].note # n
          PROVE  q[i].note \in PendingNotes(r)
      <4>1. CASE i < k
        BY <1>0, <2>1, <2>7, <2>8, <4>1 DEF PendingNotes
      <4>2. CASE i > k
        <5>1. i - 1 \in DOMAIN r /\ r[i - 1] = q[i]
          BY <1>0, <2>1, <2>7, <2>8, <4>2
        <5> QED
          BY <5>1 DEF PendingNotes
      <4> QED
        BY <1>0, <2>1, <3>2, <4>1, <4>2
    <3> QED
      BY <3>1, <3>2 DEF PendingNotes
  <2> QED
    BY <1>0, <2>1, <2>6, <2>7, <2>11, <2>12 DEF r
<1> QED
  BY <1>1, <1>2

(* Dropping the oldest entries keeps the notes unique, and drops exactly   *)
(* the notes of these entries.                                             *)
LEMMA RemoveOldestNotesLemma ==
  ASSUME NEW q \in Seq(MidiNoteEvent), Unique(q), NEW c \in 0..Len(q)
  PROVE  /\ Unique(RemoveOldestNotes(q, c))
         /\ PendingNotes(RemoveOldestNotes(q, c))
              = PendingNotes(q) \ {q[i].note : i \in 1..c}
<1> DEFINE r == RemoveOldestNotes(q, c)
<1>0. Len(q) \in Nat /\ DOMAIN q = 1..Len(q)
  BY LenProperties
<1>1. /\ r \in Seq(MidiNoteEvent)
      /\ Len(r) = Len(q) - c
      /\ \A i \in 1..(Len(q) - c) : r[i] = q[i + c]
  BY RemoveOldestLemma
<1>2. DOMAIN r = 1..(Len(q) - c)
  BY <1>1, LenProperties
<1> HIDE DEF r
<1>3. Unique(r)
  <2> SUFFICES ASSUME NEW i \in DOMAIN r, NEW j \in DOMAIN r,
                      r[i].note = r[j].note
               PROVE  i = j
    BY DEF Unique
  <2>1. /\ i + c \in DOMAIN q /\ r[i] = q[i + c]
        /\ j + c \in DOMAIN q /\ r[j] = q[j + c]
    BY <1>0, <1>1, <1>2
  <2>2. i + c = j + c
    BY <2>1 DEF Unique
  <2> QED
    BY <1>0, <1>2, <2>2
<1>4. ASSUME NEW i \in DOMAIN r
      PROVE  r[i].note \in PendingNotes(q) \ {q[j].note : j \in 1..c}
  <2>1. i + c \in DOMAIN q /\ r[i] = q[i + c]
    BY <1>0, <1>1, <1>2
  <2>2. \A j \in 1..c : j \in DOMAIN q /\ j # i + c
    BY <1>0, <1>2
  <2>3. \A j \in 1..c : q[j].note # q[i + c].note
    BY <2>1, <2>2 DEF Unique
  <2> QED
    BY <2>1, <2>3 DEF PendingNotes
<1>5. ASSUME NEW i \in DOMAIN q, q[i].note \notin {q[j].note : j \in 1..c}
      PROVE  q[i].note \in PendingNotes(r)
  <2>1. i > c
    BY <1>0, <1>5
  <2>2. i - c \in DOMAIN r /\ r[i - c] = q[i]
    BY <1>0, <1>1, <1>2, <2>1
  <2> QED
    BY <2>2 DEF PendingNotes
<1>6. PendingNotes(r) = PendingNotes(q) \ {q[i].note : i \in 1..c}
  BY <1>4, <1>5 DEF PendingNotes
<1> QED
  BY <1>3, <1>6 DEF r

(* The last entry of a queue that is not full is the new note. *)
LEMMA AddNoteLemma ==
  ASSUME NEW q \in Seq(MidiNoteEvent), Unique(q), Len(q) < MaxPending,
         NEW n \in Notes, n \notin PendingNotes(q), NEW t \in Clock
  PROVE  /\ AddNote(q, n, t) \in Seq(MidiNoteEvent)
         /\ Len(AddNote(q, n, t)) = Len(q) + 1
         /\ Unique(AddNote(q, n, t))
         /\ PendingNotes(AddNote(q, n, t)) = PendingNotes(q) \cup {n}
         /\ AddNote(q, n, t) = Append(q, [note |-> n, noteOnTimeMs |-> t])
<1> DEFINE x == [note |-> n, noteOnTimeMs |-> t]
           r == Append(q, x)
<1>0. Len(q) \in Nat /\ DOMAIN q = 1..Len(q)
  BY LenProperties
<1>1. x \in MidiNoteEvent /\ x.note = n
  BY DEF MidiNoteEvent
<1>2. AddNote(q, n, t) = r
  BY <1>0, NoteOutputAssumption DEF AddNote, IsFull
<1> HIDE DEF x
<1>3. /\ r \in Seq(MidiNoteEvent)
      /\ Len(r) = Len(q) + 1
      /\ \A i \in 1..Len(q) : r[i] = q[i]
      /\ r[Len(q) + 1] = x
  BY <1>0, <1>1
<1>4. DOMAIN r = 1..(Len(q) + 1)
  BY <1>3, LenProperties
<1> HIDE DEF r
<1>5. \A i \in 1..Len(q) : q[i].note # n
  BY <1>0 DEF PendingNotes
<1>6. Unique(r)
  BY <1>0, <1>1, <1>3, <1>4, <1>5 DEF Unique
<1>7. PendingNotes(r) = PendingNotes(q) \cup {n}
  <2>1. \A i \in DOMAIN r : r[i].note \in PendingNotes(q) \cup {n}
    BY <1>0, <1>1, <1>3, <1>4 DEF PendingNotes
  <2>2. \A i \in DOMAIN q : q[i].note \in PendingNotes(r)
    BY <1>0, <1>3, <1>4 DEF PendingNotes
  <2>3. Len(q) + 1 \in DOMAIN r /\ r[Len(q) + 1].note = n
    BY <1>0, <1>1, <1>3, <1>4
  <2>4. n \in PendingNotes(r)
    BY <2>3 DEF PendingNotes
  <2> QED
    BY <2>1, <2>2, <2>4 DEF PendingNotes
<1> QED
  BY <1>2, <1>3, <1>6, <1>7 DEF r, x

Heards == SUBSET Notes

(* Sending keeps the types of what is played and what was abandoned. *)
LEMMA SendLemma ==
  ASSUME TypeOK, NEW heard \in Heards, Send(heard)
  PROVE  /\ sounding' \in [Modes -> Heards]
         /\ abandoned' \subseteq Modes \X Notes
         /\ sounding'[midiOutputMode] = heard
         /\ \A m \in Modes \ {midiOutputMode} : sounding'[m] = sounding[m]
BY DEF TypeOK, Heards, Send

(* What the delayed NoteOff does to the queue: the note is the newest      *)
(* entry, and the other notes stay, apart from the oldest one of a full    *)
(* queue, which is stopped.                                                *)
LEMMA DelayedOffLemma ==
  ASSUME TypeOK, NotesAreUnique, NEW n \in Notes,
         SendMidiNoteOnWithDelayedOffMessage(n)
  PROVE  /\ pendingNotesQueue' \in Seq(MidiNoteEvent)
         /\ Len(pendingNotesQueue') <= MaxPending
         /\ Unique(pendingNotesQueue')
         /\ n \in PendingNotes(pendingNotesQueue')
         /\ \E oldest \in SUBSET (PendingNotes(pendingNotesQueue) \ {n}) :
              /\ PendingNotes(pendingNotesQueue')
                   = (PendingNotes(pendingNotesQueue) \ oldest) \cup {n}
              /\ Send(NoteOffs(NoteOn(NoteOffs(Heard,
                        {n} \cap PendingNotes(pendingNotesQueue)), n), oldest))
         /\ ObserveNoteOn(NoteOffs(Heard, {n} \cap PendingNotes(pendingNotesQueue)), n)
<1> DEFINE others == RemoveNote(pendingNotesQueue, n)
           oldest == IF IsFull(others) THEN {others[1].note} ELSE {}
           kept   == IF IsFull(others) THEN RemoveOldestNotes(others, 1) ELSE others
<1>1. /\ others \in Seq(MidiNoteEvent)
      /\ Len(others) \in Nat
      /\ DOMAIN others = 1..Len(others)
      /\ Len(others) <= MaxPending
      /\ Unique(others)
      /\ PendingNotes(others) = PendingNotes(pendingNotesQueue) \ {n}
  <2>1. Unique(pendingNotesQueue) /\ pendingNotesQueue \in Seq(MidiNoteEvent)
    BY DEF TypeOK, NotesAreUnique, Unique
  <2>2. /\ others \in Seq(MidiNoteEvent)
        /\ Len(others) <= Len(pendingNotesQueue)
        /\ Unique(others)
        /\ PendingNotes(others) = PendingNotes(pendingNotesQueue) \ {n}
    BY <2>1, RemoveNoteLemma
  <2> QED
    BY <2>1, <2>2, LenProperties, NoteOutputAssumption DEF TypeOK
<1> HIDE DEF others
<1>2. /\ kept \in Seq(MidiNoteEvent)
      /\ Len(kept) < MaxPending
      /\ Unique(kept)
      /\ PendingNotes(kept) = PendingNotes(others) \ oldest
      /\ oldest \subseteq PendingNotes(others)
  <2>1. CASE IsFull(others)
    <3>1. 1 \in 0..Len(others) /\ 1 \in DOMAIN others
      BY <1>1, <2>1, NoteOutputAssumption DEF IsFull
    <3>2. /\ RemoveOldestNotes(others, 1) \in Seq(MidiNoteEvent)
          /\ Len(RemoveOldestNotes(others, 1)) = Len(others) - 1
      BY <1>1, <3>1, RemoveOldestLemma
    <3>3. /\ Unique(RemoveOldestNotes(others, 1))
          /\ PendingNotes(RemoveOldestNotes(others, 1))
               = PendingNotes(others) \ {others[i].note : i \in 1..1}
      BY <1>1, <3>1, RemoveOldestNotesLemma
    <3>4. {others[i].note : i \in 1..1} = {others[1].note}
      OBVIOUS
    <3>5. others[1].note \in PendingNotes(others)
      BY <3>1 DEF PendingNotes
    <3> QED
      BY <1>1, <2>1, <3>2, <3>3, <3>4, <3>5, NoteOutputAssumption
  <2>2. CASE ~IsFull(others)
    BY <1>1, <2>2, NoteOutputAssumption DEF IsFull
  <2> QED
    BY <2>1, <2>2
<1>3. /\ pendingNotesQueue' = AddNote(kept, n, now)
      /\ Send(NoteOffs(NoteOn(NoteOffs(Heard,
                {n} \cap PendingNotes(pendingNotesQueue)), n), oldest))
      /\ ObserveNoteOn(NoteOffs(Heard, {n} \cap PendingNotes(pendingNotesQueue)), n)
  BY DEF SendMidiNoteOnWithDelayedOffMessage, others
<1> HIDE DEF kept, oldest
<1>4. n \notin PendingNotes(kept) /\ now \in Clock
  BY <1>1, <1>2 DEF TypeOK
<1>5. /\ pendingNotesQueue' \in Seq(MidiNoteEvent)
      /\ Len(pendingNotesQueue') = Len(kept) + 1
      /\ Unique(pendingNotesQueue')
      /\ PendingNotes(pendingNotesQueue') = PendingNotes(kept) \cup {n}
  BY <1>2, <1>3, <1>4, AddNoteLemma
<1>6. Len(kept) \in Nat
  BY <1>2, LenProperties
<1>7. oldest \in SUBSET (PendingNotes(pendingNotesQueue) \ {n})
  BY <1>1, <1>2
<1>8. PendingNotes(pendingNotesQueue') = (PendingNotes(pendingNotesQueue) \ oldest) \cup {n}
  BY <1>1, <1>2, <1>5
<1> QED
  BY <1>2, <1>3, <1>5, <1>6, <1>7, <1>8, NoteOutputAssumption

(* What the poll does: some of the oldest entries are gone, and their      *)
(* notes are stopped; without a gate time all of them are.                 *)
LEMMA PollLemma ==
  ASSUME TypeOK, NotesAreUnique, SendPendingMidiNoteOffMessages
  PROVE  /\ pendingNotesQueue' \in Seq(MidiNoteEvent)
         /\ Len(pendingNotesQueue') <= MaxPending
         /\ Unique(pendingNotesQueue')
         /\ \E off \in SUBSET Notes :
              /\ PendingNotes(pendingNotesQueue') = PendingNotes(pendingNotesQueue) \ off
              /\ Send(NoteOffs(Heard, off))
         /\ gateTimeMs = 0 => pendingNotesQueue' = <<>>
<1>1. PICK count \in 0..Len(pendingNotesQueue) :
        /\ count < Len(pendingNotesQueue) =>
             ElapsedMs(pendingNotesQueue[count + 1].noteOnTimeMs) < gateTimeMs
        /\ pendingNotesQueue' = RemoveOldestNotes(pendingNotesQueue, count)
        /\ Send(NoteOffs(Heard, {pendingNotesQueue[i].note : i \in 1..count}))
  BY DEF SendPendingMidiNoteOffMessages
<1> DEFINE off == {pendingNotesQueue[i].note : i \in 1..count}
<1>2. Unique(pendingNotesQueue) /\ pendingNotesQueue \in Seq(MidiNoteEvent)
  BY DEF TypeOK, NotesAreUnique, Unique
<1>3. Len(pendingNotesQueue) \in Nat /\ Len(pendingNotesQueue) <= MaxPending
  BY <1>2, LenProperties DEF TypeOK
<1>4. /\ pendingNotesQueue' \in Seq(MidiNoteEvent)
      /\ Len(pendingNotesQueue') = Len(pendingNotesQueue) - count
  BY <1>1, <1>2, RemoveOldestLemma
<1>5. /\ Unique(pendingNotesQueue')
      /\ PendingNotes(pendingNotesQueue') = PendingNotes(pendingNotesQueue) \ off
  BY <1>1, <1>2, RemoveOldestNotesLemma
<1>6. off \in SUBSET Notes
  <2>1. \A i \in 1..count : pendingNotesQueue[i] \in MidiNoteEvent
    BY <1>2, <1>3, ElementOfSeq
  <2> QED
    BY <2>1 DEF MidiNoteEvent
<1>7. Len(pendingNotesQueue') <= MaxPending
  BY <1>3, <1>4, NoteOutputAssumption
<1>8. ASSUME gateTimeMs = 0
      PROVE  pendingNotesQueue' = <<>>
  <2>1. CASE count < Len(pendingNotesQueue)
    <3> DEFINE t == pendingNotesQueue[count + 1].noteOnTimeMs
    <3>1. count + 1 \in 1..Len(pendingNotesQueue)
      BY <1>3, <2>1
    <3>2. pendingNotesQueue[count + 1] \in MidiNoteEvent
      BY <1>2, <3>1, ElementOfSeq
    <3>6. t \in Clock
      BY <3>2 DEF MidiNoteEvent
    <3>3. now + ClockSize - t \in Nat /\ ClockSize \in Nat \ {0}
      BY <3>6, NoteOutputAssumption DEF TypeOK, Clock
    <3>4. \A a \in Nat, b \in Nat \ {0} : a % b \in Nat
      OBVIOUS
    <3>5. ElapsedMs(t) \in Nat
      BY <3>3, <3>4 DEF ElapsedMs
    <3> QED
      BY <1>1, <1>8, <2>1, <3>5
  <2>2. CASE ~(count < Len(pendingNotesQueue))
    <3>1. Len(pendingNotesQueue') = 0
      BY <1>3, <1>4, <2>2
    <3> QED
      BY <1>4, <3>1, EmptySeq
  <2> QED
    BY <2>1, <2>2
<1> QED
  BY <1>1, <1>4, <1>5, <1>6, <1>7, <1>8

-----------------------------------------------------------------------------
(* A hit that is stopped at once is not looked up in the queue: while the  *)
(* pads are evaluated there is nothing to find then, because the poll of   *)
(* the same iteration has emptied it.                                      *)
NothingIsQueuedWithoutGate ==
  phase = "pads" /\ gateTimeMs = 0 => pendingNotesQueue = <<>>

(* The inductive invariant: as it stands, each of its parts needs the      *)
(* others.  NoNoteHangs needs unique notes (a second entry of a note would *)
(* survive removeNote) and an empty queue for the hits that are stopped at *)
(* once, and all need the queue to be a queue.                             *)
NoteInv == TypeOK /\ NotesAreUnique /\ NoNoteHangs /\ NothingIsQueuedWithoutGate

(* The board starts with an empty queue and silent receivers. *)
LEMMA NoteInvInit == Init => NoteInv
<1> SUFFICES ASSUME Init PROVE NoteInv
  OBVIOUS
<1>1. gateTimeMs \in 0..MaxGateMs
  BY NoteOutputAssumption DEF Init, Clamped
<1>2. <<>> \in Seq(MidiNoteEvent) /\ Len(<<>>) = 0
  BY EmptySeq
<1>5. sounding \in [Modes -> SUBSET Notes]
  BY DEF Init
<1>6. 0 \in Clock /\ 0 \in 0..MaxLoopMs /\ 0 <= MaxPending
  BY NoteOutputAssumption DEF Clock
<1>3. TypeOK
  <2>1. /\ phase = "poll" /\ now = 0 /\ sincePoll = 0 /\ pendingNotesQueue = <<>>
        /\ midiOutputMode \in Modes /\ abandoned = {} /\ struckTwice = FALSE
    BY DEF Init
  <2> QED
    BY <1>1, <1>2, <1>5, <1>6, <2>1 DEF TypeOK, Phases
<1>4. NotesAreUnique /\ NoNoteHangs /\ NothingIsQueuedWithoutGate
  BY <1>2 DEF Init, NotesAreUnique, NoNoteHangs, SoundingNotesAreQueued,
              PadsStopBeforeTheyStrike, NothingIsQueuedWithoutGate
<1> QED
  BY <1>3, <1>4 DEF NoteInv

(* A step that sends on the selected output keeps the notes queued when    *)
(* the queue still holds what sounds there.                                *)
LEMMA SendKeepsNotesQueued ==
  ASSUME NoteInv, NEW heard \in Heards, Send(heard),
         midiOutputMode' = midiOutputMode,
         \A n \in heard : \/ n \in PendingNotes(pendingNotesQueue')
                          \/ <<midiOutputMode, n>> \in abandoned
  PROVE  SoundingNotesAreQueued'
<1> SUFFICES ASSUME NEW m \in Modes, NEW n \in Notes,
                    <<m, n>> \notin abandoned', n \in sounding'[m]
             PROVE  /\ m = midiOutputMode'
                    /\ n \in PendingNotes(pendingNotesQueue')
  BY DEF SoundingNotesAreQueued, PendingNotes
<1>0. TypeOK
  BY DEF NoteInv
<1>1. CASE m = midiOutputMode
  <2>1. sounding'[m] = heard
    BY <1>0, <1>1, SendLemma
  <2>2. <<m, n>> \notin abandoned
    BY <1>1, <2>1 DEF Send
  <2> QED
    BY <1>1, <2>1, <2>2
<1>2. CASE m # midiOutputMode
  <2>1. sounding'[m] = sounding[m]
    BY <1>0, <1>2, SendLemma
  <2>2. <<m, n>> \notin abandoned
    BY <1>2 DEF Send
  <2> QED
    BY <1>2, <2>1, <2>2 DEF NoteInv, NoNoteHangs, SoundingNotesAreQueued
<1> QED
  BY <1>1, <1>2

(* Every step keeps the invariant. *)
LEMMA NoteInvStep == NoteInv /\ [Next]_vars => NoteInv'
<1> SUFFICES ASSUME NoteInv, [Next]_vars PROVE NoteInv'
  OBVIOUS
<1>0. /\ TypeOK /\ NotesAreUnique /\ SoundingNotesAreQueued
      /\ NothingIsQueuedWithoutGate
      /\ Unique(pendingNotesQueue)
      /\ Heard \in Heards
  BY DEF NoteInv, NotesAreUnique, Unique, TypeOK, Heard, Heards, NoNoteHangs
<1> USE DEF Phases, Clock, NoNoteHangs, PadsStopBeforeTheyStrike
<1>1. CASE Tick
  <2>2. sounding' = sounding /\ abandoned' = abandoned /\ struckTwice' = FALSE
    BY <1>1 DEF Tick, SendNothing
  <2>3. sincePoll' \in 0..MaxLoopMs /\ now' \in 0..(ClockSize - 1)
    BY <1>0, <1>1, NoteOutputAssumption DEF Tick, TypeOK
  <2>1. TypeOK'
    BY <1>0, <1>1, <2>2, <2>3 DEF Tick, TypeOK, MidiNoteEvent
  <2> QED
    BY <1>0, <1>1, <2>1
       DEF Tick, SendNothing, NoteInv, NotesAreUnique, SoundingNotesAreQueued, PendingNotes,
           NothingIsQueuedWithoutGate
<1>2. CASE SendPendingMidiNoteOffMessages
  <2>1. /\ pendingNotesQueue' \in Seq(MidiNoteEvent)
        /\ Len(pendingNotesQueue') <= MaxPending
        /\ Unique(pendingNotesQueue')
        /\ gateTimeMs = 0 => pendingNotesQueue' = <<>>
    BY <1>0, <1>2, PollLemma
  <2>2. PICK off \in SUBSET Notes :
          /\ PendingNotes(pendingNotesQueue') = PendingNotes(pendingNotesQueue) \ off
          /\ Send(NoteOffs(Heard, off))
    BY <1>0, <1>2, PollLemma
  <2>3. NoteOffs(Heard, off) \in Heards /\ NoteOffs(Heard, off) = Heard \ off
    BY <1>0 DEF Heards, NoteOffs
  <2>4. /\ midiOutputMode' = midiOutputMode /\ struckTwice' = FALSE
        /\ gateTimeMs' = gateTimeMs
    BY <1>2 DEF SendPendingMidiNoteOffMessages
  <2>5. \A n \in Heard \ off : \/ n \in PendingNotes(pendingNotesQueue')
                               \/ <<midiOutputMode, n>> \in abandoned
    BY <1>0, <2>2 DEF SoundingNotesAreQueued, TypeOK, Heard
  <2>6. NoNoteHangs'
    BY <2>2, <2>3, <2>4, <2>5, SendKeepsNotesQueued
  <2>9. sounding' \in [Modes -> SUBSET Notes] /\ abandoned' \subseteq Modes \X Notes
    BY <1>0, <2>2, <2>3, SendLemma DEF Heards
  <2>10. /\ phase' = "pads" /\ sincePoll' = 0 /\ now' = now
         /\ 0 \in 0..MaxLoopMs
    BY <1>2, NoteOutputAssumption DEF SendPendingMidiNoteOffMessages
  <2>7. TypeOK'
    BY <1>0, <2>1, <2>4, <2>9, <2>10 DEF TypeOK, MidiNoteEvent
  <2>8. NothingIsQueuedWithoutGate'
    BY <2>1, <2>4 DEF NothingIsQueuedWithoutGate
  <2> QED
    BY <2>1, <2>6, <2>7, <2>8 DEF NoteInv, NotesAreUnique, Unique
<1>3. ASSUME NEW note \in Notes, SendMidiNoteOnOffMessage(note),
             UNCHANGED <<phase, now, sincePoll, gateTimeMs, midiOutputMode>>,
             phase = "web" \/ (phase = "pads" /\ gateTimeMs = 0)
      PROVE  NoteInv'
  <2> DEFINE heard == Heard \ {note}
  <2>1. /\ pendingNotesQueue' = pendingNotesQueue
        /\ Send(heard)
        /\ heard \in Heards
        /\ ObserveNoteOn(Heard, note)
    <3>1. NoteOffs(NoteOn(Heard, note), {note}) = heard
      BY DEF NoteOn, NoteOffs
    <3> QED
      BY <1>0, <1>3, <3>1 DEF SendMidiNoteOnOffMessage, Heards
  <2>2. \A n \in heard : \/ n \in PendingNotes(pendingNotesQueue')
                         \/ <<midiOutputMode, n>> \in abandoned
    BY <1>0, <2>1 DEF SoundingNotesAreQueued, TypeOK, Heard
  <2>3. SoundingNotesAreQueued'
    BY <1>3, <2>1, <2>2, SendKeepsNotesQueued
  <2>4. struckTwice' \in BOOLEAN
    BY <2>1 DEF ObserveNoteOn
  <2>5. TypeOK'
    BY <1>0, <1>3, <2>1, <2>4, SendLemma DEF TypeOK, Heards, MidiNoteEvent
  <2>6. PadsStopBeforeTheyStrike'
    <3>1. CASE phase = "web"
      BY <1>3, <3>1
    <3>2. CASE phase = "pads" /\ gateTimeMs = 0
      <4>1. PendingNotes(pendingNotesQueue) = {}
        BY <1>0, <3>2 DEF NothingIsQueuedWithoutGate, PendingNotes
      <4>2. note \in Heard => <<midiOutputMode, note>> \in abandoned
        BY <1>0, <4>1 DEF SoundingNotesAreQueued, TypeOK, Heard
      <4> QED
        BY <2>1, <4>2 DEF ObserveNoteOn
    <3> QED
      BY <1>3, <3>1, <3>2
  <2>7. NothingIsQueuedWithoutGate'
    BY <1>0, <1>3, <2>1 DEF NothingIsQueuedWithoutGate
  <2> QED
    BY <1>0, <2>1, <2>3, <2>5, <2>6, <2>7 DEF NoteInv, NotesAreUnique
<1>4. ASSUME NEW note \in Notes, SendMidiNoteOnWithDelayedOffMessage(note),
             UNCHANGED <<phase, now, sincePoll, gateTimeMs, midiOutputMode>>,
             gateTimeMs > 0
      PROVE  NoteInv'
  <2> DEFINE playing == {note} \cap PendingNotes(pendingNotesQueue)
             stopped == Heard \ playing
  <2>1. /\ pendingNotesQueue' \in Seq(MidiNoteEvent)
        /\ Len(pendingNotesQueue') <= MaxPending
        /\ Unique(pendingNotesQueue')
        /\ note \in PendingNotes(pendingNotesQueue')
    BY <1>0, <1>4, DelayedOffLemma
  <2>2. PICK oldest \in SUBSET (PendingNotes(pendingNotesQueue) \ {note}) :
          /\ PendingNotes(pendingNotesQueue')
               = (PendingNotes(pendingNotesQueue) \ oldest) \cup {note}
          /\ Send(NoteOffs(NoteOn(NoteOffs(Heard, playing), note), oldest))
    BY <1>0, <1>4, DelayedOffLemma
  <2> DEFINE heard == (stopped \cup {note}) \ oldest
  <2>3. ObserveNoteOn(stopped, note)
    BY <1>0, <1>4, DelayedOffLemma DEF NoteOffs
  <2>4. Send(heard) /\ heard \in Heards
    BY <1>0, <2>2 DEF NoteOn, NoteOffs, Heards
  <2>5. note \notin stopped \/ <<midiOutputMode, note>> \in abandoned
    BY <1>0 DEF SoundingNotesAreQueued, TypeOK, Heard
  <2>6. struckTwice' = FALSE
    BY <2>3, <2>5 DEF ObserveNoteOn
  <2>7. \A n \in heard : \/ n \in PendingNotes(pendingNotesQueue')
                         \/ <<midiOutputMode, n>> \in abandoned
    BY <1>0, <2>1, <2>2 DEF SoundingNotesAreQueued, TypeOK, Heard
  <2> HIDE DEF heard
  <2>8. NoNoteHangs'
    BY <1>4, <2>4, <2>6, <2>7, SendKeepsNotesQueued
  <2>9. TypeOK'
    BY <1>0, <1>4, <2>1, <2>4, <2>6, SendLemma DEF TypeOK, Heards, MidiNoteEvent
  <2>10. NothingIsQueuedWithoutGate'
    BY <1>4 DEF NothingIsQueuedWithoutGate
  <2> QED
    BY <2>1, <2>8, <2>9, <2>10 DEF NoteInv, NotesAreUnique, Unique
<1>5. CASE PadsEvaluated \/ LoopFinished
  <2>1. TypeOK' /\ NotesAreUnique'
    BY <1>0, <1>5 DEF PadsEvaluated, LoopFinished, SendNothing, TypeOK, NotesAreUnique,
                      MidiNoteEvent
  <2>2. NoNoteHangs' /\ NothingIsQueuedWithoutGate'
    BY <1>0, <1>5 DEF PadsEvaluated, LoopFinished, SendNothing, SoundingNotesAreQueued,
                      PendingNotes, NothingIsQueuedWithoutGate
  <2> QED
    BY <2>1, <2>2 DEF NoteInv
<1>6. ASSUME NEW requestMs \in GateRequests, SetGateTime(requestMs)
      PROVE  NoteInv'
  <2>1. gateTimeMs' \in 0..MaxGateMs
    BY <1>6, NoteOutputAssumption DEF SetGateTime, Clamped
  <2> QED
    BY <1>0, <1>6, <2>1 DEF SetGateTime, SendNothing, NoteInv, TypeOK, NotesAreUnique,
                            SoundingNotesAreQueued, PendingNotes, MidiNoteEvent,
                            NothingIsQueuedWithoutGate
<1>7. ASSUME NEW mode \in Modes, SetMidiOutputMode(mode)
      PROVE  NoteInv'
  <2>3. abandoned' \subseteq Modes \X Notes
    BY <1>0, <1>7 DEF SetMidiOutputMode, TypeOK, Heards
  <2>1. TypeOK' /\ NotesAreUnique'
    BY <1>7, <1>0, <2>3 DEF SetMidiOutputMode, TypeOK, NotesAreUnique, MidiNoteEvent
  <2>2. NoNoteHangs' /\ NothingIsQueuedWithoutGate'
    BY <1>0, <1>7 DEF SetMidiOutputMode, TypeOK, SoundingNotesAreQueued, Heard,
                      NothingIsQueuedWithoutGate
  <2> QED
    BY <2>1, <2>2 DEF NoteInv
<1>8. CASE Reset
  <2>1. <<>> \in Seq(MidiNoteEvent) /\ Len(<<>>) = 0 /\ DOMAIN <<>> = {}
    BY EmptySeq
  <2>2. gateTimeMs' \in 0..MaxGateMs
    BY <1>8, NoteOutputAssumption DEF Reset, Clamped
  <2>3. TypeOK' /\ NotesAreUnique'
    <3>1. abandoned' \subseteq Modes \X Notes
      BY <1>0, <1>8 DEF Reset, TypeOK, Heards
    <3>2. 0 \in Clock /\ 0 \in 0..MaxLoopMs /\ 0 <= MaxPending
      BY NoteOutputAssumption
    <3>3. /\ phase' = "poll" /\ now' = 0 /\ sincePoll' = 0 /\ pendingNotesQueue' = <<>>
          /\ midiOutputMode' \in Modes /\ sounding' = sounding /\ struckTwice' = FALSE
      BY <1>8 DEF Reset
    <3> QED
      BY <1>0, <2>1, <2>2, <3>1, <3>2, <3>3 DEF TypeOK, NotesAreUnique
  <2>4. NoNoteHangs' /\ NothingIsQueuedWithoutGate'
    BY <1>0, <1>8 DEF Reset, TypeOK, SoundingNotesAreQueued, Heard,
                      NothingIsQueuedWithoutGate
  <2> QED
    BY <2>3, <2>4 DEF NoteInv
<1>9. CASE UNCHANGED vars
  BY <1>0, <1>9 DEF vars, NoteInv, TypeOK, NotesAreUnique, SoundingNotesAreQueued,
                    PendingNotes, MidiNoteEvent, NothingIsQueuedWithoutGate
<1>10. ASSUME NEW note \in Notes,
              SendMidiNoteOnMessage(note) \/ HandlePlayNote(note)
       PROVE  NoteInv'
  <2>1. gateTimeMs > 0 \/ gateTimeMs = 0
    BY <1>0, NoteOutputAssumption DEF TypeOK
  <2> QED
    BY <1>3, <1>4, <1>10, <2>1 DEF SendMidiNoteOnMessage, HandlePlayNote, TypeOK
<1> QED
  BY <1>1, <1>2, <1>5, <1>6, <1>7, <1>8, <1>9, <1>10 DEF Next, Loop, Pads, Web

(* The variables of the note output always have their types; in particular *)
(* the queue never holds more notes than its array has room for.           *)
THEOREM NoteTypes == Spec => []TypeOK
<1>1. NoteInv => TypeOK
  BY DEF NoteInv
<1> QED
  BY <1>1, NoteInvInit, NoteInvStep, PTL DEF Spec

(* removeNote() may stop at the first entry of a note: there is no second. *)
THEOREM QueuedNotesAreUnique == Spec => []NotesAreUnique
<1>1. NoteInv => NotesAreUnique
  BY DEF NoteInv
<1> QED
  BY <1>1, NoteInvInit, NoteInvStep, PTL DEF Spec

(* No note hangs: what sounds on the selected output is queued for its     *)
(* NoteOff, unless it was left behind by a change of the output or by a    *)
(* reset; and pads stop a note that sounds before they strike it again.    *)
THEOREM NotesDoNotHang == Spec => []NoNoteHangs
<1>1. NoteInv => NoNoteHangs
  BY DEF NoteInv
<1> QED
  BY <1>1, NoteInvInit, NoteInvStep, PTL DEF Spec
-----------------------------------------------------------------------------
Age(e) == ElapsedMs(e.noteOnTimeMs)

(* The unsigned difference is the time that has passed, before and after   *)
(* a wrap-around of the clock.                                             *)
LEMMA ElapsedValue ==
  ASSUME now \in Clock, NEW t \in Clock
  PROVE  /\ ElapsedMs(t) = IF now >= t THEN now - t ELSE now + ClockSize - t
         /\ ElapsedMs(t) \in Clock
<1> DEFINE a == now + ClockSize - t
<1>1. ClockSize \in Nat \ {0}
  BY NoteOutputAssumption
<1>2. a \in Nat /\ a < 2 * ClockSize
  BY <1>1 DEF Clock
<1>3. a % ClockSize = IF a < ClockSize THEN a ELSE a - ClockSize
  <2> HIDE DEF a
  <2> QED
    BY <1>1, <1>2
<1> QED
  BY <1>1, <1>3 DEF Clock, ElapsedMs

(* One millisecond later every age is one larger, as long as no age        *)
(* reaches the size of the clock.                                          *)
LEMMA ElapsedTick ==
  ASSUME now \in Clock, NEW t \in Clock, ElapsedMs(t) + 1 < ClockSize
  PROVE  (((now + 1) % ClockSize) + ClockSize - t) % ClockSize = ElapsedMs(t) + 1
<1> DEFINE next == IF now + 1 < ClockSize THEN now + 1 ELSE 0
<1>1. ClockSize \in Nat \ {0}
  BY NoteOutputAssumption
<1>2. (now + 1) % ClockSize = next
  BY <1>1 DEF Clock
<1>3. next \in Clock
  BY <1>1 DEF Clock
<1>4. ElapsedMs(t) = IF now >= t THEN now - t ELSE now + ClockSize - t
  BY ElapsedValue
<1> HIDE DEF next
<1>5. (next + ClockSize - t) % ClockSize
        = IF next >= t THEN next - t ELSE next + ClockSize - t
  <2> DEFINE a == next + ClockSize - t
  <2>1. a \in Nat /\ a < 2 * ClockSize
    BY <1>1, <1>3 DEF Clock
  <2>2. a % ClockSize = IF a < ClockSize THEN a ELSE a - ClockSize
    <3> HIDE DEF a
    <3> QED
      BY <1>1, <2>1
  <2> QED
    BY <1>1, <1>3, <2>2 DEF Clock
<1>6. next = IF now + 1 < ClockSize THEN now + 1 ELSE 0
  BY DEF next
<1>7. (next + ClockSize - t) % ClockSize = ElapsedMs(t) + 1
  BY <1>1, <1>4, <1>5, <1>6 DEF Clock
<1> QED
  BY <1>2, <1>7

-----------------------------------------------------------------------------
(* The older entries stand in front of the younger ones. *)
OldestFirst(q) == \A i, j \in DOMAIN q : i < j => Age(q[i]) >= Age(q[j])

(* No entry is as old as the bound. *)
YoungerThan(q, bound) == \A i \in DOMAIN q : Age(q[i]) < bound

(* The inductive invariant: the ages decrease along the queue, and no age  *)
(* comes near the size of the clock.  The first part makes it enough to    *)
(* look at the oldest entry, the second makes the unsigned difference mean *)
(* an age.                                                                 *)
AgeInv ==
  /\ OldestFirst(pendingNotesQueue)
  /\ YoungerThan(pendingNotesQueue, MaxGateMs + sincePoll)
  /\ NoNoteIsOverdue

(* The age of an event is a time of the clock. *)
LEMMA AgeType ==
  ASSUME now \in Clock, NEW e \in MidiNoteEvent
  PROVE  Age(e) \in Clock
<1>1. e.noteOnTimeMs \in Clock
  BY DEF MidiNoteEvent
<1> QED
  BY <1>1, ElapsedValue DEF Age

(* Taking a note out keeps the order and the bound. *)
LEMMA RemoveNoteKeepsAges ==
  ASSUME NEW q \in Seq(MidiNoteEvent), Unique(q), OldestFirst(q),
         NEW n \in Notes, NEW bound, YoungerThan(q, bound)
  PROVE  OldestFirst(RemoveNote(q, n)) /\ YoungerThan(RemoveNote(q, n), bound)
<1>1. CASE RemoveNote(q, n) = q
  BY <1>1
<1>2. CASE \E k \in 1..Len(q) : RemoveNote(q, n) = RemoveIndex(q, k)
  <2>1. PICK k \in 1..Len(q) : RemoveNote(q, n) = RemoveIndex(q, k)
    BY <1>2
  <2> DEFINE r == RemoveIndex(q, k)
             old(i) == IF i < k THEN i ELSE i + 1
  <2>2. /\ r \in Seq(MidiNoteEvent)
        /\ Len(r) = Len(q) - 1
        /\ \A i \in 1..(Len(q) - 1) : r[i] = IF i < k THEN q[i] ELSE q[i + 1]
    BY RemoveIndexLemma
  <2>3. Len(q) \in Nat /\ DOMAIN q = 1..Len(q) /\ DOMAIN r = 1..(Len(q) - 1)
    BY <2>2, LenProperties
  <2> HIDE DEF r
  <2>4. \A i \in DOMAIN r : old(i) \in DOMAIN q /\ r[i] = q[old(i)]
    BY <2>2, <2>3
  <2>5. \A i, j \in DOMAIN r : i < j => old(i) < old(j)
    BY <2>3
  <2> HIDE DEF old
  <2>6. OldestFirst(r) /\ YoungerThan(r, bound)
    BY <2>4, <2>5 DEF OldestFirst, YoungerThan
  <2> QED
    BY <2>1, <2>6 DEF r
<1> QED
  BY <1>1, <1>2, RemoveNoteLemma

(* Dropping the oldest entries keeps the order and the bound. *)
LEMMA RemoveOldestKeepsAges ==
  ASSUME NEW q \in Seq(MidiNoteEvent), OldestFirst(q),
         NEW c \in 0..Len(q), NEW bound, YoungerThan(q, bound)
  PROVE  /\ OldestFirst(RemoveOldestNotes(q, c))
         /\ YoungerThan(RemoveOldestNotes(q, c), bound)
<1> DEFINE r == RemoveOldestNotes(q, c)
<1>1. /\ r \in Seq(MidiNoteEvent)
      /\ Len(r) = Len(q) - c
      /\ \A i \in 1..(Len(q) - c) : r[i] = q[i + c]
  BY RemoveOldestLemma
<1>2. Len(q) \in Nat /\ DOMAIN q = 1..Len(q) /\ DOMAIN r = 1..(Len(q) - c)
  BY <1>1, LenProperties
<1> HIDE DEF r
<1>3. \A i \in DOMAIN r : i + c \in DOMAIN q /\ r[i] = q[i + c]
  BY <1>1, <1>2
<1>4. OldestFirst(r)
  <2> SUFFICES ASSUME NEW i \in DOMAIN r, NEW j \in DOMAIN r, i < j
               PROVE  Age(r[i]) >= Age(r[j])
    BY DEF OldestFirst
  <2>1. i + c < j + c
    BY <1>2
  <2> QED
    BY <1>3, <2>1 DEF OldestFirst
<1>5. YoungerThan(r, bound)
  BY <1>3 DEF YoungerThan
<1> QED
  BY <1>4, <1>5 DEF r

(* A note added now is the youngest one. *)
LEMMA AddNoteKeepsAges ==
  ASSUME now \in Clock, NEW q \in Seq(MidiNoteEvent), Unique(q), OldestFirst(q),
         Len(q) < MaxPending, NEW n \in Notes, n \notin PendingNotes(q),
         NEW bound \in Nat \ {0}, YoungerThan(q, bound)
  PROVE  OldestFirst(AddNote(q, n, now)) /\ YoungerThan(AddNote(q, n, now), bound)
<1> DEFINE x == [note |-> n, noteOnTimeMs |-> now]
           r == Append(q, x)
<1>1. AddNote(q, n, now) = r
  BY AddNoteLemma
<1>2. x \in MidiNoteEvent /\ Age(x) = 0
  BY ElapsedValue DEF MidiNoteEvent, Age, Clock
<1> HIDE DEF x
<1>3. /\ Len(q) \in Nat /\ DOMAIN q = 1..Len(q)
      /\ DOMAIN r = 1..(Len(q) + 1)
      /\ \A i \in 1..Len(q) : r[i] = q[i]
      /\ r[Len(q) + 1] = x
  BY <1>2, LenProperties
<1>4. \A i \in DOMAIN q : Age(q[i]) \in Clock
  BY <1>3, AgeType, ElementOfSeq
<1> HIDE DEF r
<1>5. OldestFirst(r)
  <2> SUFFICES ASSUME NEW i \in DOMAIN r, NEW j \in DOMAIN r, i < j
               PROVE  Age(r[i]) >= Age(r[j])
    BY DEF OldestFirst
  <2>1. i \in DOMAIN q /\ r[i] = q[i]
    BY <1>3
  <2>2. CASE j \in DOMAIN q
    BY <1>3, <2>1, <2>2 DEF OldestFirst
  <2>3. CASE j = Len(q) + 1
    BY <1>2, <1>3, <1>4, <2>1, <2>3 DEF Clock
  <2> QED
    BY <1>3, <2>2, <2>3
<1>6. YoungerThan(r, bound)
  BY <1>2, <1>3 DEF YoungerThan
<1> QED
  BY <1>1, <1>5, <1>6

-----------------------------------------------------------------------------
(* Nothing is queued at the start. *)
LEMMA AgeInvInit == Init => AgeInv
<1>1. DOMAIN <<>> = {}
  BY EmptySeq
<1> QED
  BY <1>1 DEF Init, AgeInv, OldestFirst, YoungerThan, NoNoteIsOverdue

(* When neither the clock nor the queue changes, the ages do not either. *)
LEMMA SameAges ==
  ASSUME AgeInv, UNCHANGED <<now, sincePoll, pendingNotesQueue>>,
         phase' = "pads" => phase = "pads" /\ gateTimeMs' = gateTimeMs
  PROVE  AgeInv'
BY DEF AgeInv, OldestFirst, YoungerThan, NoNoteIsOverdue, Age, ElapsedMs

(* A millisecond that passes makes every note one millisecond older; no    *)
(* age wraps around, as the loop polls the queue in time.                  *)
LEMMA TickKeepsAges == NoteInv /\ AgeInv /\ Tick => AgeInv'
<1> SUFFICES ASSUME NoteInv, AgeInv, Tick PROVE AgeInv'
  OBVIOUS
<1> DEFINE q == pendingNotesQueue
<1>1. /\ q \in Seq(MidiNoteEvent) /\ now \in Clock /\ sincePoll \in 0..MaxLoopMs
      /\ gateTimeMs \in 0..MaxGateMs
  BY DEF NoteInv, TypeOK
<1>2. /\ q' = q /\ sincePoll < MaxLoopMs /\ sincePoll' = sincePoll + 1
      /\ now' = (now + 1) % ClockSize /\ phase' = phase /\ gateTimeMs' = gateTimeMs
  BY DEF Tick
<1>3. \A i \in DOMAIN q : q[i] \in MidiNoteEvent
  BY <1>1, ElementOfSeq, LenProperties
<1>4. \A i \in DOMAIN q : Age(q[i]) \in Nat /\ Age(q[i]) + 1 < ClockSize
  BY <1>1, <1>2, <1>3, AgeType, NoteOutputAssumption DEF AgeInv, YoungerThan, Clock
<1>5. \A i \in DOMAIN q : ElapsedMs(q[i].noteOnTimeMs)' = ElapsedMs(q[i].noteOnTimeMs) + 1
  <2> SUFFICES ASSUME NEW i \in DOMAIN q
               PROVE  ElapsedMs(q[i].noteOnTimeMs)' = ElapsedMs(q[i].noteOnTimeMs) + 1
    OBVIOUS
  <2> DEFINE t == q[i].noteOnTimeMs
  <2>1. t \in Clock /\ ElapsedMs(t) + 1 < ClockSize
    BY <1>3, <1>4 DEF MidiNoteEvent, Age
  <2>2. t' = t
    BY <1>2
  <2>3. (((now + 1) % ClockSize) + ClockSize - t) % ClockSize = ElapsedMs(t) + 1
    BY <1>1, <2>1, ElapsedTick
  <2> QED
    BY <1>2, <2>2, <2>3 DEF ElapsedMs
<1>6. \A i \in DOMAIN q : Age(q[i])' = Age(q[i]) + 1
  BY <1>2, <1>5 DEF Age
<1>7. OldestFirst(q)'
  BY <1>2, <1>4, <1>6 DEF AgeInv, OldestFirst
<1>8. YoungerThan(q, MaxGateMs + sincePoll)'
  BY <1>1, <1>2, <1>4, <1>6, NoteOutputAssumption DEF AgeInv, YoungerThan
<1>9. NoNoteIsOverdue'
  BY <1>1, <1>2, <1>4, <1>6 DEF AgeInv, NoNoteIsOverdue, Age
<1> QED
  BY <1>7, <1>8, <1>9 DEF AgeInv

(* The poll leaves only notes whose gate time has not elapsed: the first   *)
(* one it keeps is the oldest one.                                         *)
LEMMA PollKeepsAges == NoteInv /\ AgeInv /\ SendPendingMidiNoteOffMessages => AgeInv'
<1> SUFFICES ASSUME NoteInv, AgeInv, SendPendingMidiNoteOffMessages PROVE AgeInv'
  OBVIOUS
<1> DEFINE q == pendingNotesQueue
<1>1. /\ q \in Seq(MidiNoteEvent) /\ now \in Clock /\ gateTimeMs \in 0..MaxGateMs
      /\ Len(q) \in Nat /\ DOMAIN q = 1..Len(q)
  BY LenProperties DEF NoteInv, TypeOK
<1>2. PICK c \in 0..Len(q) :
        /\ c < Len(q) => Age(q[c + 1]) < gateTimeMs
        /\ q' = RemoveOldestNotes(q, c)
  BY DEF SendPendingMidiNoteOffMessages, Age
<1>3. now' = now /\ sincePoll' = 0 /\ gateTimeMs' = gateTimeMs
  BY DEF SendPendingMidiNoteOffMessages
<1> DEFINE r == RemoveOldestNotes(q, c)
<1>4. OldestFirst(r)
  BY <1>1, RemoveOldestKeepsAges DEF AgeInv
<1>5. /\ Len(r) = Len(q) - c /\ DOMAIN r = 1..(Len(q) - c)
      /\ \A i \in 1..(Len(q) - c) : r[i] = q[i + c]
  BY <1>1, RemoveOldestLemma, LenProperties
<1>6. \A i \in DOMAIN q : Age(q[i]) \in Clock
  BY <1>1, AgeType, ElementOfSeq
<1> HIDE DEF r
<1>7. YoungerThan(r, gateTimeMs)
  <2> SUFFICES ASSUME NEW i \in DOMAIN r PROVE Age(r[i]) < gateTimeMs
    BY DEF YoungerThan
  <2>1. c < Len(q) /\ c + 1 \in DOMAIN q /\ i + c \in DOMAIN q /\ r[i] = q[i + c]
    BY <1>1, <1>5
  <2>2. Age(q[c + 1]) >= Age(q[i + c])
    BY <1>1, <1>5, <1>6, <2>1 DEF AgeInv, OldestFirst, Clock
  <2> QED
    BY <1>1, <1>2, <1>6, <2>1, <2>2 DEF Clock
<1>8. q' = r
  BY <1>2 DEF r
<1>9. \A i \in DOMAIN r : Age(r[i]) \in Clock
  BY <1>1, <1>5, <1>6
<1>10. OldestFirst(q)'
  BY <1>3, <1>4, <1>8 DEF OldestFirst, Age, ElapsedMs
<1>11. YoungerThan(q, MaxGateMs + sincePoll)'
  <2>1. YoungerThan(r, MaxGateMs)
    BY <1>1, <1>7, <1>9, NoteOutputAssumption DEF YoungerThan, Clock
  <2> QED
    BY <1>3, <1>8, <2>1, NoteOutputAssumption DEF YoungerThan, Age, ElapsedMs
<1>12. NoNoteIsOverdue'
  BY <1>1, <1>3, <1>7, <1>8 DEF NoNoteIsOverdue, YoungerThan, Age, ElapsedMs
<1> QED
  BY <1>10, <1>11, <1>12 DEF AgeInv

(* A hit that queues its note keeps the order and the bounds. *)
LEMMA HitKeepsAges ==
  ASSUME NoteInv, AgeInv, NEW n \in Notes, phase = "pads", gateTimeMs > 0,
         SendMidiNoteOnWithDelayedOffMessage(n),
         UNCHANGED <<phase, now, sincePoll, gateTimeMs, midiOutputMode>>
  PROVE  AgeInv'
<1> DEFINE q      == pendingNotesQueue
           others == RemoveNote(q, n)
           kept   == IF IsFull(others) THEN RemoveOldestNotes(others, 1) ELSE others
<1>1. /\ q \in Seq(MidiNoteEvent) /\ Unique(q) /\ Len(q) <= MaxPending
      /\ now \in Clock /\ gateTimeMs \in 0..MaxGateMs /\ sincePoll \in 0..MaxLoopMs
  BY DEF NoteInv, TypeOK, NotesAreUnique, Unique
<1>2. q' = AddNote(kept, n, now)
  BY DEF SendMidiNoteOnWithDelayedOffMessage
<1>3. /\ others \in Seq(MidiNoteEvent) /\ Unique(others)
      /\ Len(others) \in Nat /\ Len(others) <= MaxPending
      /\ n \notin PendingNotes(others)
  <2>1. Len(others) <= Len(q) /\ others \in Seq(MidiNoteEvent) /\ Len(q) \in Nat
    BY <1>1, RemoveNoteLemma, LenProperties
  <2> QED
    BY <1>1, <2>1, RemoveNoteLemma, LenProperties, NoteOutputAssumption
<1> DEFINE gate  == gateTimeMs + sincePoll
           limit == MaxGateMs + sincePoll
<1>4. gate \in Nat \ {0} /\ limit \in Nat \ {0}
  BY <1>1, NoteOutputAssumption
<1>5. YoungerThan(q, gate) /\ YoungerThan(q, limit) /\ OldestFirst(q)
  BY DEF AgeInv, NoNoteIsOverdue, YoungerThan, Age
<1> HIDE DEF gate, limit
<1>6. OldestFirst(others) /\ YoungerThan(others, gate) /\ YoungerThan(others, limit)
  BY <1>1, <1>5, RemoveNoteKeepsAges
<1> HIDE DEF others
<1>7. /\ kept \in Seq(MidiNoteEvent) /\ Unique(kept) /\ Len(kept) < MaxPending
      /\ n \notin PendingNotes(kept)
      /\ OldestFirst(kept) /\ YoungerThan(kept, gate) /\ YoungerThan(kept, limit)
  <2>1. CASE IsFull(others)
    <3>1. 1 \in 0..Len(others)
      BY <1>3, <2>1, NoteOutputAssumption DEF IsFull
    <3>2. Len(RemoveOldestNotes(others, 1)) = Len(others) - 1
      BY <1>3, <3>1, RemoveOldestLemma
    <3>3. Len(RemoveOldestNotes(others, 1)) < MaxPending
      BY <1>3, <3>2, NoteOutputAssumption
    <3>4. n \notin PendingNotes(RemoveOldestNotes(others, 1))
      BY <1>3, <3>1, RemoveOldestNotesLemma
    <3>5. /\ RemoveOldestNotes(others, 1) \in Seq(MidiNoteEvent)
          /\ Unique(RemoveOldestNotes(others, 1))
      BY <1>3, <3>1, RemoveOldestLemma, RemoveOldestNotesLemma
    <3> QED
      BY <1>3, <1>6, <2>1, <3>1, <3>3, <3>4, <3>5, RemoveOldestKeepsAges
  <2>2. CASE ~IsFull(others)
    BY <1>3, <1>6, <2>2, NoteOutputAssumption DEF IsFull
  <2> QED
    BY <2>1, <2>2
<1> HIDE DEF kept
<1> DEFINE r == AddNote(kept, n, now)
<1>8. OldestFirst(r) /\ YoungerThan(r, gate) /\ YoungerThan(r, limit)
  BY <1>1, <1>4, <1>7, AddNoteKeepsAges
<1> HIDE DEF r
<1>9. q' = r
  BY <1>2 DEF r
<1> QED
  BY <1>8, <1>9 DEF AgeInv, OldestFirst, YoungerThan, NoNoteIsOverdue, Age, ElapsedMs,
                    gate, limit

(* Every step keeps the ages. *)
LEMMA AgeInvStep == NoteInv /\ AgeInv /\ [Next]_vars => AgeInv'
<1> SUFFICES ASSUME NoteInv, AgeInv, [Next]_vars PROVE AgeInv'
  OBVIOUS
<1>1. CASE Tick
  BY <1>1, TickKeepsAges
<1>2. CASE SendPendingMidiNoteOffMessages
  BY <1>2, PollKeepsAges
<1>3. ASSUME NEW n \in Notes, SendMidiNoteOnMessage(n)
      PROVE  AgeInv'
  <2>1. CASE gateTimeMs > 0
    BY <1>3, <2>1, HitKeepsAges DEF SendMidiNoteOnMessage
  <2>2. CASE ~(gateTimeMs > 0)
    BY <1>3, <2>2, SameAges DEF SendMidiNoteOnMessage, SendMidiNoteOnOffMessage
  <2> QED
    BY <2>1, <2>2
<1>4. ASSUME NEW n \in Notes, HandlePlayNote(n)
      PROVE  AgeInv'
  BY <1>4, SameAges DEF HandlePlayNote, SendMidiNoteOnOffMessage
<1>5. CASE PadsEvaluated \/ LoopFinished
  BY <1>5, SameAges DEF PadsEvaluated, LoopFinished
<1>6. ASSUME NEW requestMs, SetGateTime(requestMs)
      PROVE  AgeInv'
  BY <1>6, SameAges DEF SetGateTime
<1>7. ASSUME NEW mode, SetMidiOutputMode(mode)
      PROVE  AgeInv'
  BY <1>7, SameAges DEF SetMidiOutputMode
<1>8. CASE Reset
  <2>1. DOMAIN <<>> = {}
    BY EmptySeq
  <2> QED
    BY <1>8, <2>1 DEF Reset, AgeInv, OldestFirst, YoungerThan, NoNoteIsOverdue
<1>9. CASE UNCHANGED vars
  BY <1>9, SameAges DEF vars
<1> QED
  BY <1>1, <1>2, <1>3, <1>4, <1>5, <1>6, <1>7, <1>8, <1>9 DEF Next, Loop, Pads, Web

(* No queued note is overlooked: after a poll every note in the queue is   *)
(* younger than the gate time and the time since the poll, for every gate  *)
(* time, every width of millis() and every sequence of web commands.       *)
THEOREM NotesAreNotOverdue == Spec => []NoNoteIsOverdue
<1>1. NoteInv /\ AgeInv => NoNoteIsOverdue
  BY DEF AgeInv
<1>2. Init => NoteInv /\ AgeInv
  BY NoteInvInit, AgeInvInit
<1>3. NoteInv /\ AgeInv /\ [Next]_vars => NoteInv' /\ AgeInv'
  BY NoteInvStep, AgeInvStep
<1> QED
  BY <1>1, <1>2, <1>3, PTL DEF Spec
-----------------------------------------------------------------------------
(* A hit with a gate time appends its note to the queue without the note   *)
(* itself, or else without the oldest entry if the queue is full.          *)
LEMMA HitShape ==
  ASSUME NoteInv, NEW n \in Notes, SendMidiNoteOnWithDelayedOffMessage(n)
  PROVE  \E kept \in Seq(MidiNoteEvent) :
           /\ pendingNotesQueue' = Append(kept, [note |-> n, noteOnTimeMs |-> now])
           /\ \/ \E k \in 1..Len(pendingNotesQueue) :
                   /\ pendingNotesQueue[k].note = n
                   /\ kept = RemoveIndex(pendingNotesQueue, k)
              \/ /\ n \notin PendingNotes(pendingNotesQueue)
                 /\ Len(pendingNotesQueue) < MaxPending
                 /\ kept = pendingNotesQueue
              \/ /\ n \notin PendingNotes(pendingNotesQueue)
                 /\ Len(pendingNotesQueue) = MaxPending
                 /\ kept = RemoveOldestNotes(pendingNotesQueue, 1)
<1> DEFINE q      == pendingNotesQueue
           others == RemoveNote(q, n)
           kept   == IF IsFull(others) THEN RemoveOldestNotes(others, 1) ELSE others
<1>1. /\ q \in Seq(MidiNoteEvent) /\ Unique(q) /\ Len(q) \in Nat /\ Len(q) <= MaxPending
      /\ now \in Clock /\ MaxPending \in Nat \ {0}
  BY LenProperties, NoteOutputAssumption DEF NoteInv, TypeOK, NotesAreUnique, Unique
<1>2. q' = AddNote(kept, n, now)
  BY DEF SendMidiNoteOnWithDelayedOffMessage
<1>3. /\ others \in Seq(MidiNoteEvent) /\ Unique(others) /\ n \notin PendingNotes(others)
      /\ \/ others = q /\ n \notin PendingNotes(q)
         \/ \E k \in 1..Len(q) : q[k].note = n /\ others = RemoveIndex(q, k)
  BY <1>1, RemoveNoteLemma
<1> HIDE DEF others
<1>4. CASE \E k \in 1..Len(q) : q[k].note = n /\ others = RemoveIndex(q, k)
  <2>1. PICK k \in 1..Len(q) : q[k].note = n /\ others = RemoveIndex(q, k)
    BY <1>4
  <2>2. Len(others) = Len(q) - 1
    BY <1>1, <2>1, RemoveIndexLemma
  <2>3. Len(others) < MaxPending /\ kept = others
    BY <1>1, <2>2 DEF IsFull
  <2>4. AddNote(others, n, now) = Append(others, [note |-> n, noteOnTimeMs |-> now])
    BY <1>1, <1>3, <2>3, AddNoteLemma
  <2> QED
    BY <1>2, <1>3, <2>1, <2>3, <2>4
<1>5. CASE others = q /\ n \notin PendingNotes(q) /\ Len(q) < MaxPending
  <2>1. kept = q
    BY <1>1, <1>5 DEF IsFull
  <2>2. AddNote(q, n, now) = Append(q, [note |-> n, noteOnTimeMs |-> now])
    BY <1>1, <1>5, AddNoteLemma
  <2> QED
    BY <1>1, <1>2, <1>5, <2>1, <2>2
<1>6. CASE others = q /\ n \notin PendingNotes(q) /\ Len(q) = MaxPending
  <2> DEFINE r == RemoveOldestNotes(q, 1)
  <2>1. kept = r
    BY <1>1, <1>6 DEF IsFull
  <2>2. 1 \in 0..Len(q)
    BY <1>1, <1>6
  <2>3. r \in Seq(MidiNoteEvent) /\ Len(r) < MaxPending
    BY <1>1, <1>6, <2>2, RemoveOldestLemma
  <2>4. Unique(r) /\ n \notin PendingNotes(r)
    BY <1>1, <1>6, <2>2, RemoveOldestNotesLemma
  <2>5. AddNote(r, n, now) = Append(r, [note |-> n, noteOnTimeMs |-> now])
    BY <1>1, <2>3, <2>4, AddNoteLemma
  <2> QED
    BY <1>2, <1>6, <2>1, <2>3, <2>5
<1> QED
  BY <1>1, <1>3, <1>4, <1>5, <1>6

(* A queued note that a poll takes out has sounded for the gate time. *)
LEMMA PollReleasesDueNotes ==
  ASSUME NoteInv, SendPendingMidiNoteOffMessages,
         NEW e \in Entries(pendingNotesQueue) \ Entries(pendingNotesQueue')
  PROVE  ElapsedMs(e.noteOnTimeMs) >= gateTimeMs
<1> DEFINE q == pendingNotesQueue
<1>1. q \in Seq(MidiNoteEvent) /\ Len(q) \in Nat /\ DOMAIN q = 1..Len(q)
  BY LenProperties DEF NoteInv, TypeOK
<1>2. PICK c \in 0..Len(q) :
        /\ \A i \in 1..c : ElapsedMs(q[i].noteOnTimeMs) >= gateTimeMs
        /\ q' = RemoveOldestNotes(q, c)
  BY DEF SendPendingMidiNoteOffMessages
<1>3. PICK i \in DOMAIN q : e = q[i]
  BY DEF Entries
<1>4. CASE i <= c
  BY <1>1, <1>2, <1>3, <1>4
<1>5. CASE i > c
  <2>1. /\ q' \in Seq(MidiNoteEvent) /\ Len(q') = Len(q) - c
        /\ \A j \in 1..(Len(q) - c) : q'[j] = q[j + c]
    BY <1>1, <1>2, RemoveOldestLemma
  <2>2. i - c \in DOMAIN q' /\ q'[i - c] = q[i]
    BY <1>1, <1>5, <2>1, LenProperties
  <2> QED
    BY <1>3, <2>2 DEF Entries
<1> QED
  BY <1>1, <1>4, <1>5

(* A hit takes out no entry but one of its own note, or the oldest one of  *)
(* a full queue.                                                           *)
LEMMA HitReleasesTheOldest ==
  ASSUME NoteInv, AgeInv, NEW n \in Notes, SendMidiNoteOnWithDelayedOffMessage(n),
         NEW e \in Entries(pendingNotesQueue) \ Entries(pendingNotesQueue')
  PROVE  \/ e.note \in PendingNotes(pendingNotesQueue')
         \/ /\ IsFull(pendingNotesQueue)
            /\ \A other \in Entries(pendingNotesQueue) :
                 ElapsedMs(other.noteOnTimeMs) <= ElapsedMs(e.noteOnTimeMs)
<1> DEFINE q == pendingNotesQueue
           x == [note |-> n, noteOnTimeMs |-> now]
<1>1. /\ q \in Seq(MidiNoteEvent) /\ Len(q) \in Nat /\ DOMAIN q = 1..Len(q)
      /\ MaxPending \in Nat \ {0} /\ x \in MidiNoteEvent /\ now \in Clock
  BY LenProperties, NoteOutputAssumption DEF NoteInv, TypeOK, MidiNoteEvent
<1>2. PICK kept \in Seq(MidiNoteEvent) :
        /\ q' = Append(kept, x)
        /\ \/ \E k \in 1..Len(q) : q[k].note = n /\ kept = RemoveIndex(q, k)
           \/ /\ n \notin PendingNotes(q) /\ Len(q) < MaxPending /\ kept = q
           \/ /\ n \notin PendingNotes(q) /\ Len(q) = MaxPending
              /\ kept = RemoveOldestNotes(q, 1)
  BY HitShape
<1> DEFINE r == Append(kept, x)
<1>3. /\ Len(kept) \in Nat /\ DOMAIN kept = 1..Len(kept) /\ DOMAIN r = 1..(Len(kept) + 1)
      /\ r[Len(kept) + 1] = x /\ \A i \in 1..Len(kept) : r[i] = kept[i]
  BY <1>1, LenProperties
<1>4. q' = r /\ x.note = n
  BY <1>2
<1> HIDE DEF r, x
<1>5. n \in PendingNotes(q') /\ \A i \in DOMAIN kept : kept[i] \in Entries(q')
  BY <1>3, <1>4 DEF PendingNotes, Entries
<1>6. PICK i \in DOMAIN q : e = q[i]
  BY DEF Entries
<1>7. \A j \in DOMAIN kept : kept[j] # e
  BY <1>5
<1>8. CASE \E k \in 1..Len(q) : q[k].note = n /\ kept = RemoveIndex(q, k)
  <2>1. PICK k \in 1..Len(q) : q[k].note = n /\ kept = RemoveIndex(q, k)
    BY <1>8
  <2>2. /\ Len(kept) = Len(q) - 1
        /\ \A j \in 1..(Len(q) - 1) : kept[j] = IF j < k THEN q[j] ELSE q[j + 1]
    BY <1>1, <2>1, RemoveIndexLemma
  <2>3. CASE i < k
    BY <1>1, <1>3, <1>6, <1>7, <2>2, <2>3
  <2>4. CASE i > k
    <3>1. i - 1 \in DOMAIN kept /\ kept[i - 1] = q[i]
      BY <1>1, <1>3, <2>1, <2>2, <2>4
    <3> QED
      BY <1>6, <1>7, <3>1
  <2>5. CASE i = k
    BY <1>5, <1>6, <2>1, <2>5
  <2> QED
    BY <1>1, <2>3, <2>4, <2>5
<1>9. CASE kept = q
  BY <1>6, <1>7, <1>9
<1>10. CASE Len(q) = MaxPending /\ kept = RemoveOldestNotes(q, 1)
  <2>1. 1 \in 0..Len(q)
    BY <1>1, <1>10
  <2>2. Len(kept) = Len(q) - 1 /\ \A j \in 1..(Len(q) - 1) : kept[j] = q[j + 1]
    BY <1>1, <1>10, <2>1, RemoveOldestLemma
  <2>3. i = 1
    <3> SUFFICES ASSUME i # 1 PROVE FALSE
      OBVIOUS
    <3>1. i - 1 \in DOMAIN kept /\ kept[i - 1] = q[i]
      BY <1>1, <1>3, <2>2
    <3> QED
      BY <1>6, <1>7, <3>1
  <2>4. \A j \in DOMAIN q : Age(q[j]) \in Clock
    BY <1>1, AgeType, ElementOfSeq
  <2>5. \A j \in DOMAIN q : Age(q[j]) <= Age(q[i])
    BY <1>1, <2>3, <2>4 DEF AgeInv, OldestFirst, Clock
  <2>6. \A other \in Entries(q) : ElapsedMs(other.noteOnTimeMs) <= ElapsedMs(e.noteOnTimeMs)
    BY <1>6, <2>5 DEF Entries, Age
  <2> QED
    BY <1>1, <1>10, <2>6 DEF IsFull
<1> QED
  BY <1>2, <1>8, <1>9, <1>10

(* The queue keeps every note until its gate time is over, unless it is    *)
(* struck again or is the oldest one of a full queue, for every size of    *)
(* the queue and every clock: no interleaving of hits, polls, changes of   *)
(* the gate time and changes of the output takes a note out early.         *)
THEOREM QueueKeepsNotes == Spec => NotesAreKeptForTheGateTime
<1> DEFINE Kept == \A e \in Entries(pendingNotesQueue) \ Entries(pendingNotesQueue') :
       \/ ElapsedMs(e.noteOnTimeMs) >= gateTimeMs
       \/ e.note \in PendingNotes(pendingNotesQueue')
       \/ /\ IsFull(pendingNotesQueue)
          /\ \A other \in Entries(pendingNotesQueue) :
               ElapsedMs(other.noteOnTimeMs) <= ElapsedMs(e.noteOnTimeMs)
       \/ pendingNotesQueue' = <<>> /\ now' = 0
<1>1. NoteInv /\ AgeInv /\ [Next]_vars => [Kept]_vars
  <2> SUFFICES ASSUME NoteInv, AgeInv, Next PROVE Kept
    OBVIOUS
  <2>1. CASE UNCHANGED pendingNotesQueue
    BY <2>1
  <2>2. CASE SendPendingMidiNoteOffMessages
    BY <2>2, PollReleasesDueNotes
  <2>3. ASSUME NEW n \in Notes, SendMidiNoteOnMessage(n), gateTimeMs > 0
        PROVE  Kept
    <3>1. SendMidiNoteOnWithDelayedOffMessage(n)
      BY <2>3 DEF SendMidiNoteOnMessage
    <3> QED
      BY <3>1, HitReleasesTheOldest
  <2>4. CASE Reset
    BY <2>4 DEF Reset
  <2> QED
    BY <2>1, <2>2, <2>3, <2>4
       DEF Next, Tick, Loop, PadsEvaluated, LoopFinished, Pads, SendMidiNoteOnMessage,
           SendMidiNoteOnOffMessage, Web, HandlePlayNote, SetGateTime, SetMidiOutputMode
<1>2. Init => NoteInv /\ AgeInv
  BY NoteInvInit, AgeInvInit
<1>3. NoteInv /\ AgeInv /\ [Next]_vars => NoteInv' /\ AgeInv'
  BY NoteInvStep, AgeInvStep
<1>4. NotesAreKeptForTheGateTime <=> [][Kept]_vars
  BY DEF NotesAreKeptForTheGateTime
<1> QED
  BY <1>1, <1>2, <1>3, <1>4, PTL DEF Spec
-----------------------------------------------------------------------------
(* The voices that a queue stands for. *)
VoicesOf(q) == [i \in DOMAIN q |-> q[i].note]

(* The voices of a queue are the sequence of its notes. *)
LEMMA VoicesOfLemma ==
  ASSUME NEW q \in Seq(MidiNoteEvent)
  PROVE  /\ VoicesOf(q) \in Seq(Notes)
         /\ Len(VoicesOf(q)) = Len(q)
         /\ DOMAIN VoicesOf(q) = 1..Len(q)
         /\ \A i \in 1..Len(q) : VoicesOf(q)[i] = q[i].note
<1>1. Len(q) \in Nat /\ DOMAIN q = 1..Len(q)
  BY LenProperties
<1> DEFINE e(i) == q[i].note
<1>2. \A i \in 1..Len(q) : e(i) \in Notes
  <2>1. \A i \in 1..Len(q) : q[i] \in MidiNoteEvent
    BY <1>1, ElementOfSeq
  <2> QED
    BY <2>1 DEF MidiNoteEvent
<1>3. [i \in 1..Len(q) |-> e(i)] \in Seq(Notes)
  BY <1>1, <1>2, IsASeq
<1>4. VoicesOf(q) = [i \in 1..Len(q) |-> e(i)]
  BY <1>1 DEF VoicesOf
<1> QED
  BY <1>1, <1>3, <1>4, LenProperties

(* The voice of a note that is appended is the newest one. *)
LEMMA VoicesOfAppend ==
  ASSUME NEW q \in Seq(MidiNoteEvent), NEW n \in Notes, NEW t \in Clock
  PROVE  VoicesOf(Append(q, [note |-> n, noteOnTimeMs |-> t])) = Append(VoicesOf(q), n)
<1> DEFINE x == [note |-> n, noteOnTimeMs |-> t]
           r == Append(q, x)
           v == Append(VoicesOf(q), n)
<1>1. x \in MidiNoteEvent /\ x.note = n
  BY DEF MidiNoteEvent
<1> HIDE DEF x
<1>2. /\ Len(q) \in Nat /\ r \in Seq(MidiNoteEvent) /\ Len(r) = Len(q) + 1
      /\ r[Len(q) + 1] = x /\ \A i \in 1..Len(q) : r[i] = q[i]
  BY <1>1, LenProperties
<1>3. /\ VoicesOf(q) \in Seq(Notes) /\ Len(VoicesOf(q)) = Len(q)
      /\ \A i \in 1..Len(q) : VoicesOf(q)[i] = q[i].note
  BY VoicesOfLemma
<1>4. /\ v \in Seq(Notes) /\ Len(v) = Len(q) + 1
      /\ v[Len(q) + 1] = n /\ \A i \in 1..Len(q) : v[i] = q[i].note
  BY <1>2, <1>3
<1> HIDE DEF r, v
<1>5. /\ VoicesOf(r) \in Seq(Notes) /\ Len(VoicesOf(r)) = Len(q) + 1
      /\ \A i \in 1..(Len(q) + 1) : VoicesOf(r)[i] = r[i].note
  BY <1>2, VoicesOfLemma
<1>6. \A i \in 1..(Len(q) + 1) : VoicesOf(r)[i] = v[i]
  BY <1>1, <1>2, <1>4, <1>5
<1>7. VoicesOf(r) = v
  BY <1>4, <1>5, <1>6, SeqEqual
<1> QED
  BY <1>7 DEF r, v, x

(* The voices of a queue without its k-th entry. *)
LEMMA VoicesOfRemoveIndex ==
  ASSUME NEW q \in Seq(MidiNoteEvent), NEW k \in 1..Len(q)
  PROVE  VoicesOf(RemoveIndex(q, k))
           = [i \in 1..(Len(VoicesOf(q)) - 1) |->
                IF i < k THEN VoicesOf(q)[i] ELSE VoicesOf(q)[i + 1]]
<1> DEFINE r == RemoveIndex(q, k)
<1>1. Len(q) \in Nat
  BY LenProperties
<1>2. /\ r \in Seq(MidiNoteEvent) /\ Len(r) = Len(q) - 1
      /\ \A i \in 1..(Len(q) - 1) : r[i] = IF i < k THEN q[i] ELSE q[i + 1]
  BY RemoveIndexLemma
<1> HIDE DEF r
<1>3. DOMAIN r = 1..(Len(q) - 1)
  BY <1>2, LenProperties
<1>4. Len(VoicesOf(q)) = Len(q) /\ \A i \in 1..Len(q) : VoicesOf(q)[i] = q[i].note
  BY VoicesOfLemma
<1>5. \A i \in 1..(Len(q) - 1) :
        r[i].note = IF i < k THEN VoicesOf(q)[i] ELSE VoicesOf(q)[i + 1]
  BY <1>1, <1>2, <1>4
<1> QED
  BY <1>3, <1>4, <1>5 DEF VoicesOf, r

(* The voices of a queue without its oldest entries. *)
LEMMA VoicesOfRemoveOldest ==
  ASSUME NEW q \in Seq(MidiNoteEvent), NEW c \in 0..Len(q)
  PROVE  VoicesOf(RemoveOldestNotes(q, c))
           = [i \in 1..(Len(VoicesOf(q)) - c) |-> VoicesOf(q)[i + c]]
<1> DEFINE r == RemoveOldestNotes(q, c)
<1>1. Len(q) \in Nat
  BY LenProperties
<1>2. /\ r \in Seq(MidiNoteEvent) /\ Len(r) = Len(q) - c
      /\ \A i \in 1..(Len(q) - c) : r[i] = q[i + c]
  BY RemoveOldestLemma
<1> HIDE DEF r
<1>3. DOMAIN r = 1..(Len(q) - c)
  BY <1>2, LenProperties
<1>4. Len(VoicesOf(q)) = Len(q) /\ \A i \in 1..Len(q) : VoicesOf(q)[i] = q[i].note
  BY VoicesOfLemma
<1>5. \A i \in 1..(Len(q) - c) : r[i].note = VoicesOf(q)[i + c]
  BY <1>1, <1>2, <1>4
<1> QED
  BY <1>3, <1>4, <1>5 DEF VoicesOf, r

(* Dropping the oldest entries is a release of their voices, or nothing. *)
LEMMA DroppingReleases ==
  ASSUME pendingNotesQueue \in Seq(MidiNoteEvent), NEW c \in 0..Len(pendingNotesQueue),
         pendingNotesQueue' = RemoveOldestNotes(pendingNotesQueue, c)
  PROVE  [Voices!Next]_(VoicesOf(pendingNotesQueue))
<1> DEFINE q == pendingNotesQueue
<1>1. /\ Len(q) \in Nat /\ VoicesOf(q) \in Seq(Notes) /\ Len(VoicesOf(q)) = Len(q)
  BY VoicesOfLemma, LenProperties
<1>2. VoicesOf(q)' = [i \in 1..(Len(VoicesOf(q)) - c) |-> VoicesOf(q)[i + c]]
  <2>1. VoicesOf(q') = [i \in 1..(Len(VoicesOf(q)) - c) |-> VoicesOf(q)[i + c]]
    BY VoicesOfRemoveOldest
  <2>2. VoicesOf(q)' = VoicesOf(q')
    BY DEF VoicesOf
  <2> QED
    BY <2>1, <2>2
<1>3. CASE c = 0
  <2>1. VoicesOf(q)' = [i \in 1..Len(VoicesOf(q)) |-> VoicesOf(q)[i]]
    BY <1>1, <1>2, <1>3
  <2>2. VoicesOf(q)' = VoicesOf(q)
    BY <1>1, <2>1, LenProperties
  <2> QED
    BY <2>2
<1>4. CASE c > 0
  <2>1. c \in 1..Len(VoicesOf(q))
    BY <1>1, <1>4
  <2>2. Voices!Release(c)
    BY <1>2 DEF Voices!Release, VoicesOf
  <2> QED
    BY <2>1, <2>2 DEF Voices!Next, VoicesOf
<1> QED
  BY <1>1, <1>3, <1>4

(* A hit strikes a voice again, gives a new one or steals the oldest one. *)
LEMMA HitStrikes ==
  ASSUME NoteInv, NEW n \in Notes, SendMidiNoteOnWithDelayedOffMessage(n)
  PROVE  Voices!StrikeAgain(n) \/ Voices!StrikeNew(n) \/ Voices!StealOldest(n)
<1> DEFINE q == pendingNotesQueue
           v == VoicesOf(q)
           x == [note |-> n, noteOnTimeMs |-> now]
<1>1. /\ q \in Seq(MidiNoteEvent) /\ now \in Clock /\ MaxPending \in Nat \ {0}
      /\ Len(q) \in Nat /\ DOMAIN q = 1..Len(q)
  BY LenProperties, NoteOutputAssumption DEF NoteInv, TypeOK
<1>2. Len(v) = Len(q) /\ DOMAIN v = 1..Len(q) /\ \A i \in 1..Len(q) : v[i] = q[i].note
  BY <1>1, VoicesOfLemma
<1>3. PICK kept \in Seq(MidiNoteEvent) :
        /\ q' = Append(kept, x)
        /\ \/ \E k \in 1..Len(q) : q[k].note = n /\ kept = RemoveIndex(q, k)
           \/ /\ n \notin PendingNotes(q) /\ Len(q) < MaxPending /\ kept = q
           \/ /\ n \notin PendingNotes(q) /\ Len(q) = MaxPending
              /\ kept = RemoveOldestNotes(q, 1)
  BY HitShape
<1>4. VoicesOf(q') = Append(VoicesOf(kept), n)
  BY <1>1, <1>3, VoicesOfAppend
<1>5. v' = VoicesOf(q')
  BY DEF VoicesOf
<1>6. ASSUME NEW k
      PROVE  Voices!Without(k)
               = [i \in 1..(Len(v) - 1) |-> IF i < k THEN v[i] ELSE v[i + 1]]
  BY DEF Voices!Without, VoicesOf
<1>7. CASE \E k \in 1..Len(q) : q[k].note = n /\ kept = RemoveIndex(q, k)
  <2>1. PICK k \in 1..Len(q) : q[k].note = n /\ kept = RemoveIndex(q, k)
    BY <1>7
  <2>2. VoicesOf(kept) = Voices!Without(k)
    BY <1>1, <2>1, <1>6, VoicesOfRemoveIndex
  <2>3. k \in DOMAIN v /\ v[k] = n /\ v' = Append(Voices!Without(k), n)
    BY <1>2, <1>4, <1>5, <2>1, <2>2
  <2>4. Voices!StrikeAgain(n)
    BY <2>3 DEF Voices!StrikeAgain, VoicesOf
  <2> QED
    BY <2>4
<1>8. CASE n \notin PendingNotes(q) /\ Len(q) < MaxPending /\ kept = q
  <2>1. (\A i \in DOMAIN v : v[i] # n) /\ Len(v) < MaxPending /\ v' = Append(v, n)
    BY <1>1, <1>2, <1>4, <1>5, <1>8 DEF PendingNotes
  <2>2. Voices!StrikeNew(n)
    BY <2>1 DEF Voices!StrikeNew, Voices!HasNoVoice, VoicesOf
  <2> QED
    BY <2>2
<1>9. CASE n \notin PendingNotes(q) /\ Len(q) = MaxPending /\ kept = RemoveOldestNotes(q, 1)
  <2>1. 1 \in 1..Len(q)
    BY <1>1, <1>9
  <2>2. RemoveOldestNotes(q, 1) = RemoveIndex(q, 1)
    BY <1>1 DEF RemoveOldestNotes, RemoveIndex
  <2>3. VoicesOf(kept) = Voices!Without(1)
    BY <1>1, <1>9, <1>6, <2>1, <2>2, VoicesOfRemoveIndex
  <2>4. (\A i \in DOMAIN v : v[i] # n) /\ Len(v) = MaxPending
    BY <1>1, <1>2, <1>9 DEF PendingNotes
  <2>5. v' = Append(Voices!Without(1), n)
    BY <1>4, <1>5, <2>3
  <2>6. Voices!StealOldest(n)
    BY <2>4, <2>5 DEF Voices!StealOldest, Voices!HasNoVoice, VoicesOf
  <2> QED
    BY <2>6
<1> QED
  BY <1>3, <1>7, <1>8, <1>9

(* The note output is a drum machine with MaxPending voices: every step of *)
(* it, whatever the web page does in between, strikes, restrikes or steals *)
(* a voice, releases the oldest ones, or leaves the voices as they are.    *)
THEOREM NoteOutputIsGatedVoices == Spec => ImplementsGatedVoices
<1>1. Init => Voices!Init
  <2>1. DOMAIN <<>> = {}
    BY EmptySeq
  <2>2. [i \in DOMAIN <<>> |-> <<>>[i].note] = <<>>
    BY <2>1
  <2> QED
    BY <2>2 DEF Init, Voices!Init
<1>2. NoteInv /\ [Next]_vars => [Voices!Next]_(VoicesOf(pendingNotesQueue))
  <2> SUFFICES ASSUME NoteInv, [Next]_vars
               PROVE  [Voices!Next]_(VoicesOf(pendingNotesQueue))
    OBVIOUS
  <2>0. pendingNotesQueue \in Seq(MidiNoteEvent) /\ Len(pendingNotesQueue) \in Nat
    BY LenProperties DEF NoteInv, TypeOK
  <2>1. CASE UNCHANGED pendingNotesQueue
    BY <2>1 DEF VoicesOf
  <2>2. CASE SendPendingMidiNoteOffMessages
    BY <2>0, <2>2, DroppingReleases DEF SendPendingMidiNoteOffMessages
  <2>3. ASSUME NEW n \in Notes, SendMidiNoteOnMessage(n), gateTimeMs > 0
        PROVE  Voices!Next
    <3>1. SendMidiNoteOnWithDelayedOffMessage(n)
      BY <2>3 DEF SendMidiNoteOnMessage
    <3> QED
      BY <3>1, HitStrikes DEF Voices!Next
  <2>4. CASE Reset
    <3>1. RemoveOldestNotes(pendingNotesQueue, Len(pendingNotesQueue)) = <<>>
      <4>1. /\ RemoveOldestNotes(pendingNotesQueue, Len(pendingNotesQueue)) \in Seq(MidiNoteEvent)
            /\ Len(RemoveOldestNotes(pendingNotesQueue, Len(pendingNotesQueue))) = 0
        BY <2>0, RemoveOldestLemma
      <4> QED
        BY <4>1, EmptySeq
    <3> QED
      BY <2>0, <2>4, <3>1, DroppingReleases DEF Reset
  <2> QED
    BY <2>1, <2>2, <2>3, <2>4
       DEF Next, Tick, Loop, PadsEvaluated, LoopFinished, Pads, SendMidiNoteOnMessage,
           SendMidiNoteOnOffMessage, Web, HandlePlayNote, SetGateTime, SetMidiOutputMode, vars
<1> QED
  BY <1>1, <1>2, NoteInvInit, NoteInvStep, PTL
     DEF Spec, ImplementsGatedVoices, Voices!Spec, VoicesOf
=============================================================================
