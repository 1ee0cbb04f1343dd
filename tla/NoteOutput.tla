----------------------------- MODULE NoteOutput -----------------------------
(***************************************************************************)
(* The life of a MIDI note in the firmware: DrumKit's note output          *)
(* (drum_kit.cpp, drum_kit.h) and its NoteEventQueue (note_event_queue.h). *)
(*                                                                         *)
(* A pad hit sends a NoteOn.  With a gate time of 0 its NoteOff follows at *)
(* once; with a longer gate time the note is queued and the main loop      *)
(* sends the NoteOff at the first poll after the gate time has elapsed.    *)
(* Web commands are handled between two drum updates and may play a note,  *)
(* change the gate time, select another MIDI output or reset the board     *)
(* while notes are still queued.                                           *)
(*                                                                         *)
(* The clock is millis(), a counter of fixed width that wraps around.      *)
(***************************************************************************)
EXTENDS Naturals, Sequences

CONSTANTS
  Notes,         (* the MIDI notes that the mappings assign (without 255)   *)
  Modes,         (* the MIDI output modes of this board                     *)
  MaxPending,    (* MAX_PENDING_NOTES, the capacity of the queue            *)
  MaxGateMs,     (* MAX_GATE_TIME_MS, the upper limit of the gate time      *)
  GateRequests,  (* the gate times that configurations ask for              *)
  ClockSize,     (* millis() counts modulo this number, 2^32 in the code    *)
  MaxLoopMs      (* the longest time between two polls of the queue         *)

(* The main loop runs far more often than millis() needs to wrap around.   *)
ASSUME NoteOutputAssumption ==
  /\ MaxPending \in Nat \ {0}
  /\ MaxGateMs \in Nat \ {0}
  /\ GateRequests \subseteq Nat
  /\ MaxLoopMs \in Nat
  /\ ClockSize \in Nat
  /\ MaxGateMs + MaxLoopMs < ClockSize

VARIABLES
  phase,             (* where the main loop stands, see Phases              *)
  now,               (* millis()                                            *)
  sincePoll,         (* ms since the last poll, bounds the loop's duration  *)
  gateTimeMs,        (* DrumKit::gateTimeMs                                 *)
  pendingNotesQueue, (* DrumKit::pendingNotesQueue, the oldest note first   *)
  midiOutputMode,    (* the transport selected by the multiplexer           *)
  sounding,          (* the notes that the receiver at each output plays    *)
  abandoned,         (* what sounded where an output was left or the board  *)
                     (* was reset (history, read by properties only)        *)
  struckTwice        (* whether the NoteOn of this step met a note that     *)
                     (* sounded (history, read by properties only)          *)

vars == <<phase, now, sincePoll, gateTimeMs, pendingNotesQueue,
          midiOutputMode, sounding, abandoned, struckTwice>>

(* "poll": the NoteOffs are due, "pads": the pads are evaluated (both in   *)
(* DrumKit::updateDrums), "web": network and transports are updated.       *)
Phases == {"poll", "pads", "web"}

Clock == 0..(ClockSize - 1)
MidiNoteEvent == [note : Notes, noteOnTimeMs : Clock]

-----------------------------------------------------------------------------
(* NoteEventQueue.                                                         *)

PendingNotes(queue) == {queue[i].note : i \in DOMAIN queue}

(* Plausible slips: the check is off by one in either direction. *)
IsFullLate(queue) == Len(queue) > MaxPending
IsFullEarly(queue) == Len(queue) + 1 >= MaxPending

IsFull(queue) == Len(queue) >= MaxPending

(* memmove of the entries behind index *)
RemoveIndex(queue, index) ==
  [i \in 1..(Len(queue) - 1) |-> IF i < index THEN queue[i] ELSE queue[i + 1]]

(* A plausible slip: the note is searched but not taken out. *)
KeepNote(queue, note) == queue

(* all entries but the first one that holds the note *)
RemoveNote(queue, note) ==
  IF note \in PendingNotes(queue)
  THEN RemoveIndex(queue, CHOOSE i \in DOMAIN queue :
                            /\ queue[i].note = note
                            /\ \A j \in 1..(i - 1) : queue[j].note # note)
  ELSE queue

(* A plausible slip: the newest notes are taken out instead of the oldest. *)
RemoveNewestNotes(queue, count) ==
  [i \in 1..(Len(queue) - count) |-> queue[i]]

RemoveOldestNotes(queue, count) ==
  [i \in 1..(Len(queue) - count) |-> queue[i + count]]

(* A plausible slip: the note is put in front of the older ones. *)
AddNoteInFront(queue, note, timeMs) ==
  IF IsFull(queue) THEN queue
  ELSE <<[note |-> note, noteOnTimeMs |-> timeMs]>> \o queue

(* a full queue drops the note *)
AddNote(queue, note, timeMs) ==
  IF IsFull(queue) THEN queue
  ELSE Append(queue, [note |-> note, noteOnTimeMs |-> timeMs])

-----------------------------------------------------------------------------
(* What the receiver at the selected output hears.                         *)

NoteOn(heard, note) == heard \cup {note}
NoteOffs(heard, notes) == heard \ notes

(* what the receiver plays after the messages of this step                 *)
Send(heard) ==
  /\ sounding' = [sounding EXCEPT ![midiOutputMode] = heard]
  /\ abandoned' = {a \in abandoned : a[1] # midiOutputMode \/ a[2] \in heard}

SendNothing ==
  /\ UNCHANGED <<sounding, abandoned>>
  /\ struckTwice' = FALSE

Heard == sounding[midiOutputMode]

(* A NoteOn without a NoteOff before it, when the receiver plays "heard";  *)
(* notes that were left behind are not to blame on this step.              *)
ObserveNoteOn(heard, note) ==
  struckTwice' = (note \in heard /\ <<midiOutputMode, note>> \notin abandoned)

(* A plausible slip: a signed difference, negative after the wrap-around. *)
ElapsedSigned(since) == IF now >= since THEN now - since ELSE 0

(* unsigned difference of two millis() values *)
ElapsedMs(since) == (now + ClockSize - since) % ClockSize

(* setGateTime() limits every request. *)
Clamped(requestMs) == IF requestMs > MaxGateMs THEN MaxGateMs ELSE requestMs

-----------------------------------------------------------------------------
(* The board has started with the configuration on its file system.        *)
Init ==
  /\ phase = "poll"
  /\ now = 0
  /\ sincePoll = 0
  /\ gateTimeMs \in {Clamped(r) : r \in GateRequests}
  /\ pendingNotesQueue = <<>>
  /\ midiOutputMode \in Modes
  /\ sounding = [m \in Modes |-> {}]
  /\ abandoned = {}
  /\ struckTwice = FALSE

(* time passes, in whichever phase of the loop *)
Tick ==
  /\ sincePoll < MaxLoopMs
  /\ sincePoll' = sincePoll + 1
  /\ now' = (now + 1) % ClockSize
  /\ SendNothing
  /\ UNCHANGED <<phase, gateTimeMs, pendingNotesQueue, midiOutputMode>>

(* The poll stops at the first note whose gate time has not elapsed yet.   *)
SendPendingMidiNoteOffMessages ==
  /\ phase = "poll"
  /\ phase' = "pads"
  /\ sincePoll' = 0
  /\ \E count \in 0..Len(pendingNotesQueue) :
       /\ \A i \in 1..count :
            ElapsedMs(pendingNotesQueue[i].noteOnTimeMs) >= gateTimeMs
       /\ count < Len(pendingNotesQueue) =>
            ElapsedMs(pendingNotesQueue[count + 1].noteOnTimeMs) < gateTimeMs
       /\ pendingNotesQueue' = RemoveOldestNotes(pendingNotesQueue, count)
       /\ Send(NoteOffs(Heard, {pendingNotesQueue[i].note : i \in 1..count}))
  /\ struckTwice' = FALSE
  /\ UNCHANGED <<now, gateTimeMs, midiOutputMode>>

(* The NoteOn and the NoteOff right after it, whatever sounds.             *)
SendMidiNoteOnOffMessage(note) ==
  /\ ObserveNoteOn(Heard, note)
  /\ Send(NoteOffs(NoteOn(Heard, note), {note}))
  /\ UNCHANGED pendingNotesQueue

(* A plausible slip: the note that still sounds is struck without a stop. *)
RestrikeWithDelayedOff(note) ==
  LET others  == RemoveNote(pendingNotesQueue, note)
      oldest  == IF IsFull(others) THEN {others[1].note} ELSE {}
      kept    == IF IsFull(others) THEN RemoveOldestNotes(others, 1) ELSE others
  IN /\ ObserveNoteOn(Heard, note)
     /\ Send(NoteOffs(NoteOn(Heard, note), oldest))
     /\ pendingNotesQueue' = AddNote(kept, note, now)

(* A note that still sounds is stopped before it is struck again; a full   *)
(* queue gives up its oldest note.                                         *)
SendMidiNoteOnWithDelayedOffMessage(note) ==
  LET playing == {note} \cap PendingNotes(pendingNotesQueue)
      others  == RemoveNote(pendingNotesQueue, note)
      oldest  == IF IsFull(others) THEN {others[1].note} ELSE {}
      kept    == IF IsFull(others) THEN RemoveOldestNotes(others, 1) ELSE others
      stopped == NoteOffs(Heard, playing)
  IN /\ ObserveNoteOn(stopped, note)
     /\ Send(NoteOffs(NoteOn(stopped, note), oldest))
     /\ pendingNotesQueue' = AddNote(kept, note, now)

(* A hit, a chick or another event of a pad whose mapping assigns a note;  *)
(* nothing is sent for an unassigned one.                                  *)
SendMidiNoteOnMessage(note) ==
  /\ phase = "pads"
  /\ IF gateTimeMs > 0
     THEN SendMidiNoteOnWithDelayedOffMessage(note)
     ELSE SendMidiNoteOnOffMessage(note)
  /\ UNCHANGED <<phase, now, sincePoll, gateTimeMs, midiOutputMode>>

(* the other pads had no event, or a latency test replaces them all *)
PadsEvaluated ==
  /\ phase = "pads"
  /\ phase' = "web"
  /\ SendNothing
  /\ UNCHANGED <<now, sincePoll, gateTimeMs, pendingNotesQueue, midiOutputMode>>

LoopFinished ==
  /\ phase = "web"
  /\ phase' = "poll"
  /\ SendNothing
  /\ UNCHANGED <<now, sincePoll, gateTimeMs, pendingNotesQueue, midiOutputMode>>

-----------------------------------------------------------------------------
(* Web commands.                                                           *)

(* The note button of a mapping, or the note that starts a latency test.   *)
(* It is not stopped first if it sounds, and what is queued stays queued.  *)
HandlePlayNote(note) ==
  /\ phase = "web"
  /\ SendMidiNoteOnOffMessage(note)
  /\ UNCHANGED <<phase, now, sincePoll, gateTimeMs, midiOutputMode>>

SetGateTime(requestMs) ==
  /\ phase = "web"
  /\ gateTimeMs' = Clamped(requestMs)
  /\ UNCHANGED <<phase, now, sincePoll, pendingNotesQueue, midiOutputMode>>
  /\ SendNothing

(* The old transport is stopped, which sends no NoteOff, the new one is    *)
(* started, and the queue is kept.                                         *)
SetMidiOutputMode(mode) ==
  /\ phase = "web"
  /\ midiOutputMode # mode
  /\ midiOutputMode' = mode
  /\ abandoned' = abandoned \cup {<<midiOutputMode, n>> : n \in Heard}
  /\ struckTwice' = FALSE
  /\ UNCHANGED <<phase, now, sincePoll, gateTimeMs, pendingNotesQueue, sounding>>

(* The board restarts with the configuration on its file system; the       *)
(* receivers go on playing what they were told to.                         *)
Reset ==
  /\ phase = "web"
  /\ phase' = "poll"
  /\ now' = 0
  /\ sincePoll' = 0
  /\ gateTimeMs' \in {Clamped(r) : r \in GateRequests}
  /\ midiOutputMode' \in Modes
  /\ pendingNotesQueue' = <<>>
  /\ abandoned' = abandoned \cup {<<midiOutputMode, n>> : n \in Heard}
  /\ struckTwice' = FALSE
  /\ UNCHANGED sounding

-----------------------------------------------------------------------------
Loop == SendPendingMidiNoteOffMessages \/ PadsEvaluated \/ LoopFinished

Pads == \E note \in Notes : SendMidiNoteOnMessage(note)

Web ==
  \/ \E note \in Notes : HandlePlayNote(note)
  \/ \E requestMs \in GateRequests : SetGateTime(requestMs)
  \/ \E mode \in Modes : SetMidiOutputMode(mode)
  \/ Reset

Next == Tick \/ Loop \/ Pads \/ Web

Spec == Init /\ [][Next]_vars

(* loop() is called forever and time passes; no user has to do anything.   *)
FairSpec == Spec /\ WF_vars(Loop) /\ WF_vars(Tick)
-----------------------------------------------------------------------------
(* Properties.                                                             *)

(* Every variable has its type; the queue never exceeds its array.         *)
TypeOK ==
  /\ phase \in Phases
  /\ now \in Clock
  /\ sincePoll \in 0..MaxLoopMs
  /\ gateTimeMs \in 0..MaxGateMs
  /\ pendingNotesQueue \in Seq(MidiNoteEvent)
  /\ Len(pendingNotesQueue) <= MaxPending
  /\ midiOutputMode \in Modes
  /\ sounding \in [Modes -> SUBSET Notes]
  /\ abandoned \subseteq Modes \X Notes
  /\ struckTwice \in BOOLEAN

(* note_event_queue.h:51 "every note should be unique in the queue": what  *)
(* lets removeNote() stop at the first entry it finds.                     *)
NotesAreUnique ==
  \A i, j \in DOMAIN pendingNotesQueue :
    pendingNotesQueue[i].note = pendingNotesQueue[j].note => i = j

(* No hanging notes: whatever a receiver plays is either queued for its    *)
(* NoteOff on the selected output, or was left behind by a change of the   *)
(* output or a reset.                                                      *)
SoundingNotesAreQueued ==
  \A m \in Modes, n \in Notes :
    <<m, n>> \notin abandoned /\ n \in sounding[m] =>
      /\ m = midiOutputMode
      /\ n \in PendingNotes(pendingNotesQueue)

(* A pad strikes no note that still sounds without stopping it first       *)
(* (drum_kit.cpp:200 "stop note if it is already playing"), also when the  *)
(* queue is full, when the page has set the gate time to 0, so that hits   *)
(* are not looked up in the queue any more, or has played the note.  The   *)
(* page itself does strike a note that sounds (drum_kit.cpp:192).          *)
PadsStopBeforeTheyStrike == struckTwice => phase = "web"

(* The life of a note, with both hazards of the queue.                     *)
NoNoteHangs == SoundingNotesAreQueued /\ PadsStopBeforeTheyStrike

(* The poll looks at the oldest entry only and stops at the first one that *)
(* is not due.  Still no note is overlooked, across the wrap-around of     *)
(* millis(): after a poll every queued note is younger than the gate time  *)
(* (plus what the pads took since), so with a gate time of 0 nothing is    *)
(* queued while pads are evaluated.                                        *)
NoNoteIsOverdue ==
  phase = "pads" =>
    \A i \in DOMAIN pendingNotesQueue :
      ElapsedMs(pendingNotesQueue[i].noteOnTimeMs) < gateTimeMs + sincePoll

Entries(queue) == {queue[i] : i \in DOMAIN queue}

(* The queue keeps a note until its gate time is over, unless the note is  *)
(* struck again, or the queue is full and no queued note is older, or the  *)
(* board is reset.                                                         *)
NotesAreKeptForTheGateTime ==
  [][\A e \in Entries(pendingNotesQueue) \ Entries(pendingNotesQueue') :
       \/ ElapsedMs(e.noteOnTimeMs) >= gateTimeMs
       \/ e.note \in PendingNotes(pendingNotesQueue')
       \/ /\ IsFull(pendingNotesQueue)
          /\ \A other \in Entries(pendingNotesQueue) :
               ElapsedMs(other.noteOnTimeMs) <= ElapsedMs(e.noteOnTimeMs)
       \/ pendingNotesQueue' = <<>> /\ now' = 0]_vars

(* No note stays queued forever, whatever the user does with the gate time *)
(* and the output, and although millis() wraps around: for every time of   *)
(* the clock there are always moments without a note queued at that time.  *)
EveryNoteIsReleased ==
  \A t \in Clock :
    []<>(\A i \in DOMAIN pendingNotesQueue :
           pendingNotesQueue[i].noteOnTimeMs # t)

(* The queue is a set of voices that are given away and taken back in the  *)
(* order of their age (the abstract view of GatedVoices).                  *)
Voices == INSTANCE GatedVoices WITH
            MaxVoices <- MaxPending,
            voices <- [i \in DOMAIN pendingNotesQueue |-> pendingNotesQueue[i].note]

(* Every step of the note output is a step of GatedVoices or none: a note  *)
(* is struck, restruck or stolen from the oldest one, and notes are        *)
(* released oldest first.                                                  *)
ImplementsGatedVoices == Voices!Spec
=============================================================================
