---------------------------- MODULE GuitarHeroSpi ----------------------------
(***************************************************************************)
(* The output to the board of a wired Guitar Hero drum kit, which asks for *)
(* the hits over SPI (midi_transport_guitar_hero_spi.cpp).                 *)
(*                                                                         *)
(* Chip select falls, the console sends 0xAA and reads the number of hits; *)
(* if there are any it sends 0x55 and reads them; chip select rises.  The  *)
(* firmware answers in interrupts, which fall between any two notes of the *)
(* main loop.  The console may give up, or ask again, at any point.        *)
(***************************************************************************)
EXTENDS GuitarHeroPads, Sequences, SequencesExt

CONSTANT Strikes     (* the notes played, <<note number, velocity>>         *)

StrikesAssumption == \A s \in Strikes : s[2] \in 1..127

VARIABLES
  started,             (* the transport is selected                         *)
  pendingPadHits,      (* pad -> velocity, 0 for none                       *)
  midiNoteBuffer,      (* the messages for the console                      *)
  midiNoteBufferCount, (* how many of them count                            *)
  tx,                  (* <<what the SPI device shifts out next>>           *)
  console,             (* what the console has done since chip select fell  *)
  missing              (* pad -> velocities struck and not heard (history)  *)

code == <<started, pendingPadHits, midiNoteBuffer, midiNoteBufferCount, tx>>
vars == <<code, console, missing>>

Preamble == [kind |-> "preamble"]
CountOf(n) == [kind |-> "count", n |-> n]
NotesOf(messages) == [kind |-> "notes", messages |-> messages]

(* The messages of the pending hits, in the order of the pads. *)
PendingMessages ==
  LET ofFirst[n \in 0..Len(PadIds)] ==
        IF n = 0 THEN <<>>
        ELSE IF pendingPadHits[PadIds[n]] = 0 THEN ofFirst[n - 1]
        ELSE Append(ofFirst[n - 1],
                    <<PadIndexToNote(PadIds[n]), pendingPadHits[PadIds[n]]>>)
  IN  ofFirst[Len(PadIds)]

(* A plausible slip: the hits are collected but not taken. *)
CollectAgain ==
  /\ midiNoteBuffer' = PendingMessages
  /\ midiNoteBufferCount' = Len(midiNoteBuffer')
  /\ tx' = <<CountOf(midiNoteBufferCount')>>
  /\ pendingPadHits' = pendingPadHits

(* handleDataReceived(0xAA) *)
Collect ==
  /\ midiNoteBuffer' = PendingMessages
  /\ midiNoteBufferCount' = Len(midiNoteBuffer')
  /\ tx' = <<CountOf(midiNoteBufferCount')>>
  /\ pendingPadHits' = [p \in Pads |-> 0]

(* handleDataReceived(0x55). *)
Offer ==
  IF midiNoteBufferCount > 0
  THEN /\ tx' = <<NotesOf(SubSeq(midiNoteBuffer, 1, midiNoteBufferCount))>>
       /\ midiNoteBufferCount' = 0
       /\ UNCHANGED <<pendingPadHits, midiNoteBuffer>>
  ELSE UNCHANGED <<pendingPadHits, midiNoteBuffer, midiNoteBufferCount, tx>>

-----------------------------------------------------------------------------
(* The hits that are on their way: in the buffer or in the SPI device. *)
Messages ==
  IF console \in {"asked", "counted"}
  THEN SubSeq(midiNoteBuffer, 1, midiNoteBufferCount)
  ELSE IF console = "fetching" /\ tx # <<>> /\ tx[1].kind = "notes"
       THEN tx[1].messages ELSE <<>>

(* The velocities of the messages that are about a pad. *)
VelocitiesOf(p, messages) ==
  LET ofFirst[n \in 0..Len(messages)] ==
        IF n = 0 THEN <<>>
        ELSE IF p \in NoteToPadIds(messages[n][1])
             THEN Append(ofFirst[n - 1], messages[n][2]) ELSE ofFirst[n - 1]
  IN  ofFirst[Len(messages)]

Pending(p) == IF pendingPadHits[p] = 0 THEN <<>> ELSE <<pendingPadHits[p]>>

(* Who gives up renounces what is on its way. *)
Renounce == missing' = [p \in Pads |-> Pending(p)]

SendNoteOn(note, velocity) ==
  /\ started
  /\ \E p \in NoteToPadIds(note) :
       /\ pendingPadHits' = [pendingPadHits EXCEPT ![p] = velocity]
       /\ missing' = [missing EXCEPT ![p] =
                        Append(IF pendingPadHits[p] = 0 THEN @ ELSE Front(@), velocity)]
  /\ UNCHANGED <<started, midiNoteBuffer, midiNoteBufferCount, tx, console>>

Start ==
  /\ ~started /\ started' = TRUE
  /\ tx' = <<Preamble>>
  /\ UNCHANGED <<pendingPadHits, midiNoteBuffer, midiNoteBufferCount, console, missing>>

(* The hits that wait keep waiting for the next start. *)
Stop ==
  /\ started /\ started' = FALSE
  /\ tx' = <<>>
  /\ console' = "idle"
  /\ Renounce
  /\ UNCHANGED <<pendingPadHits, midiNoteBuffer, midiNoteBufferCount>>

-----------------------------------------------------------------------------
Select ==
  /\ started /\ console = "idle"
  /\ console' = "selected"
  /\ UNCHANGED <<code, missing>>

(* 0xAA, also repeated before the hits were fetched. *)
Ask ==
  /\ console \in {"selected", "asked", "counted"}
  /\ Collect
  /\ console' = "asked"
  /\ IF console = "selected" THEN UNCHANGED missing ELSE Renounce
  /\ UNCHANGED started

ReadCount ==
  /\ console = "asked" /\ tx # <<>> /\ tx[1].kind = "count"
  /\ tx' = <<>>
  /\ console' = IF tx[1].n = 0 THEN "done" ELSE "counted"
  /\ UNCHANGED <<started, pendingPadHits, midiNoteBuffer, midiNoteBufferCount, missing>>

(* 0x55 *)
Fetch ==
  /\ console = "counted"
  /\ Offer
  /\ console' = "fetching"
  /\ UNCHANGED <<started, missing>>

ReadNotes ==
  /\ console = "fetching" /\ tx # <<>> /\ tx[1].kind = "notes"
  /\ tx' = <<>>
  /\ console' = "done"
  /\ missing' = [p \in Pads |->
                   LET n == Len(VelocitiesOf(p, tx[1].messages))
                   IN  SubSeq(missing[p], n + 1, Len(missing[p]))]
  /\ UNCHANGED <<started, pendingPadHits, midiNoteBuffer, midiNoteBufferCount>>

(* reinitializeSPI(): chip select rises. *)
Deselect ==
  /\ console # "idle"
  /\ console' = "idle"
  /\ tx' = <<Preamble>>
  /\ Renounce
  /\ UNCHANGED <<started, pendingPadHits, midiNoteBuffer, midiNoteBufferCount>>

Init ==
  /\ started = FALSE
  /\ pendingPadHits = [p \in Pads |-> 0]
  /\ midiNoteBuffer = <<>> /\ midiNoteBufferCount = 0
  /\ tx = <<>>
  /\ console = "idle"
  /\ missing = [p \in Pads |-> <<>>]

Next ==
  \/ \E s \in Strikes : SendNoteOn(s[1], s[2])
  \/ Start
  \/ Stop
  \/ Select
  \/ Ask
  \/ ReadCount
  \/ Fetch
  \/ ReadNotes
  \/ Deselect

Spec == Init /\ [][Next]_vars

-----------------------------------------------------------------------------
TypeOK ==
  /\ started \in BOOLEAN
  /\ pendingPadHits \in [Pads -> 0..127]
  /\ midiNoteBufferCount \in 0..Len(midiNoteBuffer)
  /\ Len(midiNoteBuffer) <= Len(PadIds)
  /\ Len(tx) <= 1
  /\ console \in {"idle", "selected", "asked", "counted", "fetching", "done"}
  /\ missing \in [Pads -> Seq(1..127)]

(* Every hit that the console has neither heard nor renounced is on its    *)
(* way or waits, in the order it was struck, whichever interrupts fall     *)
(* between the notes (pendingPadHits, midiNoteBuffer).                     *)
NoHitIsLost ==
  \A p \in Pads : missing[p] = VelocitiesOf(p, Messages) \o Pending(p)

(* What the console hears was struck, with this velocity, and was not      *)
(* heard before (handleDataReceived).                                      *)
HitsAreHeardOnce ==
  [][ReadNotes =>
       \A p \in Pads :
         LET heard == VelocitiesOf(p, tx[1].messages)
         IN  Len(heard) <= 1 /\ IsPrefix(heard, missing[p])]_vars
=============================================================================
