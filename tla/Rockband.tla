------------------------------ MODULE Rockband ------------------------------
(***************************************************************************)
(* The output as a Rock Band drum controller, or as a generic gamepad, on  *)
(* the USB device port (midi_transport_rockband.cpp).                      *)
(*                                                                         *)
(* A hit is held in the HID report for HoldMs.  The report of the          *)
(* controller has one button per colour for a pad and a cymbal, two flags  *)
(* that tell whether a pad or a cymbal is meant, and the hat switch that   *)
(* tells which colour the cymbal has; so a pad and a cymbal can be held    *)
(* together but no more, and the oldest hits make room for a new one.  A   *)
(* gamepad on the USB host port writes to the same report.                 *)
(***************************************************************************)
EXTENDS Naturals, FiniteSets, Sequences

CONSTANTS
  Modes,           (* the output modes that are chosen                      *)
  Strikes,         (* the notes played, <<note number, velocity>>           *)
  GamepadReports,  (* what the gamepad reports                              *)
  HoldMs,          (* HIT_HOLD_TIME_MS                                      *)
  ClockSize,       (* millis() counts modulo this, 2^32                     *)
  MaxPollMs        (* the longest time between two polls of the host        *)

RockbandAssumption ==
  /\ Modes \subseteq {"RockbandDrum", "GamepadUsb"}
  /\ HoldMs \in Nat /\ MaxPollMs \in Nat \ {0} /\ ClockSize \in Nat
  /\ MaxPollMs < HoldMs /\ HoldMs + 1 < ClockSize
  /\ \A s \in Strikes : s[2] \in 1..127

RBPads == <<"Red_Pad", "Yellow_Pad", "Blue_Pad", "Green_Pad">>
RBCymbals == <<"Yellow_Cymbal", "Blue_Cymbal", "Green_Cymbal">>
PadIds == RBPads \o RBCymbals \o <<"Kick", "HiHatPedal">>

PadNotes ==
  [Red_Pad |-> {31, 34, 37, 38, 39, 40}, Yellow_Pad |-> {48, 50},
   Blue_Pad |-> {45, 47}, Green_Pad |-> {41, 43},
   Yellow_Cymbal |-> {22, 26, 42, 46, 54}, Blue_Cymbal |-> {51, 53, 56, 59},
   Green_Cymbal |-> {49, 52, 55, 57}, Kick |-> {33, 35, 36}, HiHatPedal |-> {44}]

Pads == DOMAIN PadNotes
NoPad == "NoPad"
NoteToPadId(note) ==
  IF \E p \in Pads : note \in PadNotes[p]
  THEN CHOOSE p \in Pads : note \in PadNotes[p] ELSE NoPad

Elements(s) == {s[i] : i \in DOMAIN s}
IsPad(p) == p \in Elements(RBPads)
IsCymbal(p) == p \in Elements(RBCymbals)
Index(p) == CHOOSE i \in DOMAIN PadIds : PadIds[i] = p

ColourOf ==
  [Red_Pad |-> "red", Yellow_Pad |-> "yellow", Blue_Pad |-> "blue",
   Green_Pad |-> "green", Yellow_Cymbal |-> "yellow", Blue_Cymbal |-> "blue",
   Green_Cymbal |-> "green"]
Colours == {"red", "yellow", "blue", "green"}

VARIABLES
  now,         (* millis()                                                  *)
  mode,        (* the output mode while started, or "off"                   *)
  ids,         (* vendor and product id of the USB device                   *)
  origIds,     (* those before the start                                    *)
  hitInfos,    (* pad -> time and velocity of its hit; timeMs 0 is none     *)
  hidReport,   (* buttons, hat and velocities                               *)
  hung,        (* sendNoteOn() never returns                                *)
  endpoint,    (* <<the report handed to the endpoint>>, or empty           *)
  mounted,     (* the host has configured the device                        *)
  sincePoll,   (* ms since the host polled                                  *)
  updated,     (* the main loop ran in this ms (it takes at most 1 ms)      *)
  due,         (* held hits the host is to see, but has not yet (history)   *)
  offered      (* those of due that the report in the endpoint is to show   *)
               (* (history)                                                 *)

code == <<mode, ids, origIds, hitInfos, hidReport, hung>>
host == <<endpoint, mounted, sincePoll>>
history == <<due, offered>>
vars == <<now, code, host, updated, history>>

MidiIds == <<0, 0>>        (* of the USB-MIDI device                        *)
HarmonixIds == <<1, 1>>    (* usbVendorId, usbProductId                     *)
IsGenericGamepadMode == mode = "GamepadUsb"

NoHit == [timeMs |-> 0, velocity |-> 0]
NoVelocities == [c \in Colours |-> 0]
EmptyReport == [buttons |-> {}, hat |-> "CENTERED", velocities |-> NoVelocities]

-----------------------------------------------------------------------------
(* The gamepad: dpad is a set of directions, axes are bytes, pressed are   *)
(* the numbers of the generic buttons.                                     *)
HatOf(data) ==
  LET First(order) ==
        IF \E i \in DOMAIN order : order[i][2]
        THEN order[CHOOSE i \in DOMAIN order :
                     order[i][2] /\ \A j \in 1..(i - 1) : ~order[j][2]][1]
        ELSE "CENTERED"
  IN  IF data.hasDPad
      THEN First([i \in 1..4 |-> LET d == <<"UP", "DOWN", "LEFT", "RIGHT">>[i]
                                 IN  <<d, d \in data.dpad>>])
      ELSE IF data.hasAxes
           THEN First(<<<<"LEFT", data.x < 50>>, <<"RIGHT", data.x > 205>>,
                        <<"UP", data.y < 50>>, <<"DOWN", data.y > 205>>>>)
           ELSE "CENTERED"

GamepadNumbers ==
  [blue |-> {1}, red |-> {2}, green |-> {3}, yellow |-> {4},
   select |-> {5, 9}, start |-> {6, 10}, home |-> {7, 13}]

OnGamepadReportReceived(report, data) ==
  [report EXCEPT
     !.hat = HatOf(data),
     !.buttons = (@ \ DOMAIN GamepadNumbers)
       \cup {b \in DOMAIN GamepadNumbers : GamepadNumbers[b] \cap data.pressed # {}}]

-----------------------------------------------------------------------------
ElapsedMs(timeMs) == (now + ClockSize - timeMs) % ClockSize

IsHit(p) == hitInfos[p].timeMs # 0
IsExpired(p) == IsHit(p) /\ ElapsedMs(hitInfos[p].timeMs) > HoldMs

(* The velocities of the colours: the pad's, or the cymbal's; with both    *)
(* struck the cymbal's is in the place of red, the last cymbal winning.    *)
Velocities(pressed) ==
  LET Struck(p) == p \in pressed /\ hitInfos[p].velocity # 0
      PadOf(c) == CHOOSE p \in Elements(RBPads) : ColourOf[p] = c
      Doubled == {p \in Elements(RBCymbals) \cap pressed : Struck(PadOf(ColourOf[p]))}
  IN  [c \in Colours |->
         IF c = "red" /\ Doubled # {}
         THEN hitInfos[CHOOSE p \in Doubled :
                         \A q \in Doubled : Index(q) <= Index(p)].velocity
         ELSE IF Struck(PadOf(c)) THEN hitInfos[PadOf(c)].velocity
         ELSE IF \E p \in Elements(RBCymbals) \cap pressed : ColourOf[p] = c
              THEN hitInfos[CHOOSE p \in Elements(RBCymbals) \cap pressed :
                              ColourOf[p] = c].velocity
              ELSE 0]

GenericButtons ==
  [Yellow_Cymbal |-> "l3", Blue_Cymbal |-> "l2", Green_Cymbal |-> "r2"]
PedalButtons == [Kick |-> "kick", HiHatPedal |-> "hiHatPedal"]

ButtonOf(p) ==
  IF p \in DOMAIN PedalButtons THEN PedalButtons[p]
  ELSE IF IsGenericGamepadMode /\ IsCymbal(p) THEN GenericButtons[p]
  ELSE ColourOf[p]

(* l3 and r3 are isPadHit and isCymbalHit. *)
Buttons(pressed) ==
  {ButtonOf(p) : p \in pressed}
  \cup (IF ~IsGenericGamepadMode /\ \E p \in pressed : IsPad(p) THEN {"l3"} ELSE {})
  \cup (IF ~IsGenericGamepadMode /\ \E p \in pressed : IsCymbal(p) THEN {"r3"} ELSE {})

Hat(pressed) ==
  IF IsGenericGamepadMode THEN "CENTERED"
  ELSE IF "Blue_Cymbal" \in pressed THEN "DOWN"
  ELSE IF "Yellow_Cymbal" \in pressed THEN "UP"
  ELSE "CENTERED"

(* A plausible slip: the report is overwritten while a pad is pressed only. *)
BuildReportWhilePressed(report) ==
  LET pressed == {p \in Pads : IsHit(p) /\ ~IsExpired(p)}
  IN  [buttons    |-> IF pressed # {} THEN Buttons(pressed) ELSE report.buttons,
       hat        |-> IF pressed # {} THEN Hat(pressed) ELSE report.hat,
       velocities |-> Velocities(pressed)]

(* Buttons and hat of the gamepad are overwritten by drum events only. *)
BuildReport(report) ==
  LET pressed == {p \in Pads : IsHit(p) /\ ~IsExpired(p)}
      hasDrumEvent == \E p \in Pads : IsHit(p)
  IN  [buttons    |-> IF hasDrumEvent THEN Buttons(pressed) ELSE report.buttons,
       hat        |-> IF hasDrumEvent THEN Hat(pressed) ELSE report.hat,
       velocities |-> Velocities(pressed)]

IsHidReady == mounted /\ endpoint = <<>>

(* update(): the gamepad may report first; nothing is released while the   *)
(* host does not fetch the reports.                                        *)
Update ==
  /\ mode # "off" /\ ~hung /\ ~updated
  /\ updated' = TRUE
  /\ \E report \in {hidReport}
                     \cup {OnGamepadReportReceived(hidReport, d) : d \in GamepadReports} :
       IF IsHidReady
       THEN /\ hidReport' = BuildReport(report)
            /\ endpoint' = <<hidReport'>>
            /\ hitInfos' = [p \in Pads |-> IF IsExpired(p) THEN NoHit ELSE hitInfos[p]]
            /\ due' = {p \in due : ~IsExpired(p)}
            /\ offered' = due'
       ELSE hidReport' = report /\ UNCHANGED <<endpoint, hitInfos, history>>
  /\ UNCHANGED <<now, mode, ids, origIds, hung, mounted, sincePoll>>

-----------------------------------------------------------------------------
(* A time of UINT32_MAX is never the oldest; then pad 0 is cleared. *)
OldestHit(hits) ==
  LET old == {p \in Pads : hits[p].timeMs \in 1..(ClockSize - 2)}
      Older(p, q) == \/ hits[p].timeMs < hits[q].timeMs
                     \/ hits[p].timeMs = hits[q].timeMs /\ Index(p) <= Index(q)
  IN  IF old = {} THEN PadIds[1]
      ELSE CHOOSE p \in old : \A q \in old : Older(p, q)

RemoveOldestHit(hits) == [hits EXCEPT ![OldestHit(hits)] = NoHit]

(* A plausible slip: one pad may be held with any number of cymbals. *)
HasConflictOfPads(hits, newPad) ==
  LET numPads == Cardinality({p \in Pads : IsPad(p) /\ hits[p].timeMs # 0})
      numCymbals == Cardinality({p \in Pads : IsCymbal(p) /\ hits[p].timeMs # 0})
  IN  \/ IsPad(newPad) /\ numCymbals # 0 /\ numPads # 0
      \/ IsCymbal(newPad) /\ numPads > 1

HasConflict(hits, newPad) ==
  LET numPads == Cardinality({p \in Pads : IsPad(p) /\ hits[p].timeMs # 0})
      numCymbals == Cardinality({p \in Pads : IsCymbal(p) /\ hits[p].timeMs # 0})
  IN  \/ IsPad(newPad) /\ numCymbals # 0 /\ ~(numPads = 0 /\ numCymbals = 1)
      \/ IsCymbal(newPad) /\ numPads # 0 /\ ~(numCymbals = 0 /\ numPads = 1)

(* Removal goes on until there is no conflict; if nothing more can be      *)
(* removed it never ends.                                                  *)
Room(newPad) ==
  LET after[n \in 0..Len(PadIds)] ==
        IF n = 0 THEN hitInfos
        ELSE LET hits == after[n - 1]
             IN  IF HasConflict(hits, newPad) THEN RemoveOldestHit(hits) ELSE hits
  IN  after[Len(PadIds)]

(* A note of the drum kit.  At millis() = 0 the hit is lost, as 0 stands   *)
(* for none, although the hits in conflict with it were removed.           *)
SendNoteOn(note, velocity) ==
  LET p == NoteToPadId(note)
      room == Room(p)
  IN  /\ mode # "off" /\ ~hung
      /\ p # NoPad /\ ~IsHit(p)
      /\ IF HasConflict(room, p)
         THEN hung' = TRUE /\ hitInfos' = room
         ELSE /\ hitInfos' = [room EXCEPT ![p] = [timeMs |-> now, velocity |-> velocity]]
              /\ hung' = hung
      /\ due' = {q \in IF mounted THEN due \cup {p} ELSE due : hitInfos'[q].timeMs # 0}
      /\ offered' = (offered \cap due') \ {p}
      /\ UNCHANGED <<now, mode, ids, origIds, hidReport, host, updated>>

-----------------------------------------------------------------------------
(* The device is restarted with other descriptors, so the host finds a new *)
(* one; the hits and the report stay.                                      *)
Restarted == mounted' = FALSE /\ endpoint' = <<>> /\ sincePoll' = 0
             /\ due' = {} /\ offered' = {}

Start(newMode) ==
  /\ mode = "off" /\ newMode \in Modes
  /\ mode' = newMode
  /\ origIds' = ids
  /\ ids' = IF newMode = "RockbandDrum" THEN HarmonixIds ELSE <<ids[1], ids[2] + 1>>
  /\ hidReport' = [hidReport EXCEPT !.hat = "CENTERED"]
  /\ Restarted
  /\ UNCHANGED <<now, hitInfos, hung, updated>>

Stop ==
  /\ mode # "off" /\ ~hung
  /\ mode' = "off"
  /\ ids' = origIds
  /\ Restarted
  /\ UNCHANGED <<now, origIds, hitInfos, hidReport, hung, updated>>

(* The host. *)
Mount ==
  /\ mode # "off" /\ ~mounted
  /\ mounted' = TRUE /\ sincePoll' = 0
  /\ UNCHANGED <<now, code, endpoint, updated, history>>

Unmount == mounted /\ Restarted /\ UNCHANGED <<now, code, updated>>

(* What the console makes of a report: with both flags set the hat tells   *)
(* the colour of the cymbal, and the other colour, if any, is the pad's.   *)
Decoded(report) ==
  LET colours == report.buttons \cap Colours
      cymbal == IF report.hat = "UP" THEN "yellow"
                ELSE IF report.hat = "DOWN" THEN "blue" ELSE "green"
      pads == IF "l3" \notin report.buttons THEN {}
              ELSE IF "r3" \notin report.buttons THEN colours
              ELSE IF colours = {cymbal} THEN colours ELSE colours \ {cymbal}
      cymbals == IF "r3" \notin report.buttons THEN {}
                 ELSE IF "l3" \notin report.buttons THEN colours ELSE {cymbal}
  IN  IF mode = "RockbandDrum"
      THEN {p \in Elements(RBPads) : ColourOf[p] \in pads}
           \cup {p \in Elements(RBCymbals) : ColourOf[p] \in cymbals}
           \cup {p \in DOMAIN PedalButtons : PedalButtons[p] \in report.buttons}
      ELSE {p \in Pads : ButtonOf(p) \in report.buttons}

(* The velocity of a cymbal is in the place of red if its colour's is the  *)
(* pad's.                                                                  *)
DecodedVelocity(report, p) ==
  IF IsCymbal(p) /\ \E q \in Decoded(report) : IsPad(q) /\ ColourOf[q] = ColourOf[p]
  THEN report.velocities["red"] ELSE report.velocities[ColourOf[p]]

Poll ==
  /\ mounted
  /\ sincePoll' = 0
  /\ due' = IF endpoint = <<>> THEN due ELSE due \ (offered \cap Decoded(endpoint[1]))
  /\ offered' = {}
  /\ endpoint' = <<>>
  /\ UNCHANGED <<now, code, mounted, updated>>

Tick ==
  /\ mode # "off" => updated \/ hung
  /\ mounted => sincePoll < MaxPollMs
  /\ now' = (now + 1) % ClockSize
  /\ sincePoll' = IF mounted THEN sincePoll + 1 ELSE 0
  /\ updated' = FALSE
  /\ UNCHANGED <<code, endpoint, mounted, history>>

Init ==
  /\ now = 0 /\ mode = "off" /\ hung = FALSE
  /\ ids = MidiIds /\ origIds = MidiIds
  /\ hitInfos = [p \in Pads |-> NoHit]
  /\ hidReport = EmptyReport
  /\ endpoint = <<>> /\ mounted = FALSE /\ sincePoll = 0
  /\ updated = FALSE
  /\ due = {} /\ offered = {}

Next ==
  \/ Tick
  \/ Update
  \/ \E s \in Strikes : SendNoteOn(s[1], s[2])
  \/ \E m \in Modes : Start(m)
  \/ Stop
  \/ Mount
  \/ Unmount
  \/ Poll

Spec == Init /\ [][Next]_vars

-----------------------------------------------------------------------------
TypeOK ==
  /\ now \in 0..(ClockSize - 1) /\ mode \in Modes \cup {"off"} /\ hung \in BOOLEAN
  /\ hitInfos \in [Pads -> [timeMs : 0..(ClockSize - 1), velocity : 0..127]]
  /\ ids \in (0..2) \X (0..2) /\ (mode = "off" => ids = MidiIds)
  /\ mounted \in BOOLEAN /\ sincePoll \in 0..MaxPollMs /\ updated \in BOOLEAN
  /\ offered \subseteq due /\ due \subseteq Pads

(* A hit is held until the host, if it is there, has got a report that it  *)
(* can tell the hit from; only a newer hit in conflict with it may remove  *)
(* it before (isPadHit, removeOldestHit).                                  *)
HitsReachTheHost ==
  [][Update => \A p \in due : IsHit(p)']_vars

(* Every report tells the console exactly the hits that are held, with     *)
(* their velocities, although a gamepad writes to the same report and one  *)
(* button serves a pad and a cymbal; so no pad is mistaken for another one *)
(* and no button sticks.                                                   *)
ReportsTellTheHits ==
  [][mode = "RockbandDrum" /\ Update /\ endpoint' # endpoint =>
       LET report == endpoint'[1]
       IN  /\ Decoded(report) = {p \in Pads : IsHit(p)'}
           /\ \A p \in Decoded(report) \ DOMAIN PedalButtons :
                DecodedVelocity(report, p) = hitInfos[p].velocity]_vars

(* Room for a new hit is found; only in the last ms before millis() wraps  *)
(* around a hit may be taken that can never be removed.                    *)
RoomIsFound == hung => \E p \in Pads : hitInfos[p].timeMs = ClockSize - 1
=============================================================================
