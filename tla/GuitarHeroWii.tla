---------------------------- MODULE GuitarHeroWii ----------------------------
(***************************************************************************)
(* The output as the drum kit of a Wii remote (the report side of          *)
(* midi_transport_guitar_hero_wii.cpp and wiimote_btstack.c; the link is   *)
(* in WiiLink).                                                            *)
(*                                                                         *)
(* The main loop stores the hits; the Bluetooth stack, which interrupts    *)
(* the main loop, fetches them whenever a report can be sent.  The stores  *)
(* of a hit are separate, and the compiler may reorder them.               *)
(***************************************************************************)
EXTENDS Wiimote, GuitarHeroPads, FiniteSets

CONSTANTS
  Strikes,         (* the notes played, <<note number, velocity>>           *)
  GamepadReports,  (* what a gamepad reports: pad buttons 1..4, and others  *)
  Requests,        (* the reports of the console                            *)
  MaxQueue,        (* the console waits if so many answers are due          *)
  HoldMs,          (* HIT_HOLD_TIME_MS                                      *)
  ClockSize        (* millis() counts modulo this, 2^32                     *)

(* The console asks for reports that there are, it writes data, and it     *)
(* says how many bytes it reads.                                           *)
WiiAssumption ==
  /\ HoldMs \in Nat /\ ClockSize \in Nat /\ HoldMs + 2 < ClockSize
  /\ MaxQueue \in Nat \ {0}
  /\ \A s \in Strikes : s[2] \in 1..127
  /\ \A r \in Requests :
       /\ r.id = "12" => r.mode \in DataModes
       /\ r.id = "16" /\ r.register = "a4" => r.data # "nothing"
       /\ r.id = "17" => r.size \in Nat

VARIABLES
  now,          (* millis()                                                 *)
  hitTimesMs,   (* pad -> time of its hit, 0 for none                       *)
  wii_report,   (* what the console is to be shown                          *)
  wasPressed,   (* a pad button of the gamepad is down                      *)
  storing,      (* <<the hit whose stores are under way>>                   *)
  input_report, (* what the emulator was given last                         *)
  wiimote,      (* the emulated remote                                      *)
  console,      (* what the console assumes of the encryption, the writes   *)
                (* it awaits the answers of, the parts of the key it wrote, *)
                (* and whether it was told of an extension                  *)
  sent          (* <<the report that is on its way>>                        *)

code == <<hitTimesMs, wii_report, wasPressed, storing, input_report, wiimote>>
link == <<console, sent>>
vars == <<now, code, link>>

NewWiiReport == [buttons |-> {}, pressed |-> {}, midi |-> NoMidi, resetIr |-> TRUE]
EmptyReport == [NewWiiReport EXCEPT !.resetIr = FALSE]
FreshConsole == [key |-> "unknown", awaits |-> <<>>, parts |-> <<>>, told |-> FALSE]

(* start(): the hit times of the last time remain. *)
Begin ==
  /\ wii_report' = NewWiiReport
  /\ input_report' = EmptyReport
  /\ wiimote' = New
  /\ console' = FreshConsole
  /\ sent' = <<>>

Restart ==
  /\ storing = <<>>
  /\ Begin
  /\ UNCHANGED <<now, hitTimesMs, wasPressed, storing>>

-----------------------------------------------------------------------------
(* A store of triggerPadHit(); the time is taken when it is stored.  The   *)
(* channel goes with the note.                                             *)
Store ==
  /\ storing # <<>>
  /\ \E what \in storing[1].left :
       LET s == [storing[1] EXCEPT !.left = @ \ {what}]
       IN  /\ storing' = IF s.left = {} THEN <<>> ELSE <<s>>
           /\ CASE what = "velocity" ->
                     /\ wii_report' = [wii_report EXCEPT !.midi.velocity = s.velocity]
                     /\ UNCHANGED hitTimesMs
                [] what = "note" ->
                     /\ wii_report' = [wii_report EXCEPT !.midi.note = s.note]
                     /\ UNCHANGED hitTimesMs
                [] what = "time" ->
                     /\ hitTimesMs' = [hitTimesMs EXCEPT ![s.pad] = now]
                     /\ UNCHANGED wii_report
  /\ UNCHANGED <<now, wasPressed, input_report, wiimote, link>>

TriggerPadHit(pad, velocity, note) ==
  storing' = <<[pad |-> pad, velocity |-> velocity, note |-> note,
                left |-> {"velocity", "note", "time"}]>>

SendNoteOn(note, velocity) ==
  /\ storing = <<>>
  /\ \E p \in NoteToPadIds(note) : TriggerPadHit(p, velocity, PadIndexToNote(p))
  /\ UNCHANGED <<now, hitTimesMs, wii_report, wasPressed, input_report, wiimote, link>>

(* The pads are on the first four buttons; the first that is down counts,  *)
(* and no other hits while one is down.  The third is A as well.  The      *)
(* sticks follow the direction pad.                                        *)
GamepadPads == <<"Yellow", "Red", "Green", "Blue">>

OnGamepadReportReceived(data) ==
  LET down == data.pads
      first == CHOOSE i \in down : \A j \in down : i <= j
  IN  /\ storing = <<>>
      /\ wii_report' = [wii_report EXCEPT !.buttons =
                          data.buttons \cup (IF down # {} /\ first = 3 THEN {"a"} ELSE {})]
      /\ IF down # {} /\ ~wasPressed
         THEN TriggerPadHit(GamepadPads[first], 100, PadIndexToNote(GamepadPads[first]))
         ELSE storing' = storing
      /\ wasPressed' = (down # {})
      /\ UNCHANGED <<now, hitTimesMs, input_report, wiimote, link>>

-----------------------------------------------------------------------------
ElapsedMs(timeMs) == (now + ClockSize - timeMs) % ClockSize

IsPadHit(p) == hitTimesMs[p] # 0 /\ ElapsedMs(hitTimesMs[p]) <= HoldMs
IsReleased(p) == hitTimesMs[p] # 0 /\ ElapsedMs(hitTimesMs[p]) > HoldMs

(* A plausible slip: a button is let go by the next hit only. *)
ShownSticky == {p \in Pads : IsPadHit(p) \/ (p \in wii_report.pressed /\ ~IsReleased(p))}
               \cup (wii_report.pressed \cap {p \in Pads : IsReleased(p)})

(* setClassicButton(): a button whose time is 0 stays as it is. *)
Shown == {p \in Pads : IsPadHit(p) \/ (p \in wii_report.pressed /\ ~IsReleased(p))}

(* input_update_wiimote() with a report that has changed; once the         *)
(* extension is plugged in.                                                *)
TakeInput(w, report) ==
  [w EXCEPT !.extension = IF report.resetIr THEN "drum" ELSE @,
            !.buttons = report.buttons, !.pressed = report.pressed, !.midi = report.midi]

TakesInput == wiimote.queue = <<>>

(* send_data(): the input is read if no answer waits.  reset_ir stays set  *)
(* in wii_report, so that every report counts as changed.                  *)
SendData ==
  /\ sent = <<>>
  /\ LET report == [wii_report EXCEPT !.pressed = Shown]
         changed == TakesInput /\ report # input_report
         generated == GenerateReport(IF changed THEN TakeInput(wiimote, report) ELSE wiimote,
                                     changed)
     IN  /\ IF TakesInput
            THEN /\ hitTimesMs' = [p \in Pads |-> IF IsReleased(p) THEN 0 ELSE hitTimesMs[p]]
                 /\ wii_report' = [report EXCEPT !.midi = NoMidi]
                 /\ input_report' = [report EXCEPT !.resetIr = IF changed THEN FALSE ELSE @]
            ELSE UNCHANGED <<hitTimesMs, wii_report, input_report>>
         /\ wiimote' = generated.w
         /\ sent' = generated.sent
         /\ UNCHANGED <<now, wasPressed, storing, console>>

(* The console reads a report: the answer to a write tells it that from    *)
(* now on reports are in clear, or in its key.                             *)
ConsoleReads ==
  /\ sent # <<>>
  /\ sent' = <<>>
  /\ LET report == sent[1].report
     IN  console' =
           IF report.type = "22" /\ report.of = "16" /\ console.awaits # <<>>
           THEN [console EXCEPT !.key = IF Head(console.awaits) = "nothing" THEN @
                                        ELSE Head(console.awaits),
                                !.awaits = Tail(@)]
           ELSE IF report.type = "20"
           THEN [console EXCEPT !.told = report.extensionConnected]
           ELSE console
  /\ UNCHANGED <<now, code>>

(* What the console knows of the encryption once r is answered. *)
KeyAfter(r) ==
  CASE r.register = "a4" /\ r.address = "f0" /\ r.data = "55" -> NoKey
    [] r.register = "a4" /\ r.address = "f0" /\ r.data = "aa" -> "unknown"
    [] r.register = "a4" /\ r.address = "4c" -> r.data
    [] r.register = "a4" /\ r.address \in {"40", "46"} -> "unknown"
    [] OTHER -> "nothing"

(* The console writes to an extension that it was told of, and the parts   *)
(* of one key in order.                                                    *)
PartNumber(r) == CASE r.address = "40" -> 1 [] r.address = "46" -> 2
                   [] r.address = "4c" -> 3 [] OTHER -> 0
IsSensible(r) ==
  r.id = "16" /\ r.register = "a4" =>
    /\ console.told
    /\ PartNumber(r) > 1 =>
         /\ Len(console.parts) = PartNumber(r) - 1
         /\ \A i \in DOMAIN console.parts : console.parts[i] = r.data

(* The parts of the key that were written, once r is. *)
PartsAfter(r) ==
  IF r.register # "a4" THEN console.parts
  ELSE CASE PartNumber(r) = 0 -> <<>>
         [] PartNumber(r) = 1 -> <<r.data>>
         [] OTHER -> Append(console.parts, r.data)

(* receive_data_wii() *)
Receive(r) ==
  /\ Len(wiimote.queue) < MaxQueue /\ IsSensible(r)
  /\ wiimote' = ProcessReport(wiimote, r)
  /\ console' = IF r.id = "16" /\ r.register # "eeprom"
                THEN [console EXCEPT !.awaits = Append(@, KeyAfter(r)),
                                     !.parts = PartsAfter(r)]
                ELSE console
  /\ UNCHANGED <<now, hitTimesMs, wii_report, wasPressed, storing, input_report,
                 sent>>

(* The connection is lost and opened again: the remote keeps its state. *)
Reconnect ==
  /\ console' = FreshConsole
  /\ sent' = <<>>
  /\ UNCHANGED <<now, code>>

Tick ==
  /\ storing = <<>>
  /\ now' = (now + 1) % ClockSize
  /\ UNCHANGED <<code, link>>

Init ==
  /\ now = 0
  /\ hitTimesMs = [p \in Pads |-> 0]
  /\ wii_report = NewWiiReport /\ input_report = EmptyReport
  /\ wasPressed = FALSE /\ storing = <<>>
  /\ wiimote = New
  /\ console = FreshConsole
  /\ sent = <<>>

Next ==
  \/ Tick
  \/ \E s \in Strikes : SendNoteOn(s[1], s[2])
  \/ \E g \in GamepadReports : OnGamepadReportReceived(g)
  \/ Store
  \/ SendData
  \/ ConsoleReads
  \/ \E r \in Requests : Receive(r)
  \/ Reconnect
  \/ Restart

Spec == Init /\ [][Next]_vars

-----------------------------------------------------------------------------
TypeOK ==
  /\ now \in 0..(ClockSize - 1)
  /\ hitTimesMs \in [Pads -> 0..(ClockSize - 1)]
  /\ wii_report.pressed \subseteq Pads /\ wii_report.resetIr
  /\ wasPressed \in BOOLEAN /\ Len(storing) <= 1
  /\ wiimote.mode \in DataModes
  /\ wiimote.extension \in {NoExtension, "drum"}
  /\ Len(sent) <= 1

(* The pads that a report shows are exactly those whose hit is not older   *)
(* than the hold time, whatever interrupted the stores of a hit; but a     *)
(* button that is struck again in the ms in which the clock is 0 stays     *)
(* down until the next hit (setClassicButton).                             *)
ReportsShowTheHits ==
  [][sent' # <<>> /\ sent'[1].extension # <<>> /\ wiimote.queue = <<>> /\ SendData =>
       LET shown == sent'[1].extension[1].pressed
       IN  /\ {p \in Pads : IsPadHit(p)} \subseteq shown
           /\ \A p \in shown : IsPadHit(p) \/ hitTimesMs[p] = 0]_vars

(* A note is cleared only when a report that shows it goes out, unless the *)
(* console asked for reports without the extension, or the extension is    *)
(* just being plugged in (send_data, wiimote_set_report).                  *)
NoNoteIsDropped ==
  [][wii_report.midi.note # 0 /\ wii_report.midi'.note = 0 /\ SendData =>
       \/ wiimote.sysExtension = NoExtension
       \/ wiimote.mode \notin ExtensionModes
       \/ sent'[1].extension[1].midi = wii_report.midi]_vars

(* Once the console knows from the answers which key is in use, every      *)
(* report with extension data is in that key, also while its requests and  *)
(* the reports cross (generate_report, write_register).                    *)
ConsoleKnowsTheKey ==
  sent # <<>> /\ sent[1].extension # <<>> =>
    console.key \in {"unknown", sent[1].extension[1].key}
=============================================================================
