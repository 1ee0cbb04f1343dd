------------------------------- MODULE Wiimote -------------------------------
(***************************************************************************)
(* The Wii remote that the firmware emulates: what it makes of the reports *)
(* of the console, and the reports it sends (wiimote.c, wm_reports.c).     *)
(*                                                                         *)
(* A remote is a record.  Its registers are kept as far as the code looks  *)
(* at them: the identification of the extension, the three parts of the    *)
(* key, and the switches at 0xf0.  The motion plus, which the firmware     *)
(* says it has not (has_wmp), is left out.                                 *)
(***************************************************************************)
EXTENDS Integers, Sequences, SequencesExt

NoExtension == "none"
NoKey == "nokey"
KeyParts == {"40", "46", "4c"}        (* the addresses it is written to     *)
EepromSize == 5887                    (* 0x16FF                             *)
PacketSize == 16

(* The modes whose reports have extension bytes (and not only room for     *)
(* them, as 0x32).                                                         *)
ExtensionModes == {"34", "35", "36", "37", "3d"}
InterleavedModes == {"3e", "3f"}
DataModes == {"30", "31", "32", "33"} \cup ExtensionModes \cup InterleavedModes

NoMidi == [note |-> 0, velocity |-> 0]

(* init_extension() *)
InitExtension(w) ==
  [w EXCEPT !.ident = w.sysExtension,
            !.keyParts = [a \in KeyParts |-> NoKey],
            !.reportType = IF w.sysExtension = NoExtension THEN @ ELSE w.sysExtension]

Reset ==
  [queue |-> <<>>, mode |-> "30", continuous |-> FALSE,
   sysExtension |-> NoExtension, extensionConnected |-> FALSE, hotplugTimer |-> 0,
   encrypted |-> FALSE, tables |-> NoKey, reportType |-> "nunchuk",
   ident |-> NoExtension, keyParts |-> [a \in KeyParts |-> NoKey],
   ircam |-> FALSE, leds |-> FALSE,
   extension |-> NoExtension, buttons |-> {}, pressed |-> {}, midi |-> NoMidi]

(* wiimote_init(): a fresh remote reports that it is on. *)
New == [InitExtension(Reset) EXCEPT !.queue = <<[type |-> "30"]>>]

Push(w, report) == [w EXCEPT !.queue = Append(@, report)]
PushAck(w, of, error) == Push(w, [type |-> "22", of |-> of, error |-> error])
PushAckIf(w, needsAck, of) == IF needsAck THEN PushAck(w, of, 0) ELSE w
PushStatus(w) ==
  Push(w, [type |-> "20", extensionConnected |-> w.extensionConnected,
           ircam |-> w.ircam, leds |-> w.leds])

Key(w) == IF w.encrypted THEN w.tables ELSE NoKey

-----------------------------------------------------------------------------
(* Answers to a read: packets of 16 bytes, the last one shorter. *)
Packets(of, size, data, key) ==
  [i \in 1..((size + PacketSize - 1) \div PacketSize) |->
     [type |-> "21", of |-> of, error |-> 0, data |-> data, key |-> key]]
MemoryError(of, error) ==
  [type |-> "21", of |-> of, error |-> error, data |-> "none", key |-> NoKey]

(* A write beyond the end is answered like a read. *)
WriteEeprom(w, r) ==
  IF r.offset + r.size > EepromSize
  THEN Push(w, MemoryError("eeprom", 8)) ELSE PushAck(w, "16", 0)

ReadEeprom(w, r) ==
  IF r.offset + r.size > EepromSize
  THEN Push(w, MemoryError("eeprom", 8))
  ELSE [w EXCEPT !.queue = @ \o Packets("eeprom", r.size, "eeprom", NoKey)]

(* 0xa4: extension; 0xa6: the motion plus that is not there; the others    *)
(* are memory.                                                             *)
ReadRegister(w, r) ==
  IF r.register = "a6" THEN Push(w, MemoryError("a6", 7))
  ELSE LET data == IF r.register = "a4" /\ r.address = "fa" THEN w.ident ELSE "memory"
           key == IF r.register = "a4" THEN Key(w) ELSE NoKey
       IN  [w EXCEPT !.queue = @ \o Packets(r.address, r.size, data, key)]

(* The last part of the key makes the tables, from whatever the other      *)
(* parts are; the key is good if all are of one key.                       *)
WriteKeyPart(w, address, key) ==
  LET parts == [w.keyParts EXCEPT ![address] = key]
  IN  IF address = "4c"
      THEN [w EXCEPT !.keyParts = parts, !.encrypted = TRUE,
                     !.tables = IF \A a \in KeyParts : parts[a] = key
                                THEN key ELSE "mixed"]
      ELSE [w EXCEPT !.keyParts = parts]

WriteRegister(w, r) ==
  PushAck(IF r.register # "a4" THEN w
          ELSE IF r.address \in KeyParts THEN WriteKeyPart(w, r.address, r.data)
          ELSE IF r.address = "f0" /\ r.data = "aa" THEN [w EXCEPT !.encrypted = TRUE]
          ELSE IF r.address = "f0" /\ r.data = "55" THEN [w EXCEPT !.encrypted = FALSE]
          ELSE w,
          "16", 0)

(* The speaker cannot be switched on (has_speaker). *)
EnableSpeaker(w, r) ==
  IF r.muted THEN PushAckIf(w, r.needsAck, r.id) ELSE PushAck(w, r.id, 7)

ProcessReport(w, r) ==
  CASE r.id \in {"10", "18"} -> PushAckIf(w, r.needsAck, r.id)
    [] r.id = "11"           -> PushAckIf([w EXCEPT !.leds = r.on], r.needsAck, r.id)
    [] r.id = "12"           -> PushAckIf([w EXCEPT !.mode = r.mode,
                                                    !.continuous = r.continuous],
                                          r.needsAck, r.id)
    [] r.id \in {"13", "1a"} -> PushAckIf([w EXCEPT !.ircam = r.on], r.needsAck, r.id)
    [] r.id \in {"14", "19"} -> EnableSpeaker(w, r)
    [] r.id = "15"           -> PushStatus(w)
    [] r.id = "16"           -> IF r.register = "eeprom" THEN WriteEeprom(w, r)
                                ELSE WriteRegister(w, r)
    [] r.id = "17"           -> IF r.register = "eeprom" THEN ReadEeprom(w, r)
                                ELSE ReadRegister(w, r)
    [] OTHER                 -> w

-----------------------------------------------------------------------------
HotPlugDelay == 30

(* The extension that the user chose is unplugged and plugged in, which    *)
(* the console is told by a status report.                                 *)
HotPlug(w) ==
  IF w.extension = w.sysExtension THEN w
  ELSE LET unplugged ==
             IF w.extensionConnected
             THEN PushStatus([w EXCEPT !.extensionConnected = FALSE,
                                       !.sysExtension = NoExtension,
                                       !.hotplugTimer = HotPlugDelay])
             ELSE w
       IN  IF w.extension = NoExtension THEN unplugged
           ELSE IF unplugged.hotplugTimer - 1 > 0
           THEN [unplugged EXCEPT !.hotplugTimer = @ - 1]
           ELSE InitExtension(PushStatus(
                  [unplugged EXCEPT !.hotplugTimer = @ - 1,
                                    !.extensionConnected = TRUE,
                                    !.sysExtension = w.extension]))

(* report_append_extension(): the drum is a classic controller whose       *)
(* sticks are replaced by the note and its velocity.                       *)
AppendExtension(w) ==
  [of |-> w.reportType, key |-> Key(w), pressed |-> w.pressed, midi |-> w.midi]

Filled(w, report) ==
  [report |-> report, buttons |-> w.buttons,
   extension |-> IF report.type \in ExtensionModes THEN <<AppendExtension(w)>> ELSE <<>>]

Interleaved(w, report) ==
  IF report.type \in InterleavedModes
  THEN [w EXCEPT !.mode = IF w.mode = "3e" THEN "3f" ELSE "3e"] ELSE w

(* A plausible slip: what has changed is sent at once. *)
GenerateReportAtOnce(w, inputReportChanged) ==
  LET plugged == HotPlug(w)
      quiet == ~plugged.continuous /\ ~inputReportChanged /\ plugged.queue = <<>>
      regular == [type |-> plugged.mode]
  IN  IF quiet THEN [w |-> plugged, sent |-> <<>>]
      ELSE IF plugged.queue = <<>> \/ plugged.continuous
      THEN [w |-> Interleaved(plugged, regular), sent |-> <<Filled(plugged, regular)>>]
      ELSE LET report == Head(plugged.queue)
           IN  [w |-> Interleaved([plugged EXCEPT !.queue = Tail(@)], report),
                sent |-> <<Filled(plugged, report)>>]

(* generate_report(): what is queued goes first. *)
GenerateReport(w, inputReportChanged) ==
  LET plugged == HotPlug(w)
      quiet == ~plugged.continuous /\ ~inputReportChanged /\ plugged.queue = <<>>
      report == IF plugged.queue = <<>> THEN [type |-> plugged.mode]
                ELSE Head(plugged.queue)
      popped == IF plugged.queue = <<>> THEN plugged
                ELSE [plugged EXCEPT !.queue = Tail(@)]
  IN  IF quiet THEN [w |-> plugged, sent |-> <<>>]
      ELSE [w |-> Interleaved(popped, report), sent |-> <<Filled(popped, report)>>]
=============================================================================
