------------------------------- MODULE WiiLink -------------------------------
(***************************************************************************)
(* The Bluetooth link of the emulated Wii remote: pairing with a console,  *)
(* connecting to it, and coming back after a loss (wiimote_btstack.c and   *)
(* the pairing of midi_transport_guitar_hero_wii.cpp).                     *)
(*                                                                         *)
(* The stack calls the handlers in interrupts; the main loop starts, stops *)
(* and saves.  A timer is armed or not, and an armed one may fire at any   *)
(* moment.  The LED and the link keys are left out: a console stands for   *)
(* its address and key.                                                    *)
(***************************************************************************)
EXTENDS Naturals

CONSTANT Consoles

NoConsole == "none"
Timers == {"loop", "reconnect", "pairing", "led", "shutdown"}

WiiLinkAssumption == NoConsole \notin Consoles

VARIABLES
  selected,      (* the transport is started                                *)
  pairingInfo,   (* the console of the configuration                        *)
  saved,         (* the one in the configuration file                       *)
  needsSave,     (* configNeedsSaveTimeMs > 0                               *)
  resetDue,      (* requestReset()                                          *)
  wii_host_addr,
  hid_cid,       (* it is not 0                                             *)
  hasSent,       (* last_send_ms is not 0                                   *)
  timers,        (* those that are armed                                    *)
  restart,       (* the context of the shutdown timer                       *)
  isPairing,
  stack,         (* hci_get_state(); "ready": answers inquiries             *)
  link,          (* the HID connection, as the stack knows it               *)
  peer,          (* the console at its other end                            *)
  gaveUp,        (* pairing ended without a connection (history)            *)
  interrupted    (* the stack was shut down during pairing (history)        *)

transport == <<selected, pairingInfo, saved, needsSave, resetDue>>
emulator == <<wii_host_addr, hid_cid, hasSent, timers, restart, isPairing>>
bluetooth == <<stack, link, peer>>
history == <<gaveUp, interrupted>>
vars == <<transport, emulator, bluetooth, history>>

-----------------------------------------------------------------------------
(* hid_safe_device_connect(), with armed the timers that are armed by then *)
HidSafeDeviceConnect(addr, armed) ==
  IF addr = NoConsole
  THEN timers' = armed /\ UNCHANGED <<hid_cid, link, peer>>
  ELSE \/ /\ timers' = armed \cup {"reconnect"}
          /\ UNCHANGED <<hid_cid, link, peer>>
       \/ /\ stack \in {"working", "ready"} /\ link = "idle"
          /\ timers' = armed
          /\ hid_cid' = TRUE /\ link' = "outgoing" /\ peer' = addr

StartPairing ==
  /\ timers' = (timers \ {"reconnect"}) \cup {"pairing", "led"}
  /\ isPairing' = TRUE
  /\ gaveUp' = FALSE /\ interrupted' = FALSE

(* stop_sync(): the timers that remain *)
WithoutSync(armed) == IF isPairing THEN armed \ {"pairing", "led"} ELSE armed

(* A plausible slip: the timer of the reports is forgotten. *)
BluetoothDeinitButLoop(again) ==
  /\ timers' = (timers \cap {"loop"}) \cup {"shutdown"}
  /\ restart' = again
  /\ hid_cid' = FALSE
  /\ stack' = IF stack = "off" THEN "off" ELSE "halting"
  /\ interrupted' = (interrupted \/ isPairing)
  /\ UNCHANGED <<isPairing, link, peer, wii_host_addr, hasSent, gaveUp>>

(* Pairing counts as under way until the next connection, although its     *)
(* timer is removed.                                                       *)
BluetoothDeinit(again) ==
  /\ timers' = {"shutdown"}
  /\ restart' = again
  /\ hid_cid' = FALSE
  /\ stack' = IF stack = "off" THEN "off" ELSE "halting"
  /\ interrupted' = (interrupted \/ isPairing)
  /\ UNCHANGED <<isPairing, link, peer, wii_host_addr, hasSent, gaveUp>>

-----------------------------------------------------------------------------
(* The main loop.  The stack has been shut down before it is started again *)
(* (switching the mode twice takes longer).                                *)
Start ==
  /\ ~selected /\ stack = "off" /\ "shutdown" \notin timers
  /\ selected' = TRUE
  /\ wii_host_addr' = pairingInfo
  /\ stack' = "initializing"
  /\ UNCHANGED <<pairingInfo, saved, needsSave, resetDue, hid_cid, hasSent, timers,
                 restart, isPairing, link, peer, history>>

Stop ==
  /\ selected
  /\ selected' = FALSE
  /\ BluetoothDeinit(FALSE)
  /\ UNCHANGED <<pairingInfo, saved, needsSave, resetDue>>

(* update(), SAVE_DELAY_MS after the connection *)
SaveAndReset ==
  /\ selected /\ needsSave
  /\ BluetoothDeinit(FALSE)
  /\ saved' = pairingInfo
  /\ resetDue' = TRUE
  /\ needsSave' = FALSE
  /\ UNCHANGED <<selected, pairingInfo>>

(* update(), wiimote_emulator_pair_remote(): a connection, or an attempt   *)
(* at one, is closed and its console forgotten.                            *)
PressButton ==
  /\ selected /\ ~isPairing
  /\ StartPairing
  /\ IF hid_cid
     THEN /\ wii_host_addr' = NoConsole
          /\ link' = CASE link = "outgoing" -> "cancelled"
                       [] link = "open"     -> "closing"
                       [] OTHER             -> link
     ELSE UNCHANGED <<wii_host_addr, link>>
  /\ UNCHANGED <<transport, hid_cid, hasSent, restart, stack, peer>>

(* The configuration is saved by the web page. *)
Save ==
  /\ saved' = pairingInfo
  /\ UNCHANGED <<selected, pairingInfo, needsSave, resetDue, emulator, bluetooth, history>>

Boot(info) ==
  /\ selected' = FALSE /\ pairingInfo' = info /\ saved' = info
  /\ needsSave' = FALSE /\ resetDue' = FALSE
  /\ wii_host_addr' = NoConsole /\ hid_cid' = FALSE /\ hasSent' = FALSE
  /\ timers' = {} /\ restart' = FALSE /\ isPairing' = FALSE
  /\ stack' = "off" /\ link' = "idle" /\ peer' = NoConsole
  /\ gaveUp' = FALSE /\ interrupted' = FALSE

(* The reset, or the user who switches off. *)
Reboot == Boot(saved)

-----------------------------------------------------------------------------
(* Timers.  task_wiimote() finds the connection stalled, which it can only *)
(* if something was sent on it; otherwise it asks to send.                 *)
TaskWiimote ==
  /\ "loop" \in timers /\ link = "stalled"
  /\ hid_cid /\ hasSent
  /\ BluetoothDeinit(TRUE)
  /\ UNCHANGED transport

TaskReconnect ==
  /\ "reconnect" \in timers
  /\ HidSafeDeviceConnect(wii_host_addr, timers \ {"reconnect"})
  /\ UNCHANGED <<transport, wii_host_addr, hasSent, restart, isPairing, stack, history>>

TaskSyncTimeout ==
  /\ "pairing" \in timers
  /\ timers' = WithoutSync(timers \ {"pairing"})
  /\ isPairing' = FALSE
  /\ gaveUp' = TRUE
  /\ UNCHANGED <<transport, wii_host_addr, hid_cid, hasSent, restart, bluetooth, interrupted>>

(* task_perform_shutdown_action() *)
TaskShutdown ==
  /\ "shutdown" \in timers /\ stack = "off"
  /\ timers' = timers \ {"shutdown"}
  /\ stack' = IF restart THEN "initializing" ELSE "off"
  /\ UNCHANGED <<transport, wii_host_addr, hid_cid, hasSent, restart, isPairing,
                 link, peer, history>>

-----------------------------------------------------------------------------
(* Events of the stack (hci_packet_handler). *)
StackWorks ==
  /\ stack = "initializing" /\ stack' = "working"
  /\ UNCHANGED <<transport, emulator, link, peer, history>>

(* The inquiry access codes are set; if that fails nothing happens. *)
CommandComplete ==
  /\ stack = "working" /\ stack' = "ready"
  /\ IF wii_host_addr # NoConsole
     THEN /\ HidSafeDeviceConnect(wii_host_addr, timers)
          /\ UNCHANGED <<isPairing, history>>
     ELSE StartPairing /\ UNCHANGED <<hid_cid, link, peer>>
  /\ UNCHANGED <<transport, wii_host_addr, hasSent, restart>>

StackOff ==
  /\ stack = "halting" /\ link = "idle"
  /\ stack' = "off"
  /\ UNCHANGED <<transport, emulator, link, peer, history>>

(* A plausible slip: a console that is paired again is taken for known. *)
ConnectedUnsaved(c) ==
  /\ pairingInfo' = c
  /\ needsSave' = IF pairingInfo = NoConsole THEN TRUE ELSE needsSave
  /\ wii_host_addr' = c
  /\ hid_cid' = TRUE
  /\ hasSent' = FALSE
  /\ timers' = WithoutSync(timers \ {"reconnect"}) \cup {"loop"}
  /\ isPairing' = FALSE
  /\ link' = "open" /\ peer' = c
  /\ gaveUp' = FALSE /\ interrupted' = FALSE
  /\ UNCHANGED <<selected, saved, resetDue, restart, stack>>

(* A plausible slip: the connection ends the timers of pairing only. *)
ConnectedStillPairing(c) ==
  /\ pairingInfo' = c
  /\ needsSave' = (needsSave \/ pairingInfo # c)
  /\ wii_host_addr' = c
  /\ hid_cid' = TRUE
  /\ hasSent' = FALSE
  /\ timers' = WithoutSync(timers \ {"reconnect"}) \cup {"loop"}
  /\ isPairing' = isPairing
  /\ link' = "open" /\ peer' = c
  /\ gaveUp' = FALSE /\ interrupted' = FALSE
  /\ UNCHANGED <<selected, saved, resetDue, restart, stack>>

(* HID_SUBEVENT_CONNECTION_OPENED, wiimote_connected() *)
Connected(c) ==
  /\ pairingInfo' = c
  /\ needsSave' = (needsSave \/ pairingInfo # c)
  /\ wii_host_addr' = c
  /\ hid_cid' = TRUE
  /\ hasSent' = FALSE
  /\ timers' = WithoutSync(timers \ {"reconnect"}) \cup {"loop"}
  /\ isPairing' = FALSE
  /\ link' = "open" /\ peer' = c
  /\ gaveUp' = FALSE /\ interrupted' = FALSE
  /\ UNCHANGED <<selected, saved, resetDue, restart, stack>>

(* Also an attempt that was cancelled may just have succeeded. *)
Opened ==
  /\ stack = "ready" /\ link \in {"outgoing", "cancelled"}
  /\ Connected(peer)

(* A console connects: one that the user pairs, or that knows the remote. *)
Incoming(c) ==
  /\ stack = "ready" /\ link = "idle"
  /\ "pairing" \in timers \/ c = pairingInfo
  /\ Connected(c)

(* The console does not answer, has forgotten the remote, or the stack is  *)
(* shut down meanwhile.                                                    *)
OpenFailed ==
  /\ stack \in {"ready", "halting"} /\ link \in {"outgoing", "cancelled"}
  /\ hid_cid' = FALSE
  /\ timers' = (timers \ {"loop"}) \cup {"reconnect"}
  /\ link' = "idle"
  /\ UNCHANGED <<transport, wii_host_addr, hasSent, restart, isPairing, stack, peer, history>>

(* A plausible slip: a connection that is closed is not tried again. *)
ClosedForGood ==
  /\ stack \in {"ready", "halting"} /\ link \in {"open", "closing", "cancelled", "stalled"}
  /\ hid_cid' = FALSE
  /\ timers' = timers \ {"loop"}
  /\ link' = "idle"
  /\ UNCHANGED <<transport, wii_host_addr, hasSent, restart, isPairing, stack, peer, history>>

(* HID_SUBEVENT_CONNECTION_CLOSED: it is tried again at once. *)
Closed ==
  /\ stack \in {"ready", "halting"} /\ link \in {"open", "closing", "cancelled", "stalled"}
  /\ IF ~hid_cid
     THEN link' = "idle" /\ UNCHANGED <<timers, hid_cid, peer>>
     ELSE IF wii_host_addr = NoConsole
     THEN link' = "idle" /\ timers' = timers \ {"loop"} /\ hid_cid' = FALSE /\ UNCHANGED peer
     ELSE \/ /\ timers' = timers \ {"loop"}
             /\ link' = "outgoing" /\ peer' = wii_host_addr /\ hid_cid' = TRUE
          \/ /\ timers' = (timers \ {"loop"}) \cup {"reconnect"}
             /\ link' = "idle" /\ hid_cid' = FALSE /\ UNCHANGED peer
  /\ UNCHANGED <<transport, wii_host_addr, hasSent, restart, isPairing, stack, history>>

CanSendNow ==
  /\ stack = "ready" /\ link = "open" /\ "loop" \in timers
  /\ hasSent' = TRUE
  /\ UNCHANGED <<transport, wii_host_addr, hid_cid, timers, restart, isPairing,
                 bluetooth, history>>

(* The console is gone without closing the connection. *)
Vanish ==
  /\ link = "open" /\ link' = "stalled"
  /\ UNCHANGED <<transport, emulator, stack, peer, history>>

Init ==
  /\ selected = FALSE /\ pairingInfo \in {NoConsole} \cup Consoles /\ saved = pairingInfo
  /\ needsSave = FALSE /\ resetDue = FALSE
  /\ wii_host_addr = NoConsole /\ hid_cid = FALSE /\ hasSent = FALSE
  /\ timers = {} /\ restart = FALSE /\ isPairing = FALSE
  /\ stack = "off" /\ link = "idle" /\ peer = NoConsole
  /\ gaveUp = FALSE /\ interrupted = FALSE

Next ==
  \/ Start
  \/ Stop
  \/ SaveAndReset
  \/ PressButton
  \/ Save
  \/ Reboot
  \/ TaskWiimote
  \/ TaskReconnect
  \/ TaskSyncTimeout
  \/ TaskShutdown
  \/ StackWorks
  \/ CommandComplete
  \/ StackOff
  \/ Opened
  \/ \E c \in Consoles : Incoming(c)
  \/ OpenFailed
  \/ Closed
  \/ CanSendNow
  \/ Vanish

Spec == Init /\ [][Next]_vars

-----------------------------------------------------------------------------
TypeOK ==
  /\ selected \in BOOLEAN /\ needsSave \in BOOLEAN /\ resetDue \in BOOLEAN
  /\ {pairingInfo, saved, wii_host_addr, peer} \subseteq Consoles \cup {NoConsole}
  /\ timers \subseteq Timers /\ restart \in BOOLEAN /\ isPairing \in BOOLEAN
  /\ stack \in {"off", "initializing", "working", "ready", "halting"}
  /\ link \in {"idle", "outgoing", "cancelled", "open", "closing", "stalled"}

(* A console that is known is tried again and again: while there is no     *)
(* connection an attempt is under way, due, or the user is pairing; only a *)
(* pairing that timed out ends this (start_pairing removes the timer).     *)
KeepsTrying ==
  stack = "ready" /\ wii_host_addr # NoConsole =>
    hid_cid \/ "reconnect" \in timers \/ "pairing" \in timers \/ gaveUp

(* A console that was paired gets into the file, whatever happens until    *)
(* then: the mode may be changed, the console may be gone, or another one  *)
(* may be paired (wiimote_connected, update).                              *)
PairingIsSaved == pairingInfo # saved => needsSave

(* Reports are asked for only while there is a connection, whatever ends   *)
(* it: the console, the stack, a stall, a cancelled attempt or the main    *)
(* loop (loop_wii_timer).                                                  *)
ReportsGoToAConnection ==
  "loop" \in timers => stack = "ready" /\ hid_cid /\ link \in {"open", "closing", "stalled"}

(* Pairing ends by itself, so that the button works again, unless the mode *)
(* was left meanwhile (wiimote_bluetooth_deinit leaves isPairing).         *)
PairingEnds == isPairing => "pairing" \in timers \/ interrupted

(* The link as a whole (wiimote_btstack.c). *)
WiiLinkRecovers ==
  TypeOK /\ KeepsTrying /\ PairingIsSaved /\ ReportsGoToAConnection /\ PairingEnds
=============================================================================
