------------------------------ MODULE BleClient ------------------------------
(***************************************************************************)
(* The output to a Bluetooth LE MIDI device: pairing, scanning, connecting *)
(* and coming back (ble_client.cpp, and the library below it,              *)
(* ble_midi_client.c).                                                     *)
(*                                                                         *)
(* The main loop and the web page call the library; the Bluetooth stack    *)
(* calls it in interrupts.  The stack itself is external.  The checks that *)
(* the main loop makes once per second may be made at any time.            *)
(***************************************************************************)
EXTENDS Naturals

CONSTANT Devices

NoDevice == "none"
BleAssumption == NoDevice \notin Devices

(* The states of the library, BLEMC_... *)
Discovering == {"SERVICES", "CHARACTERISTICS", "NOTIFICATIONS"}
AfterScan == {"CONNECTION", "MIDI_DATA_RX", "DISCONNECTION"} \cup Discovering
States == {"DEINIT", "IDLE", "SCAN_COMPLETE"} \cup AfterScan

VARIABLES
  selected,     (* the transport is started                                 *)
  stopping,     (* stop() waits for the end of the connection               *)
  pairingInfo,  (* the device of the configuration                          *)
  scanning,     (* scanStartTimeMs > 0                                      *)
  state,        (* of the library                                           *)
  con_handle,   (* the device the handle is of                              *)
  midi_is_ready,
  next_connect, (* the device to connect to                                 *)
  handlers,     (* the library hears the events of the stack                *)
  stack,        (* the power state of the Bluetooth stack                   *)
  connecting,   (* devices it tries to connect to                           *)
  links         (* devices it is connected to                               *)

firmware == <<selected, stopping, pairingInfo, scanning>>
library == <<state, con_handle, midi_is_ready, next_connect, handlers>>
bluetooth == <<stack, connecting, links>>
vars == <<firmware, library, bluetooth>>

IsConnected == con_handle # NoDevice
Running == ~stopping
PowerOff == stack' = IF stack = "off" THEN "off" ELSE "halting"

(* gap_connect() is refused for a device that is connected or tried. *)
GapConnect(d, connected) ==
  connecting' = IF d \in connected THEN connecting ELSE connecting \cup {d}

(* ble_midi_client_scan_end() *)
AfterScanEnd == IF state = "SCAN_COMPLETE" THEN "IDLE" ELSE state

-----------------------------------------------------------------------------
(* begin(), ble_midi_client_init(), enter_client_mode().  The stack is     *)
(* down by then (switching the mode twice takes longer).                   *)
Start ==
  /\ ~selected /\ stack = "off"
  /\ selected' = TRUE
  /\ con_handle' = NoDevice /\ midi_is_ready' = FALSE
  /\ handlers' = (handlers \/ state = "DEINIT")
  /\ state' = AfterScanEnd
  /\ UNCHANGED <<stopping, pairingInfo, scanning, next_connect, bluetooth>>

(* A plausible slip: a connection is closed, and then the stack stays on. *)
StopClientOnlyLink ==
  /\ selected /\ Running
  /\ scanning' = FALSE
  /\ state' = IF IsConnected /\ AfterScanEnd \in AfterScan
              THEN "DISCONNECTION" ELSE AfterScanEnd
  /\ IF IsConnected THEN UNCHANGED stack ELSE PowerOff
  /\ stopping' = IsConnected /\ selected' = IsConnected
  /\ UNCHANGED <<pairingInfo, con_handle, midi_is_ready, next_connect, handlers,
                 connecting, links>>

(* stopClient(), exit_client_mode(): the main loop waits as long as there  *)
(* is a connection.                                                        *)
StopClient ==
  /\ selected /\ Running
  /\ scanning' = FALSE
  /\ state' = IF IsConnected /\ AfterScanEnd \in AfterScan
              THEN "DISCONNECTION" ELSE AfterScanEnd
  /\ PowerOff
  /\ stopping' = IsConnected /\ selected' = IsConnected
  /\ UNCHANGED <<pairingInfo, con_handle, midi_is_ready, next_connect, handlers,
                 connecting, links>>

StopEnds ==
  /\ stopping /\ ~IsConnected
  /\ stopping' = FALSE /\ selected' = FALSE
  /\ UNCHANGED <<pairingInfo, scanning, library, bluetooth>>

(* setPairingInfo(), of the web page or with a configuration: a connection *)
(* is closed, but not if a scan was made since it was opened.              *)
SetPairingInfo(d) ==
  /\ Running
  /\ pairingInfo' = d
  /\ scanning' = FALSE
  /\ state' = IF IsConnected /\ AfterScanEnd \in AfterScan
              THEN "DISCONNECTION" ELSE AfterScanEnd
  /\ UNCHANGED <<selected, stopping, con_handle, midi_is_ready, next_connect, handlers,
                 bluetooth>>

(* startDeviceScan(), ble_midi_client_scan_begin(): also while there is a  *)
(* connection or an attempt at one, which the library then forgets.        *)
StartDeviceScan ==
  /\ selected /\ Running
  /\ scanning' = TRUE
  /\ state' = "SCAN_COMPLETE"
  /\ stack' = IF state = "DEINIT" THEN "starting" ELSE stack
  /\ UNCHANGED <<selected, stopping, pairingInfo, con_handle, midi_is_ready, next_connect,
                 handlers, connecting, links>>

(* updateScanStatus() *)
ScanTimeout ==
  /\ selected /\ Running /\ scanning
  /\ scanning' = FALSE
  /\ state' = AfterScanEnd
  /\ UNCHANGED <<selected, stopping, pairingInfo, con_handle, midi_is_ready, next_connect,
                 handlers, bluetooth>>

(* reconnect() and ble_midi_client_request_connect(0).  Without a          *)
(* connection the library is not in a state with one, unless it was just   *)
(* started again; then nothing happens.                                    *)
Reconnect ==
  /\ selected /\ Running /\ ~scanning
  /\ pairingInfo # NoDevice /\ ~IsConnected
  /\ state \in {"DEINIT", "IDLE", "SCAN_COMPLETE"}
  /\ next_connect' = pairingInfo
  /\ state' = "CONNECTION"
  /\ IF state = "DEINIT"
     THEN stack' = "starting" /\ handlers' = TRUE /\ UNCHANGED connecting
     ELSE GapConnect(pairingInfo, links) /\ UNCHANGED <<stack, handlers>>
  /\ UNCHANGED <<firmware, con_handle, midi_is_ready, links>>

-----------------------------------------------------------------------------
(* Events of the stack.  BTSTACK_EVENT_STATE: *)
StackWorks ==
  /\ stack = "starting" /\ stack' = "on"
  /\ IF handlers /\ state = "CONNECTION" /\ next_connect # NoDevice
     THEN GapConnect(next_connect, links) ELSE UNCHANGED connecting
  /\ UNCHANGED <<firmware, library, links>>

StackOff ==
  /\ stack = "halting" /\ connecting = {} /\ links = {}
  /\ stack' = "off"
  /\ IF handlers
     THEN /\ state' = "DEINIT" /\ con_handle' = NoDevice
          /\ midi_is_ready' = FALSE /\ handlers' = FALSE
     ELSE UNCHANGED <<state, con_handle, midi_is_ready, handlers>>
  /\ UNCHANGED <<firmware, next_connect, connecting, links>>

(* HCI_SUBEVENT_LE_CONNECTION_COMPLETE; a connection that nobody waits for *)
(* any more stays, and the library does not know of it.                    *)
ConnectionComplete(d) ==
  /\ stack = "on" /\ d \in connecting
  /\ connecting' = connecting \ {d} /\ links' = links \cup {d}
  /\ IF handlers /\ state = "CONNECTION"
     THEN con_handle' = d /\ state' = "SERVICES"
     ELSE UNCHANGED <<con_handle, state>>
  /\ UNCHANGED <<firmware, midi_is_ready, next_connect, handlers, stack>>

(* The same event with an error: of a cancelled attempt, or of one that    *)
(* failed, which is taken for a connection.                                *)
ConnectionCancelled(d) ==
  /\ stack = "halting" /\ d \in connecting
  /\ connecting' = connecting \ {d}
  /\ state' = IF handlers /\ state = "CONNECTION" THEN "IDLE" ELSE state
  /\ UNCHANGED <<firmware, con_handle, midi_is_ready, next_connect, handlers, stack, links>>

ConnectionFailed(d) ==
  /\ stack = "on" /\ d \in connecting
  /\ connecting' = connecting \ {d}
  /\ IF handlers /\ state = "CONNECTION"
     THEN con_handle' = d /\ state' = "SERVICES"
     ELSE UNCHANGED <<con_handle, state>>
  /\ UNCHANGED <<firmware, midi_is_ready, next_connect, handlers, stack, links>>

(* GATT_EVENT_QUERY_COMPLETE; after an error nothing happens. *)
QueryComplete ==
  /\ con_handle \in links /\ handlers
  /\ state \in Discovering
  /\ state' = CASE state = "SERVICES"        -> "CHARACTERISTICS"
                [] state = "CHARACTERISTICS" -> "NOTIFICATIONS"
                [] state = "NOTIFICATIONS"   -> "MIDI_DATA_RX"
  /\ midi_is_ready' = (midi_is_ready \/ state = "NOTIFICATIONS")
  /\ UNCHANGED <<firmware, con_handle, next_connect, handlers, bluetooth>>

(* HCI_SUBEVENT_LE_DATA_LENGTH_CHANGE and others: the handle is taken,     *)
(* whichever connection it is of.                                          *)
ConnectionUpdated(d) ==
  /\ d \in links /\ handlers
  /\ con_handle' = d
  /\ UNCHANGED <<firmware, state, midi_is_ready, next_connect, handlers, bluetooth>>

(* A plausible slip: the MIDI service is still thought to be ready. *)
DisconnectionCompleteStillReady(d) ==
  /\ d \in links
  /\ links' = links \ {d}
  /\ IF handlers
     THEN /\ con_handle' = NoDevice
          /\ IF state = "CONNECTION"
             THEN GapConnect(next_connect, links') /\ UNCHANGED state
             ELSE state' = "IDLE" /\ UNCHANGED connecting
     ELSE UNCHANGED <<con_handle, state, connecting>>
  /\ UNCHANGED <<firmware, midi_is_ready, next_connect, handlers, stack>>

(* A plausible slip: who waits for a connection goes on waiting. *)
DisconnectionCompleteWaiting(d) ==
  /\ d \in links /\ links' = links \ {d}
  /\ IF handlers
     THEN /\ con_handle' = NoDevice /\ midi_is_ready' = FALSE
          /\ state' = IF state = "CONNECTION" THEN state ELSE "IDLE"
     ELSE UNCHANGED <<con_handle, midi_is_ready, state>>
  /\ UNCHANGED <<firmware, next_connect, handlers, stack, connecting>>

(* HCI_EVENT_DISCONNECTION_COMPLETE of any connection. *)
DisconnectionComplete(d) ==
  /\ d \in links
  /\ links' = links \ {d}
  /\ IF handlers
     THEN /\ con_handle' = NoDevice /\ midi_is_ready' = FALSE
          /\ IF state = "CONNECTION"
             THEN GapConnect(next_connect, links') /\ UNCHANGED state
             ELSE state' = "IDLE" /\ UNCHANGED connecting
     ELSE UNCHANGED <<con_handle, midi_is_ready, state, connecting>>
  /\ UNCHANGED <<firmware, next_connect, handlers, stack>>

Init ==
  /\ selected = FALSE /\ stopping = FALSE /\ scanning = FALSE
  /\ pairingInfo \in {NoDevice} \cup Devices
  /\ state = "DEINIT" /\ con_handle = NoDevice /\ midi_is_ready = FALSE
  /\ next_connect = NoDevice /\ handlers = FALSE
  /\ stack = "off" /\ connecting = {} /\ links = {}

Next ==
  \/ Start
  \/ StopClient
  \/ StopEnds
  \/ \E d \in {NoDevice} \cup Devices : SetPairingInfo(d)
  \/ StartDeviceScan
  \/ ScanTimeout
  \/ Reconnect
  \/ StackWorks
  \/ StackOff
  \/ \E d \in Devices : ConnectionComplete(d)
  \/ \E d \in Devices : ConnectionCancelled(d)
  \/ \E d \in Devices : ConnectionFailed(d)
  \/ QueryComplete
  \/ \E d \in Devices : ConnectionUpdated(d)
  \/ \E d \in Devices : DisconnectionComplete(d)

Spec == Init /\ [][Next]_vars

-----------------------------------------------------------------------------
TypeOK ==
  /\ {selected, stopping, scanning, midi_is_ready, handlers} \subseteq BOOLEAN
  /\ {pairingInfo, con_handle, next_connect} \subseteq Devices \cup {NoDevice}
  /\ state \in States
  /\ stack \in {"off", "starting", "on", "halting"}
  /\ connecting \subseteq Devices /\ links \subseteq Devices

(* Notes are written to a connection that exists, whatever becomes of      *)
(* other connections and scans (ble_midi_client_stream_write).             *)
NotesGoOverALink == midi_is_ready => con_handle \in links

(* The firmware that waits for a connection, and so does nothing more, has *)
(* asked for one that can come: an attempt is under way or will be, or a   *)
(* connection that the library has lost sight of must end first.           *)
WaitingHasAReason ==
  state = "CONNECTION" =>
    stack \in {"starting", "halting"} \/ connecting # {} \/ links # {}

(* The main loop does not wait for ever in stop(): as long as it waits the *)
(* stack is being shut down, which ends every connection, also one that    *)
(* the library refuses to close or that never was (stopClient).            *)
StopReturns == stopping => con_handle = NoDevice \/ stack = "halting"

(* The connection of the client (ble_client.cpp). *)
ConnectionKeepsGoing == TypeOK /\ NotesGoOverALink /\ WaitingHasAReason /\ StopReturns
=============================================================================
