------------------------------- MODULE BleScan -------------------------------
(***************************************************************************)
(* The scan for Bluetooth LE MIDI devices: the list of the library         *)
(* (ble_midi_client.c), what the main loop sends of it (ble_client.cpp)    *)
(* and what the page shows (settings-midi.tsx).                            *)
(*                                                                         *)
(* Reports, timers and events of the stack interrupt the main loop.  Of    *)
(* the library's states "IDLE" stands for all but two; how links come and  *)
(* go is in BleClient.  The hash of a list, a sum of addresses, is the set *)
(* of the devices.  Names are left out but for their kind.                 *)
(***************************************************************************)
EXTENDS Naturals, Sequences, FiniteSets, SequencesExt

CONSTANTS
  Devices,        (* that come into reach                     *)
  RemoveTimeout,  (* scan_remove_timeout                      *)
  MaxScanItems    (* BLEMC_MAX_SCAN_ITEMS: the array's length *)

(* A new device is appended without a look at the array's length, so that  *)
(* it must have room for all of them.                                      *)
ScanAssumption ==
  /\ RemoveTimeout \in Nat \ {0}
  /\ MaxScanItems \in Nat
  /\ IsFiniteSet(Devices) /\ Cardinality(Devices) <= MaxScanItems

Names == {"none", "shortened", "complete"}

VARIABLES
  selected, state, powered,
  discovering,          (* gap_start_scan()                                 *)
  scan_timer,           (* the timer is armed                               *)
  midi_peripherals,     (* records of bdaddr, type and timeout              *)
  scanning,             (* scanStartTimeMs > 0                              *)
  scanResultAvailable, lastScanResultHash,
  sending,              (* between the two statements of update()           *)
  wasScanning,          (* what the page was told last                      *)
  page,                 (* what the page shows                              *)
  silent,               (* history: ticks since a device was heard          *)
  cutShort              (* history: a scan ended before it was announced    *)

library == <<state, powered, discovering, scan_timer, midi_peripherals, silent>>
firmware == <<selected, scanning, scanResultAvailable, lastScanResultHash, sending,
              wasScanning, page, cutShort>>
vars == <<library, firmware>>

Found == {midi_peripherals[i].bdaddr : i \in DOMAIN midi_peripherals}

(* n_midi_peripherals = 0 *)
ClearList == midi_peripherals' = <<>> /\ silent' = [d \in Devices |-> RemoveTimeout]
KeepList == UNCHANGED <<midi_peripherals, silent>>

-----------------------------------------------------------------------------
(* One pass of the loop over the list: the last entry takes the place of   *)
(* an expired one, and is looked at next.                                  *)
Visit(pass) ==
  LET list == pass.list
      left == list[pass.idx].timeout - 1
  IN IF left = 0
     THEN [pass EXCEPT !.list = Front(ReplaceAt(list, pass.idx, Last(list)))]
     ELSE [list |-> [list EXCEPT ![pass.idx].timeout = left], idx |-> pass.idx + 1]

(* A plausible slip: the entry that takes the place is passed over. *)
ExpiredInOnePass(list) ==
  SelectSeq([i \in DOMAIN list |->
               IF list[i].timeout = 1 /\ i = Len(list) - 1 THEN Last(list)
               ELSE [list[i] EXCEPT !.timeout = @ - 1]],
            LAMBDA e : e.timeout > 0)

Expired(list) ==
  LET pass[visits \in 0..Len(list)] ==
        IF visits = 0 THEN [list |-> list, idx |-> 1] ELSE Visit(pass[visits - 1])
  IN  pass[Len(list)].list

(* scan_timer_cb() *)
Tick ==
  /\ scan_timer
  /\ IF state # "SCAN_COMPLETE"
     THEN scan_timer' = FALSE /\ KeepList /\ UNCHANGED scanResultAvailable
     ELSE /\ midi_peripherals' = Expired(midi_peripherals)
          /\ silent' = [d \in Devices |->
                          IF silent[d] = RemoveTimeout THEN silent[d] ELSE silent[d] + 1]
          /\ scanResultAvailable' = TRUE
          /\ UNCHANGED scan_timer
  /\ UNCHANGED <<state, powered, discovering, selected, scanning,
                 lastScanResultHash, sending, wasScanning, page, cutShort>>

(* GAP_EVENT_ADVERTISING_REPORT: the name comes with a later report, which *)
(* does not tell the service; one that is complete is kept.                *)
Named(entry, name) ==
  [entry EXCEPT !.timeout = RemoveTimeout,
                !.type = IF @ = "complete" \/ name = "none" THEN @ ELSE name]

AdvertisingReport(d, tellsService, name) ==
  /\ discovering
  /\ tellsService \/ d \in Found
  /\ midi_peripherals' =
       IF d \in Found
       THEN [i \in DOMAIN midi_peripherals |->
               IF midi_peripherals[i].bdaddr = d THEN Named(midi_peripherals[i], name)
               ELSE midi_peripherals[i]]
       ELSE Append(midi_peripherals,
                   Named([bdaddr |-> d, type |-> "none", timeout |-> RemoveTimeout], name))
  /\ silent' = [silent EXCEPT ![d] = 0]
  /\ UNCHANGED <<state, powered, discovering, scan_timer, firmware>>

(* BTSTACK_EVENT_STATE: the stack works. *)
StackWorks ==
  /\ selected /\ state # "DEINIT" /\ ~powered
  /\ powered' = TRUE
  /\ IF state = "SCAN_COMPLETE"
     THEN discovering' = TRUE /\ ClearList
     ELSE UNCHANGED discovering /\ KeepList
  /\ UNCHANGED <<state, scan_timer, firmware>>

(* HCI_EVENT_DISCONNECTION_COMPLETE of a link from before the scan: for    *)
(* the library the scan is over.                                           *)
DisconnectionComplete ==
  /\ powered /\ state' = "IDLE" /\ ClearList
  /\ UNCHANGED <<powered, discovering, scan_timer, firmware>>

-----------------------------------------------------------------------------
(* ble_midi_client_scan_end(): of a scan that the library does.            *)
ScanEnd ==
  IF state = "SCAN_COMPLETE"
  THEN discovering' = FALSE /\ scan_timer' = FALSE
  ELSE UNCHANGED <<discovering, scan_timer>>

(* updateConnectionStatus(): the page is told if clientStatus or the scan  *)
(* has changed since it was told.                                          *)
Announce(isScanning, statusChanged, devices) ==
  LET isTold == statusChanged \/ isScanning # wasScanning
  IN /\ wasScanning' = isScanning
     /\ page' = [devices |-> devices, scanning |-> IF isTold THEN isScanning ELSE page.scanning]
     /\ cutShort' = (~isTold /\ (cutShort \/ isScanning # scanning))

(* begin(); the stack is switched on by the first scan or connection.      *)
Begin ==
  /\ ~selected /\ selected' = TRUE
  /\ UNCHANGED <<library, scanning, scanResultAvailable, lastScanResultHash, sending,
                 wasScanning, page, cutShort>>

RequestConnect ==
  /\ selected /\ ~sending /\ ~scanning
  /\ state' = "IDLE"
  /\ UNCHANGED <<powered, discovering, scan_timer, midi_peripherals, silent, firmware>>

(* stop(): waits for the end of a connection, and announces it.            *)
Stop(wasConnected) ==
  /\ selected /\ ~sending /\ selected' = FALSE
  /\ scan_timer' = (scan_timer /\ state # "SCAN_COMPLETE")
  /\ powered' = FALSE /\ discovering' = FALSE /\ state' = "DEINIT"
  /\ IF wasConnected THEN powered /\ ClearList ELSE KeepList
  /\ scanning' = FALSE
  /\ \E statusChanged \in BOOLEAN : Announce(FALSE, statusChanged, page.devices)
  /\ UNCHANGED <<scanResultAvailable, lastScanResultHash, sending>>

(* A plausible slip: what was sent of the last scan is taken as known.     *)
StartDeviceScanAsKnown ==
  /\ selected /\ ~sending /\ ~page.scanning
  /\ page' = [devices |-> {}, scanning |-> TRUE]
  /\ UNCHANGED lastScanResultHash /\ scanning' = TRUE
  /\ state' = "SCAN_COMPLETE"
  /\ IF state = "SCAN_COMPLETE" THEN KeepList /\ UNCHANGED <<discovering, scan_timer>>
     ELSE /\ scan_timer' = TRUE
          /\ discovering' = powered
          /\ IF state = "DEINIT" THEN KeepList ELSE ClearList
  /\ UNCHANGED <<selected, powered, scanResultAvailable, sending, wasScanning, cutShort>>

(* The button of the page, startDeviceScan() and                           *)
(* ble_midi_client_scan_begin().                                           *)
StartDeviceScan ==
  /\ selected /\ ~sending /\ ~page.scanning
  /\ page' = [devices |-> {}, scanning |-> TRUE]
  /\ lastScanResultHash' = {} /\ scanning' = TRUE
  /\ state' = "SCAN_COMPLETE"
  /\ IF state = "SCAN_COMPLETE" THEN KeepList /\ UNCHANGED <<discovering, scan_timer>>
     ELSE /\ scan_timer' = TRUE
          /\ discovering' = powered
          /\ IF state = "DEINIT" THEN KeepList ELSE ClearList
  /\ UNCHANGED <<selected, powered, scanResultAvailable, sending, wasScanning, cutShort>>

(* stopDeviceScan(), after a time or as the pairing is changed.            *)
StopDeviceScan ==
  /\ selected /\ scanning /\ ~sending
  /\ scanning' = FALSE
  /\ cutShort' = (cutShort \/ ~wasScanning)
  /\ state' = IF state = "SCAN_COMPLETE" THEN "IDLE" ELSE state
  /\ ScanEnd /\ KeepList
  /\ UNCHANGED <<selected, powered, scanResultAvailable, lastScanResultHash,
                 sending, wasScanning, page>>

(* update(), once per second: the status, and in a scan the devices if     *)
(* they are others (sendScanResultsToWebUI).  The flag is cleared after.   *)
Update(statusChanged) ==
  LET sends == scanning /\ scanResultAvailable
  IN /\ selected /\ ~sending
     /\ sending' = sends
     /\ lastScanResultHash' = IF sends THEN Found ELSE lastScanResultHash
     /\ Announce(scanning, statusChanged,
                 IF sends /\ lastScanResultHash # Found THEN Found ELSE page.devices)
     /\ UNCHANGED <<library, selected, scanning, scanResultAvailable>>

ScanResultsSent ==
  /\ sending /\ sending' = FALSE
  /\ scanResultAvailable' = FALSE
  /\ UNCHANGED <<library, selected, scanning, lastScanResultHash, wasScanning, page, cutShort>>

Init ==
  /\ selected = FALSE /\ state = "DEINIT" /\ powered = FALSE /\ discovering = FALSE
  /\ scan_timer = FALSE /\ midi_peripherals = <<>>
  /\ scanning = FALSE /\ scanResultAvailable = FALSE /\ lastScanResultHash = {}
  /\ sending = FALSE /\ wasScanning = FALSE
  /\ page = [devices |-> {}, scanning |-> FALSE]
  /\ silent = [d \in Devices |-> RemoveTimeout] /\ cutShort = FALSE

Next ==
  \/ Tick
  \/ \E d \in Devices, tellsService \in BOOLEAN, name \in Names :
       AdvertisingReport(d, tellsService, name)
  \/ StackWorks
  \/ DisconnectionComplete
  \/ Begin
  \/ RequestConnect
  \/ \E wasConnected \in BOOLEAN : Stop(wasConnected)
  \/ StartDeviceScan
  \/ StopDeviceScan
  \/ \E statusChanged \in BOOLEAN : Update(statusChanged)
  \/ ScanResultsSent

Spec == Init /\ [][Next]_vars

-----------------------------------------------------------------------------
(* The list holds each device once that was heard in the last ticks of the *)
(* scan, and no other, in whatever order entries expire and come           *)
(* (scan_timer_cb).                                                        *)
ListTellsWhoIsThere ==
  /\ Found = {d \in Devices : silent[d] < RemoveTimeout}
  /\ Len(midi_peripherals) = Cardinality(Found)

(* The firmware knows what the page shows, so that a list is sent if and   *)
(* only if it is another one, also after the page has cleared its list     *)
(* (sendScanResultsToWebUI).                                               *)
FirmwareKnowsThePage == page.devices = lastScanResultHash

(* A page that takes a scan for running or for ended will be told that it  *)
(* is wrong.  It is not if the pairing was changed, or the output, before  *)
(* the scan was announced: its button then stays disabled                  *)
(* (updateConnectionStatus).                                               *)
PageWillKnowOfTheScan ==
  page.scanning # scanning => wasScanning # scanning \/ cutShort

(* What is checked of the scan. *)
ScanIsTold == ListTellsWhoIsThere /\ FirmwareKnowsThePage /\ PageWillKnowOfTheScan
=============================================================================
