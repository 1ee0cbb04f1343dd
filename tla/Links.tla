-------------------------------- MODULE Links --------------------------------
(***************************************************************************)
(* The Bluetooth links of the board: the one of the emulated Wii remote to *)
(* its console (WL), and the one to a BLE MIDI device (BL) with the scan   *)
(* for devices (SC).  They share no state, so that a behaviour is one of a *)
(* single part.  A variable whose name several parts use is renamed.       *)
(***************************************************************************)
EXTENDS Integers

CONSTANTS
  Consoles,        (* that the remote may be paired with                    *)
  Devices,         (* BLE MIDI devices                                      *)
  RemoveTimeout,   (* ticks until a silent device leaves the list           *)
  MaxScanItems     (* length of the list                                    *)

VARIABLES wlSelected, wlPairingInfo, saved, needsSave, wlResetDue,
          wii_host_addr, hid_cid, hasSent, timers, restart, isPairing, wlStack,
          wlLink, peer, gaveUp, interrupted
wlVars == <<wlSelected, wlPairingInfo, saved, needsSave, wlResetDue,
            wii_host_addr, hid_cid, hasSent, timers, restart, isPairing,
            wlStack, wlLink, peer, gaveUp, interrupted>>

WL == INSTANCE WiiLink WITH
        selected <- wlSelected, pairingInfo <- wlPairingInfo,
        resetDue <- wlResetDue, stack <- wlStack, link <- wlLink

VARIABLES bcSelected, stopping, bcPairingInfo, scanning, state, bcConHandle,
          midi_is_ready, next_connect, handlers, bcStack, connecting, links
blVars == <<bcSelected, stopping, bcPairingInfo, scanning, state,
            bcConHandle, midi_is_ready, next_connect, handlers, bcStack,
            connecting, links>>

BL == INSTANCE BleClient WITH
        selected <- bcSelected, pairingInfo <- bcPairingInfo,
        con_handle <- bcConHandle, stack <- bcStack

VARIABLES scSelected, scState, powered, discovering, scan_timer,
          midi_peripherals, scScanning, scanResultAvailable,
          lastScanResultHash, scSending, wasScanning, page, silent, cutShort
scVars == <<scSelected, scState, powered, discovering, scan_timer,
            midi_peripherals, scScanning, scanResultAvailable,
            lastScanResultHash, scSending, wasScanning, page, silent, cutShort>>

SC == INSTANCE BleScan WITH
        selected <- scSelected, state <- scState, scanning <- scScanning,
        sending <- scSending

ASSUME LinksAssumption ==
  WL!WiiLinkAssumption /\ BL!BleAssumption /\ SC!ScanAssumption

-----------------------------------------------------------------------------
(* The console that was paired is saved and tried again until it is there, *)
(* pairing ends, and reports go to a connection only (wiimote_btstack.c).  *)
WiiLinkRecovers == WL!WiiLinkRecovers

(* Notes are written to a connection that is there, the firmware waits for *)
(* something that can come, and stop() returns (ble_client.cpp); the list  *)
(* of devices and the page agree with what is heard (scan_timer_cb).       *)
BleClientKeepsGoing == BL!ConnectionKeepsGoing /\ SC!ScanIsTold
=============================================================================
