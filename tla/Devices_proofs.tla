---------------------------- MODULE Devices_proofs ----------------------------
(***************************************************************************)
(* Theorems about the devices at the board: the link of the emulated Wii   *)
(* remote to its console (WiiLink), the one to a BLE MIDI device           *)
(* (BleClient) with the scan for devices (BleScan), the choice of the MIDI *)
(* output (MidiOutputs), the network over USB (NetworkUsb), its DHCP       *)
(* server (Dhcp) and the web pages (WebSession); for every number of       *)
(* consoles, devices, clients and pages.                                   *)
(*                                                                         *)
(* The last two parts are about the inputs.  SensorInput, for every range  *)
(* of the ADC, every balance threshold and every initial offset: the       *)
(* offset of a pin stays in the range of the ADC, and calibrated readings  *)
(* span that range.  Touch (TO), for every set of pins, range of values    *)
(* and width of the clock: a fluctuation does not switch a sensor.         *)
(*                                                                         *)
(* A theorem is about the specification of the part that it names; Spec    *)
(* without a prefix is the one of SensorInput.                             *)
(***************************************************************************)
EXTENDS Links, Hosts, SensorInput, Touches, Sequences, FiniteSets, SequenceTheorems,
        FiniteSetTheorems, WellFoundedInduction, TLAPS

-----------------------------------------------------------------------------
(* The link of the Wii remote.  What is checked of it is inductive.        *)
LEMMA WiiLinkInit == WL!Init => WL!WiiLinkRecovers
BY DEF WL!Init, WL!WiiLinkRecovers, WL!TypeOK, WL!KeepsTrying, WL!PairingIsSaved,
       WL!ReportsGoToAConnection, WL!PairingEnds

LEMMA WiiLinkNext == WL!WiiLinkRecovers /\ [WL!Next]_(WL!vars) => WL!WiiLinkRecovers'
<1> SUFFICES ASSUME WL!WiiLinkRecovers, [WL!Next]_(WL!vars) PROVE WL!WiiLinkRecovers'
  OBVIOUS
<1> USE DEF WL!WiiLinkRecovers, WL!TypeOK, WL!KeepsTrying, WL!PairingIsSaved,
            WL!ReportsGoToAConnection, WL!PairingEnds, WL!NoConsole, WL!Timers,
            WL!transport, WL!emulator, WL!bluetooth, WL!history
<1>1. CASE WL!Start
  BY <1>1 DEF WL!Start
<1>2. CASE WL!Stop
  BY <1>2 DEF WL!Stop, WL!BluetoothDeinit
<1>3. CASE WL!SaveAndReset
  BY <1>3 DEF WL!SaveAndReset, WL!BluetoothDeinit
<1>4. CASE WL!PressButton
  BY <1>4 DEF WL!PressButton, WL!StartPairing
<1>5. CASE WL!Save
  BY <1>5 DEF WL!Save
<1>6. CASE WL!Reboot
  BY <1>6 DEF WL!Reboot, WL!Boot
<1>7. CASE WL!TaskWiimote
  BY <1>7 DEF WL!TaskWiimote, WL!BluetoothDeinit
<1>8. CASE WL!TaskReconnect
  BY <1>8 DEF WL!TaskReconnect, WL!HidSafeDeviceConnect
<1>9. CASE WL!TaskSyncTimeout
  BY <1>9 DEF WL!TaskSyncTimeout, WL!WithoutSync
<1>10. CASE WL!TaskShutdown
  BY <1>10 DEF WL!TaskShutdown
<1>11. CASE WL!StackWorks
  BY <1>11 DEF WL!StackWorks
<1>12. CASE WL!CommandComplete
  <2>1. CASE wii_host_addr = WL!NoConsole
    <3>1. /\ wlStack = "working" /\ wlStack' = "ready"
          /\ timers' = (timers \ {"reconnect"}) \cup {"pairing", "led"}
          /\ isPairing' = TRUE /\ gaveUp' = FALSE /\ interrupted' = FALSE
          /\ UNCHANGED <<wlSelected, wlPairingInfo, saved, needsSave, wlResetDue, hasSent, restart,
                         wii_host_addr, hid_cid, wlLink, peer>>
      BY <1>12, <2>1 DEF WL!CommandComplete, WL!StartPairing
    <3> QED
      BY <2>1, <3>1
  <2>2. CASE wii_host_addr # WL!NoConsole
    <3>1. /\ wlStack' = "ready" /\ UNCHANGED <<isPairing, gaveUp, interrupted, wii_host_addr>>
          /\ UNCHANGED <<wlSelected, wlPairingInfo, saved, needsSave, wlResetDue, hasSent, restart>>
      BY <1>12, <2>2 DEF WL!CommandComplete
    <3>2. \/ timers' = timers \cup {"reconnect"} /\ UNCHANGED <<hid_cid, wlLink, peer>>
          \/ timers' = timers /\ hid_cid' = TRUE /\ wlLink' = "outgoing" /\ peer' = wii_host_addr
      BY <1>12, <2>2 DEF WL!CommandComplete, WL!HidSafeDeviceConnect
    <3>3. "loop" \notin timers
      BY <1>12 DEF WL!CommandComplete
    <3> QED
      BY <3>1, <3>2, <3>3
  <2> QED
    BY <2>1, <2>2
<1>13. CASE WL!StackOff
  BY <1>13 DEF WL!StackOff
<1>14. ASSUME NEW c \in Consoles \cup {WL!NoConsole}, WL!Connected(c), wlStack = "ready"
       PROVE  WL!WiiLinkRecovers'
  BY <1>14 DEF WL!Connected, WL!WithoutSync
<1>15. CASE WL!Opened
  BY <1>14, <1>15 DEF WL!Opened
<1>16. ASSUME NEW c \in Consoles, WL!Incoming(c)
       PROVE  WL!WiiLinkRecovers'
  BY <1>14, <1>16 DEF WL!Incoming
<1>17. CASE WL!OpenFailed
  BY <1>17 DEF WL!OpenFailed
<1>18. CASE WL!Closed
  <2>1. UNCHANGED <<wlSelected, wlPairingInfo, saved, needsSave, wlResetDue, wii_host_addr,
                    hasSent, restart, isPairing, wlStack, gaveUp, interrupted>>
    BY <1>18 DEF WL!Closed
  <2>2. CASE ~hid_cid
    <3>1. wlLink' = "idle" /\ UNCHANGED <<timers, hid_cid, peer>>
      BY <1>18, <2>2 DEF WL!Closed
    <3> QED
      BY <2>1, <2>2, <3>1
  <2>3. CASE hid_cid
    <3>1. \/ /\ timers' = timers \ {"loop"} /\ wlLink' = "idle" /\ hid_cid' = FALSE
             /\ wii_host_addr = WL!NoConsole /\ UNCHANGED peer
          \/ /\ timers' = timers \ {"loop"} /\ wlLink' = "outgoing" /\ hid_cid' = TRUE
             /\ peer' = wii_host_addr
          \/ /\ timers' = (timers \ {"loop"}) \cup {"reconnect"} /\ wlLink' = "idle"
             /\ hid_cid' = FALSE /\ UNCHANGED peer
      BY <1>18, <2>3 DEF WL!Closed
    <3> QED
      BY <2>1, <3>1
  <2> QED
    BY <2>2, <2>3
<1>19. CASE WL!CanSendNow
  BY <1>19 DEF WL!CanSendNow
<1>20. CASE WL!Vanish
  BY <1>20 DEF WL!Vanish
<1>21. CASE UNCHANGED WL!vars
  BY <1>21 DEF WL!vars
<1> QED
  BY <1>1, <1>2, <1>3, <1>4, <1>5, <1>6, <1>7, <1>8, <1>9, <1>10, <1>11, <1>12, <1>13,
     <1>15, <1>16, <1>17, <1>18, <1>19, <1>20, <1>21 DEF WL!Next

(* The console that was paired gets into the file and is tried again until *)
(* it is there, pairing ends, and reports are asked for only while there   *)
(* is a connection, however commands, timers, resets and the events of     *)
(* the stack are interleaved (wiimote_btstack.c).                          *)
THEOREM WiiLinkAlwaysRecovers == WL!Spec => []WiiLinkRecovers
BY WiiLinkInit, WiiLinkNext, PTL DEF WL!Spec, WiiLinkRecovers
-----------------------------------------------------------------------------
(* The client of a BLE MIDI device.  To show that the firmware never waits *)
(* in vain takes what the library knows of the stack: it is down exactly   *)
(* while the stack is, has its handlers otherwise, and has a device to     *)
(* connect to whenever it waits for a connection.                          *)
BleInv ==
  /\ BL!ConnectionKeepsGoing
  /\ state = "CONNECTION" \/ ~handlers => ~midi_is_ready
  /\ bcStack = "off" <=> state = "DEINIT"
  /\ bcStack = "off" => connecting = {} /\ links = {} /\ bcConHandle = BL!NoDevice
  /\ state # "DEINIT" => handlers
  /\ state = "CONNECTION" => next_connect # BL!NoDevice
  /\ stopping => bcStack \in {"off", "halting"}
  /\ bcSelected /\ ~stopping => handlers /\ bcStack # "halting"

LEMMA BleInit == BL!Init => BleInv
BY DEF BL!Init, BleInv, BL!ConnectionKeepsGoing, BL!TypeOK, BL!NotesGoOverALink,
       BL!WaitingHasAReason, BL!StopReturns, BL!States

LEMMA BleNext ==
  ASSUME BL!BleAssumption
  PROVE  BleInv /\ [BL!Next]_(BL!vars) => BleInv'
<1> SUFFICES ASSUME BleInv, [BL!Next]_(BL!vars) PROVE BleInv'
  OBVIOUS
<1> USE BL!BleAssumption
    DEF BleInv, BL!ConnectionKeepsGoing, BL!TypeOK, BL!NotesGoOverALink,
        BL!WaitingHasAReason, BL!StopReturns, BL!BleAssumption, BL!NoDevice,
        BL!States, BL!AfterScan, BL!Discovering, BL!firmware, BL!library, BL!bluetooth,
        BL!IsConnected, BL!Running, BL!AfterScanEnd, BL!PowerOff
<1>1. CASE BL!Start
  BY <1>1 DEF BL!Start
<1>2. CASE BL!StopClient
  BY <1>2 DEF BL!StopClient
<1>3. CASE BL!StopEnds
  BY <1>3 DEF BL!StopEnds
<1>4. ASSUME NEW d \in {BL!NoDevice} \cup Devices, BL!SetPairingInfo(d)
      PROVE  BleInv'
  BY <1>4 DEF BL!SetPairingInfo
<1>5. CASE BL!StartDeviceScan
  BY <1>5 DEF BL!StartDeviceScan
<1>6. CASE BL!ScanTimeout
  BY <1>6 DEF BL!ScanTimeout
<1>7. CASE BL!Reconnect
  BY <1>7 DEF BL!Reconnect, BL!GapConnect
<1>8. CASE BL!StackWorks
  BY <1>8 DEF BL!StackWorks, BL!GapConnect
<1>9. CASE BL!StackOff
  BY <1>9 DEF BL!StackOff
<1>10. ASSUME NEW d \in Devices, BL!ConnectionComplete(d)
       PROVE  BleInv'
  BY <1>10 DEF BL!ConnectionComplete
<1>11. ASSUME NEW d \in Devices, BL!ConnectionCancelled(d)
       PROVE  BleInv'
  BY <1>11 DEF BL!ConnectionCancelled
<1>12. ASSUME NEW d \in Devices, BL!ConnectionFailed(d)
       PROVE  BleInv'
  BY <1>12 DEF BL!ConnectionFailed
<1>13. CASE BL!QueryComplete
  BY <1>13 DEF BL!QueryComplete
<1>14. ASSUME NEW d \in Devices, BL!ConnectionUpdated(d)
       PROVE  BleInv'
  BY <1>14 DEF BL!ConnectionUpdated
<1>15. ASSUME NEW d \in Devices, BL!DisconnectionComplete(d)
       PROVE  BleInv'
  BY <1>15 DEF BL!DisconnectionComplete, BL!GapConnect
<1>16. CASE UNCHANGED BL!vars
  BY <1>16 DEF BL!vars
<1> QED
  BY <1>1, <1>2, <1>3, <1>4, <1>5, <1>6, <1>7, <1>8, <1>9, <1>10, <1>11, <1>12, <1>13,
     <1>14, <1>15, <1>16 DEF BL!Next

(* Notes are written to a connection that is there, the firmware waits for *)
(* something that can come, and stop() returns, whatever becomes of scans, *)
(* of other connections and of the stack (ble_client.cpp).                 *)
THEOREM ConnectionAlwaysKeepsGoing == BL!Spec => []BL!ConnectionKeepsGoing
<1>1. BL!Init => BleInv
  BY BleInit, LinksAssumption
<1>2. BleInv /\ [BL!Next]_(BL!vars) => BleInv'
  BY BleNext, LinksAssumption
<1>3. BleInv => BL!ConnectionKeepsGoing
  BY DEF BleInv
<1> QED
  BY <1>1, <1>2, <1>3, PTL DEF BL!Spec
-----------------------------------------------------------------------------
(* The scan of the BLE client.  Of a device that is in the list, the       *)
(* entry's timeout and the ticks since it was heard are complementary.     *)
Entry == [bdaddr : Devices, type : SC!Names, timeout : 1..RemoveTimeout]

OnePerDevice(list) ==
  \A i, j \in 1..Len(list) : list[i].bdaddr = list[j].bdaddr => i = j

ListOf(list, ticks) ==
  /\ list \in Seq(Entry) /\ ticks \in [Devices -> 0..RemoveTimeout]
  /\ OnePerDevice(list)
  /\ \A i \in 1..Len(list) : ticks[list[i].bdaddr] + list[i].timeout = RemoveTimeout
  /\ \A d \in Devices :
       ticks[d] < RemoveTimeout => \E i \in 1..Len(list) : list[i].bdaddr = d

(* Induction over the natural numbers up to a bound, for sets. *)
LEMMA InductionUpTo ==
  ASSUME NEW n \in Nat, NEW S, 0 \in S, \A i \in 0..(n - 1) : i \in S => i + 1 \in S
  PROVE  0..n \subseteq S
<1> DEFINE T == (0..n) \ S
<1> SUFFICES ASSUME T # {} PROVE FALSE
  OBVIOUS
<1>1. T \subseteq Nat
  OBVIOUS
<1>2. PICK x \in T : \A y \in T : ~(<<y, x>> \in OpToRel(<, Nat))
  <2> HIDE DEF T
  <2> QED
    BY <1>1, WFMin, NatLessThanWellFounded
<1>3. x \in 0..n /\ x \notin S /\ x # 0
  BY <1>2
<1>4. x - 1 \in 0..(n - 1) /\ (x - 1) + 1 = x /\ x - 1 \in Nat /\ x \in Nat /\ x - 1 < x
      /\ x - 1 \in 0..n
  BY <1>3
<1>5. <<x - 1, x>> \in OpToRel(<, Nat)
  BY <1>4 DEF OpToRel
<1>6. x - 1 \in S
  BY <1>2, <1>4, <1>5
<1> QED
  BY <1>3, <1>4, <1>6

-----------------------------------------------------------------------------
(* The pass over the list, visit by visit. *)
IsPass(list, n, pass) ==
  pass = [k \in 0..n |-> IF k = 0 THEN [list |-> list, idx |-> 1]
                         ELSE SC!Visit(pass[k - 1])]

LEMMA PassExists ==
  ASSUME NEW list, NEW n \in Nat
  PROVE  \E pass : IsPass(list, n, pass)
<1> DEFINE S == {i \in 0..n : \E pass : IsPass(list, i, pass)}
           b == [list |-> list, idx |-> 1]
<1>1. 0 \in S
  <2> DEFINE f == [k \in 0..0 |-> b]
  <2>1. IsPass(list, 0, f)
    BY DEF IsPass
  <2> QED
    BY <2>1
<1>2. ASSUME NEW i \in 0..(n - 1), i \in S
      PROVE  i + 1 \in S
  <2>1. PICK f : IsPass(list, i, f)
    BY <1>2
  <2> HIDE DEF b
  <2>2. f = [k \in 0..i |-> IF k = 0 THEN b ELSE SC!Visit(f[k - 1])]
    BY <2>1 DEF IsPass, b
  <2> DEFINE h == [k \in 0..(i + 1) |-> IF k = i + 1 THEN SC!Visit(f[i]) ELSE f[k]]
  <2>3. ASSUME NEW k \in 0..(i + 1)
        PROVE  h[k] = IF k = 0 THEN b ELSE SC!Visit(h[k - 1])
    <3>1. CASE k = i + 1
      <4>1. k # 0 /\ k - 1 = i /\ i \in 0..(i + 1) /\ i # i + 1
        BY <3>1
      <4>2. h[k - 1] = f[i]
        BY <4>1
      <4> QED
        BY <3>1, <4>1, <4>2
    <3>2. CASE k # i + 1
      <4>1. k \in 0..i /\ h[k] = f[k] /\ f[k] = IF k = 0 THEN b ELSE SC!Visit(f[k - 1])
        BY <2>2, <3>2
      <4>2. k # 0 => h[k - 1] = f[k - 1]
        BY <4>1
      <4> HIDE DEF h
      <4> QED
        BY <4>1, <4>2
    <3> QED
      BY <3>1, <3>2
  <2>4. h = [k \in 0..(i + 1) |-> h[k]]
    OBVIOUS
  <2> HIDE DEF h
  <2>5. h = [k \in 0..(i + 1) |-> IF k = 0 THEN b ELSE SC!Visit(h[k - 1])]
    BY <2>3, <2>4
  <2>6. IsPass(list, i + 1, h)
    BY <2>5 DEF IsPass, b
  <2> QED
    BY <2>6
<1> HIDE DEF S
<1>3. 0..n \subseteq S
  BY <1>1, <1>2, InductionUpTo
<1> QED
  BY <1>3 DEF S

LEMMA ExpiredLemma ==
  ASSUME NEW list, Len(list) \in Nat
  PROVE  \E pass : IsPass(list, Len(list), pass) /\ SC!Expired(list) = pass[Len(list)].list
<1> DEFINE p == CHOOSE pass : IsPass(list, Len(list), pass)
<1>1. IsPass(list, Len(list), p)
  BY PassExists
<1>2. SC!Expired(list) = p[Len(list)].list
  BY DEF SC!Expired, IsPass
<1> QED
  BY <1>1, <1>2

(* After some visits of the pass: the entries before idx are those of the  *)
(* new tick, the others are those of the last one.                         *)
Passed(ticks, n, k, pass) ==
  /\ pass \in [list : Seq(Entry), idx : Nat] /\ OnePerDevice(pass.list)
  /\ pass.idx >= 1 /\ Len(pass.list) <= n
  /\ (pass.idx - 1) + (n - Len(pass.list)) = k
  /\ \A i \in 1..Len(pass.list) :
       ticks[pass.list[i].bdaddr] + (IF i < pass.idx THEN 1 ELSE 0) + pass.list[i].timeout
         = RemoveTimeout
  /\ \A d \in Devices :
       ticks[d] + 1 < RemoveTimeout => \E i \in 1..Len(pass.list) : pass.list[i].bdaddr = d

LEMMA VisitLemma ==
  ASSUME SC!ScanAssumption, NEW ticks \in [Devices -> 0..RemoveTimeout],
         NEW n \in Nat, NEW k \in 0..(n - 1), NEW pass, Passed(ticks, n, k, pass)
  PROVE  Passed(ticks, n, k + 1, SC!Visit(pass))
<1> DEFINE list == pass.list
           idx == pass.idx
           left == list[idx].timeout - 1
           last == Len(list)
<1>1. /\ list \in Seq(Entry) /\ OnePerDevice(list)
      /\ idx \in Nat /\ idx >= 1 /\ last <= n /\ (idx - 1) + (n - last) = k
      /\ \A i \in 1..last :
           ticks[list[i].bdaddr] + (IF i < idx THEN 1 ELSE 0) + list[i].timeout = RemoveTimeout
      /\ \A d \in Devices :
           ticks[d] + 1 < RemoveTimeout => \E i \in 1..last : list[i].bdaddr = d
  BY DEF Passed
<1>2. /\ last \in Nat /\ last # 0 /\ idx \in 1..last
      /\ DOMAIN list = 1..last
      /\ \A i \in 1..last : list[i] \in Entry
  <2>1. last \in Nat /\ DOMAIN list = 1..last /\ \A i \in 1..last : list[i] \in Entry
    BY <1>1, LenProperties, ElementOfSeq
  <2> QED
    BY <1>1, <2>1
<1>3. RemoveTimeout \in Nat
  BY DEF SC!ScanAssumption
<1>4. \A i \in 1..last : /\ list[i].bdaddr \in Devices /\ list[i].timeout \in 1..RemoveTimeout
                         /\ ticks[list[i].bdaddr] \in 0..RemoveTimeout
  BY <1>2 DEF Entry
<1> HIDE DEF list, idx, last
<1>5. CASE left = 0
  <2> DEFINE new == [i \in 1..(last - 1) |-> IF i = idx THEN list[last] ELSE list[i]]
  <2>1. SC!Visit(pass) = [list |-> new, idx |-> idx]
    <3> DEFINE r == [list EXCEPT ![idx] = list[last]]
    <3>1. SC!Visit(pass) = [list |-> SubSeq(r, 1, Len(r) - 1), idx |-> idx]
      <4>1. SC!Visit(pass) = [pass EXCEPT !.list = SubSeq(r, 1, Len(r) - 1)]
        BY <1>5 DEF SC!Visit, SC!Front, SC!ReplaceAt, SC!Last, list, idx, last
      <4> HIDE DEF r
      <4> QED
        BY <4>1 DEF Passed, idx
    <3>2. /\ r \in Seq(Entry) /\ Len(r) = last
          /\ \A i \in 1..last : r[i] = IF i = idx THEN list[last] ELSE list[i]
      <4>1. last \in 1..last /\ list[last] \in Entry
        BY <1>2
      <4> QED
        BY <1>1, <1>2, <4>1, ExceptSeq DEF last
    <3> HIDE DEF r
    <3>3. /\ SubSeq(r, 1, last - 1) \in Seq(Entry) /\ Len(SubSeq(r, 1, last - 1)) = last - 1
          /\ \A i \in 1..(last - 1) : SubSeq(r, 1, last - 1)[i] = r[i]
      BY <1>2, <3>2, SubSeqProperties
    <3>4. SubSeq(r, 1, last - 1) = new
      BY <1>2, <3>2, <3>3
    <3> QED
      BY <3>1, <3>2, <3>4
  <2>2. new \in Seq(Entry) /\ Len(new) = last - 1
    <3>1. \A i \in 1..(last - 1) : (IF i = idx THEN list[last] ELSE list[i]) \in Entry
      BY <1>2
    <3>2. last - 1 \in Nat
      BY <1>2
    <3> QED
      BY <3>1, <3>2, IsASeq, LenProperties
  <2>3. \A i \in 1..(last - 1) : new[i] = IF i = idx THEN list[last] ELSE list[i]
    OBVIOUS
  <2> HIDE DEF new
  <2>4. OnePerDevice(new)
    <3> SUFFICES ASSUME NEW i \in 1..(last - 1), NEW j \in 1..(last - 1),
                        new[i].bdaddr = new[j].bdaddr
                 PROVE  i = j
      BY <2>2 DEF OnePerDevice
    <3> QED
      BY <1>1, <1>2, <2>3 DEF OnePerDevice, last
  <2>5. \A i \in 1..(last - 1) :
          ticks[new[i].bdaddr] + (IF i < idx THEN 1 ELSE 0) + new[i].timeout = RemoveTimeout
    <3> SUFFICES ASSUME NEW i \in 1..(last - 1)
                 PROVE  ticks[new[i].bdaddr] + (IF i < idx THEN 1 ELSE 0) + new[i].timeout
                          = RemoveTimeout
      OBVIOUS
    <3>1. CASE i # idx
      <4>1. new[i] = list[i] /\ i \in 1..last
        BY <1>2, <2>3, <3>1
      <4> QED
        BY <1>1, <4>1
    <3>2. CASE i = idx
      <4>1. new[i] = list[last] /\ last \in 1..last /\ ~(last < idx) /\ ~(i < idx)
        BY <1>2, <2>3, <3>2
      <4> QED
        BY <1>1, <4>1
    <3> QED
      BY <3>1, <3>2
  <2>6. \A d \in Devices :
          ticks[d] + 1 < RemoveTimeout => \E i \in 1..(last - 1) : new[i].bdaddr = d
    <3> SUFFICES ASSUME NEW d \in Devices, ticks[d] + 1 < RemoveTimeout
                 PROVE  \E i \in 1..(last - 1) : new[i].bdaddr = d
      OBVIOUS
    <3>1. PICK i \in 1..last : list[i].bdaddr = d
      BY <1>1
    <3>2. i # idx
      <4>1. list[idx].timeout \in Nat /\ list[idx].timeout = 1
        BY <1>2, <1>4, <1>5
      <4>2. ticks[list[idx].bdaddr] + 0 + 1 = RemoveTimeout
        BY <1>1, <1>2, <4>1
      <4> QED
        BY <1>2, <1>3, <1>4, <3>1, <4>2
    <3>3. CASE i = last
      <4>1. idx \in 1..(last - 1)
        BY <1>2, <3>2, <3>3
      <4> QED
        BY <2>3, <3>1, <3>3, <4>1
    <3>4. CASE i # last
      <4>1. i \in 1..(last - 1)
        BY <1>2, <3>4
      <4> QED
        BY <2>3, <3>1, <3>2, <4>1
    <3> QED
      BY <3>3, <3>4
  <2>7. last - 1 <= n /\ (idx - 1) + (n - (last - 1)) = k + 1
    <3>1. idx \in Nat /\ last \in Nat /\ last <= n /\ (idx - 1) + (n - last) = k
      BY <1>1, <1>2
    <3> QED
      BY <3>1
  <2>8. SC!Visit(pass).list = new /\ SC!Visit(pass).idx = idx
        /\ SC!Visit(pass) \in [list : Seq(Entry), idx : Nat]
    BY <1>1, <2>1, <2>2
  <2> QED
    BY <1>1, <2>2, <2>4, <2>5, <2>6, <2>7, <2>8 DEF Passed
<1>6. CASE left # 0
  <2> DEFINE new == [list EXCEPT ![idx].timeout = left]
  <2>1. SC!Visit(pass) = [list |-> new, idx |-> idx + 1]
    BY <1>6 DEF SC!Visit, list, idx
  <2>2. left \in 1..RemoveTimeout
    BY <1>2, <1>3, <1>4, <1>6
  <2> HIDE DEF left
  <2>3. /\ new \in Seq(Entry) /\ Len(new) = last
        /\ \A i \in 1..last :
             new[i] = IF i = idx THEN [list[idx] EXCEPT !.timeout = left] ELSE list[i]
    <3>1. [list[idx] EXCEPT !.timeout = left] \in Entry
      BY <1>2, <2>2 DEF Entry
    <3> QED
      BY <1>1, <1>2, <3>1, ExceptSeq DEF last
  <2>4. \A i \in 1..last : /\ new[i].bdaddr = list[i].bdaddr
                           /\ new[i].timeout = IF i = idx THEN left ELSE list[i].timeout
    BY <1>2, <2>3 DEF Entry
  <2> HIDE DEF new
  <2>5. OnePerDevice(new)
    BY <1>1, <1>2, <2>3, <2>4 DEF OnePerDevice, last
  <2>6. \A i \in 1..last :
          ticks[new[i].bdaddr] + (IF i < idx + 1 THEN 1 ELSE 0) + new[i].timeout = RemoveTimeout
    <3> SUFFICES ASSUME NEW i \in 1..last
                 PROVE  ticks[list[i].bdaddr] + (IF i < idx + 1 THEN 1 ELSE 0)
                          + (IF i = idx THEN left ELSE list[i].timeout) = RemoveTimeout
      BY <2>4
    <3>1. ticks[list[i].bdaddr] + (IF i < idx THEN 1 ELSE 0) + list[i].timeout = RemoveTimeout
      BY <1>1
    <3>2. CASE i = idx
      <4>1. /\ ticks[list[idx].bdaddr] \in Nat /\ list[idx].timeout \in Nat
            /\ ~(i < idx) /\ i < idx + 1
        BY <1>2, <1>3, <1>4, <3>2
      <4>2. ticks[list[idx].bdaddr] + 0 + list[idx].timeout = RemoveTimeout
        BY <3>1, <3>2, <4>1
      <4>3. ticks[list[idx].bdaddr] + 1 + (list[idx].timeout - 1) = RemoveTimeout
        BY <4>1, <4>2
      <4> QED
        BY <3>2, <4>1, <4>3 DEF left
    <3>3. CASE i # idx
      <4>1. i < idx + 1 <=> i < idx
        BY <1>2, <3>3
      <4> QED
        BY <3>1, <3>3, <4>1
    <3> QED
      BY <3>2, <3>3
  <2>7. \A d \in Devices :
          ticks[d] + 1 < RemoveTimeout => \E i \in 1..last : new[i].bdaddr = d
    BY <1>1, <2>4
  <2>8. /\ idx + 1 \in Nat /\ idx + 1 >= 1 /\ last <= n
        /\ (idx + 1 - 1) + (n - last) = k + 1
    BY <1>1, <1>2
  <2>9. SC!Visit(pass).list = new /\ SC!Visit(pass).idx = idx + 1
        /\ SC!Visit(pass) \in [list : Seq(Entry), idx : Nat]
    BY <2>1, <2>3, <2>8
  <2>10. Len(new) = last
    BY <2>3
  <2> DEFINE v == SC!Visit(pass)
  <2>11. /\ v \in [list : Seq(Entry), idx : Nat] /\ OnePerDevice(v.list)
         /\ v.idx >= 1 /\ Len(v.list) <= n
         /\ (v.idx - 1) + (n - Len(v.list)) = k + 1
    <3>1. v.list = new /\ v.idx = idx + 1 /\ v \in [list : Seq(Entry), idx : Nat]
          /\ Len(v.list) = last
      BY <2>9, <2>10
    <3>2. last \in Nat /\ idx \in Nat
      BY <1>1, <1>2
    <3> HIDE DEF v
    <3>3. v.idx >= 1 /\ (v.idx - 1) + (n - Len(v.list)) = k + 1
      BY <2>8, <3>1, <3>2
    <3> QED
      BY <2>5, <2>8, <3>1, <3>3
  <2> HIDE DEF v
  <2>12. \A i \in 1..Len(v.list) :
           ticks[v.list[i].bdaddr] + (IF i < v.idx THEN 1 ELSE 0) + v.list[i].timeout
             = RemoveTimeout
    BY <2>6, <2>9, <2>10, Zenon DEF v
  <2>13. \A d \in Devices :
           ticks[d] + 1 < RemoveTimeout => \E i \in 1..Len(v.list) : v.list[i].bdaddr = d
    BY <2>7, <2>9, <2>10, Zenon DEF v
  <2> QED
    BY <2>11, <2>12, <2>13 DEF Passed, v
<1> QED
  BY <1>5, <1>6

(* A tick: the entries of the devices that were not heard for long expire, *)
(* and those of the others stay.                                           *)
LEMMA TickLemma ==
  ASSUME SC!ScanAssumption, NEW list, NEW ticks, ListOf(list, ticks)
  PROVE  ListOf(SC!Expired(list),
                [d \in Devices |-> IF ticks[d] = RemoveTimeout THEN ticks[d] ELSE ticks[d] + 1])
<1> DEFINE n == Len(list)
           next == [d \in Devices |-> IF ticks[d] = RemoveTimeout THEN ticks[d]
                                      ELSE ticks[d] + 1]
<1>1. /\ list \in Seq(Entry) /\ ticks \in [Devices -> 0..RemoveTimeout]
      /\ n \in Nat /\ DOMAIN list = 1..n /\ OnePerDevice(list)
      /\ \A i \in 1..n : ticks[list[i].bdaddr] + list[i].timeout = RemoveTimeout
      /\ \A d \in Devices : ticks[d] < RemoveTimeout => \E i \in 1..n : list[i].bdaddr = d
  BY LenProperties DEF ListOf
<1>2. RemoveTimeout \in Nat /\ \A d \in Devices : ticks[d] \in 0..RemoveTimeout
  BY <1>1 DEF SC!ScanAssumption
<1>3. PICK pass : IsPass(list, n, pass) /\ SC!Expired(list) = pass[n].list
  BY <1>1, ExpiredLemma
<1>4. Passed(ticks, n, 0, pass[0])
  <2>1. pass[0] = [list |-> list, idx |-> 1]
    BY <1>1, <1>3 DEF IsPass
  <2>2. /\ pass[0].list = list /\ pass[0].idx = 1
        /\ pass[0] \in [list : Seq(Entry), idx : Nat]
    BY <1>1, <2>1
  <2>3. \A i \in 1..n :
          ticks[list[i].bdaddr] + (IF i < 1 THEN 1 ELSE 0) + list[i].timeout = RemoveTimeout
    <3> SUFFICES ASSUME NEW i \in 1..n
                 PROVE  ticks[list[i].bdaddr] + (IF i < 1 THEN 1 ELSE 0) + list[i].timeout
                          = RemoveTimeout
      OBVIOUS
    <3>1. ~(i < 1) /\ list[i] \in Entry
      BY <1>1, ElementOfSeq
    <3>2. ticks[list[i].bdaddr] \in Nat
      BY <1>1, <1>2, <3>1 DEF Entry
    <3> QED
      BY <1>1, <3>1, <3>2
  <2>4. \A d \in Devices :
          ticks[d] + 1 < RemoveTimeout => \E i \in 1..n : list[i].bdaddr = d
    BY <1>1, <1>2
  <2> HIDE DEF n
  <2>5. n <= n /\ (1 - 1) + (n - n) = 0
    BY <1>1
  <2>6. Len(list) = n
    BY DEF n
  <2> QED
    BY <1>1, <2>2, <2>3, <2>4, <2>5, <2>6 DEF Passed
<1> HIDE DEF n
<1>5. Passed(ticks, n, n, pass[n])
  <2> DEFINE S == {k \in 0..n : Passed(ticks, n, k, pass[k])}
  <2>1. 0 \in S
    BY <1>1, <1>4
  <2>2. ASSUME NEW k \in 0..(n - 1), k \in S
        PROVE  k + 1 \in S
    <3>1. k + 1 \in 0..n /\ k + 1 # 0 /\ (k + 1) - 1 = k
      BY <1>1
    <3>2. pass[k + 1] = SC!Visit(pass[k])
      BY <1>3, <3>1 DEF IsPass
    <3>3. Passed(ticks, n, k + 1, SC!Visit(pass[k]))
      BY <1>1, <2>2, VisitLemma
    <3> QED
      BY <3>1, <3>2, <3>3
  <2> HIDE DEF S
  <2>3. 0..n \subseteq S
    BY <1>1, <2>1, <2>2, InductionUpTo
  <2> QED
    BY <1>1, <2>3 DEF S
<1> DEFINE left == pass[n].list
<1>6. /\ left \in Seq(Entry) /\ OnePerDevice(left) /\ Len(left) \in Nat
      /\ \A i \in 1..Len(left) : left[i] \in Entry /\ i < pass[n].idx
      /\ \A i \in 1..Len(left) :
           ticks[left[i].bdaddr] + (IF i < pass[n].idx THEN 1 ELSE 0) + left[i].timeout
             = RemoveTimeout
      /\ \A d \in Devices :
           ticks[d] + 1 < RemoveTimeout => \E i \in 1..Len(left) : left[i].bdaddr = d
  <2>1. /\ left \in Seq(Entry) /\ OnePerDevice(left)
        /\ pass[n].idx \in Nat /\ (pass[n].idx - 1) + (n - Len(left)) = n
        /\ \A i \in 1..Len(left) :
             ticks[left[i].bdaddr] + (IF i < pass[n].idx THEN 1 ELSE 0) + left[i].timeout
               = RemoveTimeout
        /\ \A d \in Devices :
             ticks[d] + 1 < RemoveTimeout => \E i \in 1..Len(left) : left[i].bdaddr = d
    BY <1>5 DEF Passed
  <2> HIDE DEF left
  <2>2. Len(left) \in Nat /\ \A i \in 1..Len(left) : left[i] \in Entry
    BY <2>1, LenProperties, ElementOfSeq
  <2>3. \A i \in 1..Len(left) : i < pass[n].idx
    BY <1>1, <2>1, <2>2
  <2> QED
    BY <2>1, <2>2, <2>3
<1> HIDE DEF left
<1>7. next \in [Devices -> 0..RemoveTimeout]
  BY <1>1, <1>2
<1>8. \A i \in 1..Len(left) : next[left[i].bdaddr] + left[i].timeout = RemoveTimeout
  <2> SUFFICES ASSUME NEW i \in 1..Len(left)
               PROVE  next[left[i].bdaddr] + left[i].timeout = RemoveTimeout
    OBVIOUS
  <2>1. /\ left[i].bdaddr \in Devices /\ left[i].timeout \in Nat /\ left[i].timeout # 0
        /\ ticks[left[i].bdaddr] \in Nat
    BY <1>2, <1>6 DEF Entry
  <2>2. ticks[left[i].bdaddr] + 1 + left[i].timeout = RemoveTimeout
    BY <1>6
  <2>3. next[left[i].bdaddr] = ticks[left[i].bdaddr] + 1
    BY <1>2, <2>1, <2>2
  <2> QED
    BY <2>2, <2>3
<1>9. \A d \in Devices :
        next[d] < RemoveTimeout => \E i \in 1..Len(left) : left[i].bdaddr = d
  BY <1>2, <1>6
<1> HIDE DEF next
<1>10. ListOf(left, next)
  BY <1>6, <1>7, <1>8, <1>9 DEF ListOf
<1> QED
  BY <1>3, <1>10 DEF left, next

(* What is checked of the list. *)
LEMMA ListLemma ==
  ASSUME SC!ScanAssumption, ListOf(midi_peripherals, silent)
  PROVE  SC!ListTellsWhoIsThere
<1> DEFINE list == midi_peripherals
           n == Len(list)
           f == [i \in 1..n |-> list[i].bdaddr]
<1>1. /\ list \in Seq(Entry) /\ silent \in [Devices -> 0..RemoveTimeout]
      /\ OnePerDevice(list)
      /\ \A i \in 1..n : silent[list[i].bdaddr] + list[i].timeout = RemoveTimeout
      /\ \A d \in Devices : silent[d] < RemoveTimeout => \E i \in 1..n : list[i].bdaddr = d
  BY DEF ListOf
<1>2. /\ n \in Nat /\ DOMAIN list = 1..n
      /\ \A i \in 1..n : list[i].bdaddr \in Devices /\ list[i].timeout \in 1..RemoveTimeout
  <2>1. n \in Nat /\ DOMAIN list = 1..n /\ \A i \in 1..n : list[i] \in Entry
    BY <1>1, LenProperties, ElementOfSeq
  <2> QED
    BY <2>1 DEF Entry
<1> HIDE DEF list, n
<1>3. SC!Found = {list[i].bdaddr : i \in 1..n}
  BY <1>2 DEF SC!Found, list
<1>4. \A i \in 1..n : silent[list[i].bdaddr] < RemoveTimeout
  <2> SUFFICES ASSUME NEW i \in 1..n PROVE silent[list[i].bdaddr] < RemoveTimeout
    OBVIOUS
  <2>1. /\ RemoveTimeout \in Nat /\ silent[list[i].bdaddr] \in 0..RemoveTimeout
        /\ list[i].timeout \in 1..RemoveTimeout
        /\ silent[list[i].bdaddr] + list[i].timeout = RemoveTimeout
    BY <1>1, <1>2 DEF SC!ScanAssumption
  <2> QED
    BY <2>1
<1>5. SC!Found = {d \in Devices : silent[d] < RemoveTimeout}
  BY <1>1, <1>2, <1>3, <1>4
<1>6. f \in Bijection(1..n, SC!Found)
  <2>1. f \in [1..n -> SC!Found]
    BY <1>3
  <2>2. \A i, j \in 1..n : f[i] = f[j] => i = j
    BY <1>1 DEF OnePerDevice, n
  <2>3. \A d \in SC!Found : \E i \in 1..n : f[i] = d
    BY <1>3
  <2> HIDE DEF f
  <2> QED
    BY <2>1, <2>2, <2>3 DEF Bijection, Injection, Surjection, IsInjective
<1>7. Cardinality(SC!Found) = n
  BY <1>2, <1>6, FS_CountingElements DEF ExistsBijection
<1>8. Len(midi_peripherals) = Cardinality(SC!Found)
  BY <1>7 DEF n, list
<1>9. SC!Cardinality(SC!Found) = Cardinality(SC!Found)
  BY DEF SC!Cardinality, Cardinality
<1> QED
  BY <1>5, <1>8, <1>9 DEF SC!ListTellsWhoIsThere

(* A device is heard: its entry is renewed, or it gets one. *)
LEMMA NamedLemma ==
  ASSUME SC!ScanAssumption, NEW entry, NEW name \in SC!Names,
         entry.bdaddr \in Devices, entry.type \in SC!Names,
         entry = [bdaddr |-> entry.bdaddr, type |-> entry.type, timeout |-> entry.timeout]
  PROVE  /\ SC!Named(entry, name) \in Entry
         /\ SC!Named(entry, name).bdaddr = entry.bdaddr
         /\ SC!Named(entry, name).timeout = RemoveTimeout
<1>1. RemoveTimeout \in 1..RemoveTimeout
  BY DEF SC!ScanAssumption
<1> DEFINE type == IF entry.type = "complete" \/ name = "none" THEN entry.type ELSE name
<1>2. type \in SC!Names
  OBVIOUS
<1>3. SC!Named(entry, name) = [bdaddr |-> entry.bdaddr, type |-> type, timeout |-> RemoveTimeout]
  <2> DEFINE b == entry.bdaddr
             t == entry.type
             e == [bdaddr |-> b, type |-> t, timeout |-> entry.timeout]
  <2>1. SC!Named(e, name) = [bdaddr |-> b, type |-> IF t = "complete" \/ name = "none" THEN t
                                                    ELSE name, timeout |-> RemoveTimeout]
    <3> HIDE DEF b, t
    <3> DEFINE y == IF e.type = "complete" \/ name = "none" THEN e.type ELSE name
               r == [bdaddr |-> b, type |-> t, timeout |-> RemoveTimeout]
    <3>1. SC!Named(e, name) = [[e EXCEPT !.timeout = RemoveTimeout] EXCEPT !.type = y]
      BY DEF SC!Named
    <3>2. y = IF t = "complete" \/ name = "none" THEN t ELSE name
      OBVIOUS
    <3> HIDE DEF y
    <3>3. [e EXCEPT !.timeout = RemoveTimeout] = r
      OBVIOUS
    <3> HIDE DEF e
    <3>4. [r EXCEPT !.type = y] = [bdaddr |-> b, type |-> y, timeout |-> RemoveTimeout]
      OBVIOUS
    <3> QED
      BY <3>1, <3>2, <3>3, <3>4
  <2>2. e = entry
    OBVIOUS
  <2> HIDE DEF e
  <2> QED
    BY <2>1, <2>2
<1> HIDE DEF type
<1> QED
  BY <1>1, <1>2, <1>3 DEF Entry

LEMMA HeardLemma ==
  ASSUME SC!ScanAssumption, ListOf(midi_peripherals, silent),
         NEW d \in Devices, NEW tellsService \in BOOLEAN, NEW name \in SC!Names,
         SC!AdvertisingReport(d, tellsService, name)
  PROVE  ListOf(midi_peripherals, silent)'
<1> DEFINE list == midi_peripherals
           n == Len(list)
<1>1. /\ list \in Seq(Entry) /\ silent \in [Devices -> 0..RemoveTimeout]
      /\ OnePerDevice(list)
      /\ \A i \in 1..n : silent[list[i].bdaddr] + list[i].timeout = RemoveTimeout
      /\ \A e \in Devices : silent[e] < RemoveTimeout => \E i \in 1..n : list[i].bdaddr = e
  BY DEF ListOf
<1>2. n \in Nat /\ DOMAIN list = 1..n /\ \A i \in 1..n : list[i] \in Entry
  BY <1>1, LenProperties, ElementOfSeq
<1>3. \A i \in 1..n : list[i].bdaddr \in Devices
  BY <1>2 DEF Entry
<1>4. RemoveTimeout \in Nat \ {0}
  BY DEF SC!ScanAssumption
<1>5. /\ silent' \in [Devices -> 0..RemoveTimeout] /\ silent'[d] = 0
      /\ \A e \in Devices : e # d => silent'[e] = silent[e]
  BY <1>1, <1>4 DEF SC!AdvertisingReport
<1>6. SC!Found = {list[i].bdaddr : i \in 1..n}
  BY <1>2 DEF SC!Found
<1>7. midi_peripherals' =
        IF d \in SC!Found
        THEN [i \in 1..n |-> IF list[i].bdaddr = d THEN SC!Named(list[i], name) ELSE list[i]]
        ELSE Append(list, SC!Named([bdaddr |-> d, type |-> "none", timeout |-> RemoveTimeout],
                                   name))
  BY <1>2 DEF SC!AdvertisingReport
<1> DEFINE new == midi_peripherals'
<1> HIDE DEF list, n, new
<1>8. CASE d \in SC!Found
  <2> DEFINE e(i) == IF list[i].bdaddr = d THEN SC!Named(list[i], name) ELSE list[i]
  <2>1. \A i \in 1..n :
          /\ e(i) \in Entry /\ e(i).bdaddr = list[i].bdaddr
          /\ e(i).timeout = IF list[i].bdaddr = d THEN RemoveTimeout ELSE list[i].timeout
    <3> SUFFICES ASSUME NEW i \in 1..n
                 PROVE  /\ e(i) \in Entry /\ e(i).bdaddr = list[i].bdaddr
                        /\ e(i).timeout = IF list[i].bdaddr = d THEN RemoveTimeout
                                          ELSE list[i].timeout
      OBVIOUS
    <3>1. CASE list[i].bdaddr = d
      <4>1. /\ list[i].type \in SC!Names
            /\ list[i] = [bdaddr |-> list[i].bdaddr, type |-> list[i].type,
                          timeout |-> list[i].timeout]
        BY <1>2 DEF Entry
      <4>2. /\ SC!Named(list[i], name) \in Entry
            /\ SC!Named(list[i], name).bdaddr = list[i].bdaddr
            /\ SC!Named(list[i], name).timeout = RemoveTimeout
        BY <1>3, <4>1, NamedLemma
      <4> QED
        BY <3>1, <4>2
    <3>2. CASE list[i].bdaddr # d
      BY <1>2, <3>2
    <3> QED
      BY <3>1, <3>2
  <2>2. new = [i \in 1..n |-> e(i)]
    BY <1>7, <1>8 DEF new
  <2> HIDE DEF e
  <2>3. new \in Seq(Entry) /\ Len(new) = n
    <3>1. new \in Seq(Entry) /\ DOMAIN new = 1..n
      BY <1>2, <2>1, <2>2, IsASeq
    <3> QED
      BY <1>2, <3>1, LenProperties
  <2>4. \A i \in 1..n :
          /\ new[i].bdaddr = list[i].bdaddr
          /\ new[i].timeout = IF list[i].bdaddr = d THEN RemoveTimeout ELSE list[i].timeout
    BY <2>1, <2>2
  <2>5. OnePerDevice(new)
    BY <1>1, <2>3, <2>4 DEF OnePerDevice, n
  <2>6. \A i \in 1..n : silent'[new[i].bdaddr] + new[i].timeout = RemoveTimeout
    <3> SUFFICES ASSUME NEW i \in 1..n
                 PROVE  silent'[new[i].bdaddr] + new[i].timeout = RemoveTimeout
      OBVIOUS
    <3>1. CASE list[i].bdaddr = d
      <4>1. silent'[new[i].bdaddr] = 0 /\ new[i].timeout = RemoveTimeout
        BY <1>5, <2>4, <3>1
      <4> QED
        BY <1>4, <4>1
    <3>2. CASE list[i].bdaddr # d
      <4>1. silent'[new[i].bdaddr] = silent[list[i].bdaddr]
            /\ new[i].timeout = list[i].timeout
        BY <1>3, <1>5, <2>4, <3>2
      <4> QED
        BY <1>1, <4>1
    <3> QED
      BY <3>1, <3>2
  <2>7. \A f \in Devices : silent'[f] < RemoveTimeout => \E i \in 1..n : new[i].bdaddr = f
    <3>1. \E i \in 1..n : new[i].bdaddr = d
      BY <1>6, <1>8, <2>4
    <3>2. ASSUME NEW f \in Devices, f # d, silent'[f] < RemoveTimeout
          PROVE  \E i \in 1..n : new[i].bdaddr = f
      <4>1. PICK i \in 1..n : list[i].bdaddr = f
        BY <1>1, <1>5, <3>2
      <4> QED
        BY <2>4, <4>1
    <3> QED
      BY <3>1, <3>2
  <2>8. ListOf(new, silent')
    BY <1>5, <2>3, <2>5, <2>6, <2>7 DEF ListOf
  <2> QED
    BY <2>8 DEF ListOf, OnePerDevice, new
<1>9. CASE d \notin SC!Found
  <2> DEFINE b == [bdaddr |-> d, type |-> "none", timeout |-> RemoveTimeout]
             e == SC!Named(b, name)
  <2>1. e \in Entry /\ e.bdaddr = d /\ e.timeout = RemoveTimeout
    <3>1. /\ b.bdaddr = d /\ b.type \in SC!Names
          /\ b = [bdaddr |-> b.bdaddr, type |-> b.type, timeout |-> b.timeout]
      BY DEF SC!Names
    <3> HIDE DEF b
    <3> QED
      BY <3>1, NamedLemma
  <2>2. new = Append(list, e)
    BY <1>7, <1>9 DEF new
  <2> HIDE DEF e
  <2>3. /\ new \in Seq(Entry) /\ Len(new) = n + 1 /\ new[n + 1] = e
        /\ \A i \in 1..n : new[i] = list[i]
    BY <1>1, <1>2, <2>1, <2>2, AppendProperties DEF n
  <2>4. \A i \in 1..n : list[i].bdaddr # d
    BY <1>6, <1>9
  <2>5. \A i \in 1..(n + 1) : i \in 1..n \/ i = n + 1
    BY <1>2
  <2>6. OnePerDevice(new)
    <3> SUFFICES ASSUME NEW i \in 1..(n + 1), NEW j \in 1..(n + 1),
                        new[i].bdaddr = new[j].bdaddr
                 PROVE  i = j
      BY <2>3 DEF OnePerDevice
    <3>1. CASE i \in 1..n /\ j \in 1..n
      BY <1>1, <2>3, <3>1 DEF OnePerDevice, n
    <3>2. CASE i = n + 1 \/ j = n + 1
      BY <2>1, <2>3, <2>4, <2>5, <3>2
    <3> QED
      BY <2>5, <3>1, <3>2
  <2>7. \A i \in 1..(n + 1) : silent'[new[i].bdaddr] + new[i].timeout = RemoveTimeout
    <3>1. \A i \in 1..n : silent'[new[i].bdaddr] + new[i].timeout = RemoveTimeout
      BY <1>1, <1>3, <1>5, <2>3, <2>4
    <3>2. silent'[new[n + 1].bdaddr] + new[n + 1].timeout = RemoveTimeout
      BY <1>4, <1>5, <2>1, <2>3
    <3> QED
      BY <2>5, <3>1, <3>2
  <2>8. \A f \in Devices : silent'[f] < RemoveTimeout => \E i \in 1..(n + 1) : new[i].bdaddr = f
    <3> SUFFICES ASSUME NEW f \in Devices, silent'[f] < RemoveTimeout
                 PROVE  \E i \in 1..(n + 1) : new[i].bdaddr = f
      OBVIOUS
    <3>1. CASE f = d
      <4>1. n + 1 \in 1..(n + 1)
        BY <1>2
      <4> QED
        BY <2>1, <2>3, <3>1, <4>1
    <3>2. CASE f # d
      <4>1. PICK i \in 1..n : list[i].bdaddr = f
        BY <1>1, <1>5, <3>2
      <4>2. i \in 1..(n + 1)
        BY <1>2
      <4> QED
        BY <2>3, <4>1, <4>2
    <3> QED
      BY <3>1, <3>2
  <2>9. ListOf(new, silent')
    BY <1>5, <2>3, <2>6, <2>7, <2>8 DEF ListOf
  <2> QED
    BY <2>9 DEF ListOf, OnePerDevice, new
<1> QED
  BY <1>8, <1>9

(* The list is cleared, or kept. *)
LEMMA ClearedLemma ==
  ASSUME SC!ScanAssumption, ListOf(midi_peripherals, silent), SC!ClearList \/ SC!KeepList
  PROVE  ListOf(midi_peripherals, silent)'
<1>1. CASE SC!ClearList
  <2>1. /\ midi_peripherals' = <<>> /\ midi_peripherals' \in Seq(Entry)
        /\ Len(midi_peripherals') = 0
    BY <1>1, EmptySeq DEF SC!ClearList
  <2>2. /\ silent' \in [Devices -> 0..RemoveTimeout]
        /\ \A d \in Devices : silent'[d] = RemoveTimeout
    BY <1>1 DEF SC!ClearList, SC!ScanAssumption
  <2>3. \A d \in Devices : ~(silent'[d] < RemoveTimeout)
    BY <2>2 DEF SC!ScanAssumption
  <2> QED
    BY <2>1, <2>2, <2>3 DEF ListOf, OnePerDevice
<1>2. CASE SC!KeepList
  BY <1>2 DEF SC!KeepList, ListOf, OnePerDevice
<1> QED
  BY <1>1, <1>2

ScanInv ==
  /\ ListOf(midi_peripherals, silent)
  /\ scScanning \in BOOLEAN /\ wasScanning \in BOOLEAN /\ cutShort \in BOOLEAN
  /\ page.scanning \in BOOLEAN
  /\ SC!FirmwareKnowsThePage /\ SC!PageWillKnowOfTheScan

LEMMA ScanInit ==
  ASSUME SC!ScanAssumption, SC!Init
  PROVE  ScanInv
<1>1. /\ midi_peripherals \in Seq(Entry) /\ Len(midi_peripherals) = 0
      /\ silent = [d \in Devices |-> RemoveTimeout]
  BY EmptySeq DEF SC!Init
<1>2. /\ silent \in [Devices -> 0..RemoveTimeout]
      /\ \A d \in Devices : ~(silent[d] < RemoveTimeout)
  BY <1>1 DEF SC!ScanAssumption
<1>3. ListOf(midi_peripherals, silent)
  BY <1>1, <1>2 DEF ListOf, OnePerDevice
<1> QED
  BY <1>3 DEF ScanInv, SC!Init, SC!FirmwareKnowsThePage, SC!PageWillKnowOfTheScan

(* Every step keeps what the list tells, and what the page and the         *)
(* firmware know of each other.                                            *)
LEMMA ScanNext ==
  ASSUME SC!ScanAssumption, ScanInv, [SC!Next]_(SC!vars)
  PROVE  ScanInv'
<1> DEFINE Told == /\ scScanning \in BOOLEAN /\ wasScanning \in BOOLEAN /\ cutShort \in BOOLEAN
                   /\ page.scanning \in BOOLEAN
                   /\ SC!FirmwareKnowsThePage /\ SC!PageWillKnowOfTheScan
<1>1. ListOf(midi_peripherals, silent) /\ Told
  BY DEF ScanInv
<1>2. SUFFICES ListOf(midi_peripherals, silent)' /\ Told'
  BY DEF ScanInv
<1>3. ASSUME UNCHANGED <<scScanning, wasScanning, cutShort, page, lastScanResultHash>>
      PROVE  Told'
  BY <1>1, <1>3 DEF SC!FirmwareKnowsThePage, SC!PageWillKnowOfTheScan
<1>4. ASSUME UNCHANGED <<midi_peripherals, silent>>
      PROVE  ListOf(midi_peripherals, silent)'
  BY <1>1, <1>4 DEF ListOf, OnePerDevice
<1>5. CASE SC!Tick
  <2>1. Told'
    BY <1>3, <1>5 DEF SC!Tick, Told
  <2>2. CASE scState # "SCAN_COMPLETE"
    BY <1>4, <1>5, <2>1, <2>2 DEF SC!Tick, SC!KeepList
  <2>3. CASE scState = "SCAN_COMPLETE"
    <3>1. /\ midi_peripherals' = SC!Expired(midi_peripherals)
          /\ silent' = [d \in Devices |-> IF silent[d] = RemoveTimeout THEN silent[d]
                                          ELSE silent[d] + 1]
      BY <1>5, <2>3 DEF SC!Tick
    <3>2. ListOf(midi_peripherals', silent')
      BY <1>1, <3>1, TickLemma
    <3> QED
      BY <2>1, <3>2 DEF ListOf, OnePerDevice
  <2> QED
    BY <2>2, <2>3
<1>6. ASSUME NEW d \in Devices, NEW tellsService \in BOOLEAN, NEW name \in SC!Names,
             SC!AdvertisingReport(d, tellsService, name)
      PROVE  ListOf(midi_peripherals, silent)' /\ Told'
  BY <1>1, <1>3, <1>6, HeardLemma DEF SC!AdvertisingReport, SC!firmware, Told
<1>7. CASE SC!StackWorks
  <2>1. SC!ClearList \/ SC!KeepList
    BY <1>7 DEF SC!StackWorks
  <2> QED
    BY <1>1, <1>3, <1>7, <2>1, ClearedLemma DEF SC!StackWorks, SC!firmware, Told
<1>8. CASE SC!DisconnectionComplete
  BY <1>1, <1>3, <1>8, ClearedLemma DEF SC!DisconnectionComplete, SC!firmware, Told
<1>9. CASE SC!Begin
  BY <1>3, <1>4, <1>9 DEF SC!Begin, SC!library, Told
<1>10. CASE SC!RequestConnect
  BY <1>3, <1>4, <1>10 DEF SC!RequestConnect, SC!firmware, Told
<1>11. ASSUME NEW wasConnected \in BOOLEAN, SC!Stop(wasConnected)
       PROVE  ListOf(midi_peripherals, silent)' /\ Told'
  <2>1. SC!ClearList \/ SC!KeepList
    BY <1>11 DEF SC!Stop
  <2>2. Told'
    <3>1. PICK statusChanged \in BOOLEAN : SC!Announce(FALSE, statusChanged, page.devices)
      BY <1>11 DEF SC!Stop
    <3>2. scScanning' = FALSE /\ lastScanResultHash' = lastScanResultHash
      BY <1>11 DEF SC!Stop
    <3>3. CASE statusChanged \/ FALSE # wasScanning
      <4>1. wasScanning' = FALSE /\ cutShort' = FALSE
            /\ page' = [devices |-> page.devices, scanning |-> FALSE]
        BY <3>1, <3>3 DEF SC!Announce
      <4> QED
        BY <1>1, <3>2, <4>1 DEF SC!FirmwareKnowsThePage, SC!PageWillKnowOfTheScan
    <3>4. CASE ~statusChanged /\ wasScanning = FALSE
      <4>1. /\ wasScanning' = FALSE
            /\ page' = [devices |-> page.devices, scanning |-> page.scanning]
            /\ cutShort' = (cutShort \/ FALSE # scScanning)
        BY <1>1, <3>1, <3>4 DEF SC!Announce
      <4>2. page.scanning => scScanning \/ cutShort
        BY <1>1, <3>4 DEF SC!PageWillKnowOfTheScan
      <4>3. /\ scScanning' \in BOOLEAN /\ wasScanning' \in BOOLEAN /\ cutShort' \in BOOLEAN
            /\ page'.scanning \in BOOLEAN
            /\ page'.devices = lastScanResultHash'
        BY <1>1, <3>2, <4>1 DEF SC!FirmwareKnowsThePage
      <4>4. page'.scanning # scScanning' => cutShort'
        BY <1>1, <3>2, <4>1, <4>2
      <4> QED
        BY <4>3, <4>4 DEF SC!FirmwareKnowsThePage, SC!PageWillKnowOfTheScan
    <3> QED
      BY <1>1, <3>3, <3>4
  <2> QED
    BY <1>1, <2>1, <2>2, ClearedLemma
<1>12. CASE SC!StartDeviceScan
  <2>1. SC!ClearList \/ SC!KeepList
    BY <1>12 DEF SC!StartDeviceScan
  <2>2. Told'
    BY <1>1, <1>12 DEF SC!StartDeviceScan, SC!FirmwareKnowsThePage, SC!PageWillKnowOfTheScan
  <2> QED
    BY <1>1, <2>1, <2>2, ClearedLemma
<1>13. CASE SC!StopDeviceScan
  <2>1. Told'
    BY <1>1, <1>13 DEF SC!StopDeviceScan, SC!FirmwareKnowsThePage, SC!PageWillKnowOfTheScan
  <2> QED
    BY <1>1, <1>13, <2>1, ClearedLemma DEF SC!StopDeviceScan
<1>14. ASSUME NEW statusChanged \in BOOLEAN, SC!Update(statusChanged)
       PROVE  ListOf(midi_peripherals, silent)' /\ Told'
  <2>1. Told'
    BY <1>1, <1>14 DEF SC!Update, SC!Announce, SC!FirmwareKnowsThePage,
                       SC!PageWillKnowOfTheScan
  <2> QED
    BY <1>4, <1>14, <2>1 DEF SC!Update, SC!library
<1>15. CASE SC!ScanResultsSent
  BY <1>3, <1>4, <1>15 DEF SC!ScanResultsSent, SC!library, Told
<1>16. CASE UNCHANGED SC!vars
  BY <1>3, <1>4, <1>16 DEF SC!vars, SC!library, SC!firmware, Told
<1> HIDE DEF Told
<1> QED
  BY <1>5, <1>6, <1>7, <1>8, <1>9, <1>10, <1>11, <1>12, <1>13, <1>14, <1>15, <1>16 DEF SC!Next

(* The list has an entry for each device that was heard lately, and no     *)
(* other, although the last entry is moved when one expires; the page      *)
(* shows the list that the firmware takes for sent, and hears of the end   *)
(* and the begin of a scan (ble_midi_client.c, ble_client.cpp).            *)
THEOREM ScanIsAlwaysTold == SC!Spec => []SC!ScanIsTold
<1>1. SC!Init => ScanInv
  BY ScanInit, LinksAssumption
<1>2. ScanInv /\ [SC!Next]_(SC!vars) => ScanInv'
  BY ScanNext, LinksAssumption
<1>3. ScanInv => SC!ScanIsTold
  BY ListLemma, LinksAssumption DEF ScanInv, SC!ScanIsTold
<1> QED
  BY <1>1, <1>2, <1>3, PTL DEF SC!Spec

(* No history of the connection, the scan and the page makes the client    *)
(* write to no link, wait for nothing or show what it does not know; the   *)
(* two are modelled apart, each with its own view of the library's state.  *)
THEOREM BleClientAlwaysKeepsGoing == BL!Spec /\ SC!Spec => []BleClientKeepsGoing
BY ConnectionAlwaysKeepsGoing, ScanIsAlwaysTold, PTL DEF BleClientKeepsGoing
-----------------------------------------------------------------------------
(* The choice of the output.  The selected transport is the one of the     *)
(* selected mode, and the MIDI host is enabled only while it is selected   *)
(* and its devices are heard of.                                           *)
OutputsInv ==
  /\ MO!OneOutputIsUsed
  /\ selectedTransport = MO!Instance(selectedMode)
  /\ moInitialized => selectedTransport # MO!NoTransport
  /\ ~moInitialized => ~midiEnabled
  /\ midiEnabled => selectedTransport = "UsbHost"
  /\ midiDevice # MO!NoUsbDevice => midiEnabled
  /\ gamepad # MO!NoUsbDevice => gamepadOf # MO!Off

(* The transports of a board are not those that stand for none. *)
LEMMA BoardLemma ==
  ASSUME MO!OutputsAssumption
  PROVE  /\ MO!NoTransport \notin Board
         /\ MO!Off \notin MO!Modes
         /\ "UsbDevice" \in Board
         /\ MO!Instance("UsbDevice") = "UsbDevice"
         /\ \A mode \in MO!Modes :
              /\ MO!Instance(mode) \in Board \cup {MO!NoTransport}
              /\ MO!Instance(mode) = "UsbHost" => mode = "UsbHost"
BY DEF MO!OutputsAssumption, MO!Transport, MO!Modes, MO!NoTransport, MO!Instance, MO!Off

LEMMA OutputsInit ==
  ASSUME MO!OutputsAssumption
  PROVE  MO!Init => OutputsInv
<1>1. "UsbDevice" \in MO!Modes /\ "UsbDevice" # MO!NoTransport
  BY DEF MO!Modes, MO!NoTransport
<1> QED
  BY BoardLemma, <1>1
     DEF MO!Init, OutputsInv, MO!OneOutputIsUsed, MO!TypeOK, MO!OneTransportRuns,
         MO!UsedDevicesAreThere

(* A mode that is selected while the outputs run. *)
LEMMA SelectedLemma ==
  ASSUME MO!OutputsAssumption, OutputsInv, NEW mode \in MO!Modes,
         mode # selectedMode, moInitialized, ~moCrashed, MO!Instance(mode) # MO!NoTransport,
         MO!SetOutputMode(mode), UNCHANGED <<moFile, moInitialized, moPlugged, moMounted, renewed>>
  PROVE  OutputsInv'
<1> DEFINE before == selectedTransport
           new == MO!Instance(mode)
<1>1. /\ new \in Board /\ before \in Board
      /\ selectedMode' = mode /\ selectedTransport' = new
      /\ running' = [[running EXCEPT ![before] = MO!Off] EXCEPT ![new] = mode]
      /\ MO!StartHost(new, before # "UsbHost" /\ midiEnabled,
                      IF before = "UsbHost" THEN MO!NoUsbDevice ELSE midiDevice)
      /\ UNCHANGED moCrashed
  BY BoardLemma DEF MO!SetOutputMode, OutputsInv, MO!OneOutputIsUsed, MO!TypeOK,
     MO!RunningAfter, MO!Started, MO!Stopped, MO!EnabledAfterStop, MO!DeviceAfterStop
<1>2. /\ hostUp' \in BOOLEAN
      /\ midiEnabled' = ((before # "UsbHost" /\ midiEnabled) \/ new = "UsbHost")
      /\ midiDevice' = IF before = "UsbHost" THEN MO!NoUsbDevice ELSE midiDevice
      /\ gamepadOf' = IF new \in MO!UsesGamepad THEN new ELSE gamepadOf
      /\ UNCHANGED gamepad
  BY <1>1 DEF MO!StartHost, MO!HostStart, OutputsInv, MO!OneOutputIsUsed, MO!TypeOK
<1>3. running = [t \in Board |-> IF t = before THEN selectedMode ELSE MO!Off]
  BY DEF OutputsInv, MO!OneOutputIsUsed, MO!OneTransportRuns
<1> HIDE DEF before, new
<1>4. running' = [t \in Board |-> IF t = new THEN mode ELSE MO!Off]
  BY <1>1, <1>3
<1>5. midiEnabled' \in BOOLEAN
  BY <1>2
<1>6. MO!OneTransportRuns'
  BY <1>1, <1>4 DEF MO!OneTransportRuns
<1>7. midiDevice # MO!NoUsbDevice => before = "UsbHost"
  BY DEF OutputsInv, before
<1>8. MO!UsedDevicesAreThere'
  BY <1>1, <1>2, <1>7 DEF OutputsInv, MO!OneOutputIsUsed, MO!UsedDevicesAreThere, before
<1>9. MO!TypeOK'
  <2>1. running' \in [Board -> MO!Modes \cup {MO!Off}]
    BY <1>4
  <2>2. MO!NoTransport' = MO!NoTransport
    OBVIOUS
  <2>3. gamepadOf' \in MO!UsesGamepad \cup {MO!Off}
    BY <1>2 DEF OutputsInv, MO!OneOutputIsUsed, MO!TypeOK
  <2> QED
    BY <1>1, <1>2, <1>5, <2>1, <2>3 DEF OutputsInv, MO!OneOutputIsUsed, MO!TypeOK
<1>10. gamepad' # MO!NoUsbDevice => gamepadOf' # MO!Off
  BY <1>2 DEF OutputsInv, MO!UsesGamepad, MO!Off
<1> QED
  BY <1>1, <1>2, <1>6, <1>7, <1>8, <1>9, <1>10 DEF OutputsInv, MO!OneOutputIsUsed, before, new

LEMMA OutputsNext ==
  ASSUME MO!OutputsAssumption
  PROVE  OutputsInv /\ [MO!Next]_(MO!vars) => OutputsInv'
<1> SUFFICES ASSUME OutputsInv, [MO!Next]_(MO!vars) PROVE OutputsInv'
  OBVIOUS
<1> USE DEF OutputsInv, MO!OneOutputIsUsed, MO!TypeOK, MO!OneTransportRuns,
            MO!UsedDevicesAreThere
<1>1. CASE MO!LoadConfig
  <2>1. moFile \in MO!Modes
    OBVIOUS
  <2>2. CASE moFile = selectedMode
    BY <1>1, <2>2 DEF MO!LoadConfig, MO!SetOutputMode, MO!host, MO!usb
  <2>3. CASE moFile # selectedMode
    <3>1. /\ selectedMode' = moFile /\ selectedTransport' = MO!Instance(moFile)
          /\ ~moInitialized /\ ~moCrashed
          /\ UNCHANGED <<moCrashed, running, hostUp, midiEnabled, midiDevice, gamepadOf,
                         gamepad, moFile, moInitialized, moPlugged, moMounted, renewed>>
      BY <1>1, <2>3 DEF MO!LoadConfig, MO!SetOutputMode, MO!host, MO!usb
    <3> QED
      BY <2>1, <3>1, BoardLemma
  <2> QED
    BY <2>2, <2>3
<1>2. CASE MO!StartSelected
  <2>1. CASE selectedTransport = MO!NoTransport
    BY <1>2, <2>1 DEF MO!StartSelected, MO!host, MO!usb
  <2>2. CASE selectedTransport # MO!NoTransport
    <3>1. /\ ~moInitialized /\ ~moCrashed /\ selectedMode = moFile
          /\ moInitialized' = TRUE
          /\ running' = [running EXCEPT ![selectedTransport] = selectedMode]
          /\ MO!StartHost(selectedTransport, midiEnabled, midiDevice)
          /\ UNCHANGED <<moCrashed, moFile, selectedMode, selectedTransport,
                         moPlugged, moMounted, renewed>>
      BY <1>2, <2>2 DEF MO!StartSelected, MO!Started, MO!usb
    <3>2. /\ hostUp' \in BOOLEAN
          /\ midiEnabled' = (selectedTransport = "UsbHost")
          /\ midiDevice' = midiDevice
          /\ gamepadOf' = IF selectedTransport \in MO!UsesGamepad THEN selectedTransport
                          ELSE gamepadOf
          /\ UNCHANGED gamepad
      BY <3>1 DEF MO!StartHost, MO!HostStart
    <3>3. running' = [t \in Board |-> IF t = selectedTransport THEN selectedMode ELSE MO!Off]
      BY <2>2, <3>1
    <3>4. running' \in [Board -> MO!Modes \cup {MO!Off}]
      BY <3>3
    <3>5. gamepadOf' \in MO!UsesGamepad \cup {MO!Off}
          /\ (gamepad' # MO!NoUsbDevice => gamepadOf' # MO!Off)
      BY <3>2 DEF MO!UsesGamepad, MO!Off
    <3> QED
      BY <2>2, <3>1, <3>2, <3>3, <3>4, <3>5
  <2> QED
    BY <2>1, <2>2
<1>3. ASSUME NEW mode \in MO!Modes, MO!SelectMode(mode)
      PROVE  OutputsInv'
  <2>1. CASE mode = selectedMode
    BY <1>3, <2>1 DEF MO!SelectMode, MO!SetOutputMode, MO!host, MO!usb
  <2>2. CASE mode # selectedMode
    BY <1>3, <2>2, SelectedLemma DEF MO!SelectMode, MO!usb
  <2> QED
    BY <2>1, <2>2
<1>4. CASE MO!SaveConfig
  BY <1>4 DEF MO!SaveConfig, MO!host, MO!usb
<1>5. ASSUME NEW mode \in MO!Modes, MO!Boot(mode)
      PROVE  OutputsInv'
  <2>1. "UsbDevice" \in MO!Modes
    BY DEF MO!Modes
  <2> QED
    BY <1>5, <2>1, BoardLemma DEF MO!Boot, MO!NoTransport
<1>6. CASE MO!Reset
  BY <1>5, <1>6 DEF MO!Reset
<1>7. ASSUME NEW mode \in MO!Modes, MO!Upload(mode)
      PROVE  OutputsInv'
  BY <1>5, <1>7 DEF MO!Upload
<1>8. ASSUME NEW d \in MidiDevices \cup Gamepads, MO!Plug(d)
      PROVE  OutputsInv'
  BY <1>8 DEF MO!Plug, MO!mux, MO!host
<1>9. ASSUME NEW d \in MidiDevices \cup Gamepads, MO!Unplug(d)
      PROVE  OutputsInv'
  BY <1>9 DEF MO!Unplug, MO!mux, MO!host
<1>10. ASSUME NEW d \in MidiDevices \cup Gamepads, MO!Unmount(d)
       PROVE  OutputsInv'
  BY <1>10 DEF MO!Unmount, MO!mux
<1>11. ASSUME NEW d \in MidiDevices \cup Gamepads, MO!Mount(d)
       PROVE  OutputsInv'
  BY <1>11 DEF MO!Mount, MO!mux
<1>12. CASE UNCHANGED MO!vars
  BY <1>12 DEF MO!vars, MO!mux, MO!host, MO!usb
<1> QED
  BY <1>1, <1>2, <1>3, <1>4, <1>6, <1>7, <1>8, <1>9, <1>10, <1>11, <1>12 DEF MO!Next

(* One output runs, the selected one in the selected mode, and the devices *)
(* it uses are there, although devices are unplugged while nobody listens  *)
(* and outputs are changed while they are used; only a file that names an  *)
(* output the board does not have makes it hang                            *)
(* (midi_transport.h:96, usb_host_gamepad.cpp).                            *)
THEOREM OneOutputIsAlwaysUsed == MO!Spec => []OneOutputIsUsed
<1>1. MO!Init => OutputsInv
  BY OutputsInit, HostsAssumption
<1>2. OutputsInv /\ [MO!Next]_(MO!vars) => OutputsInv'
  BY OutputsNext, HostsAssumption
<1>3. OutputsInv => OneOutputIsUsed
  BY DEF OutputsInv, OneOutputIsUsed
<1> QED
  BY <1>1, <1>2, <1>3, PTL DEF MO!Spec
-----------------------------------------------------------------------------
(* The network over USB. *)
NetworkInv == holds \in Nat /\ NU!ReceptionGoesOn

(* The callback lets frames in, keeps one, or had no memory for it. *)
LEMMA ReceiveCbLemma ==
  ASSUME NU!NetworkUsbAssumption, NEW n \in Nat, NEW frame \in BOOLEAN,
         NU!ReceiveCb(n, frame)
  PROVE  holds' \in Nat /\ (armed' \/ received_frame' \/ lost')
<1>1. CASE frame \/ n = 0
  <2>1. received_frame' = frame /\ holds' = n /\ armed' = (n < Buffers)
    BY <1>1 DEF NU!ReceiveCb
  <2>2. CASE frame
    BY <2>1, <2>2
  <2>3. CASE n = 0
    <3>1. 0 < Buffers
      BY DEF NU!NetworkUsbAssumption
    <3>2. armed'
      BY <2>1, <2>3, <3>1
    <3> QED
      BY <2>1, <3>2
  <2> QED
    BY <1>1, <2>2, <2>3
<1>2. CASE ~(frame \/ n = 0)
  <2>1. PICK got \in BOOLEAN : received_frame' = got /\ lost' = ~got /\ holds' = n - 1
    BY <1>2 DEF NU!ReceiveCb
  <2>2. n - 1 \in Nat
    BY <1>2
  <2>3. CASE got
    BY <2>1, <2>2, <2>3
  <2>4. CASE ~got
    <3>1. lost'
      BY <2>1, <2>4
    <3> QED
      BY <2>1, <2>2, <3>1
  <2> QED
    BY <2>3, <2>4
<1> QED
  BY <1>1, <1>2

LEMMA NetworkInit == NU!Init => NetworkInv
BY DEF NU!Init, NetworkInv, NU!ReceptionGoesOn

LEMMA NetworkNext ==
  ASSUME NU!NetworkUsbAssumption
  PROVE  NetworkInv /\ [NU!Next]_(NU!vars) => NetworkInv'
<1> SUFFICES ASSUME NetworkInv, [NU!Next]_(NU!vars) PROVE NetworkInv'
  OBVIOUS
<1> USE DEF NetworkInv, NU!ReceptionGoesOn
<1>1. CASE NU!FrameArrives
  <2>1. /\ NU!ReceiveCb(holds + 1, received_frame)
        /\ holds + 1 \in Nat
    BY <1>1 DEF NU!FrameArrives
  <2>2. CASE received_frame
    <3>1. received_frame' /\ holds' = holds + 1
      BY <2>1, <2>2 DEF NU!ReceiveCb
    <3> QED
      BY <2>1, <3>1
  <2>3. CASE ~received_frame
    <3>1. NU!ReceiveCb(holds + 1, FALSE)
      BY <2>1, <2>3 DEF NU!ReceiveCb
    <3> QED
      BY <2>1, <3>1, ReceiveCbLemma
  <2> QED
    BY <2>2, <2>3
<1>2. CASE NU!BusChanges
  BY <1>2 DEF NU!BusChanges, NU!driver
<1>3. CASE NU!InitCb
  BY <1>3 DEF NU!InitCb
<1>4. CASE NU!HandleFrame
  BY <1>4 DEF NU!HandleFrame, NU!driver
<1>5. CASE NU!OutputWaits
  BY <1>5 DEF NU!OutputWaits, NU!driver
<1>6. CASE NU!OutputEnds
  BY <1>6 DEF NU!OutputEnds, NU!driver
<1>7. CASE NU!FrameHandled
  <2>1. NU!ReceiveCb(holds, FALSE)
    BY <1>7 DEF NU!FrameHandled
  <2> QED
    BY <2>1, ReceiveCbLemma
<1>8. CASE UNCHANGED NU!vars
  BY <1>8 DEF NU!vars, NU!driver
<1> QED
  BY <1>1, <1>2, <1>3, <1>4, <1>5, <1>6, <1>7, <1>8 DEF NU!Next

(* Frames come in, or one is there after which the reception is renewed,   *)
(* whatever the bus does meanwhile, unless the last frame was dropped      *)
(* (network_usb.cpp:193).                                                  *)
THEOREM ReceptionAlwaysGoesOn == NU!Spec => []NU!ReceptionGoesOn
<1>1. NU!Init => NetworkInv
  BY NetworkInit, HostsAssumption
<1>2. NetworkInv /\ [NU!Next]_(NU!vars) => NetworkInv'
  BY NetworkNext, HostsAssumption
<1>3. NetworkInv => NU!ReceptionGoesOn
  BY DEF NetworkInv
<1> QED
  BY <1>1, <1>2, <1>3, PTL DEF NU!Spec
-----------------------------------------------------------------------------
(* The DHCP server.  What a client believes to have is kept because what   *)
(* it has yet to hear of is kept too: an answer that it will believe was   *)
(* given for the address that it asks for, and nothing that it asked for   *)
(* before is still on its way to the server.                               *)
Packet == [kind : {"discover", "request", "release"}, from : Clients, addr : Nat,
           live : BOOLEAN]
Reply == [kind : {"offer", "ack"}, to : Clients, addr : Nat, live : BOOLEAN]
ClientState == [phase : {"init", "selecting", "requesting", "bound"}, addr : Nat]

(* Of a client, the packets of its transaction come last. *)
InOrder(rs) ==
  \A i, j \in 1..Len(rs) : i < j /\ rs[i].from = rs[j].from /\ rs[i].live => rs[j].live

(* No request for an address comes from an earlier transaction. *)
NothingStale(rs, c) ==
  \A i \in 1..Len(rs) :
    rs[i].from = c /\ rs[i].kind = "request" /\ rs[i].addr # DH!NoAddress => rs[i].live

(* A request of this transaction is for the address of the client. *)
AsksForItsOwn(rs, cl) ==
  \A i \in 1..Len(rs) :
    rs[i].live /\ rs[i].kind = "request" =>
      /\ cl[rs[i].from].phase \in {"requesting", "bound"}
      /\ rs[i].addr \in {DH!NoAddress, cl[rs[i].from].addr}

Keeps(e, f, c, a) == a \in DH!Addresses /\ (c \in f \/ e[a] = c)

AcksAreKept(rs, replies, cl, e, f) ==
  \A i \in 1..Len(replies) :
    replies[i].live /\ replies[i].kind = "ack" =>
      /\ cl[replies[i].to].phase \in {"requesting", "bound"}
      /\ cl[replies[i].to].addr = replies[i].addr
      /\ NothingStale(rs, replies[i].to)
      /\ Keeps(e, f, replies[i].to, replies[i].addr)

BoundIsKept(rs, cl, e, f) ==
  \A c \in Clients :
    cl[c].phase = "bound" => NothingStale(rs, c) /\ Keeps(e, f, c, cl[c].addr)

DhcpTypes ==
  /\ entries \in [DH!Addresses -> Clients \cup {DH!NoClient}]
  /\ client \in [Clients -> ClientState]
  /\ requests \in Seq(Packet)
  /\ dhAnswers \in Seq(Reply)
  /\ forgotten \subseteq Clients

DhcpInv ==
  /\ DhcpTypes
  /\ InOrder(requests)
  /\ AsksForItsOwn(requests, client)
  /\ AcksAreKept(requests, dhAnswers, client, entries, forgotten)
  /\ BoundIsKept(requests, client, entries, forgotten)

(* Taking the first element, and appending one. *)
LEMMA TailLemma ==
  ASSUME NEW X, NEW s \in Seq(X), s # <<>>
  PROVE  /\ Len(s) \in Nat /\ 1 \in 1..Len(s)
         /\ Head(s) = s[1] /\ s[1] \in X
         /\ Tail(s) \in Seq(X)
         /\ Len(Tail(s)) = Len(s) - 1
         /\ \A i \in 1..(Len(s) - 1) : i + 1 \in 1..Len(s) /\ Tail(s)[i] = s[i + 1]
<1>1. Len(s) \in Nat /\ Len(s) # 0
  BY EmptySeq, LenProperties
<1>2. 1 \in 1..Len(s) /\ s[1] \in X
  BY <1>1, ElementOfSeq
<1>3. \A i \in 1..(Len(s) - 1) : i + 1 \in 1..Len(s)
  BY <1>1
<1>4. Tail(s) \in Seq(X) /\ Len(Tail(s)) = Len(s) - 1
      /\ \A i \in 1..(Len(s) - 1) : Tail(s)[i] = s[i + 1]
  BY <1>1, HeadTailProperties
<1>5. Head(s) = s[1]
  BY <1>1
<1> QED
  BY <1>1, <1>2, <1>3, <1>4, <1>5

LEMMA AppendLemma ==
  ASSUME NEW X, NEW s \in Seq(X), NEW x \in X
  PROVE  /\ Append(s, x) \in Seq(X)
         /\ Len(s) \in Nat /\ Len(Append(s, x)) = Len(s) + 1
         /\ \A i \in 1..Len(s) : Append(s, x)[i] = s[i]
         /\ Append(s, x)[Len(s) + 1] = x
         /\ \A i \in 1..(Len(s) + 1) : i \in 1..Len(s) \/ i = Len(s) + 1
         /\ \A i \in 1..Len(s) : i \in 1..(Len(s) + 1) /\ i < Len(s) + 1
<1>1. Len(s) \in Nat
  BY LenProperties
<1>2. Append(s, x) \in Seq(X) /\ Len(Append(s, x)) = Len(s) + 1
      /\ \A i \in 1..Len(s) : Append(s, x)[i] = s[i]
      /\ Append(s, x)[Len(s) + 1] = x
  BY <1>1, AppendProperties
<1> QED
  BY <1>1, <1>2

(* The first request is taken from the queue. *)
LEMMA TakenLemma ==
  ASSUME NEW rs \in Seq(Packet), rs # <<>>, NEW cl \in [Clients -> ClientState],
         InOrder(rs), AsksForItsOwn(rs, cl)
  PROVE  /\ InOrder(Tail(rs)) /\ AsksForItsOwn(Tail(rs), cl)
         /\ \A c \in Clients : NothingStale(rs, c) => NothingStale(Tail(rs), c)
         /\ Head(rs).live => NothingStale(Tail(rs), Head(rs).from)
<1>1. /\ Len(rs) \in Nat /\ 1 \in 1..Len(rs)
      /\ Head(rs) = rs[1]
      /\ Len(Tail(rs)) = Len(rs) - 1
      /\ \A i \in 1..(Len(rs) - 1) : i + 1 \in 1..Len(rs) /\ Tail(rs)[i] = rs[i + 1]
  BY TailLemma
<1>2. InOrder(Tail(rs))
  <2> SUFFICES ASSUME NEW i \in 1..(Len(rs) - 1), NEW j \in 1..(Len(rs) - 1),
                      i < j, Tail(rs)[i].from = Tail(rs)[j].from, Tail(rs)[i].live
               PROVE  Tail(rs)[j].live
    BY <1>1 DEF InOrder
  <2>1. i + 1 < j + 1
    BY <1>1
  <2> QED
    BY <1>1, <2>1 DEF InOrder
<1>3. AsksForItsOwn(Tail(rs), cl)
  BY <1>1 DEF AsksForItsOwn
<1>4. \A c \in Clients : NothingStale(rs, c) => NothingStale(Tail(rs), c)
  BY <1>1 DEF NothingStale
<1>5. ASSUME Head(rs).live
      PROVE  NothingStale(Tail(rs), Head(rs).from)
  <2> SUFFICES ASSUME NEW i \in 1..(Len(rs) - 1), Tail(rs)[i].from = Head(rs).from
               PROVE  Tail(rs)[i].live
    BY <1>1 DEF NothingStale
  <2>1. 1 < i + 1
    BY <1>1
  <2> QED
    BY <1>1, <1>5, <2>1 DEF InOrder
<1> QED
  BY <1>2, <1>3, <1>4, <1>5

(* A packet of the current transaction is sent. *)
LEMMA SentLemma ==
  ASSUME NEW rs \in Seq(Packet), NEW p \in Packet, p.live, NEW cl, InOrder(rs),
         AsksForItsOwn(rs, cl),
         p.kind = "request" => /\ cl[p.from].phase \in {"requesting", "bound"}
                               /\ p.addr \in {DH!NoAddress, cl[p.from].addr}
  PROVE  /\ InOrder(Append(rs, p)) /\ AsksForItsOwn(Append(rs, p), cl)
         /\ \A c \in Clients : NothingStale(rs, c) => NothingStale(Append(rs, p), c)
<1> DEFINE t == Append(rs, p)
<1>1. /\ Len(rs) \in Nat /\ Len(t) = Len(rs) + 1
      /\ \A i \in 1..Len(rs) : t[i] = rs[i]
      /\ t[Len(rs) + 1] = p
      /\ \A i \in 1..(Len(rs) + 1) : i \in 1..Len(rs) \/ i = Len(rs) + 1
      /\ \A i \in 1..Len(rs) : i \in 1..(Len(rs) + 1) /\ i < Len(rs) + 1
  BY AppendLemma
<1> HIDE DEF t
<1>2. InOrder(t)
  <2> SUFFICES ASSUME NEW i \in 1..(Len(rs) + 1), NEW j \in 1..(Len(rs) + 1),
                      i < j, t[i].from = t[j].from, t[i].live
               PROVE  t[j].live
    BY <1>1 DEF InOrder
  <2>1. CASE j = Len(rs) + 1
    BY <1>1, <2>1
  <2>2. CASE j \in 1..Len(rs)
    <3>1. i \in 1..Len(rs)
      BY <1>1, <2>2
    <3> QED
      BY <1>1, <2>2, <3>1 DEF InOrder
  <2> QED
    BY <1>1, <2>1, <2>2
<1>3. AsksForItsOwn(t, cl)
  BY <1>1 DEF AsksForItsOwn
<1>4. \A c \in Clients : NothingStale(rs, c) => NothingStale(t, c)
  BY <1>1 DEF NothingStale
<1> QED
  BY <1>2, <1>3, <1>4 DEF t

(* A client begins a transaction: its packets are outdated. *)
LEMMA OutdatedLemma ==
  ASSUME NEW rs \in Seq(Packet), NEW c \in Clients, InOrder(rs),
         NEW cl, NEW cl2, AsksForItsOwn(rs, cl), \A d \in Clients : d # c => cl2[d] = cl[d]
  PROVE  LET o == DH!Outdated(c, rs)
         IN  /\ o \in Seq(Packet) /\ InOrder(o) /\ AsksForItsOwn(o, cl2)
             /\ \A d \in Clients : d # c /\ NothingStale(rs, d) => NothingStale(o, d)
<1> DEFINE o == DH!Outdated(c, rs)
           e(i) == IF rs[i].from = c THEN [rs[i] EXCEPT !.live = FALSE] ELSE rs[i]
<1>1. Len(rs) \in Nat /\ DOMAIN rs = 1..Len(rs) /\ \A i \in 1..Len(rs) : rs[i] \in Packet
  BY LenProperties, ElementOfSeq
<1>2. o = [i \in 1..Len(rs) |-> e(i)]
  BY <1>1 DEF DH!Outdated
<1>3. \A i \in 1..Len(rs) :
        /\ e(i) \in Packet
        /\ e(i).from = rs[i].from /\ e(i).kind = rs[i].kind /\ e(i).addr = rs[i].addr
        /\ e(i).live <=> rs[i].live /\ rs[i].from # c
  BY <1>1 DEF Packet
<1> HIDE DEF e, o
<1>4. o \in Seq(Packet) /\ Len(o) = Len(rs)
  <2>1. o \in Seq(Packet) /\ DOMAIN o = 1..Len(rs)
    BY <1>1, <1>2, <1>3, IsASeq
  <2> QED
    BY <1>1, <2>1, LenProperties
<1>5. \A i \in 1..Len(rs) :
        /\ o[i].from = rs[i].from /\ o[i].kind = rs[i].kind /\ o[i].addr = rs[i].addr
        /\ o[i].live <=> rs[i].live /\ rs[i].from # c
        /\ rs[i].from \in Clients
  BY <1>1, <1>2, <1>3 DEF Packet
<1>6. InOrder(o)
  BY <1>4, <1>5 DEF InOrder
<1>7. AsksForItsOwn(o, cl2)
  BY <1>4, <1>5 DEF AsksForItsOwn
<1>8. \A d \in Clients : d # c /\ NothingStale(rs, d) => NothingStale(o, d)
  BY <1>4, <1>5 DEF NothingStale
<1> QED
  BY <1>4, <1>6, <1>7, <1>8 DEF o

LEMMA OutdatedAnswersLemma ==
  ASSUME dhAnswers \in Seq(Reply), NEW c \in Clients
  PROVE  LET o == DH!OutdatedAnswers(c)
         IN  /\ o \in Seq(Reply) /\ Len(o) = Len(dhAnswers)
             /\ \A i \in 1..Len(dhAnswers) :
                  /\ o[i].to = dhAnswers[i].to /\ o[i].kind = dhAnswers[i].kind
                  /\ o[i].addr = dhAnswers[i].addr
                  /\ o[i].live <=> dhAnswers[i].live /\ dhAnswers[i].to # c
                  /\ dhAnswers[i].to \in Clients
<1> DEFINE o == DH!OutdatedAnswers(c)
           e(i) == IF dhAnswers[i].to = c THEN [dhAnswers[i] EXCEPT !.live = FALSE] ELSE dhAnswers[i]
<1>1. Len(dhAnswers) \in Nat /\ DOMAIN dhAnswers = 1..Len(dhAnswers)
      /\ \A i \in 1..Len(dhAnswers) : dhAnswers[i] \in Reply
  BY LenProperties, ElementOfSeq
<1>2. o = [i \in 1..Len(dhAnswers) |-> e(i)]
  BY <1>1 DEF DH!OutdatedAnswers
<1>3. \A i \in 1..Len(dhAnswers) :
        /\ e(i) \in Reply
        /\ e(i).to = dhAnswers[i].to /\ e(i).kind = dhAnswers[i].kind /\ e(i).addr = dhAnswers[i].addr
        /\ e(i).live <=> dhAnswers[i].live /\ dhAnswers[i].to # c
  BY <1>1 DEF Reply
<1> HIDE DEF e, o
<1>4. o \in Seq(Reply) /\ Len(o) = Len(dhAnswers)
  <2>1. o \in Seq(Reply) /\ DOMAIN o = 1..Len(dhAnswers)
    BY <1>1, <1>2, <1>3, IsASeq
  <2> QED
    BY <1>1, <2>1, LenProperties
<1>5. \A i \in 1..Len(dhAnswers) :
        /\ o[i].to = dhAnswers[i].to /\ o[i].kind = dhAnswers[i].kind
        /\ o[i].addr = dhAnswers[i].addr
        /\ o[i].live <=> dhAnswers[i].live /\ dhAnswers[i].to # c
        /\ dhAnswers[i].to \in Clients
  BY <1>1, <1>2, <1>3 DEF Reply
<1> QED
  BY <1>4, <1>5 DEF o

(* The first of some addresses is one of them. *)
LEMMA FirstLemma ==
  ASSUME NEW S, S \subseteq Nat, S # {}
  PROVE  DH!First(S) \in S
<1>1. PICK a \in S : \A b \in S : ~(<<b, a>> \in OpToRel(<, Nat))
  BY WFMin, NatLessThanWellFounded
<1>2. \A b, c \in Nat : <<b, c>> \in OpToRel(<, Nat) <=> b < c
  BY DEF OpToRel
<1>3. \A b \in S : ~(b < a)
  BY <1>1, <1>2
<1>4. a \in Nat /\ \A b \in S : b \in Nat
  BY <1>1
<1>5. \A b \in S : a <= b
  BY <1>3, <1>4
<1> QED
  BY <1>1, <1>5 DEF DH!First

(* An answer is sent: if it is one that its client will believe, the       *)
(* address is kept for it.                                                 *)
LEMMA AnsweredLemma ==
  ASSUME NEW rs, NEW replies \in Seq(Reply), NEW cl, NEW e, NEW f,
         AcksAreKept(rs, replies, cl, e, f), NEW m \in Reply,
         m.live /\ m.kind = "ack" =>
           /\ cl[m.to].phase \in {"requesting", "bound"}
           /\ cl[m.to].addr = m.addr
           /\ NothingStale(rs, m.to)
           /\ Keeps(e, f, m.to, m.addr)
  PROVE  Append(replies, m) \in Seq(Reply) /\ AcksAreKept(rs, Append(replies, m), cl, e, f)
<1> DEFINE t == Append(replies, m)
<1>1. /\ t \in Seq(Reply) /\ Len(replies) \in Nat /\ Len(t) = Len(replies) + 1
      /\ \A i \in 1..Len(replies) : t[i] = replies[i]
      /\ t[Len(replies) + 1] = m
      /\ \A i \in 1..(Len(replies) + 1) : i \in 1..Len(replies) \/ i = Len(replies) + 1
      /\ \A i \in 1..Len(replies) : i \in 1..(Len(replies) + 1) /\ i < Len(replies) + 1
  BY AppendLemma
<1> HIDE DEF t
<1>2. AcksAreKept(rs, t, cl, e, f)
  <2> SUFFICES ASSUME NEW i \in 1..(Len(replies) + 1), t[i].live, t[i].kind = "ack"
               PROVE  /\ cl[t[i].to].phase \in {"requesting", "bound"}
                      /\ cl[t[i].to].addr = t[i].addr
                      /\ NothingStale(rs, t[i].to)
                      /\ Keeps(e, f, t[i].to, t[i].addr)
    BY <1>1 DEF AcksAreKept
  <2>1. CASE i = Len(replies) + 1
    BY <1>1, <2>1
  <2>2. CASE i \in 1..Len(replies)
    BY <1>1, <2>2 DEF AcksAreKept
  <2> QED
    BY <1>1, <2>1, <2>2
<1> QED
  BY <1>1, <1>2 DEF t

(* What is kept for the clients depends on the queues only through what    *)
(* is stale.                                                               *)
LEMMA KeptLemma ==
  ASSUME DhcpTypes, NEW rs, NEW cl, NEW e, NEW f,
         AcksAreKept(requests, dhAnswers, client, entries, forgotten),
         BoundIsKept(requests, client, entries, forgotten),
         \A c \in Clients : cl[c] = client[c],
         \A c \in Clients : NothingStale(requests, c) => NothingStale(rs, c),
         \A c \in Clients : \A a \in DH!Addresses :
           NothingStale(requests, c) /\ a = client[c].addr /\ Keeps(entries, forgotten, c, a)
             => Keeps(e, f, c, a)
  PROVE  AcksAreKept(rs, dhAnswers, cl, e, f) /\ BoundIsKept(rs, cl, e, f)
<1>1. BoundIsKept(rs, cl, e, f)
  <2> SUFFICES ASSUME NEW c \in Clients, cl[c].phase = "bound"
               PROVE  NothingStale(rs, c) /\ Keeps(e, f, c, cl[c].addr)
    BY DEF BoundIsKept
  <2>1. NothingStale(requests, c) /\ Keeps(entries, forgotten, c, client[c].addr)
    BY DEF BoundIsKept
  <2>2. client[c].addr \in DH!Addresses
    BY <2>1 DEF Keeps
  <2> QED
    BY <2>1, <2>2
<1>2. AcksAreKept(rs, dhAnswers, cl, e, f)
  <2> SUFFICES ASSUME NEW i \in 1..Len(dhAnswers), dhAnswers[i].live, dhAnswers[i].kind = "ack"
               PROVE  /\ cl[dhAnswers[i].to].phase \in {"requesting", "bound"}
                      /\ cl[dhAnswers[i].to].addr = dhAnswers[i].addr
                      /\ NothingStale(rs, dhAnswers[i].to)
                      /\ Keeps(e, f, dhAnswers[i].to, dhAnswers[i].addr)
    BY DEF AcksAreKept
  <2>1. dhAnswers[i].to \in Clients
    <3>1. dhAnswers[i] \in Reply
      BY ElementOfSeq DEF DhcpTypes
    <3> QED
      BY <3>1 DEF Reply
  <2>2. /\ client[dhAnswers[i].to].phase \in {"requesting", "bound"}
        /\ client[dhAnswers[i].to].addr = dhAnswers[i].addr
        /\ NothingStale(requests, dhAnswers[i].to)
        /\ Keeps(entries, forgotten, dhAnswers[i].to, dhAnswers[i].addr)
    BY DEF AcksAreKept
  <2>3. dhAnswers[i].addr \in DH!Addresses
    BY <2>2 DEF Keeps
  <2> QED
    BY <2>1, <2>2, <2>3
<1> QED
  BY <1>1, <1>2

(* The server answers a packet. *)
LEMMA ServerKeepsDhcpInv ==
  ASSUME DH!DhcpAssumption, DhcpInv, DH!UdpRecvProc
  PROVE  DhcpInv'
<1> DEFINE m == Head(requests)
           c == m.from
<1>1. /\ requests # <<>> /\ requests' = Tail(requests) /\ client' = client
      /\ CASE m.kind = "discover" -> DH!Discover(m)
           [] m.kind = "request" -> DH!Request(m)
           [] OTHER -> UNCHANGED <<entries, dhAnswers, forgotten>>
  BY DEF DH!UdpRecvProc
<1>2. /\ requests \in Seq(Packet) /\ dhAnswers \in Seq(Reply)
      /\ client \in [Clients -> ClientState]
      /\ entries \in [DH!Addresses -> Clients \cup {DH!NoClient}]
      /\ forgotten \subseteq Clients
      /\ DhcpTypes
  BY DEF DhcpInv, DhcpTypes
<1>3. /\ requests' \in Seq(Packet) /\ m \in Packet /\ m = requests[1] /\ 1 \in 1..Len(requests)
      /\ c \in Clients /\ m.addr \in Nat /\ m.live \in BOOLEAN
  <2>1. /\ requests' \in Seq(Packet) /\ m = requests[1] /\ 1 \in 1..Len(requests)
        /\ requests[1] \in Packet
    BY <1>1, <1>2, TailLemma
  <2> HIDE DEF m
  <2> QED
    BY <2>1 DEF Packet
<1>4. /\ InOrder(requests') /\ AsksForItsOwn(requests', client')
      /\ \A d \in Clients : NothingStale(requests, d) => NothingStale(requests', d)
      /\ m.live => NothingStale(requests', c)
  BY <1>1, <1>2, TakenLemma DEF DhcpInv
<1>5. /\ AcksAreKept(requests, dhAnswers, client, entries, forgotten)
      /\ BoundIsKept(requests, client, entries, forgotten)
  BY DEF DhcpInv
<1> HIDE DEF m
<1>6. CASE UNCHANGED <<entries, dhAnswers, forgotten>>
  <2>1. AcksAreKept(requests', dhAnswers, client, entries, forgotten)
        /\ BoundIsKept(requests', client, entries, forgotten)
    BY <1>2, <1>4, <1>5, KeptLemma
  <2> QED
    BY <1>1, <1>2, <1>3, <1>4, <1>6, <2>1 DEF DhcpInv, DhcpTypes
<1>7. CASE m.kind = "discover"
  <2>1. DH!Discover(m)
    BY <1>1, <1>7
  <2> DEFINE fits == IF DH!EntryByMac(c) # {} THEN DH!EntryByMac(c) ELSE DH!VacantAddress
             r == DH!Answer("offer", c, DH!First(fits), m.live)
  <2>2. /\ entries' = entries /\ forgotten' = forgotten
        /\ \/ fits # {} /\ dhAnswers' = Append(dhAnswers, r)
           \/ dhAnswers' = dhAnswers
    BY <2>1 DEF DH!Discover
  <2>3. CASE dhAnswers' = dhAnswers
    BY <1>6, <2>2, <2>3
  <2>4. CASE fits # {} /\ dhAnswers' = Append(dhAnswers, r)
    <3>1. fits \subseteq Nat
      BY DEF DH!EntryByMac, DH!VacantAddress, DH!Addresses
    <3> HIDE DEF fits
    <3>2. DH!First(fits) \in Nat
      BY <2>4, <3>1, FirstLemma
    <3>3. r \in Reply /\ r.kind # "ack"
      BY <1>3, <3>2 DEF DH!Answer, Reply
    <3>4. AcksAreKept(requests', dhAnswers, client, entries, forgotten)
          /\ BoundIsKept(requests', client, entries, forgotten)
      BY <1>2, <1>4, <1>5, KeptLemma
    <3> HIDE DEF r
    <3>5. Append(dhAnswers, r) \in Seq(Reply)
          /\ AcksAreKept(requests', Append(dhAnswers, r), client, entries, forgotten)
      BY <1>2, <3>3, <3>4, AnsweredLemma
    <3> QED
      BY <1>1, <1>2, <1>3, <1>4, <2>2, <2>4, <3>4, <3>5 DEF DhcpInv, DhcpTypes
  <2> QED
    BY <2>2, <2>3, <2>4
<1>8. CASE m.kind = "request" /\ m.addr # DH!NoAddress
  <2> DEFINE freed == [a \in DH!Addresses |-> IF entries[a] = c THEN DH!NoClient ELSE entries[a]]
             given == [freed EXCEPT ![m.addr] = c]
             r == DH!Answer("ack", c, m.addr, m.live)
             Freed == /\ entries' = freed
                      /\ forgotten' = IF freed # entries THEN forgotten \cup {c} ELSE forgotten
                      /\ UNCHANGED dhAnswers
             Given == /\ entries' = given
                      /\ dhAnswers' = Append(dhAnswers, r)
                      /\ forgotten' = forgotten \ {c}
                      /\ m.addr \in DH!Addresses /\ freed[m.addr] = DH!NoClient
  <2>1. Freed \/ Given
    <3>1. DH!Request(m)
      BY <1>1, <1>8
    <3> QED
      BY <1>8, <3>1 DEF DH!Request
  <2>2. /\ m.live => client[c].phase \in {"requesting", "bound"}
        /\ m.live => m.addr = client[c].addr
        /\ NothingStale(requests, c) => m.live
    BY <1>3, <1>8 DEF DhcpInv, AsksForItsOwn, NothingStale
  <2>3. /\ freed \in [DH!Addresses -> Clients \cup {DH!NoClient}]
        /\ \A a \in DH!Addresses, d \in Clients : d # c /\ entries[a] = d => freed[a] = d
        /\ \A a \in DH!Addresses : entries[a] = c => freed[a] # c
    BY <1>2, <1>3 DEF DH!DhcpAssumption
  <2>4. CASE Freed
    <3>1. \A d \in Clients : \A a \in DH!Addresses :
            Keeps(entries, forgotten, d, a) => Keeps(entries', forgotten', d, a)
      <4> SUFFICES ASSUME NEW d \in Clients, NEW a \in DH!Addresses,
                          d \in forgotten \/ entries[a] = d
                   PROVE  d \in forgotten' \/ entries'[a] = d
        BY DEF Keeps
      <4>1. CASE d \in forgotten
        BY <2>4, <4>1
      <4>2. CASE entries[a] = d /\ d # c
        BY <2>3, <2>4, <4>2
      <4>3. CASE entries[a] = c /\ d = c
        <5>1. freed # entries
          BY <2>3, <4>3
        <5> QED
          BY <2>4, <4>3, <5>1
      <4> QED
        BY <4>1, <4>2, <4>3
    <3>2. AcksAreKept(requests', dhAnswers, client, entries', forgotten')
          /\ BoundIsKept(requests', client, entries', forgotten')
      BY <1>2, <1>4, <1>5, <3>1, KeptLemma
    <3>3. forgotten' \subseteq Clients
      BY <1>2, <1>3, <2>4
    <3> HIDE DEF freed
    <3> QED
      BY <1>1, <1>2, <1>3, <1>4, <2>3, <2>4, <3>2, <3>3 DEF DhcpInv, DhcpTypes
  <2>5. CASE Given
    <3>1. /\ given \in [DH!Addresses -> Clients \cup {DH!NoClient}]
          /\ given[m.addr] = c
          /\ \A a \in DH!Addresses : a # m.addr => given[a] = freed[a]
      BY <1>3, <2>3, <2>5
    <3> HIDE DEF given
    <3>2. \A d \in Clients : \A a \in DH!Addresses :
            NothingStale(requests, d) /\ a = client[d].addr /\ Keeps(entries, forgotten, d, a)
              => Keeps(entries', forgotten', d, a)
      <4> SUFFICES ASSUME NEW d \in Clients, NEW a \in DH!Addresses,
                          NothingStale(requests, d), a = client[d].addr,
                          d \in forgotten \/ entries[a] = d
                   PROVE  d \in forgotten' \/ entries'[a] = d
        BY DEF Keeps
      <4>1. CASE d = c
        <5>1. m.addr = a
          BY <2>2, <4>1
        <5> QED
          BY <2>5, <3>1, <4>1, <5>1
      <4>2. CASE d # c /\ d \in forgotten
        BY <2>5, <4>2
      <4>3. CASE d # c /\ entries[a] = d
        <5>1. freed[a] = d /\ d # DH!NoClient
          BY <2>3, <4>3 DEF DH!DhcpAssumption
        <5>2. a # m.addr
          BY <2>5, <5>1
        <5> QED
          BY <2>5, <3>1, <5>1, <5>2
      <4> QED
        BY <4>1, <4>2, <4>3
    <3>3. AcksAreKept(requests', dhAnswers, client, entries', forgotten')
          /\ BoundIsKept(requests', client, entries', forgotten')
      BY <1>2, <1>4, <1>5, <3>2, KeptLemma
    <3>4. r \in Reply /\ r.to = c /\ r.addr = m.addr /\ r.live = m.live
      BY <1>3 DEF DH!Answer, Reply
    <3>5. m.live => /\ client[c].phase \in {"requesting", "bound"}
                    /\ client[c].addr = m.addr
                    /\ NothingStale(requests', c)
                    /\ Keeps(entries', forgotten', c, m.addr)
      BY <1>4, <2>2, <2>5, <3>1 DEF Keeps
    <3> HIDE DEF r
    <3>6. Append(dhAnswers, r) \in Seq(Reply)
          /\ AcksAreKept(requests', Append(dhAnswers, r), client, entries', forgotten')
      BY <1>2, <3>3, <3>4, <3>5, AnsweredLemma
    <3>7. forgotten' \subseteq Clients
      BY <1>2, <2>5
    <3> HIDE DEF freed
    <3> QED
      BY <1>1, <1>2, <1>3, <1>4, <2>5, <3>1, <3>3, <3>6, <3>7 DEF DhcpInv, DhcpTypes
  <2> QED
    BY <2>1, <2>4, <2>5
<1>9. CASE m.kind = "request" /\ m.addr = DH!NoAddress
  <2>1. DH!Request(m)
    BY <1>1, <1>9
  <2> QED
    BY <1>6, <1>9, <2>1 DEF DH!Request
<1> QED
  BY <1>1, <1>6, <1>7, <1>8, <1>9

(* A client begins a transaction, or leaves: it believes nothing any more. *)
LEMMA NewTransactionLemma ==
  ASSUME DhcpInv, NEW c \in Clients, NEW s \in ClientState, s.phase # "bound",
         client' = [client EXCEPT ![c] = s],
         dhAnswers' = DH!OutdatedAnswers(c),
         UNCHANGED <<entries, forgotten>>,
         \/ requests' = DH!Outdated(c, requests)
         \/ \E p \in Packet :
              /\ p.from = c /\ p.live
              /\ p.kind = "request" => s.phase = "requesting" /\ p.addr = s.addr
              /\ requests' = Append(DH!Outdated(c, requests), p)
  PROVE  DhcpInv'
<1> DEFINE o == DH!Outdated(c, requests)
<1>1. /\ requests \in Seq(Packet) /\ dhAnswers \in Seq(Reply)
      /\ client \in [Clients -> ClientState]
      /\ entries \in [DH!Addresses -> Clients \cup {DH!NoClient}]
      /\ forgotten \subseteq Clients
      /\ InOrder(requests) /\ AsksForItsOwn(requests, client)
      /\ AcksAreKept(requests, dhAnswers, client, entries, forgotten)
      /\ BoundIsKept(requests, client, entries, forgotten)
  BY DEF DhcpInv, DhcpTypes
<1>2. /\ client' \in [Clients -> ClientState] /\ client'[c] = s
      /\ \A d \in Clients : d # c => client'[d] = client[d]
  BY <1>1
<1>3. /\ o \in Seq(Packet) /\ InOrder(o) /\ AsksForItsOwn(o, client')
      /\ \A d \in Clients : d # c /\ NothingStale(requests, d) => NothingStale(o, d)
  BY <1>1, <1>2, OutdatedLemma
<1> HIDE DEF o
<1>4. /\ requests' \in Seq(Packet) /\ InOrder(requests') /\ AsksForItsOwn(requests', client')
      /\ \A d \in Clients : d # c /\ NothingStale(requests, d) => NothingStale(requests', d)
  <2>1. CASE requests' = o
    BY <1>3, <2>1
  <2>2. ASSUME NEW p \in Packet, p.from = c, p.live,
               p.kind = "request" => s.phase = "requesting" /\ p.addr = s.addr,
               requests' = Append(o, p)
        PROVE  /\ requests' \in Seq(Packet) /\ InOrder(requests')
               /\ AsksForItsOwn(requests', client')
               /\ \A d \in Clients : d # c /\ NothingStale(requests, d)
                                       => NothingStale(requests', d)
    <3>1. requests' \in Seq(Packet)
      BY <1>3, <2>2, AppendLemma
    <3>2. p.kind = "request" => /\ client'[p.from].phase \in {"requesting", "bound"}
                                /\ p.addr \in {DH!NoAddress, client'[p.from].addr}
      BY <1>2, <2>2
    <3>3. /\ InOrder(requests') /\ AsksForItsOwn(requests', client')
          /\ \A d \in Clients : NothingStale(o, d) => NothingStale(requests', d)
      BY <1>3, <2>2, <3>2, SentLemma
    <3> QED
      BY <1>3, <3>1, <3>3
  <2> QED
    BY <2>1, <2>2 DEF o
<1>5. /\ dhAnswers' \in Seq(Reply) /\ Len(dhAnswers') = Len(dhAnswers)
      /\ \A i \in 1..Len(dhAnswers) :
           /\ dhAnswers'[i].to = dhAnswers[i].to /\ dhAnswers'[i].kind = dhAnswers[i].kind
           /\ dhAnswers'[i].addr = dhAnswers[i].addr
           /\ dhAnswers'[i].live <=> dhAnswers[i].live /\ dhAnswers[i].to # c
           /\ dhAnswers[i].to \in Clients
  BY <1>1, OutdatedAnswersLemma
<1>6. AcksAreKept(requests', dhAnswers', client', entries', forgotten')
  <2> SUFFICES ASSUME NEW i \in 1..Len(dhAnswers), dhAnswers'[i].live, dhAnswers'[i].kind = "ack"
               PROVE  /\ client'[dhAnswers'[i].to].phase \in {"requesting", "bound"}
                      /\ client'[dhAnswers'[i].to].addr = dhAnswers'[i].addr
                      /\ NothingStale(requests', dhAnswers'[i].to)
                      /\ Keeps(entries, forgotten, dhAnswers'[i].to, dhAnswers'[i].addr)
    BY <1>5 DEF AcksAreKept
  <2>1. /\ dhAnswers[i].live /\ dhAnswers[i].kind = "ack" /\ dhAnswers[i].to # c
        /\ dhAnswers[i].to \in Clients
    BY <1>5
  <2>2. /\ client[dhAnswers[i].to].phase \in {"requesting", "bound"}
        /\ client[dhAnswers[i].to].addr = dhAnswers[i].addr
        /\ NothingStale(requests, dhAnswers[i].to)
        /\ Keeps(entries, forgotten, dhAnswers[i].to, dhAnswers[i].addr)
    BY <1>1, <2>1 DEF AcksAreKept
  <2> QED
    BY <1>2, <1>4, <1>5, <2>1, <2>2
<1>7. BoundIsKept(requests', client', entries', forgotten')
  BY <1>1, <1>2, <1>4 DEF BoundIsKept
<1> QED
  BY <1>1, <1>2, <1>4, <1>5, <1>6, <1>7 DEF DhcpInv, DhcpTypes

(* A client repeats a request, or renews its lease. *)
LEMMA AgainLemma ==
  ASSUME DhcpInv, NEW p \in Packet, p.live,
         p.kind = "request" => /\ client[p.from].phase \in {"requesting", "bound"}
                               /\ p.addr \in {DH!NoAddress, client[p.from].addr},
         requests' = Append(requests, p),
         UNCHANGED <<entries, client, dhAnswers, forgotten>>
  PROVE  DhcpInv'
<1>1. /\ requests \in Seq(Packet) /\ client \in [Clients -> ClientState]
      /\ InOrder(requests) /\ AsksForItsOwn(requests, client)
      /\ AcksAreKept(requests, dhAnswers, client, entries, forgotten)
      /\ BoundIsKept(requests, client, entries, forgotten)
      /\ DhcpTypes
  BY DEF DhcpInv, DhcpTypes
<1>2. requests' \in Seq(Packet)
  BY <1>1, AppendLemma
<1>3. /\ InOrder(requests') /\ AsksForItsOwn(requests', client)
      /\ \A d \in Clients : NothingStale(requests, d) => NothingStale(requests', d)
  BY <1>1, SentLemma
<1>4. AcksAreKept(requests', dhAnswers, client, entries, forgotten)
      /\ BoundIsKept(requests', client, entries, forgotten)
  BY <1>1, <1>3, KeptLemma
<1> QED
  BY <1>2, <1>3, <1>4 DEF DhcpInv, DhcpTypes

(* The clients act. *)
LEMMA ClientKeepsDhcpInv ==
  ASSUME DH!DhcpAssumption, DhcpInv, NEW c \in Clients,
         \/ DH!StartDiscovery(c) \/ DH!Reboot(c) \/ DH!Repeat(c) \/ DH!Renew(c) \/ DH!Leave(c)
  PROVE  DhcpInv'
<1>1. client[c] \in ClientState /\ client[c].addr \in Nat /\ Entries \in Nat
  BY DEF DhcpInv, DhcpTypes, ClientState, DH!DhcpAssumption
<1>2. CASE DH!StartDiscovery(c)
  <2> DEFINE s == [phase |-> "selecting", addr |-> DH!NoAddress]
             p == [kind |-> "discover", from |-> c, addr |-> DH!NoAddress, live |-> TRUE]
  <2>1. s \in ClientState /\ s.phase # "bound" /\ p \in Packet /\ p.from = c /\ p.live
        /\ p.kind # "request"
    BY DEF ClientState, Packet, DH!NoAddress
  <2>2. /\ client' = [client EXCEPT ![c] = s] /\ dhAnswers' = DH!OutdatedAnswers(c)
        /\ requests' = Append(DH!Outdated(c, requests), p)
        /\ UNCHANGED <<entries, forgotten>>
    BY <1>2 DEF DH!StartDiscovery, DH!Becomes, DH!Send
  <2> HIDE DEF s, p
  <2> QED
    BY <2>1, <2>2, NewTransactionLemma
<1>3. CASE DH!Reboot(c)
  <2>1. PICK a \in DH!Addresses \cup {Entries + 1} :
          DH!Becomes(c, "requesting", a) /\ DH!Send(c, "request", a, TRUE)
    BY <1>3 DEF DH!Reboot
  <2> DEFINE s == [phase |-> "requesting", addr |-> a]
             p == [kind |-> "request", from |-> c, addr |-> a, live |-> TRUE]
  <2>2. a \in Nat
    BY <1>1 DEF DH!Addresses
  <2>3. s \in ClientState /\ s.phase # "bound" /\ s.phase = "requesting" /\ s.addr = p.addr
        /\ p \in Packet /\ p.from = c /\ p.live
    BY <2>2 DEF ClientState, Packet
  <2>4. /\ client' = [client EXCEPT ![c] = s] /\ dhAnswers' = DH!OutdatedAnswers(c)
        /\ requests' = Append(DH!Outdated(c, requests), p)
        /\ UNCHANGED <<entries, forgotten>>
    BY <2>1 DEF DH!Becomes, DH!Send
  <2> HIDE DEF s, p
  <2> QED
    BY <2>3, <2>4, NewTransactionLemma
<1>4. CASE DH!Repeat(c)
  <2> DEFINE p == [kind |-> "request", from |-> c, addr |-> client[c].addr, live |-> TRUE]
  <2>1. p \in Packet /\ p.live /\ p.from = c /\ p.addr = client[c].addr
    BY <1>1 DEF Packet
  <2>2. /\ client[c].phase = "requesting"
        /\ requests' = Append(requests, p)
        /\ UNCHANGED <<entries, client, dhAnswers, forgotten>>
    BY <1>4 DEF DH!Repeat, DH!Send
  <2> HIDE DEF p
  <2> QED
    BY <2>1, <2>2, AgainLemma
<1>5. CASE DH!Renew(c)
  <2> DEFINE p == [kind |-> "request", from |-> c, addr |-> DH!NoAddress, live |-> TRUE]
  <2>1. p \in Packet /\ p.live /\ p.from = c /\ p.addr = DH!NoAddress
    BY DEF Packet, DH!NoAddress
  <2>2. /\ client[c].phase = "bound"
        /\ requests' = Append(requests, p)
        /\ UNCHANGED <<entries, client, dhAnswers, forgotten>>
    BY <1>5 DEF DH!Renew, DH!Send
  <2> HIDE DEF p
  <2> QED
    BY <2>1, <2>2, AgainLemma
<1>6. CASE DH!Leave(c)
  <2> DEFINE s == [phase |-> "init", addr |-> client[c].addr]
             p == [kind |-> "release", from |-> c, addr |-> client[c].addr, live |-> TRUE]
  <2>1. s \in ClientState /\ s.phase # "bound" /\ p \in Packet /\ p.from = c /\ p.live
        /\ p.kind # "request"
    BY <1>1 DEF ClientState, Packet
  <2>2. /\ client' = [client EXCEPT ![c] = s] /\ dhAnswers' = DH!OutdatedAnswers(c)
        /\ \/ requests' = Append(DH!Outdated(c, requests), p)
           \/ requests' = DH!Outdated(c, requests)
        /\ UNCHANGED <<entries, forgotten>>
    BY <1>6 DEF DH!Leave, DH!Becomes, DH!Send
  <2> HIDE DEF s, p
  <2> QED
    BY <2>1, <2>2, NewTransactionLemma
<1> QED
  BY <1>2, <1>3, <1>4, <1>5, <1>6

(* Answers are taken from their queue. *)
LEMMA TakenAnswerLemma ==
  ASSUME NEW rs, NEW replies \in Seq(Reply), replies # <<>>, NEW cl, NEW e, NEW f,
         AcksAreKept(rs, replies, cl, e, f)
  PROVE  Tail(replies) \in Seq(Reply) /\ AcksAreKept(rs, Tail(replies), cl, e, f)
<1>1. /\ Len(replies) \in Nat
      /\ Tail(replies) \in Seq(Reply)
      /\ Len(Tail(replies)) = Len(replies) - 1
      /\ \A i \in 1..(Len(replies) - 1) :
           i + 1 \in 1..Len(replies) /\ Tail(replies)[i] = replies[i + 1]
  BY TailLemma
<1> QED
  BY <1>1 DEF AcksAreKept

(* A client hears an answer. *)
LEMMA HearKeepsDhcpInv ==
  ASSUME DhcpInv, DH!Hear
  PROVE  DhcpInv'
<1> DEFINE m == Head(dhAnswers)
           c == m.to
           s == [phase |-> "requesting", addr |-> m.addr]
           b == [phase |-> "bound", addr |-> m.addr]
           p == [kind |-> "request", from |-> c, addr |-> m.addr, live |-> TRUE]
           Offered == /\ client[c].phase = "selecting"
                      /\ client' = [client EXCEPT ![c] = s]
                      /\ requests' = Append(requests, p)
           Acked == /\ m.live /\ m.kind = "ack"
                    /\ client' = [client EXCEPT ![c] = b] /\ requests' = requests
<1>1. /\ requests \in Seq(Packet) /\ dhAnswers \in Seq(Reply)
      /\ client \in [Clients -> ClientState]
      /\ entries \in [DH!Addresses -> Clients \cup {DH!NoClient}]
      /\ forgotten \subseteq Clients
      /\ InOrder(requests) /\ AsksForItsOwn(requests, client)
      /\ AcksAreKept(requests, dhAnswers, client, entries, forgotten)
      /\ BoundIsKept(requests, client, entries, forgotten)
  BY DEF DhcpInv, DhcpTypes
<1>2. /\ dhAnswers # <<>> /\ dhAnswers' = Tail(dhAnswers)
      /\ entries' = entries /\ forgotten' = forgotten
      /\ Offered \/ Acked \/ (client' = client /\ requests' = requests)
  BY DEF DH!Hear, DH!Becomes
<1>3. /\ m = dhAnswers[1] /\ 1 \in 1..Len(dhAnswers)
      /\ c \in Clients /\ m.addr \in Nat
  <2>1. m = dhAnswers[1] /\ 1 \in 1..Len(dhAnswers) /\ dhAnswers[1] \in Reply
    BY <1>1, <1>2, TailLemma
  <2> HIDE DEF m
  <2> QED
    BY <2>1 DEF Reply
<1>4. s \in ClientState /\ b \in ClientState /\ p \in Packet /\ p.live /\ p.from = c
      /\ p.addr = m.addr /\ s.phase = "requesting" /\ s.addr = m.addr
      /\ b.phase = "bound" /\ b.addr = m.addr
  BY <1>3 DEF ClientState, Packet
<1>5. \A i \in 1..Len(dhAnswers) : dhAnswers[i].to \in Clients
  <2>1. \A i \in 1..Len(dhAnswers) : dhAnswers[i] \in Reply
    BY <1>1, ElementOfSeq
  <2> QED
    BY <2>1 DEF Reply
<1> HIDE DEF m, s, b, p
<1>6. SUFFICES /\ client' \in [Clients -> ClientState]
               /\ requests' \in Seq(Packet)
               /\ InOrder(requests') /\ AsksForItsOwn(requests', client')
               /\ AcksAreKept(requests', dhAnswers, client', entries, forgotten)
               /\ BoundIsKept(requests', client', entries, forgotten)
  BY <1>1, <1>2, TakenAnswerLemma DEF DhcpInv, DhcpTypes
<1>7. CASE client' = client /\ requests' = requests
  BY <1>1, <1>7
<1>8. CASE Offered
  <2>1. /\ client' \in [Clients -> ClientState] /\ client'[c] = s
        /\ \A d \in Clients : d # c => client'[d] = client[d]
    BY <1>1, <1>3, <1>4, <1>8
  <2>2. AsksForItsOwn(requests, client')
    <3>1. \A i \in 1..Len(requests) : requests[i].from \in Clients
      <4>1. \A i \in 1..Len(requests) : requests[i] \in Packet
        BY <1>1, ElementOfSeq
      <4> QED
        BY <4>1 DEF Packet
    <3> QED
      BY <1>1, <1>4, <1>8, <2>1, <3>1 DEF AsksForItsOwn
  <2>3. requests' \in Seq(Packet)
    BY <1>1, <1>4, <1>8, AppendLemma
  <2>4. /\ InOrder(requests') /\ AsksForItsOwn(requests', client')
        /\ \A d \in Clients : NothingStale(requests, d) => NothingStale(requests', d)
    <3>1. p.kind = "request" => /\ client'[p.from].phase \in {"requesting", "bound"}
                                /\ p.addr \in {DH!NoAddress, client'[p.from].addr}
      BY <1>4, <2>1
    <3> QED
      BY <1>1, <1>4, <1>8, <2>2, <3>1, SentLemma
  <2>5. AcksAreKept(requests', dhAnswers, client', entries, forgotten)
    <3> SUFFICES ASSUME NEW i \in 1..Len(dhAnswers), dhAnswers[i].live, dhAnswers[i].kind = "ack"
                 PROVE  /\ client'[dhAnswers[i].to].phase \in {"requesting", "bound"}
                        /\ client'[dhAnswers[i].to].addr = dhAnswers[i].addr
                        /\ NothingStale(requests', dhAnswers[i].to)
                        /\ Keeps(entries, forgotten, dhAnswers[i].to, dhAnswers[i].addr)
      BY DEF AcksAreKept
    <3>1. /\ client[dhAnswers[i].to].phase \in {"requesting", "bound"}
          /\ client[dhAnswers[i].to].addr = dhAnswers[i].addr
          /\ NothingStale(requests, dhAnswers[i].to)
          /\ Keeps(entries, forgotten, dhAnswers[i].to, dhAnswers[i].addr)
      BY <1>1 DEF AcksAreKept
    <3>2. dhAnswers[i].to \in Clients /\ dhAnswers[i].to # c
      BY <1>5, <1>8, <3>1
    <3> QED
      BY <2>1, <2>4, <3>1, <3>2
  <2>6. BoundIsKept(requests', client', entries, forgotten)
    BY <1>1, <1>4, <2>1, <2>4 DEF BoundIsKept
  <2> QED
    BY <2>1, <2>3, <2>4, <2>5, <2>6
<1>9. CASE Acked
  <2>1. /\ client' \in [Clients -> ClientState] /\ client'[c] = b
        /\ \A d \in Clients : d # c => client'[d] = client[d]
    BY <1>1, <1>3, <1>4, <1>9
  <2>2. /\ client[c].phase \in {"requesting", "bound"} /\ client[c].addr = m.addr
        /\ NothingStale(requests, c) /\ Keeps(entries, forgotten, c, m.addr)
    BY <1>1, <1>3, <1>9 DEF AcksAreKept
  <2>3. \A d \in Clients : /\ client'[d].addr = client[d].addr
                           /\ client[d].phase \in {"requesting", "bound"}
                                => client'[d].phase \in {"requesting", "bound"}
    BY <1>4, <2>1, <2>2
  <2>4. AsksForItsOwn(requests, client')
    <3>1. \A i \in 1..Len(requests) : requests[i].from \in Clients
      <4>1. \A i \in 1..Len(requests) : requests[i] \in Packet
        BY <1>1, ElementOfSeq
      <4> QED
        BY <4>1 DEF Packet
    <3> QED
      BY <1>1, <2>3, <3>1 DEF AsksForItsOwn
  <2>5. AcksAreKept(requests, dhAnswers, client', entries, forgotten)
    BY <1>1, <1>5, <2>3 DEF AcksAreKept
  <2>6. BoundIsKept(requests, client', entries, forgotten)
    BY <1>1, <1>4, <2>1, <2>2 DEF BoundIsKept
  <2> QED
    BY <1>1, <1>9, <2>1, <2>4, <2>5, <2>6
<1> QED
  BY <1>2, <1>7, <1>8, <1>9

(* A packet is lost. *)
LEMMA LoseKeepsDhcpInv ==
  ASSUME DhcpInv, DH!Lose
  PROVE  DhcpInv'
<1>1. /\ requests \in Seq(Packet) /\ dhAnswers \in Seq(Reply)
      /\ client \in [Clients -> ClientState]
      /\ InOrder(requests) /\ AsksForItsOwn(requests, client)
      /\ AcksAreKept(requests, dhAnswers, client, entries, forgotten)
      /\ BoundIsKept(requests, client, entries, forgotten)
      /\ DhcpTypes
  BY DEF DhcpInv, DhcpTypes
<1>2. UNCHANGED <<entries, client, forgotten>>
  BY DEF DH!Lose
<1>3. CASE requests # <<>> /\ requests' = Tail(requests) /\ UNCHANGED dhAnswers
  <2>1. requests' \in Seq(Packet)
    BY <1>1, <1>3, TailLemma
  <2>2. /\ InOrder(requests') /\ AsksForItsOwn(requests', client)
        /\ \A d \in Clients : NothingStale(requests, d) => NothingStale(requests', d)
    BY <1>1, <1>3, TakenLemma
  <2>3. AcksAreKept(requests', dhAnswers, client, entries, forgotten)
        /\ BoundIsKept(requests', client, entries, forgotten)
    BY <1>1, <2>2, KeptLemma
  <2> QED
    BY <1>1, <1>2, <1>3, <2>1, <2>2, <2>3 DEF DhcpInv, DhcpTypes
<1>4. CASE dhAnswers # <<>> /\ dhAnswers' = Tail(dhAnswers) /\ UNCHANGED requests
  BY <1>1, <1>2, <1>4, TakenAnswerLemma DEF DhcpInv, DhcpTypes
<1> QED
  BY <1>3, <1>4 DEF DH!Lose

LEMMA DhcpInit == DH!Init => DhcpInv
<1> SUFFICES ASSUME DH!Init PROVE DhcpInv
  OBVIOUS
<1>1. /\ requests = <<>> /\ dhAnswers = <<>> /\ forgotten = {}
      /\ requests \in Seq(Packet) /\ dhAnswers \in Seq(Reply)
      /\ Len(requests) = 0 /\ Len(dhAnswers) = 0
  BY EmptySeq DEF DH!Init
<1>2. entries \in [DH!Addresses -> Clients \cup {DH!NoClient}]
  BY DEF DH!Init
<1>3. /\ client \in [Clients -> ClientState]
      /\ \A c \in Clients : client[c].phase = "init"
  BY DEF DH!Init, ClientState, DH!NoAddress
<1>4. InOrder(requests) /\ AsksForItsOwn(requests, client)
      /\ AcksAreKept(requests, dhAnswers, client, entries, forgotten)
  BY <1>1 DEF InOrder, AsksForItsOwn, AcksAreKept
<1>5. BoundIsKept(requests, client, entries, forgotten)
  BY <1>3 DEF BoundIsKept
<1> QED
  BY <1>1, <1>2, <1>3, <1>4, <1>5 DEF DhcpInv, DhcpTypes

LEMMA DhcpNext ==
  ASSUME DH!DhcpAssumption, DhcpInv, [DH!Next]_(DH!vars)
  PROVE  DhcpInv'
<1>1. CASE DH!UdpRecvProc
  BY <1>1, ServerKeepsDhcpInv
<1>2. CASE DH!Hear
  BY <1>2, HearKeepsDhcpInv
<1>3. CASE DH!Lose
  BY <1>3, LoseKeepsDhcpInv
<1>4. ASSUME NEW c \in Clients,
             \/ DH!StartDiscovery(c) \/ DH!Reboot(c) \/ DH!Repeat(c)
             \/ DH!Renew(c) \/ DH!Leave(c)
      PROVE  DhcpInv'
  BY <1>4, ClientKeepsDhcpInv
<1>5. CASE UNCHANGED DH!vars
  BY <1>5 DEF DH!vars, DhcpInv, DhcpTypes
<1> QED
  BY <1>1, <1>2, <1>3, <1>4, <1>5 DEF DH!Next

(* No lease that the server gave is given to another client, however the   *)
(* requests of the clients cross, are repeated and lost.                   *)
THEOREM LeasesAreAlwaysKept == DH!Spec => []DH!LeasesAreKept
<1>1. DH!Init => DhcpInv
  BY DhcpInit, HostsAssumption
<1>2. DhcpInv /\ [DH!Next]_(DH!vars) => DhcpInv'
  BY DhcpNext, HostsAssumption
<1>3. DhcpInv => DH!LeasesAreKept
  BY DEF DhcpInv, BoundIsKept, Keeps, DH!LeasesAreKept, DH!Bound
<1> QED
  BY <1>1, <1>2, <1>3, PTL DEF DH!Spec

(* The network over USB serves its computers, for every number of          *)
(* computers, addresses, frames and packets that wait, whatever is sent,   *)
(* lost and repeated (network_usb.cpp, dhserver.c).                        *)
THEOREM NetworkAlwaysServes == DH!Spec /\ NU!Spec => []NetworkServes
BY LeasesAreAlwaysKept, ReceptionAlwaysGoesOn, PTL DEF NetworkServes

-----------------------------------------------------------------------------
(* The web pages.  What a page shows is what the firmware will have when   *)
(* the messages under way have arrived, or a whole configuration is under  *)
(* way that will say so: one that was sent before the last change makes    *)
(* the page stale.  A result of an upload is on its way to a stale page    *)
(* only.                                                                   *)
WebConfigs == Configs \cup {WS!NoConfig}
WebCommands == {"getConfig", "set", "pad", "saveConfig", "restoreConfig", "setConfig"}
WebMessage ==
  [cmd : WebCommands, value : WebConfigs, cut : {r.cut : r \in Changes} \cup {<<1>>}, come : Nat]
WebAnswer ==
  [kind : {"config", "setConfigResult"}, value : WebConfigs \cup {"success", "failed"},
   dirty : BOOLEAN]
WebPiece == [cmd : WebCommands, value : WebConfigs, number : Nat]

(* What is sent before a message came whole is its pieces so far.          *)
PiecesAreInOrder(q, text) ==
  /\ q = <<>> => text = <<>>
  /\ q # <<>> => text = [j \in 1..q[1].come |-> WS!Piece(q[1], j)]
  /\ \A i \in 1..Len(q) : i > 1 => q[i].come = 0

(* Of the answers a, those that are not old (o) tell the configuration v   *)
(* and whether it is saved; no configuration before a result is current.   *)
AnswersTell(a, o, v, d) ==
  \A i \in 1..Len(a) :
    /\ i > o /\ a[i].kind = "config" => a[i].value = v /\ a[i].dirty = d
    /\ a[i].kind = "setConfigResult" => i <= o + 1

IsLastChange(q, i) ==
  WS!IsChange(q[i]) /\ \A j \in 1..Len(q) : j > i => ~WS!IsChange(q[j])

(* A page that shows x, and whether it is saved (y), sent q and gets a.    *)
CopyWillAgree(q, a, v, d, x, y) ==
  /\ \A i \in 1..Len(a) : a[i].kind = "config"
  /\ \/ a # <<>>
     \/ \E i \in 1..Len(q) : WS!IsChange(q[i]) \/ q[i].cmd = "getConfig"
     \/ x = v /\ y = d
  /\ \A i \in 1..Len(q) :
       IsLastChange(q, i) /\ q[i].cmd \in {"set", "pad"} => q[i].value = x /\ y = TRUE

WebTypes ==
  /\ value \in WebConfigs /\ wsFile \in WebConfigs /\ isConfigDirty \in BOOLEAN
  /\ sock \in [WS!Sockets -> {"free", "connecting", "open", "closing", "broken"}]
  /\ wsSent \in [WS!Sockets -> Seq(WebMessage)]
  /\ wsAnswers \in [WS!Sockets -> Seq(WebAnswer)]
  /\ pending \in [WS!Sockets -> Seq(WebPiece)]
  /\ websock \in [Pages -> WS!Sockets \cup {WS!NoSocket}]
  /\ \A p \in Pages : websock[p] # WS!NoSocket => WS!PageOf(websock[p]) = p
  /\ wsShown \in [Pages -> WebConfigs \cup {"success", "failed"}]
  /\ shownDirty \in [Pages -> BOOLEAN]
  /\ old \in [WS!Sockets -> Nat]

SocketsBeginEmpty ==
  \A s \in WS!Sockets :
    sock[s] \in {"free", "connecting"} =>
      wsSent[s] = <<>> /\ wsAnswers[s] = <<>> /\ pending[s] = <<>>

UsedSocketsAreNotClosing ==
  \A p \in Pages : websock[p] # WS!NoSocket => sock[websock[p]] # "closing"

MessagesAreInPieces == \A s \in WS!Sockets : PiecesAreInOrder(wsSent[s], pending[s])

AnswersTellTheConfig ==
  \A s \in WS!Sockets : AnswersTell(wsAnswers[s], old[s], value, isConfigDirty)

CopiesWillAgree ==
  \A p \in Pages :
    p \notin stale /\ websock[p] # WS!NoSocket /\ sock[websock[p]] \in {"open", "broken"} =>
      CopyWillAgree(wsSent[websock[p]], wsAnswers[websock[p]], value, isConfigDirty,
                    wsShown[p], shownDirty[p])

WebInv ==
  /\ WebTypes
  /\ SocketsBeginEmpty /\ UsedSocketsAreNotClosing
  /\ MessagesAreInPieces /\ AnswersTellTheConfig /\ CopiesWillAgree

LEMMA SocketLemma ==
  /\ \A s \in WS!Sockets : WS!PageOf(s) \in Pages
  /\ WS!NoSocket \notin WS!Sockets
BY DEF WS!Sockets, WS!PageOf, WS!NoSocket

(* A message is sent: a change that the page shows, or one of which it     *)
(* will hear, or a request that changes nothing.                           *)
LEMMA SentCopyLemma ==
  ASSUME NEW q \in Seq(WebMessage), NEW m \in WebMessage,
         NEW a, NEW v, NEW d, NEW x, NEW y, NEW x2, NEW y2,
         CopyWillAgree(q, a, v, d, x, y),
         \/ /\ WS!IsChange(m)
            /\ m.cmd \in {"set", "pad"} => m.value = x2 /\ y2 = TRUE
         \/ ~WS!IsChange(m) /\ x2 = x /\ y2 = y
  PROVE  CopyWillAgree(Append(q, m), a, v, d, x2, y2)
<1> DEFINE t == Append(q, m)
           n == Len(q) + 1
<1>1. /\ Len(q) \in Nat /\ Len(t) = n /\ t[n] = m
      /\ \A i \in 1..Len(q) : t[i] = q[i] /\ i \in 1..n /\ i < n
      /\ \A i \in 1..n : i \in 1..Len(q) \/ i = n
      /\ n \in 1..n
  BY AppendLemma
<1> HIDE DEF t, n
<1>2. CASE WS!IsChange(m)
  <2>1. \A i \in 1..n : IsLastChange(t, i) => i = n
    BY <1>1, <1>2 DEF IsLastChange
  <2>2. m.cmd \in {"set", "pad"} => m.value = x2 /\ y2 = TRUE
    BY <1>2
  <2>3. \E i \in 1..n : WS!IsChange(t[i])
    BY <1>1, <1>2
  <2>4. CopyWillAgree(t, a, v, d, x2, y2)
    BY <1>1, <2>1, <2>2, <2>3 DEF CopyWillAgree
  <2> QED
    BY <2>4 DEF t
<1>3. CASE ~WS!IsChange(m) /\ x2 = x /\ y2 = y
  <2>1. \A i \in 1..n : IsLastChange(t, i) => i \in 1..Len(q) /\ IsLastChange(q, i)
    BY <1>1, <1>3 DEF IsLastChange
  <2>2. \A i \in 1..n : IsLastChange(t, i) /\ t[i].cmd \in {"set", "pad"} =>
          t[i].value = x /\ y = TRUE
    BY <1>1, <2>1 DEF CopyWillAgree
  <2>3. \/ a # <<>>
        \/ \E i \in 1..n : WS!IsChange(t[i]) \/ t[i].cmd = "getConfig"
        \/ x = v /\ y = d
    BY <1>1 DEF CopyWillAgree
  <2>4. CopyWillAgree(t, a, v, d, x, y)
    BY <1>1, <2>2, <2>3 DEF CopyWillAgree
  <2> QED
    BY <1>3, <2>4 DEF t
<1> QED
  BY <1>2, <1>3

(* The firmware has handled the first message. *)
LEMMA HandledCopyLemma ==
  ASSUME NEW q \in Seq(WebMessage), q # <<>>,
         NEW a, NEW v, NEW d, NEW x, NEW y, NEW a2, NEW v2, NEW d2,
         CopyWillAgree(q, a, v, d, x, y),
         \A i \in 1..Len(a2) : a2[i].kind = "config",
         \/ a2 # <<>>
         \/ Head(q).cmd \in {"set", "pad"} /\ v2 = Head(q).value /\ d2 = TRUE
  PROVE  CopyWillAgree(Tail(q), a2, v2, d2, x, y)
<1> DEFINE t == Tail(q)
<1>1. /\ Len(q) \in Nat /\ 1 \in 1..Len(q) /\ Head(q) = q[1] /\ Len(t) = Len(q) - 1
      /\ \A i \in 1..Len(t) : i + 1 \in 1..Len(q) /\ t[i] = q[i + 1]
      /\ \A j \in 1..Len(q) : j = 1 \/ (j - 1 \in 1..Len(t) /\ q[j] = t[j - 1])
  <2>1. /\ Len(q) \in Nat /\ 1 \in 1..Len(q) /\ Head(q) = q[1] /\ Len(t) = Len(q) - 1
        /\ \A i \in 1..Len(t) : i + 1 \in 1..Len(q) /\ t[i] = q[i + 1]
    BY TailLemma
  <2> HIDE DEF t
  <2>2. \A j \in 1..Len(q) : j = 1 \/ j - 1 \in 1..Len(t)
    BY <2>1
  <2>3. \A j \in 1..Len(q) : j - 1 \in 1..Len(t) => q[j] = t[j - 1]
    BY <2>1
  <2> QED
    BY <2>1, <2>2, <2>3
<1> HIDE DEF t
<1>2. \A i \in 1..Len(t) : IsLastChange(t, i) => IsLastChange(q, i + 1)
  <2> SUFFICES ASSUME NEW i \in 1..Len(t), IsLastChange(t, i),
                      NEW j \in 1..Len(q), j > i + 1
               PROVE  WS!IsChange(q[i + 1]) /\ ~WS!IsChange(q[j])
    BY <1>1 DEF IsLastChange
  <2>1. j - 1 \in 1..Len(t) /\ j - 1 > i /\ q[j] = t[j - 1]
    BY <1>1
  <2> QED
    BY <1>1, <2>1 DEF IsLastChange
<1>3. \A i \in 1..Len(t) : IsLastChange(t, i) /\ t[i].cmd \in {"set", "pad"} =>
        t[i].value = x /\ y = TRUE
  BY <1>1, <1>2 DEF CopyWillAgree
<1>4. ASSUME a2 = <<>>, \A i \in 1..Len(t) : ~WS!IsChange(t[i])
      PROVE  x = v2 /\ y = d2
  <2>1. Head(q).cmd \in {"set", "pad"} /\ v2 = Head(q).value /\ d2 = TRUE
    BY <1>4
  <2>2. WS!IsChange(q[1])
    BY <1>1, <2>1 DEF WS!IsChange
  <2>3. IsLastChange(q, 1)
    BY <1>1, <1>4, <2>2 DEF IsLastChange
  <2> QED
    BY <1>1, <2>1, <2>3 DEF CopyWillAgree
<1>5. CopyWillAgree(t, a2, v2, d2, x, y)
  BY <1>3, <1>4 DEF CopyWillAgree
<1> QED
  BY <1>5 DEF t

(* More of the first message has come. *)
LEMMA SameCopyLemma ==
  ASSUME NEW q, NEW t, NEW a, NEW v, NEW d, NEW x, NEW y,
         Len(t) = Len(q),
         \A i \in 1..Len(q) : t[i].cmd = q[i].cmd /\ t[i].value = q[i].value,
         CopyWillAgree(q, a, v, d, x, y)
  PROVE  CopyWillAgree(t, a, v, d, x, y)
<1>1. \A i \in 1..Len(q) : WS!IsChange(t[i]) = WS!IsChange(q[i])
  BY DEF WS!IsChange
<1>2. \A i \in 1..Len(q) : IsLastChange(t, i) => IsLastChange(q, i)
  BY <1>1 DEF IsLastChange
<1>3. \A i \in 1..Len(t) : IsLastChange(t, i) /\ t[i].cmd \in {"set", "pad"} =>
        t[i].value = x /\ y = TRUE
  BY <1>2 DEF CopyWillAgree
<1>4. \/ a # <<>>
      \/ \E i \in 1..Len(t) : WS!IsChange(t[i]) \/ t[i].cmd = "getConfig"
      \/ x = v /\ y = d
  BY <1>1 DEF CopyWillAgree
<1> QED
  BY <1>3, <1>4 DEF CopyWillAgree

(* An answer is read, one is added, and all become old. *)
LEMMA ReadAnswerLemma ==
  ASSUME NEW a \in Seq(WebAnswer), a # <<>>, NEW o \in Nat, NEW v, NEW d,
         AnswersTell(a, o, v, d)
  PROVE  AnswersTell(Tail(a), IF o > 0 THEN o - 1 ELSE 0, v, d)
<1> DEFINE t == Tail(a)
           n == IF o > 0 THEN o - 1 ELSE 0
<1>1. /\ Len(a) \in Nat /\ Len(t) = Len(a) - 1
      /\ \A i \in 1..(Len(a) - 1) : i + 1 \in 1..Len(a) /\ t[i] = a[i + 1]
  BY TailLemma
<1> HIDE DEF t
<1>2. ASSUME NEW i \in 1..Len(t)
      PROVE  /\ i > n /\ t[i].kind = "config" => t[i].value = v /\ t[i].dirty = d
             /\ t[i].kind = "setConfigResult" => i <= n + 1
  <2>1. i \in Nat /\ i + 1 \in 1..Len(a) /\ t[i] = a[i + 1] /\ i > 0
    BY <1>1
  <2>2. i > n => i + 1 > o
    BY <2>1
  <2>3. i + 1 <= o + 1 => i <= n + 1
    BY <2>1
  <2> HIDE DEF n
  <2> QED
    BY <2>1, <2>2, <2>3 DEF AnswersTell
<1> HIDE DEF n
<1>3. AnswersTell(t, n, v, d)
  BY <1>2 DEF AnswersTell
<1> QED
  BY <1>3 DEF t, n

LEMMA AddAnswerLemma ==
  ASSUME NEW a \in Seq(WebAnswer), NEW o \in Nat, NEW v, NEW d, AnswersTell(a, o, v, d),
         NEW r \in WebAnswer,
         \/ r.kind = "config" /\ r.value = v /\ r.dirty = d
         \/ r.kind = "setConfigResult" /\ o = Len(a)
  PROVE  AnswersTell(Append(a, r), o, v, d)
<1> DEFINE t == Append(a, r)
<1>1. /\ Len(a) \in Nat /\ Len(t) = Len(a) + 1 /\ t[Len(a) + 1] = r
      /\ \A i \in 1..Len(a) : t[i] = a[i]
      /\ \A i \in 1..(Len(a) + 1) : i \in 1..Len(a) \/ i = Len(a) + 1
  BY AppendLemma
<1> HIDE DEF t
<1>2. AnswersTell(t, o, v, d)
  <2> SUFFICES ASSUME NEW i \in 1..(Len(a) + 1)
               PROVE  /\ i > o /\ t[i].kind = "config" => t[i].value = v /\ t[i].dirty = d
                      /\ t[i].kind = "setConfigResult" => i <= o + 1
    BY <1>1 DEF AnswersTell
  <2>1. CASE i \in 1..Len(a)
    BY <1>1, <2>1 DEF AnswersTell
  <2>2. CASE i = Len(a) + 1
    BY <1>1, <2>2
  <2> QED
    BY <1>1, <2>1, <2>2
<1> QED
  BY <1>2 DEF t

LEMMA OldAnswersLemma ==
  ASSUME NEW a \in Seq(WebAnswer), NEW v, NEW d
  PROVE  AnswersTell(a, Len(a), v, d)
<1>1. Len(a) \in Nat
  BY LenProperties
<1> QED
  BY <1>1 DEF AnswersTell

(* The pieces of the messages. *)
LEMMA NoPiecesLemma == ASSUME NEW m PROVE <<>> = [j \in 1..0 |-> WS!Piece(m, j)]
OBVIOUS

LEMMA SentPiecesLemma ==
  ASSUME NEW q \in Seq(WebMessage), NEW m \in WebMessage, m.come = 0, NEW text,
         PiecesAreInOrder(q, text)
  PROVE  PiecesAreInOrder(Append(q, m), text)
<1> DEFINE t == Append(q, m)
<1>1. /\ Len(q) \in Nat /\ Len(t) = Len(q) + 1 /\ t[Len(q) + 1] = m /\ t \in Seq(WebMessage)
      /\ \A i \in 1..Len(q) : t[i] = q[i]
      /\ \A i \in 1..(Len(q) + 1) : i \in 1..Len(q) \/ i = Len(q) + 1
  BY AppendLemma
<1> HIDE DEF t
<1>2. \A i \in 1..Len(t) : i > 1 => t[i].come = 0
  BY <1>1 DEF PiecesAreInOrder
<1>3. t # <<>>
  <2>1. Len(t) # 0
    BY <1>1
  <2> QED
    BY <1>1, <2>1, EmptySeq
<1>4. text = [j \in 1..t[1].come |-> WS!Piece(t[1], j)]
  <2>1. CASE q = <<>>
    <3>1. t[1] = m
      BY <1>1, <2>1, EmptySeq
    <3>2. text = <<>>
      BY <2>1 DEF PiecesAreInOrder
    <3> QED
      BY <3>1, <3>2, NoPiecesLemma
  <2>2. CASE q # <<>>
    <3>1. 1 \in 1..Len(q)
      BY <2>2, TailLemma
    <3> QED
      BY <1>1, <2>2, <3>1 DEF PiecesAreInOrder
  <2> QED
    BY <2>1, <2>2
<1>5. PiecesAreInOrder(t, text)
  BY <1>2, <1>3, <1>4 DEF PiecesAreInOrder
<1> QED
  BY <1>5 DEF t

LEMMA HandledPiecesLemma ==
  ASSUME NEW q \in Seq(WebMessage), q # <<>>, NEW text, PiecesAreInOrder(q, text)
  PROVE  PiecesAreInOrder(Tail(q), <<>>)
<1> DEFINE t == Tail(q)
<1>1. /\ Len(q) \in Nat /\ t \in Seq(WebMessage) /\ Len(t) = Len(q) - 1
      /\ \A i \in 1..(Len(q) - 1) : i + 1 \in 1..Len(q) /\ t[i] = q[i + 1]
  BY TailLemma
<1> HIDE DEF t
<1>2. \A i \in 1..Len(t) : t[i].come = 0
  BY <1>1 DEF PiecesAreInOrder
<1>3. t # <<>> => t[1].come = 0
  <2>1. t # <<>> => 1 \in 1..Len(t)
    BY <1>1, TailLemma
  <2> QED
    BY <1>2, <2>1
<1>4. t # <<>> => <<>> = [j \in 1..t[1].come |-> WS!Piece(t[1], j)]
  BY <1>3, NoPiecesLemma
<1>5. PiecesAreInOrder(t, <<>>)
  BY <1>2, <1>4 DEF PiecesAreInOrder
<1> QED
  BY <1>5 DEF t

(* What has come of a message with its next piece. *)
LEMMA TextLemma ==
  ASSUME NEW m \in WebMessage, NEW text, text = [j \in 1..m.come |-> WS!Piece(m, j)],
         NEW i, i = m.come + 1
  PROVE  /\ i \in Nat \ {0}
         /\ (IF i = 1 THEN <<WS!Piece(m, i)>> ELSE Append(text, WS!Piece(m, i)))
              = [j \in 1..i |-> WS!Piece(m, j)]
         /\ [j \in 1..i |-> WS!Piece(m, j)] \in Seq(WebPiece)
<1>1. m.come \in Nat /\ m.cmd \in WebCommands /\ m.value \in WebConfigs
  BY DEF WebMessage
<1>2. i \in Nat \ {0}
  BY <1>1
<1>3. \A j \in 1..i : WS!Piece(m, j) \in WebPiece
  BY <1>1, <1>2 DEF WS!Piece, WebPiece
<1> DEFINE P(j) == WS!Piece(m, j)
<1> HIDE DEF P
<1>4. [j \in 1..i |-> P(j)] \in Seq(WebPiece)
  BY <1>2, <1>3 DEF P
<1>5. \A j \in 1..i : P(j) \in WebPiece
  BY <1>3 DEF P
<1>6. /\ text \in Seq(WebPiece) /\ Len(text) = m.come
      /\ \A j \in 1..m.come : text[j] = P(j)
  <2>1. text = [j \in 1..m.come |-> P(j)]
    BY DEF P
  <2>2. \A j \in 1..m.come : P(j) \in WebPiece
    BY <1>1, <1>5
  <2> QED
    BY <1>1, <2>1, <2>2
<1> DEFINE whole == [j \in 1..i |-> P(j)]
           now == IF i = 1 THEN <<P(i)>> ELSE Append(text, P(i))
<1>7. whole \in Seq(WebPiece) /\ Len(whole) = i /\ \A j \in 1..i : whole[j] = P(j)
  BY <1>2, <1>4
<1>8. now \in Seq(WebPiece) /\ Len(now) = i /\ \A j \in 1..i : now[j] = P(j)
  <2>1. P(i) \in WebPiece
    BY <1>2, <1>5
  <2>2. CASE i = 1
    BY <2>1, <2>2
  <2>3. CASE i # 1
    <3>1. now = Append(text, P(i))
      BY <2>3
    <3> HIDE DEF now
    <3>2. \A j \in 1..i : j \in 1..m.come \/ j = m.come + 1
      BY <1>1
    <3> QED
      BY <1>1, <1>6, <2>1, <3>1, <3>2, AppendLemma
  <2> QED
    BY <2>2, <2>3
<1> HIDE DEF whole, now
<1>9. now = whole
  BY <1>7, <1>8, SeqEqual
<1> QED
  BY <1>2, <1>4, <1>9 DEF P, whole, now

WithCome(q, i) == [q EXCEPT ![1].come = i]
FirstPieces(m, i) == [j \in 1..i |-> WS!Piece(m, j)]

LEMMA PiecePiecesLemma ==
  ASSUME NEW q \in Seq(WebMessage), q # <<>>, NEW text, PiecesAreInOrder(q, text),
         NEW i, i = q[1].come + 1
  PROVE  /\ WithCome(q, i) \in Seq(WebMessage)
         /\ Len(WithCome(q, i)) = Len(q)
         /\ \A n \in 1..Len(q) : /\ WithCome(q, i)[n].cmd = q[n].cmd
                                 /\ WithCome(q, i)[n].value = q[n].value
         /\ PiecesAreInOrder(WithCome(q, i), FirstPieces(q[1], i))
<1> DEFINE c == [q[1] EXCEPT !.come = i]
           t == [q EXCEPT ![1] = c]
<1>1. Len(q) \in Nat /\ 1 \in 1..Len(q) /\ q[1] \in WebMessage /\ q \in [1..Len(q) -> WebMessage]
  BY TailLemma, LenProperties
<1>2. /\ c \in WebMessage /\ c.come = i /\ c.cmd = q[1].cmd /\ c.value = q[1].value
  <2>1. i \in Nat
    <3>1. q[1].come \in Nat
      BY <1>1 DEF WebMessage
    <3> QED
      BY <3>1
  <2> QED
    BY <1>1, <2>1 DEF WebMessage
<1>3. WithCome(q, i) = t
  BY DEF WithCome
<1> HIDE DEF c
<1>4. /\ t \in Seq(WebMessage) /\ Len(t) = Len(q) /\ t[1] = c
      /\ \A n \in 1..Len(q) : n # 1 => t[n] = q[n]
  BY <1>1, <1>2
<1> HIDE DEF t
<1>5. \A n \in 1..Len(q) : t[n].cmd = q[n].cmd /\ t[n].value = q[n].value
  BY <1>1, <1>2, <1>4
<1>6. \A j : WS!Piece(t[1], j) = WS!Piece(q[1], j)
  BY <1>2, <1>4 DEF WS!Piece
<1>7. t # <<>>
  BY <1>1, <1>4
<1>8. PiecesAreInOrder(t, FirstPieces(q[1], i))
  <2>1. \A n \in 1..Len(t) : n > 1 => t[n].come = 0
    BY <1>1, <1>4 DEF PiecesAreInOrder
  <2>2. [j \in 1..i |-> WS!Piece(q[1], j)] = [j \in 1..t[1].come |-> WS!Piece(t[1], j)]
    BY <1>2, <1>4, <1>6
  <2> QED
    BY <1>7, <2>1, <2>2 DEF PiecesAreInOrder, FirstPieces
<1> QED
  BY <1>3, <1>4, <1>5, <1>8

LEMMA SendLemma ==
  ASSUME WebTypes, NEW s \in WS!Sockets \cup {WS!NoSocket}, NEW m \in WebMessage,
         WS!SendOn(s, m)
  PROVE  /\ wsSent' \in [WS!Sockets -> Seq(WebMessage)]
         /\ \A t \in WS!Sockets : t # s => wsSent'[t] = wsSent[t]
         /\ s \in WS!Sockets =>
              wsSent'[s] = IF sock[s] = "open" THEN Append(wsSent[s], m) ELSE wsSent[s]
<1>1. wsSent \in [WS!Sockets -> Seq(WebMessage)]
  BY DEF WebTypes
<1>2. CASE s \in WS!Sockets /\ sock[s] = "open"
  <2>1. wsSent' = [wsSent EXCEPT ![s] = Append(wsSent[s], m)]
    BY <1>2 DEF WS!SendOn
  <2>2. Append(wsSent[s], m) \in Seq(WebMessage)
    BY <1>1, <1>2, AppendLemma
  <2> QED
    BY <1>1, <1>2, <2>1, <2>2
<1>3. CASE ~(s \in WS!Sockets /\ sock[s] = "open")
  BY <1>1, <1>3 DEF WS!SendOn
<1> QED
  BY <1>2, <1>3

LEMMA MessageLemma ==
  ASSUME NEW cmd \in WebCommands, NEW v \in WebConfigs,
         NEW cut \in {r.cut : r \in Changes} \cup {<< 1 >>}
  PROVE  /\ WS!Message(cmd, v, cut) \in WebMessage /\ WS!Message(cmd, v, cut).come = 0
         /\ WS!Message(cmd, v, cut).cmd = cmd /\ WS!Message(cmd, v, cut).value = v
         /\ WS!IsChange(WS!Message(cmd, v, cut)) <=> cmd \in {"set", "pad", "saveConfig", "setConfig"}
BY DEF WS!Message, WebMessage, WS!IsChange

(* A page sends something. *)
LEMMA SendKeepsWebInv ==
  ASSUME WebInv, NEW p \in Pages, NEW m \in WebMessage, m.come = 0,
         WS!SendOn(websock[p], m),
         UNCHANGED <<value, isConfigDirty, wsFile, sock, wsAnswers, pending, websock, old>>,
         wsShown' \in [Pages -> WebConfigs \cup {"success", "failed"}],
         shownDirty' \in [Pages -> BOOLEAN],
         \A o \in Pages : o # p => wsShown'[o] = wsShown[o] /\ shownDirty'[o] = shownDirty[o],
         \/ /\ WS!IsChange(m)
            /\ m.cmd \in {"set", "pad"} => m.value = wsShown'[p] /\ shownDirty'[p] = TRUE
         \/ ~WS!IsChange(m) /\ wsShown'[p] = wsShown[p] /\ shownDirty'[p] = shownDirty[p],
         \/ stale' = WS!StaleIfLost(p)
         \/ stale' = stale /\ wsShown'[p] = wsShown[p] /\ shownDirty'[p] = shownDirty[p]
  PROVE  WebInv'
<1> DEFINE s == websock[p]
<1>1. WebTypes /\ s \in WS!Sockets \cup {WS!NoSocket}
  BY DEF WebInv, WebTypes
<1>2. /\ wsSent' \in [WS!Sockets -> Seq(WebMessage)]
      /\ \A t \in WS!Sockets : t # s => wsSent'[t] = wsSent[t]
      /\ s \in WS!Sockets =>
           wsSent'[s] = IF sock[s] = "open" THEN Append(wsSent[s], m) ELSE wsSent[s]
  BY <1>1, SendLemma
<1>3. WebTypes'
  BY <1>1, <1>2 DEF WebTypes
<1>4. SocketsBeginEmpty'
  BY <1>1, <1>2 DEF WebInv, SocketsBeginEmpty
<1>5. UsedSocketsAreNotClosing'
  BY DEF WebInv, UsedSocketsAreNotClosing
<1>6. MessagesAreInPieces'
  <2> SUFFICES ASSUME NEW t \in WS!Sockets PROVE PiecesAreInOrder(wsSent'[t], pending[t])
    BY DEF MessagesAreInPieces
  <2>1. PiecesAreInOrder(wsSent[t], pending[t]) /\ wsSent[t] \in Seq(WebMessage)
    BY <1>1 DEF WebInv, MessagesAreInPieces, WebTypes
  <2>2. PiecesAreInOrder(Append(wsSent[t], m), pending[t])
    BY <2>1, SentPiecesLemma
  <2> QED
    BY <1>2, <2>1, <2>2
<1>7. AnswersTellTheConfig'
  BY DEF WebInv, AnswersTellTheConfig
<1>8. CopiesWillAgree'
  <2> SUFFICES ASSUME NEW o \in Pages, o \notin stale', websock[o] # WS!NoSocket,
                      sock[websock[o]] \in {"open", "broken"}
               PROVE  CopyWillAgree(wsSent'[websock[o]], wsAnswers[websock[o]], value,
                                    isConfigDirty, wsShown'[o], shownDirty'[o])
    BY DEF CopiesWillAgree
  <2>1. /\ websock[o] \in WS!Sockets /\ WS!PageOf(websock[o]) = o
        /\ wsSent[websock[o]] \in Seq(WebMessage)
    BY <1>1 DEF WebTypes
  <2>2. o \notin stale
    BY DEF WS!StaleIfLost
  <2>3. CopyWillAgree(wsSent[websock[o]], wsAnswers[websock[o]], value, isConfigDirty,
                      wsShown[o], shownDirty[o])
    BY <2>2 DEF WebInv, CopiesWillAgree
  <2>4. CASE o # p
    <3>1. websock[o] # s
      BY <1>1, <2>1, <2>4, SocketLemma DEF WebTypes
    <3> QED
      BY <1>2, <2>1, <2>3, <2>4, <3>1
  <2>5. CASE o = p /\ sock[s] = "open"
    <3>1. /\ wsSent[s] \in Seq(WebMessage) /\ wsSent'[s] = Append(wsSent[s], m)
          /\ CopyWillAgree(wsSent[s], wsAnswers[s], value, isConfigDirty, wsShown[p],
                           shownDirty[p])
      BY <1>2, <2>1, <2>3, <2>5
    <3> HIDE DEF s
    <3>2. CopyWillAgree(Append(wsSent[s], m), wsAnswers[s], value, isConfigDirty, wsShown'[p],
                        shownDirty'[p])
      BY <3>1, SentCopyLemma
    <3> QED
      BY <2>5, <3>1, <3>2 DEF s
  <2>6. CASE o = p /\ sock[s] # "open"
    <3>1. wsShown'[p] = wsShown[p] /\ shownDirty'[p] = shownDirty[p]
      BY <2>1, <2>6 DEF WS!StaleIfLost
    <3> QED
      BY <1>2, <2>1, <2>3, <2>6, <3>1
  <2> QED
    BY <2>4, <2>5, <2>6
<1> QED
  BY <1>3, <1>4, <1>5, <1>6, <1>7, <1>8 DEF WebInv

LEMMA PageSendsLemma ==
  ASSUME WS!WebAssumption, WebInv, NEW p \in Pages,
         WS!Change(p) \/ WS!SaveOrRestore(p) \/ WS!Upload(p)
  PROVE  WebInv'
<1>1. WebTypes /\ WS!NoConfig \in WebConfigs
  BY DEF WebInv, WebConfigs
<1>2. ASSUME NEW r \in Changes
      PROVE  /\ r.cmd \in WebCommands /\ r.cmd \in {"set", "pad", "setConfig"}
             /\ r.value \in WebConfigs
             /\ r.cut \in {q.cut : q \in Changes} \cup {<<1>>}
  BY DEF WS!WebAssumption, WebCommands, WebConfigs
<1>3. CASE WS!Change(p)
  <2>1. PICK r \in Changes : /\ r.cmd # "setConfig"
                             /\ wsShown' = [wsShown EXCEPT ![p] = r.value]
                             /\ WS!SendOn(websock[p], WS!Message(r.cmd, r.value, r.cut))
    BY <1>3 DEF WS!Change
  <2> DEFINE m == WS!Message(r.cmd, r.value, r.cut)
  <2>2. /\ m \in WebMessage /\ m.come = 0 /\ m.cmd \in {"set", "pad"} /\ m.value = r.value
        /\ WS!IsChange(m)
    BY <1>2, <2>1, MessageLemma
  <2> HIDE DEF m
  <2>3. /\ shownDirty' = [shownDirty EXCEPT ![p] = TRUE]
        /\ stale' = WS!StaleIfLost(p)
        /\ UNCHANGED <<value, isConfigDirty, wsFile, sock, wsAnswers, pending, websock, old>>
    BY <1>3 DEF WS!Change, WS!firmware
  <2>4. /\ wsShown' \in [Pages -> WebConfigs \cup {"success", "failed"}]
        /\ shownDirty' \in [Pages -> BOOLEAN]
        /\ wsShown'[p] = r.value /\ shownDirty'[p] = TRUE
        /\ \A o \in Pages : o # p => wsShown'[o] = wsShown[o] /\ shownDirty'[o] = shownDirty[o]
    BY <1>1, <1>2, <2>1, <2>3 DEF WebTypes
  <2> QED
    BY <2>1, <2>2, <2>3, <2>4, SendKeepsWebInv DEF m
<1>4. CASE WS!SaveOrRestore(p)
  <2>1. PICK c \in {"saveConfig", "restoreConfig"} :
          WS!SendOn(websock[p], WS!Message(c, WS!NoConfig, <<1>>))
    BY <1>4 DEF WS!SaveOrRestore
  <2> DEFINE m == WS!Message(c, WS!NoConfig, <<1>>)
  <2>2. /\ m \in WebMessage /\ m.come = 0 /\ m.cmd \notin {"set", "pad"}
    <3>1. c \in WebCommands
      BY DEF WebCommands
    <3> QED
      BY <1>1, <3>1, MessageLemma
  <2> HIDE DEF m
  <2>3. UNCHANGED <<value, isConfigDirty, wsFile, sock, wsAnswers, pending, websock, old,
                    wsShown, shownDirty, stale>>
    BY <1>4 DEF WS!SaveOrRestore, WS!firmware, WS!page, WS!history
  <2>4. wsShown \in [Pages -> WebConfigs \cup {"success", "failed"}]
        /\ shownDirty \in [Pages -> BOOLEAN]
    BY <1>1 DEF WebTypes
  <2> QED
    BY <2>1, <2>2, <2>3, <2>4, SendKeepsWebInv DEF m
<1>5. CASE WS!Upload(p)
  <2>1. PICK r \in Changes : /\ r.cmd = "setConfig"
                             /\ WS!SendOn(websock[p], WS!Message(r.cmd, r.value, r.cut))
    BY <1>5 DEF WS!Upload
  <2> DEFINE m == WS!Message(r.cmd, r.value, r.cut)
  <2>2. /\ m \in WebMessage /\ m.come = 0 /\ m.cmd \notin {"set", "pad"}
        /\ WS!IsChange(m)
    BY <1>2, <2>1, MessageLemma
  <2> HIDE DEF m
  <2>3. /\ shownDirty' = [shownDirty EXCEPT ![p] = TRUE]
        /\ stale' = WS!StaleIfLost(p)
        /\ UNCHANGED <<value, isConfigDirty, wsFile, sock, wsAnswers, pending, websock, old,
                       wsShown>>
    BY <1>5 DEF WS!Upload, WS!firmware
  <2>4. /\ wsShown \in [Pages -> WebConfigs \cup {"success", "failed"}]
        /\ shownDirty' \in [Pages -> BOOLEAN]
        /\ \A o \in Pages : o # p => shownDirty'[o] = shownDirty[o]
    BY <1>1, <2>3 DEF WebTypes
  <2> QED
    BY <2>1, <2>2, <2>3, <2>4, SendKeepsWebInv DEF m
<1> QED
  BY <1>3, <1>4, <1>5

(* A page connects and disconnects. *)
LEMMA PageConnectsLemma ==
  ASSUME WebInv, NEW p \in Pages,
         WS!UploadTimeout(p) \/ WS!Connect(p) \/ WS!Disconnect(p)
  PROVE  WebInv'
<1>1. WebTypes
  BY DEF WebInv
<1>2. UNCHANGED <<value, isConfigDirty, wsFile, wsSent, wsAnswers, pending, old, wsShown,
                  shownDirty, stale>>
  BY DEF WS!UploadTimeout, WS!Connect, WS!Disconnect, WS!firmware, WS!network, WS!history
<1>3. MessagesAreInPieces' /\ AnswersTellTheConfig'
  BY <1>2 DEF WebInv, MessagesAreInPieces, AnswersTellTheConfig
<1>4. CASE WS!UploadTimeout(p)
  <2>1. UNCHANGED <<sock, websock>>
    BY <1>4 DEF WS!UploadTimeout, WS!network
  <2> QED
    BY <1>2, <1>3, <2>1 DEF WebInv, WebTypes, SocketsBeginEmpty, UsedSocketsAreNotClosing,
                            CopiesWillAgree
<1>5. CASE WS!Connect(p)
  <2>1. PICK s \in WS!Sockets : /\ WS!PageOf(s) = p /\ sock[s] = "free"
                                /\ sock' = [sock EXCEPT ![s] = "connecting"]
                                /\ websock' = [websock EXCEPT ![p] = s]
    BY <1>5 DEF WS!Connect, WS!ConnectInternal
  <2>2. /\ sock' \in [WS!Sockets -> {"free", "connecting", "open", "closing", "broken"}]
        /\ sock'[s] = "connecting" /\ \A t \in WS!Sockets : t # s => sock'[t] = sock[t]
        /\ websock' \in [Pages -> WS!Sockets \cup {WS!NoSocket}]
        /\ websock'[p] = s /\ \A o \in Pages : o # p => websock'[o] = websock[o]
    BY <1>1, <2>1 DEF WebTypes
  <2>3. \A o \in Pages : o # p /\ websock[o] # WS!NoSocket =>
          websock[o] \in WS!Sockets /\ websock[o] # s
    BY <1>1, <2>1 DEF WebTypes
  <2>4. WebTypes'
    BY <1>1, <1>2, <2>1, <2>2 DEF WebTypes
  <2>5. SocketsBeginEmpty'
    BY <1>2, <2>1, <2>2 DEF WebInv, SocketsBeginEmpty
  <2>6. UsedSocketsAreNotClosing'
    BY <2>2, <2>3 DEF WebInv, UsedSocketsAreNotClosing
  <2>7. CopiesWillAgree'
    BY <1>2, <2>2, <2>3 DEF WebInv, CopiesWillAgree
  <2> QED
    BY <1>3, <2>4, <2>5, <2>6, <2>7 DEF WebInv
<1>6. CASE WS!Disconnect(p)
  <2> DEFINE s == websock[p]
  <2>1. /\ s # WS!NoSocket /\ websock' = [websock EXCEPT ![p] = WS!NoSocket]
        /\ sock' = [sock EXCEPT ![s] = IF sock[s] = "open" THEN "closing"
                                       ELSE IF sock[s] = "free" THEN "free" ELSE "broken"]
    BY <1>6 DEF WS!Disconnect
  <2>2. s \in WS!Sockets /\ WS!PageOf(s) = p
    BY <1>1, <2>1 DEF WebTypes
  <2>3. /\ sock' \in [WS!Sockets -> {"free", "connecting", "open", "closing", "broken"}]
        /\ sock'[s] \in {"free", "connecting"} => sock'[s] = sock[s]
        /\ \A t \in WS!Sockets : t # s => sock'[t] = sock[t]
        /\ websock' \in [Pages -> WS!Sockets \cup {WS!NoSocket}]
        /\ websock'[p] = WS!NoSocket /\ \A o \in Pages : o # p => websock'[o] = websock[o]
    BY <1>1, <2>1, <2>2 DEF WebTypes
  <2>4. \A o \in Pages : o # p /\ websock[o] # WS!NoSocket =>
          websock[o] \in WS!Sockets /\ websock[o] # s
    BY <1>1, <2>2 DEF WebTypes
  <2> HIDE DEF s
  <2>5. WebTypes'
    BY <1>1, <1>2, <2>2, <2>3 DEF WebTypes
  <2>6. SocketsBeginEmpty'
    BY <1>2, <2>2, <2>3 DEF WebInv, SocketsBeginEmpty
  <2>7. UsedSocketsAreNotClosing'
    BY <2>3, <2>4 DEF WebInv, UsedSocketsAreNotClosing
  <2>8. CopiesWillAgree'
    BY <1>2, <2>3, <2>4 DEF WebInv, CopiesWillAgree
  <2> QED
    BY <1>3, <2>5, <2>6, <2>7, <2>8 DEF WebInv
<1> QED
  BY <1>4, <1>5, <1>6

(* A socket opens, closes, breaks. *)
LEMMA SocketChangesLemma ==
  ASSUME WS!WebAssumption, WebInv, NEW s \in WS!Sockets,
         WS!OnOpen(s) \/ WS!OnClose(s) \/ WS!Break(s)
  PROVE  WebInv'
<1>1. WebTypes /\ WS!NoConfig \in WebConfigs
  BY DEF WebInv, WebConfigs
<1>2. UNCHANGED <<value, isConfigDirty, wsFile, websock, wsShown, shownDirty>>
  BY DEF WS!OnOpen, WS!OnClose, WS!Break, WS!firmware, WS!page
<1>3. \A p \in Pages : websock[p] # WS!NoSocket => websock[p] \in WS!Sockets
  BY <1>1 DEF WebTypes
<1>4. CASE WS!OnOpen(s)
  <2> DEFINE m == WS!Message("getConfig", WS!NoConfig, <<1>>)
  <2>1. m \in WebMessage /\ m.cmd = "getConfig" /\ ~WS!IsChange(m) /\ m.come = 0
    <3>1. "getConfig" \in WebCommands
      BY DEF WebCommands
    <3> QED
      BY <1>1, <3>1, MessageLemma
  <2>2. /\ sock[s] = "connecting" /\ sock' = [sock EXCEPT ![s] = "open"]
        /\ UNCHANGED <<wsAnswers, pending, stale, old>>
        /\ \/ WS!IsUsed(s) /\ wsSent' = [wsSent EXCEPT ![s] = <<m>>]
           \/ ~WS!IsUsed(s) /\ wsSent' = wsSent
    BY <1>4 DEF WS!OnOpen, WS!history
  <2>3. wsSent[s] = <<>> /\ wsAnswers[s] = <<>> /\ pending[s] = <<>>
    BY <2>2 DEF WebInv, SocketsBeginEmpty
  <2> HIDE DEF m
  <2>4. /\ <<m>> \in Seq(WebMessage) /\ Len(<<m>>) = 1 /\ <<m>>[1] = m
    BY <2>1
  <2>5. /\ sock' \in [WS!Sockets -> {"free", "connecting", "open", "closing", "broken"}]
        /\ sock'[s] = "open" /\ \A t \in WS!Sockets : t # s => sock'[t] = sock[t]
        /\ wsSent' \in [WS!Sockets -> Seq(WebMessage)]
        /\ \A t \in WS!Sockets : t # s => wsSent'[t] = wsSent[t]
        /\ wsSent'[s] \in {<<m>>, <<>>}
        /\ WS!IsUsed(s) => wsSent'[s] = <<m>>
    BY <1>1, <2>2, <2>3, <2>4 DEF WebTypes
  <2>6. WebTypes'
    BY <1>1, <1>2, <2>2, <2>5 DEF WebTypes
  <2>7. SocketsBeginEmpty'
    BY <2>2, <2>5 DEF WebInv, SocketsBeginEmpty
  <2>8. UsedSocketsAreNotClosing'
    BY <1>2, <1>3, <2>5 DEF WebInv, UsedSocketsAreNotClosing
  <2>9. MessagesAreInPieces'
    <3>1. PiecesAreInOrder(<<>>, <<>>)
      BY <2>3 DEF WebInv, MessagesAreInPieces
    <3>2. PiecesAreInOrder(<<m>>, <<>>)
      <4>1. <<>> = [j \in 1..<<m>>[1].come |-> WS!Piece(<<m>>[1], j)]
        BY <2>1, <2>4, NoPiecesLemma
      <4>2. <<m>> # <<>> /\ \A i \in 1..Len(<<m>>) : ~(i > 1)
        BY <2>4
      <4> QED
        BY <4>1, <4>2 DEF PiecesAreInOrder
    <3> QED
      BY <2>2, <2>3, <2>5, <3>1, <3>2 DEF WebInv, MessagesAreInPieces
  <2>10. AnswersTellTheConfig'
    BY <1>2, <2>2 DEF WebInv, AnswersTellTheConfig
  <2>11. CopiesWillAgree'
    <3> SUFFICES ASSUME NEW p \in Pages, p \notin stale', websock[p] # WS!NoSocket,
                        sock'[websock[p]] \in {"open", "broken"}
                 PROVE  CopyWillAgree(wsSent'[websock[p]], wsAnswers[websock[p]], value,
                                      isConfigDirty, wsShown[p], shownDirty[p])
      BY <1>2, <2>2 DEF CopiesWillAgree
    <3>1. CASE websock[p] = s
      <4>1. wsSent'[s] = <<m>>
        BY <1>1, <2>5, <3>1, SocketLemma DEF WS!IsUsed, WebTypes
      <4>2. \A v, d, x, y : CopyWillAgree(<<m>>, <<>>, v, d, x, y)
        <5>1. Len(<<>>) = 0 /\ 1 \in 1..Len(<<m>>)
          BY <2>4
        <5>2. \A i \in 1..Len(<<m>>) : ~WS!IsChange(<<m>>[i])
          BY <2>1, <2>4
        <5> QED
          BY <2>1, <2>4, <5>1, <5>2 DEF CopyWillAgree, IsLastChange
      <4> QED
        BY <2>3, <3>1, <4>1, <4>2
    <3>2. CASE websock[p] # s
      BY <1>3, <2>2, <2>5, <3>2 DEF WebInv, CopiesWillAgree
    <3> QED
      BY <3>1, <3>2
  <2> QED
    BY <2>6, <2>7, <2>8, <2>9, <2>10, <2>11 DEF WebInv
<1>5. ASSUME NEW end \in {"free", "broken"},
             sock' = [sock EXCEPT ![s] = end], wsSent' = [wsSent EXCEPT ![s] = <<>>],
             pending' = [pending EXCEPT ![s] = <<>>],
             \/ UNCHANGED <<wsAnswers, old>> /\ end = "broken" /\ WS!PageOf(s) \in stale'
             \/ /\ wsAnswers' = [wsAnswers EXCEPT ![s] = <<>>]
                /\ old' = [old EXCEPT ![s] = 0] /\ end = "free",
             stale \subseteq stale'
      PROVE  WebInv'
  <2>1. /\ sock' \in [WS!Sockets -> {"free", "connecting", "open", "closing", "broken"}]
        /\ sock'[s] = end /\ \A t \in WS!Sockets : t # s => sock'[t] = sock[t]
        /\ wsSent' \in [WS!Sockets -> Seq(WebMessage)] /\ wsSent'[s] = <<>>
        /\ \A t \in WS!Sockets : t # s => wsSent'[t] = wsSent[t]
        /\ pending' \in [WS!Sockets -> Seq(WebPiece)] /\ pending'[s] = <<>>
        /\ \A t \in WS!Sockets : t # s => pending'[t] = pending[t]
    BY <1>1, <1>5 DEF WebTypes
  <2>2. /\ wsAnswers' \in [WS!Sockets -> Seq(WebAnswer)] /\ old' \in [WS!Sockets -> Nat]
        /\ \A t \in WS!Sockets : t # s => wsAnswers'[t] = wsAnswers[t] /\ old'[t] = old[t]
        /\ \/ wsAnswers'[s] = wsAnswers[s] /\ old'[s] = old[s]
           \/ wsAnswers'[s] = <<>>
        /\ end = "free" => wsAnswers'[s] = <<>>
    <3>1. /\ wsAnswers \in [WS!Sockets -> Seq(WebAnswer)] /\ old \in [WS!Sockets -> Nat]
          /\ <<>> \in Seq(WebAnswer) /\ 0 \in Nat
      BY <1>1 DEF WebTypes
    <3>2. CASE UNCHANGED <<wsAnswers, old>> /\ end = "broken"
      BY <3>1, <3>2
    <3>3. CASE wsAnswers' = [wsAnswers EXCEPT ![s] = <<>>] /\ old' = [old EXCEPT ![s] = 0]
      BY <3>1, <3>3
    <3> QED
      BY <1>5, <3>2, <3>3
  <2>3. WebTypes'
    BY <1>1, <1>2, <2>1, <2>2 DEF WebTypes
  <2>4. SocketsBeginEmpty'
    BY <2>1, <2>2 DEF WebInv, SocketsBeginEmpty
  <2>5. UsedSocketsAreNotClosing'
    BY <1>2, <1>3, <2>1 DEF WebInv, UsedSocketsAreNotClosing
  <2>6. MessagesAreInPieces'
    <3>1. PiecesAreInOrder(<<>>, <<>>)
      BY DEF PiecesAreInOrder
    <3> QED
      BY <2>1, <3>1 DEF WebInv, MessagesAreInPieces
  <2>7. AnswersTellTheConfig'
    <3>1. AnswersTell(<<>>, old'[s], value, isConfigDirty)
      BY DEF AnswersTell
    <3> QED
      BY <1>2, <2>2, <3>1 DEF WebInv, AnswersTellTheConfig
  <2>8. CopiesWillAgree'
    <3> SUFFICES ASSUME NEW p \in Pages, p \notin stale', websock[p] # WS!NoSocket,
                        sock'[websock[p]] \in {"open", "broken"}
                 PROVE  CopyWillAgree(wsSent'[websock[p]], wsAnswers'[websock[p]], value,
                                      isConfigDirty, wsShown[p], shownDirty[p])
      BY <1>2 DEF CopiesWillAgree
    <3>1. websock[p] # s
      BY <1>1, <1>5, <2>1 DEF WebTypes
    <3> QED
      BY <1>3, <1>5, <2>1, <2>2, <3>1 DEF WebInv, CopiesWillAgree
  <2> QED
    BY <2>3, <2>4, <2>5, <2>6, <2>7, <2>8 DEF WebInv
<1>6. CASE WS!OnClose(s)
  BY <1>5, <1>6 DEF WS!OnClose
<1>7. CASE WS!Break(s)
  BY <1>5, <1>7 DEF WS!Break
<1> QED
  BY <1>4, <1>6, <1>7

(* The firmware restarts. *)
LEMMA RestartLemma ==
  ASSUME WebInv, WS!Restart
  PROVE  WebInv'
<1>1. WebTypes
  BY DEF WebInv
<1>2. /\ value' = wsFile /\ isConfigDirty' = FALSE /\ stale' = stale \cup Pages
      /\ UNCHANGED <<wsFile, wsAnswers, websock, wsShown, shownDirty>>
      /\ old' = [s \in WS!Sockets |-> Len(wsAnswers[s])]
      /\ sock' = [s \in WS!Sockets |-> IF sock[s] = "free" THEN "free" ELSE "broken"]
      /\ wsSent' = [s \in WS!Sockets |-> <<>>] /\ pending' = [s \in WS!Sockets |-> <<>>]
  BY DEF WS!Restart, WS!Outdate, WS!page
<1>3. \A s \in WS!Sockets : wsAnswers[s] \in Seq(WebAnswer) /\ Len(wsAnswers[s]) \in Nat
  BY <1>1, LenProperties DEF WebTypes
<1>4. WebTypes'
  <2>1. wsSent' \in [WS!Sockets -> Seq(WebMessage)] /\ pending' \in [WS!Sockets -> Seq(WebPiece)]
    <3>1. <<>> \in Seq(WebMessage) /\ <<>> \in Seq(WebPiece)
      OBVIOUS
    <3> QED
      BY <1>2, <3>1
  <2>2. sock' \in [WS!Sockets -> {"free", "connecting", "open", "closing", "broken"}]
    BY <1>2
  <2>3. old' \in [WS!Sockets -> Nat]
    BY <1>2, <1>3
  <2> QED
    BY <1>1, <1>2, <2>1, <2>2, <2>3 DEF WebTypes
<1>5. SocketsBeginEmpty'
  BY <1>1, <1>2 DEF WebInv, SocketsBeginEmpty
<1>6. UsedSocketsAreNotClosing'
  BY <1>1, <1>2 DEF WebTypes, UsedSocketsAreNotClosing
<1>7. MessagesAreInPieces'
  <2>1. PiecesAreInOrder(<<>>, <<>>)
    BY DEF PiecesAreInOrder
  <2> QED
    BY <1>2, <2>1 DEF MessagesAreInPieces
<1>8. AnswersTellTheConfig'
  BY <1>2, <1>3, OldAnswersLemma DEF AnswersTellTheConfig
<1>9. CopiesWillAgree'
  BY <1>2 DEF CopiesWillAgree
<1> QED
  BY <1>4, <1>5, <1>6, <1>7, <1>8, <1>9 DEF WebInv

(* A page hears an answer. *)
LEMMA OnMessageLemma ==
  ASSUME WS!WebAssumption, WebInv, NEW s \in WS!Sockets, WS!OnMessage(s)
  PROVE  WebInv'
<1> DEFINE m == Head(wsAnswers[s])
           p == WS!PageOf(s)
           g == WS!Message("getConfig", WS!NoConfig, <<1>>)
           n == IF old[s] > 0 THEN old[s] - 1 ELSE 0
           overtaken == old[s] > 0 \/ \E i \in DOMAIN wsSent[s] : WS!IsChange(wsSent[s][i])
           Config == /\ WS!Listens(s) /\ m.kind = "config"
                     /\ wsShown' = [wsShown EXCEPT ![p] = m.value]
                     /\ shownDirty' = [shownDirty EXCEPT ![p] = m.dirty]
                     /\ stale' = IF overtaken THEN stale \cup {p} ELSE stale \ {p}
                     /\ wsSent' = wsSent
           Result == /\ WS!Listens(s) /\ m.kind = "setConfigResult"
                     /\ wsSent' = wsSent \/ WS!SendOn(s, g)
                     /\ UNCHANGED <<wsShown, shownDirty, stale>>
           Ignored == ~WS!Listens(s) /\ UNCHANGED <<wsSent, wsShown, shownDirty, stale>>
<1>1. WebTypes /\ p \in Pages
  BY SocketLemma DEF WebInv
<1>2. /\ wsAnswers[s] # <<>> /\ sock[s] # "free"
      /\ wsAnswers' = [wsAnswers EXCEPT ![s] = Tail(wsAnswers[s])]
      /\ old' = [old EXCEPT ![s] = n]
      /\ UNCHANGED <<value, isConfigDirty, wsFile, sock, pending, websock>>
  BY DEF WS!OnMessage, WS!firmware
<1>3. /\ wsAnswers[s] \in Seq(WebAnswer) /\ old[s] \in Nat
      /\ Len(wsAnswers[s]) \in Nat /\ 1 \in 1..Len(wsAnswers[s])
      /\ m = wsAnswers[s][1] /\ m \in WebAnswer
      /\ Tail(wsAnswers[s]) \in Seq(WebAnswer)
      /\ Len(Tail(wsAnswers[s])) = Len(wsAnswers[s]) - 1
      /\ \A i \in 1..(Len(wsAnswers[s]) - 1) :
           i + 1 \in 1..Len(wsAnswers[s]) /\ Tail(wsAnswers[s])[i] = wsAnswers[s][i + 1]
  <2>1. wsAnswers[s] \in Seq(WebAnswer) /\ old[s] \in Nat
    BY <1>1 DEF WebTypes
  <2> QED
    BY <1>2, <2>1, TailLemma
<1>4. /\ m.kind \in {"config", "setConfigResult"}
      /\ m.value \in WebConfigs \cup {"success", "failed"} /\ m.dirty \in BOOLEAN
  BY <1>3 DEF WebAnswer
<1>5. Config \/ Result \/ Ignored
  BY <1>4 DEF WS!OnMessage
<1>6. g \in WebMessage /\ g.come = 0 /\ ~WS!IsChange(g)
  <2>1. "getConfig" \in WebCommands /\ WS!NoConfig \in WebConfigs
    BY DEF WebCommands, WebConfigs
  <2> QED
    BY <2>1, MessageLemma
<1> HIDE DEF m, g, n, overtaken
<1>7. /\ wsSent' \in [WS!Sockets -> Seq(WebMessage)]
      /\ \A t \in WS!Sockets : t # s => wsSent'[t] = wsSent[t]
      /\ \/ wsSent'[s] = wsSent[s]
         \/ Result /\ sock[s] = "open" /\ wsSent'[s] = Append(wsSent[s], g)
  BY <1>1, <1>5, <1>6, SendLemma DEF WebTypes
<1>8. /\ wsAnswers' \in [WS!Sockets -> Seq(WebAnswer)] /\ old' \in [WS!Sockets -> Nat]
      /\ wsAnswers'[s] = Tail(wsAnswers[s]) /\ old'[s] = n
      /\ \A t \in WS!Sockets : t # s => wsAnswers'[t] = wsAnswers[t] /\ old'[t] = old[t]
  <2>1. n \in Nat
    BY <1>3 DEF n
  <2> QED
    BY <1>1, <1>2, <1>3, <2>1 DEF WebTypes
<1>9. WebTypes'
  BY <1>1, <1>2, <1>4, <1>5, <1>7, <1>8 DEF WebTypes
<1>10. SocketsBeginEmpty'
  <2>1. sock[s] \notin {"free", "connecting"}
    BY <1>2 DEF WebInv, SocketsBeginEmpty
  <2> QED
    BY <1>2, <1>7, <1>8, <2>1 DEF WebInv, SocketsBeginEmpty
<1>11. UsedSocketsAreNotClosing'
  BY <1>2 DEF WebInv, UsedSocketsAreNotClosing
<1>12. MessagesAreInPieces'
  <2>1. PiecesAreInOrder(wsSent[s], pending[s]) /\ wsSent[s] \in Seq(WebMessage)
    BY <1>1 DEF WebInv, MessagesAreInPieces, WebTypes
  <2>2. PiecesAreInOrder(Append(wsSent[s], g), pending[s])
    BY <1>6, <2>1, SentPiecesLemma
  <2> QED
    BY <1>2, <1>7, <2>1, <2>2 DEF WebInv, MessagesAreInPieces
<1>13. AnswersTell(wsAnswers[s], old[s], value, isConfigDirty)
  BY DEF WebInv, AnswersTellTheConfig
<1>14. AnswersTellTheConfig'
  <2>1. AnswersTell(Tail(wsAnswers[s]), n, value, isConfigDirty)
    BY <1>2, <1>3, <1>13, ReadAnswerLemma DEF n
  <2> QED
    BY <1>2, <1>8, <2>1 DEF WebInv, AnswersTellTheConfig
<1>15. CopiesWillAgree'
  <2> SUFFICES ASSUME NEW o \in Pages, o \notin stale', websock[o] # WS!NoSocket,
                      sock[websock[o]] \in {"open", "broken"}
               PROVE  CopyWillAgree(wsSent'[websock[o]], wsAnswers'[websock[o]], value,
                                    isConfigDirty, wsShown'[o], shownDirty'[o])
    BY <1>2 DEF CopiesWillAgree
  <2>1. websock[o] \in WS!Sockets /\ WS!PageOf(websock[o]) = o
    BY <1>1 DEF WebTypes
  <2>2. CASE websock[o] # s
    <3>1. CASE o # p \/ ~WS!Listens(s)
      <4>1. o \notin stale /\ wsShown'[o] = wsShown[o] /\ shownDirty'[o] = shownDirty[o]
        BY <1>1, <1>5, <3>1 DEF WebTypes
      <4> QED
        BY <1>7, <1>8, <2>1, <2>2, <4>1 DEF WebInv, CopiesWillAgree
    <3>2. CASE o = p /\ WS!Listens(s)
      BY <2>2, <3>2 DEF WS!Listens, WS!IsUsed
    <3> QED
      BY <3>1, <3>2
  <2>3. CASE websock[o] = s
    <3>1. o = p /\ WS!Listens(s)
      BY <2>1, <2>3 DEF WS!Listens, WS!IsUsed
    <3>2. CASE Config
      <4>1. /\ ~overtaken /\ wsSent'[s] = wsSent[s]
            /\ wsShown'[o] = m.value /\ shownDirty'[o] = m.dirty
        BY <1>1, <3>1, <3>2 DEF WebTypes
      <4>2. old[s] = 0 /\ \A i \in 1..Len(wsSent[s]) : ~WS!IsChange(wsSent[s][i])
        <5>1. wsSent[s] \in Seq(WebMessage)
          BY <1>1 DEF WebTypes
        <5>2. DOMAIN wsSent[s] = 1..Len(wsSent[s])
          BY <5>1, LenProperties
        <5> QED
          BY <1>3, <4>1, <5>2 DEF overtaken
      <4>3. m.value = value /\ m.dirty = isConfigDirty
        BY <1>3, <1>13, <3>2, <4>2 DEF AnswersTell
      <4>4. \A i \in 1..Len(Tail(wsAnswers[s])) : Tail(wsAnswers[s])[i].kind = "config"
        <5> SUFFICES ASSUME NEW i \in 1..Len(Tail(wsAnswers[s]))
                     PROVE  Tail(wsAnswers[s])[i].kind = "config"
          OBVIOUS
        <5>1. /\ i + 1 \in 1..Len(wsAnswers[s]) /\ ~(i + 1 <= old[s] + 1)
              /\ Tail(wsAnswers[s])[i] = wsAnswers[s][i + 1]
          BY <1>3, <4>2
        <5>2. wsAnswers[s][i + 1].kind \in {"config", "setConfigResult"}
          <6>1. wsAnswers[s][i + 1] \in WebAnswer
            BY <1>3, <5>1, ElementOfSeq
          <6> QED
            BY <6>1 DEF WebAnswer
        <5> QED
          BY <1>13, <5>1, <5>2 DEF AnswersTell
      <4> QED
        BY <1>8, <2>3, <4>1, <4>2, <4>3, <4>4 DEF CopyWillAgree, IsLastChange
    <3>3. CASE Result
      <4>1. CopyWillAgree(wsSent[s], wsAnswers[s], value, isConfigDirty, wsShown[o],
                          shownDirty[o])
        BY <2>3, <3>3 DEF WebInv, CopiesWillAgree
      <4> QED
        BY <1>3, <3>3, <4>1 DEF CopyWillAgree
    <3> QED
      BY <1>5, <3>1, <3>2, <3>3
  <2> QED
    BY <2>2, <2>3
<1> QED
  BY <1>9, <1>10, <1>11, <1>12, <1>14, <1>15 DEF WebInv

(* A piece of the first message comes: not the last one, or the last one   *)
(* of a message that is lost, or of one that is handled as it was sent.    *)
LEMMA PieceLemma ==
  ASSUME WebInv, NEW s \in WS!Sockets, WS!OnPiece(s),
         NEW q, q = wsSent[s], NEW i, i = q[1].come + 1
  PROVE  /\ q \in Seq(WebMessage) /\ q # <<>> /\ Head(q) = q[1] /\ q[1] \in WebMessage
         /\ sock[s] \in {"open", "closing"} /\ q[1].cmd # "restoreConfig"
         /\ UNCHANGED <<sock, websock, wsShown, shownDirty>>
         /\ \/ /\ wsSent' = [wsSent EXCEPT ![s] = [q EXCEPT ![1].come = i]]
               /\ pending' = [pending EXCEPT ![s] = [j \in 1..i |-> WS!Piece(q[1], j)]]
               /\ UNCHANGED <<value, isConfigDirty, wsFile, wsAnswers, stale, old>>
            \/ /\ wsSent' = [wsSent EXCEPT ![s] = Tail(q)]
               /\ pending' = [pending EXCEPT ![s] = <<>>]
               /\ \/ /\ stale' = stale \cup {WS!PageOf(s)}
                     /\ UNCHANGED <<value, isConfigDirty, wsFile, wsAnswers, old>>
                  \/ WS!HandleCommand(s, q[1])
<1> DEFINE m == Head(q)
           isLast == i = WS!Total(m.cut)
           text == IF i = 1 THEN <<WS!Piece(m, i)>> ELSE Append(pending[s], WS!Piece(m, i))
           Lost == /\ stale' = stale \cup {WS!PageOf(s)}
                   /\ UNCHANGED <<value, isConfigDirty, wsFile, wsAnswers, old>>
           Nothing == UNCHANGED <<value, isConfigDirty, wsFile, wsAnswers, stale, old>>
<1>1. WebTypes /\ q \in Seq(WebMessage)
  BY DEF WebInv, WebTypes
<1>2. /\ q # <<>> /\ sock[s] \in {"open", "closing"} /\ m.cmd # "restoreConfig"
      /\ UNCHANGED <<sock, websock, wsShown, shownDirty>>
  BY DEF WS!OnPiece, WS!Arrives, WS!page
<1>3. /\ m = q[1] /\ m \in WebMessage
  BY <1>1, <1>2, TailLemma
<1>4. i = m.come + 1
  BY <1>3
<1>5. /\ wsSent' = [wsSent EXCEPT ![s] = IF isLast THEN Tail(q) ELSE [q EXCEPT ![1].come = i]]
      /\ pending' = [pending EXCEPT ![s] = IF isLast THEN <<>> ELSE text]
      /\ \/ Lost /\ isLast
         \/ isLast /\ WS!HandleTextMessage(s, text, m)
         \/ ~isLast /\ Nothing
  BY <1>4 DEF WS!OnPiece, WS!Client, WS!firmware, WS!history
<1>6. text = [j \in 1..i |-> WS!Piece(m, j)]
  <2>1. pending[s] = [j \in 1..m.come |-> WS!Piece(m, j)]
    BY <1>2, <1>3 DEF WebInv, MessagesAreInPieces, PiecesAreInOrder
  <2> DEFINE come == pending[s]
  <2>2. come = [j \in 1..m.come |-> WS!Piece(m, j)]
    BY <2>1
  <2> HIDE DEF m, come
  <2>3. (IF i = 1 THEN <<WS!Piece(m, i)>> ELSE Append(come, WS!Piece(m, i)))
          = [j \in 1..i |-> WS!Piece(m, j)]
    BY <1>3, <1>4, <2>2, TextLemma
  <2> QED
    BY <2>3 DEF come
<1> HIDE DEF text, m
<1>7. isLast => (WS!HandleTextMessage(s, text, m) => WS!HandleCommand(s, m))
  BY <1>6 DEF WS!HandleTextMessage, WS!IsWhole
<1> QED
  BY <1>1, <1>2, <1>3, <1>5, <1>6, <1>7 DEF m

(* A command: what becomes of the firmware, of the answers, and of the     *)
(* pages that are not stale.                                               *)
LEMMA CommandLemma ==
  ASSUME WS!WebAssumption, WebInv, NEW s \in WS!Sockets,
         NEW m \in WebMessage, m.cmd # "restoreConfig", WS!HandleCommand(s, m)
  PROVE  /\ value' \in WebConfigs /\ wsFile' \in WebConfigs /\ isConfigDirty' \in BOOLEAN
         /\ stale \subseteq stale'
         /\ wsAnswers' \in [WS!Sockets -> Seq(WebAnswer)]
         /\ \A t \in WS!Sockets : t # s => wsAnswers'[t] = wsAnswers[t]
         /\ \/ UNCHANGED <<value, isConfigDirty, stale, old>>
            \/ /\ old' = [t \in WS!Sockets |-> Len(wsAnswers[t])]
               /\ \A p \in Pages : p \notin stale' => p = WS!PageOf(s) /\ WS!IsUsed(s)
         /\ \/ wsAnswers'[s] = wsAnswers[s]
            \/ \E r \in WebAnswer :
                 /\ wsAnswers'[s] = Append(wsAnswers[s], r)
                 /\ \/ r.kind = "config" /\ r.value = value' /\ r.dirty = isConfigDirty'
                    \/ /\ r.kind = "setConfigResult" /\ Pages \subseteq stale'
                       /\ old' = [t \in WS!Sockets |-> Len(wsAnswers[t])]
         /\ \/ wsAnswers'[s] # <<>>
            \/ m.cmd \in {"set", "pad"} /\ value' = m.value /\ isConfigDirty' = TRUE
            \/ WS!PageOf(s) \in stale'
<1>1. WebTypes /\ wsAnswers \in [WS!Sockets -> Seq(WebAnswer)] /\ WS!NoConfig \in WebConfigs
  BY DEF WebInv, WebTypes, WebConfigs
<1>2. m.cmd \in WebCommands /\ m.value \in WebConfigs
  BY DEF WebMessage
<1>3. /\ value \in WebConfigs /\ wsFile \in WebConfigs /\ isConfigDirty \in BOOLEAN
      /\ wsAnswers[s] \in Seq(WebAnswer) /\ Len(wsAnswers[s]) \in Nat
  BY <1>1, LenProperties DEF WebTypes
<1>4. ASSUME NEW r \in WebAnswer, WS!Answer(s, r)
      PROVE  /\ wsAnswers' \in [WS!Sockets -> Seq(WebAnswer)]
             /\ \A t \in WS!Sockets : t # s => wsAnswers'[t] = wsAnswers[t]
             /\ \/ WS!Dropped(s) /\ wsAnswers'[s] = wsAnswers[s]
                \/ ~WS!Dropped(s) /\ wsAnswers'[s] = Append(wsAnswers[s], r)
             /\ wsAnswers'[s] # <<>>
  <2>1. CASE WS!Dropped(s)
    <3>1. wsAnswers' = wsAnswers
      BY <1>4, <2>1 DEF WS!Answer
    <3>2. Len(wsAnswers[s]) # 0
      BY <1>3, <2>1 DEF WS!Dropped, WS!WebAssumption
    <3>3. wsAnswers[s] # <<>>
      BY <3>2
    <3> QED
      BY <1>1, <2>1, <3>1, <3>3
  <2>2. CASE ~WS!Dropped(s)
    <3>1. wsAnswers' = [wsAnswers EXCEPT ![s] = Append(wsAnswers[s], r)]
      BY <1>4, <2>2 DEF WS!Answer
    <3>2. /\ Append(wsAnswers[s], r) \in Seq(WebAnswer)
          /\ Len(Append(wsAnswers[s], r)) = Len(wsAnswers[s]) + 1
      BY <1>3, AppendLemma
    <3>3. Append(wsAnswers[s], r) # <<>>
      BY <1>3, <3>2
    <3> QED
      BY <1>1, <2>2, <3>1, <3>2, <3>3
  <2> QED
    BY <2>1, <2>2
<1>5. ASSUME NEW v \in WebConfigs, NEW d \in BOOLEAN
      PROVE  /\ WS!Config(v, d) \in WebAnswer /\ WS!Config(v, d).kind = "config"
             /\ WS!Config(v, d).value = v /\ WS!Config(v, d).dirty = d
  BY DEF WS!Config, WebAnswer
<1>6. ASSUME NEW p \in Pages, p \notin WS!Others(s)
      PROVE  p = WS!PageOf(s) /\ WS!IsUsed(s)
  BY <1>6 DEF WS!Others
<1>7. CASE m.cmd = "getConfig"
  <2>1. WS!GetConfig(s)
    BY <1>7 DEF WS!HandleCommand
  <2>2. /\ WS!Answer(s, WS!Config(value, isConfigDirty))
        /\ UNCHANGED <<value, isConfigDirty, wsFile, stale, old>>
    BY <2>1 DEF WS!GetConfig, WS!firmware, WS!history
  <2> DEFINE r == WS!Config(value, isConfigDirty)
  <2>3. r \in WebAnswer /\ r.kind = "config" /\ r.value = value /\ r.dirty = isConfigDirty
    BY <1>3, <1>5
  <2> HIDE DEF r
  <2>4. WS!Answer(s, r)
    BY <2>2 DEF r
  <2> QED
    BY <1>3, <1>4, <2>2, <2>3, <2>4
<1>8. CASE m.cmd = "set"
  <2>1. WS!Set(s, m.value)
    BY <1>8 DEF WS!HandleCommand
  <2> QED
    BY <1>1, <1>2, <1>3, <1>6, <1>8, <2>1 DEF WS!Set, WS!Outdate
<1>9. CASE m.cmd = "pad"
  <2>1. WS!SetPadConfig(s, m.value)
    BY <1>9 DEF WS!HandleCommand
  <2> DEFINE r == WS!Config(m.value, TRUE)
  <2>2. /\ WS!Answer(s, r) /\ value' = m.value /\ isConfigDirty' = TRUE
        /\ old' = [t \in WS!Sockets |-> Len(wsAnswers[t])]
        /\ stale' = stale \cup WS!Others(s) /\ wsFile' = wsFile
    BY <2>1 DEF WS!SetPadConfig, WS!Outdate
  <2>3. r \in WebAnswer /\ r.kind = "config" /\ r.value = m.value /\ r.dirty = TRUE
    BY <1>2, <1>5
  <2> HIDE DEF r
  <2> QED
    BY <1>2, <1>3, <1>4, <1>6, <1>9, <2>2, <2>3
<1>10. CASE m.cmd = "saveConfig"
  <2>1. WS!SaveConfig(s)
    BY <1>10 DEF WS!HandleCommand
  <2> DEFINE r == WS!Config(value, FALSE)
  <2>2. /\ WS!Answer(s, r) /\ value' = value /\ isConfigDirty' = FALSE
        /\ old' = [t \in WS!Sockets |-> Len(wsAnswers[t])]
        /\ stale \subseteq stale' /\ WS!Others(s) \subseteq stale'
        /\ wsFile' \in {value, WS!NoConfig}
    BY <2>1 DEF WS!SaveConfig, WS!Outdate
  <2>3. r \in WebAnswer /\ r.kind = "config" /\ r.value = value /\ r.dirty = FALSE
    BY <1>3, <1>5
  <2> HIDE DEF r
  <2> QED
    BY <1>1, <1>3, <1>4, <1>6, <2>2, <2>3
<1>11. CASE m.cmd = "setConfig"
  <2>1. WS!SetConfig(s, m.value)
    BY <1>11 DEF WS!HandleCommand
  <2>2. PICK r \in WebAnswer : WS!Answer(s, r) /\ r.kind = "setConfigResult"
    <3>1. PICK success \in BOOLEAN :
            WS!Answer(s, WS!Result(IF success THEN "success" ELSE "failed"))
      BY <2>1 DEF WS!SetConfig
    <3> DEFINE a == WS!Result(IF success THEN "success" ELSE "failed")
    <3>2. a \in WebAnswer /\ a.kind = "setConfigResult"
      BY DEF WS!Result, WebAnswer
    <3> QED
      BY <3>1, <3>2
  <2>3. /\ value' = value /\ isConfigDirty' = FALSE /\ wsFile' \in {m.value, WS!NoConfig}
        /\ old' = [t \in WS!Sockets |-> Len(wsAnswers[t])]
        /\ stale' = stale \cup Pages
    BY <2>1 DEF WS!SetConfig, WS!Outdate
  <2>4. WS!PageOf(s) \in stale'
    BY <2>3, SocketLemma
  <2> QED
    BY <1>1, <1>2, <1>3, <1>4, <2>2, <2>3, <2>4
<1> QED
  BY <1>2, <1>7, <1>8, <1>9, <1>10, <1>11 DEF WebCommands

LEMMA OnPieceLemma ==
  ASSUME WS!WebAssumption, WebInv, NEW s \in WS!Sockets, WS!OnPiece(s)
  PROVE  WebInv'
<1> DEFINE q == wsSent[s]
           i == q[1].come + 1
           part == [j \in 1..i |-> WS!Piece(q[1], j)]
           More == /\ wsSent' = [wsSent EXCEPT ![s] = [q EXCEPT ![1].come = i]]
                   /\ pending' = [pending EXCEPT ![s] = part]
                   /\ UNCHANGED <<value, isConfigDirty, wsFile, wsAnswers, stale, old>>
           Handled == /\ wsSent' = [wsSent EXCEPT ![s] = Tail(q)]
                      /\ pending' = [pending EXCEPT ![s] = <<>>]
           Lost == /\ stale' = stale \cup {WS!PageOf(s)}
                   /\ UNCHANGED <<value, isConfigDirty, wsFile, wsAnswers, old>>
<1>1. /\ q \in Seq(WebMessage) /\ q # <<>> /\ Head(q) = q[1] /\ q[1] \in WebMessage
      /\ sock[s] \in {"open", "closing"} /\ q[1].cmd # "restoreConfig"
      /\ UNCHANGED <<sock, websock, wsShown, shownDirty>>
      /\ More \/ (Handled /\ (Lost \/ WS!HandleCommand(s, q[1])))
  BY PieceLemma
<1>2. WebTypes /\ PiecesAreInOrder(q, pending[s])
  BY DEF WebInv, MessagesAreInPieces
<1>3. \A p \in Pages : websock[p] # WS!NoSocket =>
        websock[p] \in WS!Sockets /\ WS!PageOf(websock[p]) = p
  BY <1>2 DEF WebTypes
<1>4. UsedSocketsAreNotClosing'
  BY <1>1 DEF WebInv, UsedSocketsAreNotClosing
<1>5. CASE More
  <2> DEFINE t == [q EXCEPT ![1].come = i]
  <2>1. /\ t \in Seq(WebMessage) /\ Len(t) = Len(q)
        /\ \A n \in 1..Len(q) : t[n].cmd = q[n].cmd /\ t[n].value = q[n].value
        /\ PiecesAreInOrder(t, part)
    <3>1. i = q[1].come + 1
      OBVIOUS
    <3> DEFINE come == pending[s]
    <3>2. q \in Seq(WebMessage) /\ q # <<>> /\ PiecesAreInOrder(q, come)
      BY <1>1, <1>2
    <3> HIDE DEF i, q, come
    <3>3. /\ WithCome(q, i) \in Seq(WebMessage) /\ Len(WithCome(q, i)) = Len(q)
          /\ \A n \in 1..Len(q) : /\ WithCome(q, i)[n].cmd = q[n].cmd
                                  /\ WithCome(q, i)[n].value = q[n].value
          /\ PiecesAreInOrder(WithCome(q, i), FirstPieces(q[1], i))
      BY <3>1, <3>2, PiecePiecesLemma
    <3> QED
      BY <3>3 DEF WithCome, FirstPieces
  <2>2. part \in Seq(WebPiece)
    <3>1. pending[s] = [j \in 1..q[1].come |-> WS!Piece(q[1], j)]
      BY <1>1, <1>2 DEF PiecesAreInOrder
    <3> QED
      BY <1>1, <3>1, TextLemma
  <2> HIDE DEF t, part, q
  <2>3. /\ wsSent' \in [WS!Sockets -> Seq(WebMessage)] /\ wsSent'[s] = t
        /\ \A u \in WS!Sockets : u # s => wsSent'[u] = wsSent[u]
        /\ pending' \in [WS!Sockets -> Seq(WebPiece)] /\ pending'[s] = part
        /\ \A u \in WS!Sockets : u # s => pending'[u] = pending[u]
    BY <1>2, <1>5, <2>1, <2>2 DEF WebTypes, t
  <2>4. WebTypes'
    BY <1>1, <1>2, <1>5, <2>3 DEF WebTypes
  <2>5. SocketsBeginEmpty'
    BY <1>1, <1>5, <2>3 DEF WebInv, SocketsBeginEmpty
  <2>6. MessagesAreInPieces'
    BY <2>1, <2>3 DEF WebInv, MessagesAreInPieces
  <2>7. AnswersTellTheConfig'
    BY <1>5 DEF WebInv, AnswersTellTheConfig
  <2>8. CopiesWillAgree'
    <3> SUFFICES ASSUME NEW p \in Pages, p \notin stale, websock[p] # WS!NoSocket,
                        sock[websock[p]] \in {"open", "broken"}
                 PROVE  CopyWillAgree(wsSent'[websock[p]], wsAnswers[websock[p]], value,
                                      isConfigDirty, wsShown[p], shownDirty[p])
      BY <1>1, <1>5 DEF CopiesWillAgree
    <3>1. CopyWillAgree(wsSent[websock[p]], wsAnswers[websock[p]], value, isConfigDirty,
                        wsShown[p], shownDirty[p])
      BY DEF WebInv, CopiesWillAgree
    <3>2. CASE websock[p] = s
      <4>1. CopyWillAgree(t, wsAnswers[s], value, isConfigDirty, wsShown[p], shownDirty[p])
        BY <2>1, <3>1, <3>2, SameCopyLemma DEF q
      <4> QED
        BY <2>3, <3>2, <4>1
    <3>3. CASE websock[p] # s
      BY <1>3, <2>3, <3>1, <3>3
    <3> QED
      BY <3>2, <3>3
  <2> QED
    BY <1>4, <2>4, <2>5, <2>6, <2>7, <2>8 DEF WebInv
<1> HIDE DEF i, part
<1>6. CASE Handled
  <2>1. Tail(q) \in Seq(WebMessage) /\ PiecesAreInOrder(Tail(q), <<>>)
    BY <1>1, <1>2, TailLemma, HandledPiecesLemma
  <2>2. /\ wsSent' \in [WS!Sockets -> Seq(WebMessage)] /\ wsSent'[s] = Tail(q)
        /\ \A u \in WS!Sockets : u # s => wsSent'[u] = wsSent[u]
        /\ pending' \in [WS!Sockets -> Seq(WebPiece)] /\ pending'[s] = <<>>
        /\ \A u \in WS!Sockets : u # s => pending'[u] = pending[u]
    <3>1. <<>> \in Seq(WebPiece)
      OBVIOUS
    <3> QED
      BY <1>2, <1>6, <2>1, <3>1 DEF WebTypes
  <2>3. MessagesAreInPieces'
    BY <2>1, <2>2 DEF WebInv, MessagesAreInPieces
  <2>4. ASSUME NEW p \in Pages, p \notin stale, websock[p] # WS!NoSocket,
               sock[websock[p]] \in {"open", "broken"}
        PROVE  CopyWillAgree(wsSent[websock[p]], wsAnswers[websock[p]], value, isConfigDirty,
                             wsShown[p], shownDirty[p])
    BY <2>4 DEF WebInv, CopiesWillAgree
  <2> HIDE DEF q
  <2>5. CASE Lost
    <3>1. WebTypes'
      BY <1>1, <1>2, <2>2, <2>5 DEF WebTypes
    <3>2. SocketsBeginEmpty'
      BY <1>1, <2>2, <2>5 DEF WebInv, SocketsBeginEmpty
    <3>3. AnswersTellTheConfig'
      BY <2>5 DEF WebInv, AnswersTellTheConfig
    <3>4. CopiesWillAgree'
      <4> SUFFICES ASSUME NEW p \in Pages, p \notin stale', websock[p] # WS!NoSocket,
                          sock[websock[p]] \in {"open", "broken"}
                   PROVE  CopyWillAgree(wsSent'[websock[p]], wsAnswers[websock[p]], value,
                                        isConfigDirty, wsShown[p], shownDirty[p])
        BY <1>1, <2>5 DEF CopiesWillAgree
      <4>1. p \notin stale /\ websock[p] # s /\ websock[p] \in WS!Sockets
        BY <1>3, <2>5
      <4> QED
        BY <2>2, <2>4, <4>1
    <3> QED
      BY <1>4, <2>3, <3>1, <3>2, <3>3, <3>4 DEF WebInv
  <2>6. CASE WS!HandleCommand(s, q[1])
    <3> DEFINE m == q[1]
               New == old' = [t \in WS!Sockets |-> Len(wsAnswers[t])]
               Same == UNCHANGED <<value, isConfigDirty, stale, old>>
    <3>1. /\ value' \in WebConfigs /\ wsFile' \in WebConfigs /\ isConfigDirty' \in BOOLEAN
          /\ stale \subseteq stale'
          /\ wsAnswers' \in [WS!Sockets -> Seq(WebAnswer)]
          /\ \A t \in WS!Sockets : t # s => wsAnswers'[t] = wsAnswers[t]
          /\ \/ Same
             \/ New /\ \A p \in Pages : p \notin stale' => p = WS!PageOf(s) /\ WS!IsUsed(s)
          /\ \/ wsAnswers'[s] = wsAnswers[s]
             \/ \E r \in WebAnswer :
                  /\ wsAnswers'[s] = Append(wsAnswers[s], r)
                  /\ \/ r.kind = "config" /\ r.value = value' /\ r.dirty = isConfigDirty'
                     \/ r.kind = "setConfigResult" /\ Pages \subseteq stale' /\ New
          /\ \/ wsAnswers'[s] # <<>>
             \/ m.cmd \in {"set", "pad"} /\ value' = m.value /\ isConfigDirty' = TRUE
             \/ WS!PageOf(s) \in stale'
      BY <1>1, <2>6, CommandLemma
    <3> HIDE DEF m
    <3>2. /\ \A t \in WS!Sockets : wsAnswers[t] \in Seq(WebAnswer) /\ old[t] \in Nat
                                   /\ Len(wsAnswers[t]) \in Nat
      BY <1>2, LenProperties DEF WebTypes
    <3>3. /\ old' \in [WS!Sockets -> Nat]
          /\ \A t \in WS!Sockets : AnswersTell(wsAnswers[t], old'[t], value', isConfigDirty')
      <4>1. CASE Same
        BY <1>2, <4>1 DEF WebInv, AnswersTellTheConfig, WebTypes
      <4>2. CASE New
        <5>1. \A t \in WS!Sockets :
                AnswersTell(wsAnswers[t], Len(wsAnswers[t]), value', isConfigDirty')
          BY <3>2, OldAnswersLemma
        <5> QED
          BY <3>2, <4>2, <5>1
      <4> QED
        BY <3>1, <4>1, <4>2
    <3>4. WebTypes'
      BY <1>1, <1>2, <2>2, <3>1, <3>3 DEF WebTypes
    <3>5. SocketsBeginEmpty'
      BY <1>1, <2>2, <3>1 DEF WebInv, SocketsBeginEmpty
    <3>6. AnswersTellTheConfig'
      <4>1. AnswersTell(wsAnswers'[s], old'[s], value', isConfigDirty')
        <5>1. CASE wsAnswers'[s] = wsAnswers[s]
          BY <3>3, <5>1
        <5>2. ASSUME NEW r \in WebAnswer, wsAnswers'[s] = Append(wsAnswers[s], r),
                     \/ r.kind = "config" /\ r.value = value' /\ r.dirty = isConfigDirty'
                     \/ r.kind = "setConfigResult" /\ New
              PROVE  AnswersTell(wsAnswers'[s], old'[s], value', isConfigDirty')
          <6>1. New => old'[s] = Len(wsAnswers[s])
            OBVIOUS
          <6>2. old'[s] \in Nat /\ wsAnswers[s] \in Seq(WebAnswer)
            BY <3>2, <3>3
          <6> HIDE DEF New
          <6> QED
            BY <3>3, <5>2, <6>1, <6>2, AddAnswerLemma
        <5> QED
          BY <3>1, <5>1, <5>2
      <4> QED
        BY <3>1, <3>3, <4>1 DEF AnswersTellTheConfig
    <3>7. CopiesWillAgree'
      <4> SUFFICES ASSUME NEW p \in Pages, p \notin stale', websock[p] # WS!NoSocket,
                          sock[websock[p]] \in {"open", "broken"}
                   PROVE  CopyWillAgree(wsSent'[websock[p]], wsAnswers'[websock[p]], value',
                                        isConfigDirty', wsShown[p], shownDirty[p])
        BY <1>1 DEF CopiesWillAgree
      <4>1. CopyWillAgree(wsSent[websock[p]], wsAnswers[websock[p]], value, isConfigDirty,
                          wsShown[p], shownDirty[p])
        BY <2>4, <3>1
      <4>2. CASE websock[p] = s
        <5>1. WS!PageOf(s) = p /\ CopyWillAgree(q, wsAnswers[s], value, isConfigDirty,
                                                wsShown[p], shownDirty[p])
          BY <1>3, <4>1, <4>2 DEF q
        <5>2. \A n \in 1..Len(wsAnswers'[s]) : wsAnswers'[s][n].kind = "config"
          <6>1. CASE wsAnswers'[s] = wsAnswers[s]
            BY <5>1, <6>1 DEF CopyWillAgree
          <6>2. ASSUME NEW r \in WebAnswer, wsAnswers'[s] = Append(wsAnswers[s], r),
                       r.kind = "config"
                PROVE  \A n \in 1..Len(wsAnswers'[s]) : wsAnswers'[s][n].kind = "config"
            <7>1. /\ Len(wsAnswers'[s]) = Len(wsAnswers[s]) + 1
                  /\ \A n \in 1..Len(wsAnswers[s]) : wsAnswers'[s][n] = wsAnswers[s][n]
                  /\ wsAnswers'[s][Len(wsAnswers[s]) + 1] = r
                  /\ \A n \in 1..(Len(wsAnswers[s]) + 1) :
                       n \in 1..Len(wsAnswers[s]) \/ n = Len(wsAnswers[s]) + 1
              BY <3>2, <6>2, AppendLemma
            <7> QED
              BY <5>1, <6>2, <7>1 DEF CopyWillAgree
          <6> QED
            BY <3>1, <6>1, <6>2
        <5>3. \/ wsAnswers'[s] # <<>>
              \/ m.cmd \in {"set", "pad"} /\ value' = m.value /\ isConfigDirty' = TRUE
          BY <3>1, <5>1
        <5>4. CopyWillAgree(Tail(q), wsAnswers'[s], value', isConfigDirty', wsShown[p],
                            shownDirty[p])
          BY <1>1, <5>1, <5>2, <5>3, HandledCopyLemma DEF m
        <5> QED
          BY <2>2, <4>2, <5>4
      <4>3. CASE websock[p] # s
        <5>1. Same
          BY <3>1, <4>3 DEF WS!IsUsed
        <5> QED
          BY <1>3, <2>2, <3>1, <4>1, <4>3, <5>1
      <4> QED
        BY <4>2, <4>3
    <3> QED
      BY <1>4, <2>3, <3>4, <3>5, <3>6, <3>7 DEF WebInv
  <2> QED
    BY <1>1, <1>5, <1>6, <2>5, <2>6
<1> QED
  BY <1>1, <1>5, <1>6

LEMMA WebInit == ASSUME WS!WebAssumption PROVE WS!Init => WebInv
<1> SUFFICES ASSUME WS!Init PROVE WebInv
  OBVIOUS
<1>1. /\ value \in Configs /\ wsFile = value /\ isConfigDirty = FALSE
      /\ sock = [s \in WS!Sockets |-> "free"]
      /\ wsSent = [s \in WS!Sockets |-> <<>>] /\ wsAnswers = [s \in WS!Sockets |-> <<>>]
      /\ pending = [s \in WS!Sockets |-> <<>>]
      /\ websock = [p \in Pages |-> WS!NoSocket]
      /\ wsShown = [p \in Pages |-> WS!NoConfig] /\ shownDirty = [p \in Pages |-> FALSE]
      /\ stale = Pages /\ old = [s \in WS!Sockets |-> 0]
  BY DEF WS!Init
<1>2. WebTypes
  <2>1. <<>> \in Seq(WebMessage) /\ <<>> \in Seq(WebAnswer) /\ <<>> \in Seq(WebPiece)
    OBVIOUS
  <2>2. /\ wsSent \in [WS!Sockets -> Seq(WebMessage)]
        /\ wsAnswers \in [WS!Sockets -> Seq(WebAnswer)]
        /\ pending \in [WS!Sockets -> Seq(WebPiece)]
    BY <1>1, <2>1
  <2>3. /\ sock \in [WS!Sockets -> {"free", "connecting", "open", "closing", "broken"}]
        /\ wsShown \in [Pages -> WebConfigs \cup {"success", "failed"}]
        /\ shownDirty \in [Pages -> BOOLEAN] /\ old \in [WS!Sockets -> Nat]
        /\ websock \in [Pages -> WS!Sockets \cup {WS!NoSocket}]
        /\ value \in WebConfigs
    BY <1>1 DEF WebConfigs
  <2> QED
    BY <1>1, <2>2, <2>3 DEF WebTypes
<1>3. SocketsBeginEmpty /\ UsedSocketsAreNotClosing /\ CopiesWillAgree
  BY <1>1 DEF SocketsBeginEmpty, UsedSocketsAreNotClosing, CopiesWillAgree
<1>4. MessagesAreInPieces /\ AnswersTellTheConfig
  BY <1>1 DEF MessagesAreInPieces, AnswersTellTheConfig, PiecesAreInOrder, AnswersTell
<1> QED
  BY <1>2, <1>3, <1>4 DEF WebInv

LEMMA WebNext ==
  ASSUME WS!WebAssumption, WebInv, [WS!Next]_(WS!vars)
  PROVE  WebInv'
<1>1. ASSUME NEW p \in Pages, WS!Change(p) \/ WS!SaveOrRestore(p) \/ WS!Upload(p)
      PROVE  WebInv'
  BY <1>1, PageSendsLemma
<1>2. ASSUME NEW p \in Pages, WS!UploadTimeout(p) \/ WS!Connect(p) \/ WS!Disconnect(p)
      PROVE  WebInv'
  BY <1>2, PageConnectsLemma
<1>3. ASSUME NEW s \in WS!Sockets, WS!OnOpen(s) \/ WS!OnClose(s) \/ WS!Break(s)
      PROVE  WebInv'
  BY <1>3, SocketChangesLemma
<1>4. ASSUME NEW s \in WS!Sockets, WS!OnMessage(s)
      PROVE  WebInv'
  BY <1>4, OnMessageLemma
<1>5. ASSUME NEW s \in WS!Sockets, WS!OnPiece(s)
      PROVE  WebInv'
  BY <1>5, OnPieceLemma
<1>6. ASSUME NEW s \in WS!Sockets, WS!RestoreConfig(s)
      PROVE  WebInv'
  BY <1>6, RestartLemma DEF WS!RestoreConfig
<1>7. CASE WS!Reset
  BY <1>7, RestartLemma DEF WS!Reset
<1>8. CASE UNCHANGED WS!vars
  <2>1. UNCHANGED <<value, isConfigDirty, wsFile, sock, wsSent, wsAnswers, pending, websock,
                    wsShown, shownDirty, stale, old>>
    BY <1>8 DEF WS!vars, WS!firmware, WS!network, WS!page, WS!history
  <2> QED
    BY <2>1 DEF WebInv, WebTypes, SocketsBeginEmpty, UsedSocketsAreNotClosing,
                MessagesAreInPieces, AnswersTellTheConfig, CopiesWillAgree
<1> QED
  BY <1>1, <1>2, <1>3, <1>4, <1>5, <1>6, <1>7, <1>8 DEF WS!Next

(* A page shows the configuration of the firmware once everything under    *)
(* way has arrived, for every number of pages, configurations, messages    *)
(* and pieces of a message, although most changes are not answered, the    *)
(* sockets of a page close while others open, and answers and changes      *)
(* cross; what may make its copy old is named (connection.ts:79,           *)
(* webui.cpp:493).                                                         *)
THEOREM PagesAlwaysShowTheConfig == WS!Spec => []PagesShowTheConfig
<1>1. WS!Init => WebInv
  BY WebInit, HostsAssumption
<1>2. WebInv /\ [WS!Next]_(WS!vars) => WebInv'
  BY WebNext, HostsAssumption
<1>3. WebInv => PagesShowTheConfig
  <2> SUFFICES ASSUME WebInv, NEW p \in Pages, p \notin stale, WS!IsAtRest(websock[p])
               PROVE  wsShown[p] = value /\ shownDirty[p] = isConfigDirty
    BY DEF PagesShowTheConfig, WS!PagesShowTheConfig
  <2>1. /\ websock[p] \in WS!Sockets /\ sock[websock[p]] \in {"open", "closing", "broken"}
        /\ wsSent[websock[p]] = <<>> /\ wsAnswers[websock[p]] = <<>>
    BY DEF WS!IsAtRest
  <2>2. websock[p] # WS!NoSocket
    BY <2>1, SocketLemma
  <2>3. CopyWillAgree(<<>>, <<>>, value, isConfigDirty, wsShown[p], shownDirty[p])
    BY <2>1, <2>2 DEF WebInv, UsedSocketsAreNotClosing, CopiesWillAgree
  <2> QED
    BY <2>3 DEF CopyWillAgree
<1> QED
  BY <1>1, <1>2, <1>3, PTL DEF WS!Spec
-----------------------------------------------------------------------------
(* A part a of b, scaled to the range m, lies in that range; it is m for   *)
(* all of b, and not 0 if b is at most m.                                  *)
LEMMA ScaledPart ==
  ASSUME NEW m \in Nat \ {0}, NEW b \in Nat \ {0}, NEW a \in 0..b
  PROVE  /\ (a * m) \div b \in 0..m
         /\ a = b => (a * m) \div b = m
         /\ a = 0 => (a * m) \div b = 0
         /\ a > 0 /\ b <= m => (a * m) \div b > 0
<1> DEFINE q == (a * m) \div b
<1>1. a * m \in Nat /\ a * m <= b * m
  BY SMT
<1>2. q \in Int /\ b * q <= a * m /\ a * m < b * q + b
  <2> DEFINE p == a * m
  <2>1. p \in Nat
    BY <1>1
  <2> HIDE DEF p
  <2>2. p \div b \in Int /\ b * (p \div b) <= p /\ p < b * (p \div b) + b
    BY <2>1, SMT
  <2> QED
    BY <2>2 DEF p
<1> HIDE DEF q
<1>3. q >= 0
  <2>1. CASE q <= -1
    <3>1. b * q <= -b
      BY <1>2, <2>1, SMT
    <3> QED
      BY <1>1, <1>2, <3>1, SMT
  <2> QED
    BY <1>2, <2>1
<1>4. q <= m
  <2>1. CASE q >= m + 1
    <3>1. b * q >= b * m + b
      BY <1>2, <2>1, SMT
    <3> QED
      BY <1>1, <1>2, <3>1, SMT
  <2> QED
    BY <1>2, <2>1
<1>5. ASSUME a = b
      PROVE  q = m
  <2>1. CASE q <= m - 1
    <3>1. b * q <= b * m - b
      BY <1>2, <2>1, SMT
    <3> QED
      BY <1>1, <1>2, <1>5, <3>1, SMT
  <2> QED
    BY <1>2, <1>4, <2>1
<1>6. ASSUME a = 0
      PROVE  q = 0
  <2>1. CASE q >= 1
    <3>1. b * q >= b
      BY <1>2, <2>1, SMT
    <3> QED
      BY <1>2, <1>6, <3>1, SMT
  <2> QED
    BY <1>2, <1>3, <2>1
<1>7. ASSUME a > 0, b <= m
      PROVE  q > 0
  <2>1. CASE q = 0
    <3>1. a * m >= m
      BY <1>7, SMT
    <3> QED
      BY <1>2, <1>7, <2>1, <3>1, SMT
  <2> QED
    BY <1>2, <1>3, <2>1
<1> QED
  BY <1>2, <1>3, <1>4, <1>5, <1>6, <1>7 DEF q

(* The distance of a sample from an offset between the ends of the range.  *)
LEMMA DistanceSpansTheRange ==
  ASSUME NEW level \in Values, NEW origin \in 1..(MaxValue - 1)
  PROVE  /\ Distance(level, origin) \in Values
         /\ Distance(level, origin) = 0 <=> level = origin
         /\ level \in {0, MaxValue} => Distance(level, origin) = MaxValue
<1>1. MaxValue \in Nat \ {0, 1}
  BY SensorInputAssumption
<1>2. CASE level > origin
  <2> DEFINE b == MaxValue - origin
             a == level - origin
  <2>1. b \in Nat \ {0} /\ a \in 1..b /\ b <= MaxValue /\ (a = b <=> level = MaxValue)
    BY <1>1, <1>2 DEF Values
  <2>2. Distance(level, origin) = (a * MaxValue) \div b
    BY <1>2 DEF Distance
  <2> HIDE DEF a, b
  <2>3. (a * MaxValue) \div b \in 1..MaxValue
        /\ (a = b => (a * MaxValue) \div b = MaxValue)
    BY <1>1, <2>1, ScaledPart
  <2> QED
    BY <1>1, <1>2, <2>1, <2>2, <2>3 DEF Values
<1>3. CASE level <= origin
  <2> DEFINE a == origin - level
  <2>1. origin \in Nat \ {0} /\ a \in 0..origin /\ (a = 0 <=> level = origin)
        /\ (a = origin <=> level = 0) /\ origin <= MaxValue /\ level # MaxValue
    BY <1>1, <1>3 DEF Values
  <2>2. Distance(level, origin) = (a * MaxValue) \div origin
    BY <1>1, <1>3 DEF Distance, Values
  <2> HIDE DEF a
  <2>3. /\ (a * MaxValue) \div origin \in 0..MaxValue
        /\ a = origin => (a * MaxValue) \div origin = MaxValue
        /\ a = 0 => (a * MaxValue) \div origin = 0
        /\ a > 0 => (a * MaxValue) \div origin > 0
    BY <1>1, <2>1, ScaledPart
  <2> QED
    BY <1>1, <2>1, <2>2, <2>3 DEF Values
<1> QED
  BY <1>1, <1>2, <1>3 DEF Values

(* At an offset at an end of the range, a sample is either scaled or the   *)
(* quotient is undefined.                                                  *)
LEMMA DistanceAtTheEnds ==
  ASSUME NEW level \in Values, NEW origin \in {0, MaxValue}
  PROVE  Distance(level, origin) \in Values \cup {Undefined}
<1>1. MaxValue \in Nat \ {0, 1}
  BY SensorInputAssumption
<1>2. CASE level > origin
  <2>1. origin = 0 /\ MaxValue - origin = MaxValue /\ level - origin \in 0..MaxValue
    BY <1>1, <1>2 DEF Values
  <2>2. ((level - origin) * MaxValue) \div (MaxValue - origin) \in 0..MaxValue
    BY <1>1, <2>1, ScaledPart
  <2> QED
    BY <1>2, <2>2 DEF Distance, Values
<1>3. CASE level <= origin /\ origin # 0
  <2>1. origin = MaxValue /\ origin - level \in 0..MaxValue
    BY <1>1, <1>3 DEF Values
  <2>2. ((origin - level) * MaxValue) \div origin \in 0..MaxValue
    BY <1>1, <2>1, ScaledPart
  <2> QED
    BY <1>1, <1>3, <2>2 DEF Distance, Values
<1>4. CASE level <= origin /\ origin = 0
  BY <1>1, <1>4 DEF Distance, Values
<1> QED
  BY <1>1, <1>2, <1>3, <1>4 DEF Values

(* The inductive invariant: the offset is in range, and at an end of the   *)
(* range the balance does not lean outwards, so that no step leaves it.    *)
PinInv == TypeOK /\ NoLeanOutwards

LEMMA PinInvInit == Init => PinInv
  BY SensorInputAssumption DEF Init, PinInv, TypeOK, NoLeanOutwards, Values

(* One sample moves the offset within the range. *)
LEMMA OffsetStep ==
  ASSUME PinInv, NEW level \in Values, UpdateOffset(level)
  PROVE  /\ offset' \in Values
         /\ offsetBalance' \in (1 - BalanceThreshold)..(BalanceThreshold - 1)
         /\ NoLeanOutwards'
<1>1. MaxValue \in Nat \ {0, 1} /\ BalanceThreshold \in Nat \ {0}
  BY SensorInputAssumption
<1> DEFINE balance == Balance(level)
<1>2. /\ balance \in Int
      /\ balance <= BalanceThreshold /\ -BalanceThreshold <= balance
      /\ balance > offsetBalance => level > offset
      /\ balance < offsetBalance => level < offset
  BY <1>1 DEF Balance, PinInv, TypeOK, Values
<1>3. balance >= BalanceThreshold => level > offset
  BY <1>1, <1>2 DEF PinInv, TypeOK
<1>4. balance <= -BalanceThreshold => level < offset
  BY <1>1, <1>2 DEF PinInv, TypeOK
<1>5. MoveOffset(balance)
  BY DEF UpdateOffset
<1> HIDE DEF balance
<1> QED
  BY <1>1, <1>2, <1>3, <1>4, <1>5
  DEF MoveOffset, PinInv, TypeOK, NoLeanOutwards, Values

LEMMA PinInvStep ==
  ASSUME PinInv, [Next]_vars
  PROVE  PinInv'
<1> USE DEF PinInv
<1>1. MaxValue \in Nat \ {0, 1} /\ WordSize \in Nat /\ 2 * MaxValue < WordSize
  BY SensorInputAssumption
<1>2. ASSUME NEW level \in Values
      PROVE  DistanceFromMiddle(level) \in 0..(2 * MaxValue)
  BY <1>1 DEF DistanceFromMiddle, Values
<1>3. ASSUME NEW level \in Values, ReadDrumInput(level)
      PROVE  PinInv'
  <2>1. CASE viaMux /\ autoCalibrate
    <3>1. UpdateOffset(level) /\ result' = Distance(level, offset')
      BY <1>3, <2>1 DEF ReadDrumInput
    <3>2. /\ offset' \in Values /\ NoLeanOutwards'
          /\ offsetBalance' \in (1 - BalanceThreshold)..(BalanceThreshold - 1)
      BY <3>1, OffsetStep
    <3>3. offset' \in 1..(MaxValue - 1) \/ offset' \in {0, MaxValue}
      BY <1>1, <3>2 DEF Values
    <3>4. result' \in Values \cup {Undefined}
      BY <3>1, <3>3, DistanceSpansTheRange, DistanceAtTheEnds
    <3>5. result' \in 0..(WordSize - 1) \cup {Undefined}
      BY <1>1, <3>4 DEF Values
    <3> QED
      BY <1>3, <3>2, <3>5 DEF ReadDrumInput, TypeOK
  <2>2. CASE ~(viaMux /\ autoCalibrate)
    <3>1. result' \in 0..(WordSize - 1)
      BY <1>1, <1>2, <1>3, <2>2 DEF ReadDrumInput, Values
    <3> QED
      BY <1>3, <2>2, <3>1 DEF ReadDrumInput, TypeOK, NoLeanOutwards
  <2> QED
    BY <2>1, <2>2
<1>4. ASSUME NEW level \in Values, ReadPedalInput(level)
      PROVE  PinInv'
  <2> DEFINE v == IF viaMux THEN DistanceFromMiddle(level) ELSE level
  <2>1. v \in 0..(2 * MaxValue)
    BY <1>1, <1>2 DEF Values
  <2>2. result' = Invert(v)
    BY <1>4 DEF ReadPedalInput
  <2> HIDE DEF v
  <2>3. Invert(v) \in 0..(WordSize - 1)
    BY <1>1, <2>1 DEF Invert
  <2> QED
    BY <1>4, <2>2, <2>3 DEF ReadPedalInput, TypeOK, NoLeanOutwards
<1>5. ASSUME NEW flag \in BOOLEAN, SetAutoCalibrate(flag)
      PROVE  PinInv'
  BY <1>5 DEF SetAutoCalibrate, TypeOK, NoLeanOutwards
<1>6. CASE UNCHANGED vars
  BY <1>6 DEF vars, TypeOK, NoLeanOutwards
<1> QED
  BY <1>3, <1>4, <1>5, <1>6 DEF Next, Read

(* The offset of a pin never leaves the range of the ADC: no underflow     *)
(* below 0, whatever the samples are.                                      *)
THEOREM OffsetStaysInRange == Spec => []TypeOK
<1>1. Init => PinInv
  BY PinInvInit
<1>2. PinInv /\ [Next]_vars => PinInv'
  BY PinInvStep
<1>3. PinInv => TypeOK
  BY DEF PinInv
<1> QED
  BY <1>1, <1>2, <1>3, PTL DEF Spec

(* The balance of a pin at an end of the range never leans outwards.       *)
THEOREM BalanceNeverLeansOutwards == Spec => []NoLeanOutwards
<1>1. Init => PinInv
  BY PinInvInit
<1>2. PinInv /\ [Next]_vars => PinInv'
  BY PinInvStep
<1>3. PinInv => NoLeanOutwards
  BY DEF PinInv
<1> QED
  BY <1>1, <1>2, <1>3, PTL DEF Spec

(* A calibrated drum reads 0 exactly at its offset and the full range at   *)
(* both ends of the ADC.                                                   *)
THEOREM CalibratedReadings == Spec => CalibratedReadingsSpanTheRange
<1>1. ASSUME PinInv, [Next]_vars, Read /\ Calibrates /\ offset' \in 1..(MaxValue - 1)
      PROVE  /\ result' \in Values
             /\ result' = 0 <=> input' = offset'
             /\ input' \in {0, MaxValue} => result' = MaxValue
  <2>1. PICK level \in Values : ReadDrumInput(level)
    BY <1>1 DEF Read, Calibrates, ReadPedalInput
  <2>2. input' = level /\ result' = Distance(level, offset')
    BY <1>1, <2>1 DEF ReadDrumInput, Calibrates
  <2> QED
    BY <1>1, <2>2, DistanceSpansTheRange
<1>2. Init => PinInv
  BY PinInvInit
<1>3. PinInv /\ [Next]_vars => PinInv'
  BY PinInvStep
<1>4. PinInv /\ [Next]_vars
        => [Read /\ Calibrates /\ offset' \in 1..(MaxValue - 1) =>
              /\ result' \in Values
              /\ result' = 0 <=> input' = offset'
              /\ input' \in {0, MaxValue} => result' = MaxValue]_vars
  BY <1>1
<1> QED
  BY <1>2, <1>3, <1>4, PTL DEF Spec, CalibratedReadingsSpanTheRange
-----------------------------------------------------------------------------
(* Touch sensors.                                                          *)

Times == 0..(ClockSize - 1)

Sensor ==
  [needsCalibration : BOOLEAN, age : Int, min : Int, max : Int, on : Int, off : Int,
   isOn : BOOLEAN, start : Times]

TouchTypes ==
  /\ toNow \in Times
  /\ sensors \in [Pins -> {<<>>} \cup {<<s>> : s \in Sensor}]
  /\ beyond \in [Pins -> Nat \cup {-1}]

(* A sensor that waits to switch has been beyond its threshold since the   *)
(* time it keeps, at least: the difference of the clock may be smaller,    *)
(* as it wraps around, but is never greater.                               *)
StartIsBeyond ==
  \A p \in Pins : sensors[p] # <<>> /\ sensors[p][1].start # 0 =>
    beyond[p] >= 0 /\ (toNow - sensors[p][1].start) % ClockSize <= beyond[p]

TouchInv == TouchTypes /\ StartIsBeyond

(* The difference of two times, before and after the clock moves on. *)
LEMMA SinceLemma ==
  ASSUME ClockSize \in Nat \ {0}, NEW t \in Times, NEW s \in Times
  PROVE  /\ (t - s) % ClockSize = IF t >= s THEN t - s ELSE t - s + ClockSize
         /\ (t + 1) % ClockSize = IF t + 1 = ClockSize THEN 0 ELSE t + 1
<1> DEFINE a == t - s
<1>1. a \in Int /\ -ClockSize < a /\ a < ClockSize
  BY DEF Times
<1>2. a % ClockSize = IF a >= 0 THEN a ELSE a + ClockSize
  <2> HIDE DEF a
  <2> QED
    BY <1>1
<1> QED
  BY <1>1, <1>2 DEF Times

(* Calibration changes neither the state of a sensor nor its time. *)
LEMMA CalibratedLemma ==
  ASSUME ClockSize \in Nat \ {0}, NEW s \in Sensor, NEW level \in Int
  PROVE  LET t == TO!Calibrated(s, level)
         IN  t \in Sensor /\ t.start = s.start /\ t.isOn = s.isOn
<1> DEFINE min == IF level < s.min THEN level ELSE s.min
           max == IF level >= s.min /\ level > s.max THEN level ELSE s.max
           average == ((min + max) % ClockSize) \div 2
           deviation == ((max - min) % ClockSize) \div 2
           on == average + (3 * deviation) \div 2
           off == average + (11 * deviation) \div 10
           u == [s EXCEPT !.min = min, !.max = max]
           v == [u EXCEPT !.needsCalibration = FALSE, !.on = on, !.off = off]
<1>1. min \in Int /\ max \in Int
  BY DEF Sensor
<1>2. on \in Int /\ off \in Int
  <2>1. (min + max) % ClockSize \in Int /\ (max - min) % ClockSize \in Int
    BY <1>1
  <2>2. average \in Int /\ deviation \in Int
    BY <2>1
  <2> QED
    BY <2>2
<1>3. TO!Calibrated(s, level) = IF ~s.needsCalibration THEN s
                                ELSE IF s.age <= CalibrationTime THEN u ELSE v
  BY DEF TO!Calibrated
<1> HIDE DEF min, max, on, off
<1>4. u \in Sensor /\ u.start = s.start /\ u.isOn = s.isOn
  BY <1>1 DEF Sensor
<1>5. v \in Sensor /\ v.start = u.start /\ v.isOn = u.isOn
  <2> HIDE DEF u
  <2> QED
    BY <1>2, <1>4 DEF Sensor
<1> QED
  BY <1>3, <1>4, <1>5

(* A sensor switches only after its time, and then keeps none. *)
LEMMA SwitchedLemma ==
  ASSUME toNow \in Times, ClockSize \in Nat \ {0}, NEW s \in Sensor, NEW level
  PROVE  LET t == TO!Switched(s, level)
         IN  /\ t \in Sensor
             /\ t.start # 0 => /\ TO!IsBeyond(s, level) /\ t.isOn = s.isOn
                               /\ t.start = toNow \/ t.start = s.start
             /\ t.isOn # s.isOn => s.start # 0 /\ (toNow - s.start) % ClockSize > MinSwitchTime
<1>1. 0 \in Times /\ s.isOn \in BOOLEAN
  BY DEF Times, Sensor
<1> DEFINE reset == [s EXCEPT !.start = 0]
           begun == [s EXCEPT !.start = toNow]
           switched == [s EXCEPT !.isOn = ~@, !.start = 0]
<1>2. /\ reset \in Sensor /\ reset.start = 0 /\ reset.isOn = s.isOn
      /\ begun \in Sensor /\ begun.start = toNow /\ begun.isOn = s.isOn
      /\ switched \in Sensor /\ switched.start = 0
  BY <1>1 DEF Sensor
<1>3. TO!Switched(s, level) =
        IF ~TO!IsBeyond(s, level) THEN reset
        ELSE IF s.start = 0 THEN begun
        ELSE IF (toNow - s.start) % ClockSize > MinSwitchTime THEN switched ELSE s
  BY DEF TO!Switched, TO!Since
<1> HIDE DEF reset, begun, switched
<1> QED
  BY <1>2, <1>3
(* The board starts without sensors, and every step keeps the invariant.   *)
LEMMA InitTouch ==
  ASSUME TO!TouchAssumption
  PROVE  TO!Init => TouchInv
BY DEF TO!TouchAssumption, TO!Init, TouchInv, TouchTypes, StartIsBeyond, Times

LEMMA NextTouch ==
  ASSUME TO!TouchAssumption, TouchInv, [TO!Next]_(TO!vars)
  PROVE  TouchInv'
<1>1. ClockSize \in Nat \ {0} /\ TouchValues \subseteq Int
  BY DEF TO!TouchAssumption
<1>2. TouchTypes /\ StartIsBeyond
  BY DEF TouchInv
<1>3. \A p \in Pins : sensors[p] # <<>> => sensors[p][1] \in Sensor
                                           /\ sensors[p] = <<sensors[p][1]>>
  BY <1>2 DEF TouchTypes
<1>4. 0 \in Times
  BY <1>1 DEF Times
<1>5. ASSUME NEW p \in Pins, TO!AddSensor(p) PROVE TouchInv'
  <2>1. /\ sensors' = [sensors EXCEPT ![p] = <<TO!NewSensor>>]
        /\ beyond' = [beyond EXCEPT ![p] = -1] /\ toNow' = toNow
    BY <1>5 DEF TO!AddSensor
  <2>2. TO!NewSensor \in Sensor /\ TO!NewSensor.start = 0
    BY <1>1, <1>4 DEF TO!NewSensor, Sensor, TO!Undefined
  <2>3. TouchTypes'
    BY <1>2, <2>1, <2>2 DEF TouchTypes, Times
  <2>4. ASSUME NEW q \in Pins, sensors'[q] # <<>>, sensors'[q][1].start # 0
        PROVE  beyond'[q] >= 0 /\ (toNow' - sensors'[q][1].start) % ClockSize <= beyond'[q]
    <3>1. q # p
      BY <1>2, <2>1, <2>2, <2>4 DEF TouchTypes
    <3>2. sensors'[q] = sensors[q] /\ beyond'[q] = beyond[q]
      BY <1>2, <2>1, <3>1 DEF TouchTypes
    <3> QED
      BY <1>2, <2>1, <2>4, <3>2 DEF StartIsBeyond
  <2> QED
    BY <2>3, <2>4 DEF TouchInv, StartIsBeyond
<1>6. ASSUME NEW p \in Pins, TO!ReadSensor(p) PROVE TouchInv'
  <2>1. PICK level \in TouchValues :
          LET s == TO!Calibrated(sensors[p][1], level)
              t == TO!Switched(s, level)
          IN  /\ sensors' = [sensors EXCEPT ![p] = <<t>>]
              /\ beyond' = [beyond EXCEPT ![p] =
                              IF ~TO!IsBeyond(s, level) \/ t.isOn # s.isOn THEN -1
                              ELSE IF @ = -1 THEN 0 ELSE @]
    BY <1>6 DEF TO!ReadSensor
  <2>2. toNow' = toNow /\ sensors[p] # <<>>
    BY <1>6 DEF TO!ReadSensor
  <2> DEFINE s == TO!Calibrated(sensors[p][1], level)
             t == TO!Switched(s, level)
  <2>3. s \in Sensor /\ s.start = sensors[p][1].start
    BY <1>1, <1>3, <2>2, CalibratedLemma
  <2>4. /\ sensors' = [sensors EXCEPT ![p] = <<t>>]
        /\ beyond' = [beyond EXCEPT ![p] =
                        IF ~TO!IsBeyond(s, level) \/ t.isOn # s.isOn THEN -1
                        ELSE IF beyond[p] = -1 THEN 0 ELSE beyond[p]]
    BY <2>1
  <2> HIDE DEF s
  <2>5. /\ t \in Sensor
        /\ t.start # 0 => /\ TO!IsBeyond(s, level) /\ t.isOn = s.isOn
                          /\ t.start = toNow \/ t.start = s.start
    BY <1>1, <1>2, <2>3, SwitchedLemma DEF TouchTypes
  <2> HIDE DEF t
  <2>6. /\ sensors'[p] = <<t>> /\ beyond'[p] \in Nat \cup {-1}
        /\ \A q \in Pins : q # p => sensors'[q] = sensors[q] /\ beyond'[q] = beyond[q]
    BY <1>2, <2>4 DEF TouchTypes
  <2>7. TouchTypes'
    BY <1>2, <2>2, <2>4, <2>5, <2>6 DEF TouchTypes, Times
  <2>8. ASSUME NEW q \in Pins, sensors'[q] # <<>>, sensors'[q][1].start # 0
        PROVE  beyond'[q] >= 0 /\ (toNow' - sensors'[q][1].start) % ClockSize <= beyond'[q]
    <3>1. CASE q # p
      BY <1>2, <2>2, <2>6, <2>8, <3>1 DEF StartIsBeyond
    <3>2. CASE q = p
      <4>1. sensors'[q][1] = t /\ t.start # 0
        BY <2>6, <2>8, <3>2
      <4>2. beyond'[p] = IF beyond[p] = -1 THEN 0 ELSE beyond[p]
        BY <1>2, <2>4, <2>5, <4>1 DEF TouchTypes
      <4>3. beyond'[p] >= 0 /\ beyond[p] \in Nat \cup {-1}
        BY <1>2, <4>2 DEF TouchTypes
      <4>4. CASE t.start = toNow
        <5>1. (toNow - toNow) % ClockSize = 0
          BY <1>1, <1>2, SinceLemma DEF TouchTypes, Times
        <5> QED
          BY <2>2, <3>2, <4>1, <4>3, <4>4, <5>1
      <4>5. CASE t.start = s.start
        <5>1. beyond[p] >= 0 /\ (toNow - sensors[p][1].start) % ClockSize <= beyond[p]
          BY <1>2, <2>2, <2>3, <4>1, <4>5 DEF StartIsBeyond
        <5>2. beyond'[p] = beyond[p]
          BY <4>2, <5>1
        <5> QED
          BY <2>2, <2>3, <3>2, <4>1, <4>5, <5>1, <5>2
      <4> QED
        BY <2>5, <4>1, <4>4, <4>5
    <3> QED
      BY <3>1, <3>2
  <2> QED
    BY <2>7, <2>8 DEF TouchInv, StartIsBeyond
<1>7. ASSUME TO!Tick PROVE TouchInv'
  <2>1. /\ toNow' = (toNow + 1) % ClockSize
        /\ sensors' = [p \in Pins |-> [i \in DOMAIN sensors[p] |->
             [sensors[p][i] EXCEPT !.age = IF @ > CalibrationTime THEN @ ELSE @ + 1]]]
        /\ beyond' = [p \in Pins |-> IF beyond[p] = -1 THEN -1 ELSE beyond[p] + 1]
    BY <1>7 DEF TO!Tick
  <2>2. toNow \in Times /\ toNow' = IF toNow + 1 = ClockSize THEN 0 ELSE toNow + 1
    BY <1>1, <1>2, <2>1, SinceLemma DEF TouchTypes
  <2>3. ASSUME NEW p \in Pins
        PROVE  \/ sensors[p] = <<>> /\ sensors'[p] = <<>>
               \/ /\ sensors[p] # <<>> /\ sensors'[p] = <<sensors'[p][1]>>
                  /\ sensors'[p][1] \in Sensor
                  /\ sensors'[p][1].start = sensors[p][1].start
    <3>1. sensors'[p] = [i \in DOMAIN sensors[p] |->
            [sensors[p][i] EXCEPT !.age = IF @ > CalibrationTime THEN @ ELSE @ + 1]]
      BY <2>1
    <3>2. CASE sensors[p] = <<>>
      BY <3>1, <3>2
    <3>3. CASE sensors[p] # <<>>
      <4> DEFINE s == sensors[p][1]
                 t == [s EXCEPT !.age = IF @ > CalibrationTime THEN @ ELSE @ + 1]
      <4>1. s \in Sensor /\ sensors[p] = <<s>>
        BY <1>3, <3>3
      <4>2. DOMAIN sensors[p] = {1}
        <5> HIDE DEF s
        <5> QED
          BY <4>1
      <4>3. sensors'[p] = [i \in {1} |-> t]
        BY <3>1, <4>2
      <4>4. t \in Sensor /\ t.start = s.start
        <5> HIDE DEF s
        <5> QED
          BY <4>1 DEF Sensor
      <4> HIDE DEF t
      <4>5. sensors'[p] = <<t>> /\ sensors'[p][1] = t
        BY <4>3
      <4> QED
        BY <3>3, <4>4, <4>5
    <3> QED
      BY <3>2, <3>3
  <2>4. TouchTypes'
    <3>1. toNow' \in Times
      BY <1>1, <2>2 DEF Times
    <3>2. sensors' \in [Pins -> {<<>>} \cup {<<s>> : s \in Sensor}]
      <4>1. \A p \in Pins : sensors'[p] \in {<<>>} \cup {<<s>> : s \in Sensor}
        BY <2>3
      <4> QED
        BY <2>1, <4>1
    <3>3. beyond' \in [Pins -> Nat \cup {-1}]
      BY <1>2, <2>1 DEF TouchTypes
    <3> QED
      BY <3>1, <3>2, <3>3 DEF TouchTypes, Times, Sensor
  <2>5. ASSUME NEW q \in Pins, sensors'[q] # <<>>, sensors'[q][1].start # 0
        PROVE  beyond'[q] >= 0 /\ (toNow' - sensors'[q][1].start) % ClockSize <= beyond'[q]
    <3> DEFINE start == sensors[q][1].start
    <3>1. sensors[q] # <<>> /\ sensors'[q][1].start = start /\ start # 0
      BY <2>3, <2>5
    <3>2. start \in Times
      BY <1>3, <3>1 DEF Sensor
    <3>3. beyond[q] >= 0 /\ (toNow - start) % ClockSize <= beyond[q]
      BY <1>2, <3>1 DEF StartIsBeyond
    <3>4. beyond[q] \in Nat /\ beyond'[q] = beyond[q] + 1
      BY <1>2, <2>1, <3>3 DEF TouchTypes
    <3>5. (toNow' - sensors'[q][1].start) % ClockSize = (toNow' - start) % ClockSize
      BY <3>1
    <3> HIDE DEF start
    <3>6. (toNow' - start) % ClockSize <= ((toNow - start) % ClockSize) + 1
      <4>1. toNow' \in Times
        BY <1>1, <2>2 DEF Times
      <4>2. /\ (toNow - start) % ClockSize
                 = IF toNow >= start THEN toNow - start ELSE toNow - start + ClockSize
            /\ (toNow' - start) % ClockSize
                 = IF toNow' >= start THEN toNow' - start ELSE toNow' - start + ClockSize
        BY <1>1, <2>2, <3>2, <4>1, SinceLemma
      <4> QED
        BY <1>1, <2>2, <3>2, <4>1, <4>2 DEF Times
    <3>7. (toNow - start) % ClockSize \in Int /\ (toNow' - start) % ClockSize \in Int
      BY <1>1, <2>2, <3>2 DEF Times
    <3> QED
      BY <3>3, <3>4, <3>5, <3>6, <3>7
  <2> QED
    BY <2>4, <2>5 DEF TouchInv, StartIsBeyond
<1>8. CASE UNCHANGED TO!vars
  BY <1>2, <1>8 DEF TO!vars, TouchInv, TouchTypes, StartIsBeyond, Times, Sensor
<1> QED
  BY <1>5, <1>6, <1>7, <1>8 DEF TO!Next

(* A fluctuation does not switch a touch sensor, for any number of pins,   *)
(* any values and any width of the clock: it switches only if every level  *)
(* for more than the switch time was beyond the threshold.                 *)
THEOREM TouchesAreAlwaysStable == TO!Spec => TouchesAreStable
<1> DEFINE IsSwitch(p) == /\ sensors[p] # <<>> /\ sensors'[p] # <<>>
                          /\ sensors'[p][1].isOn # sensors[p][1].isOn
<1>0. TO!Init => TouchInv
  BY InitTouch, TouchesAssumption
<1>1. TouchInv /\ [TO!Next]_(TO!vars) => TouchInv'
  BY NextTouch, TouchesAssumption
<1>2. TouchInv /\ [TO!Next]_(TO!vars) =>
        [\A p \in Pins : IsSwitch(p) =>
           sensors'[p][1] = TO!NewSensor \/ beyond[p] > MinSwitchTime]_(TO!vars)
  <2> SUFFICES ASSUME TouchInv, TO!Next, NEW p \in Pins, IsSwitch(p)
               PROVE  sensors'[p][1] = TO!NewSensor \/ beyond[p] > MinSwitchTime
    OBVIOUS
  <2>1. ClockSize \in Nat \ {0} /\ TouchValues \subseteq Int /\ MinSwitchTime \in Nat
    BY TouchesAssumption DEF TO!TouchAssumption
  <2>2. TouchTypes /\ StartIsBeyond
    BY DEF TouchInv
  <2>3. sensors[p][1] \in Sensor
    BY <2>2 DEF TouchTypes
  <2>4. CASE \E q \in Pins : TO!AddSensor(q)
    <3>1. PICK q \in Pins : sensors' = [sensors EXCEPT ![q] = <<TO!NewSensor>>]
      BY <2>4 DEF TO!AddSensor
    <3>2. p = q
      BY <2>2, <3>1 DEF TouchTypes
    <3> QED
      BY <2>2, <3>1, <3>2 DEF TouchTypes
  <2>5. CASE \E q \in Pins : TO!ReadSensor(q)
    <3>1. PICK q \in Pins, level \in TouchValues :
            sensors' = [sensors EXCEPT ![q] =
                          <<TO!Switched(TO!Calibrated(sensors[q][1], level), level)>>]
      BY <2>5 DEF TO!ReadSensor
    <3>2. p = q
      BY <2>2, <3>1 DEF TouchTypes
    <3> DEFINE s == TO!Calibrated(sensors[p][1], level)
               t == TO!Switched(s, level)
    <3>3. s \in Sensor /\ s.start = sensors[p][1].start /\ s.isOn = sensors[p][1].isOn
      BY <2>1, <2>3, CalibratedLemma
    <3>4. sensors'[p][1] = t
      BY <2>2, <3>1, <3>2 DEF TouchTypes
    <3> HIDE DEF s
    <3>5. s.start # 0 /\ (toNow - s.start) % ClockSize > MinSwitchTime
      <4>1. t.isOn # s.isOn
        BY <3>3, <3>4
      <4> QED
        BY <2>1, <2>2, <3>3, <4>1, SwitchedLemma DEF TouchTypes
    <3>6. (toNow - s.start) % ClockSize <= beyond[p] /\ beyond[p] \in Nat
      BY <2>2, <3>3, <3>5 DEF StartIsBeyond, TouchTypes
    <3>7. (toNow - s.start) % ClockSize \in Int
      <4>1. s.start \in Int /\ toNow \in Int
        BY <2>2, <3>3 DEF Sensor, TouchTypes, Times
      <4> QED
        BY <2>1, <4>1
    <3> QED
      BY <2>1, <3>5, <3>6, <3>7
  <2>6. CASE TO!Tick
    <3>1. sensors'[p] = [i \in DOMAIN sensors[p] |->
            [sensors[p][i] EXCEPT !.age = IF @ > CalibrationTime THEN @ ELSE @ + 1]]
      BY <2>6 DEF TO!Tick
    <3> DEFINE s == sensors[p][1]
    <3>2. DOMAIN sensors[p] = {1}
      <4>1. \A r : sensors[p] = <<r>> => DOMAIN sensors[p] = {1}
        OBVIOUS
      <4> QED
        BY <2>2, <4>1 DEF TouchTypes
    <3>3. sensors'[p][1] = [s EXCEPT !.age = IF @ > CalibrationTime THEN @ ELSE @ + 1]
      BY <3>1, <3>2
    <3>4. sensors'[p][1].isOn = s.isOn
      <4> HIDE DEF s
      <4> QED
        BY <2>3, <3>3 DEF Sensor, s
    <3> QED
      BY <3>4
  <2> QED
    BY <2>4, <2>5, <2>6 DEF TO!Next
<1> QED
  BY <1>0, <1>1, <1>2, PTL DEF TO!Spec, TouchesAreStable, TO!SwitchesAreStable
=============================================================================
