----------------------------- MODULE MidiOutputs -----------------------------
(***************************************************************************)
(* The selection of the MIDI output (midi_transport.h) and the two outputs *)
(* that share the USB host port: the MIDI host and the gamepad             *)
(* (midi_transport_tiny_usb_host.cpp, usb_host.cpp, usb_host_gamepad.cpp). *)
(*                                                                         *)
(* The multiplexer starts and stops transports; two modes may share one.   *)
(* The USB stack calls back only while update() of the selected transport  *)
(* runs it, so devices that come and go meanwhile are heard of later.      *)
(***************************************************************************)
EXTENDS Naturals, FiniteSets

CONSTANTS
  Board,        (* the transports the board has                             *)
  MidiDevices,  (* what may be plugged into the USB host port               *)
  Gamepads

Modes == {"UsbDevice", "UsbHost", "SerialDin", "BleClient", "BleServer",
          "GuitarHeroDrumSPI", "GuitarHeroDrumWii", "RockbandDrum", "GamepadUsb"}
NoTransport == "nullptr"
Off == "off"
NoUsbDevice == "none"
Transport(mode) == IF mode = "GamepadUsb" THEN "RockbandDrum" ELSE mode

OutputsAssumption ==
  /\ "UsbDevice" \in Board /\ Board \subseteq {Transport(m) : m \in Modes}
  /\ MidiDevices \cap Gamepads = {} /\ NoUsbDevice \notin MidiDevices \cup Gamepads

(* getTransportInstance() *)
Instance(mode) == IF Transport(mode) \in Board THEN Transport(mode) ELSE NoTransport

VARIABLES
  file,              (* the mode in the configuration file                  *)
  initialized,
  selectedMode,
  selectedTransport,
  crashed,           (* a call through a null pointer: the board hangs      *)
  running,           (* transport -> the mode it was started with, or off   *)
  hostUp,            (* tuh_inited()                                        *)
  midiEnabled,
  midiDevice,        (* devIndex of the MIDI host                           *)
  gamepadOf,         (* the transport the gamepad reports to, or off        *)
  gamepad,           (* devIndex of the gamepad host                        *)
  plugged,           (* what is in the USB host port (through a hub)        *)
  mounted,           (* what the USB stack takes for plugged in             *)
  renewed            (* of these, what was taken out meanwhile              *)

mux == <<file, initialized, selectedMode, selectedTransport, crashed, running>>
host == <<hostUp, midiEnabled, midiDevice, gamepadOf, gamepad>>
usb == <<plugged, mounted, renewed>>
vars == <<mux, host, usb>>

UsesGamepad == {"RockbandDrum", "GuitarHeroDrumWii"}

-----------------------------------------------------------------------------
(* start() and stop() of a transport.  UsbHost::begin() may find no free   *)
(* PIO or DMA channel, and is tried again by the next start.               *)
Started(t, mode, was) == [was EXCEPT ![t] = mode]
Stopped(t, was) == [was EXCEPT ![t] = Off]

HostStart(t) ==
  IF t \in UsesGamepad \cup {"UsbHost"}
  THEN hostUp' \in {hostUp, TRUE} ELSE UNCHANGED hostUp

(* The gamepad is never stopped; its reports go to who started it last.    *)
StartHost(t, enabled, device) ==
  /\ HostStart(t)
  /\ midiEnabled' = (enabled \/ t = "UsbHost")
  /\ midiDevice' = device
  /\ gamepadOf' = IF t \in UsesGamepad THEN t ELSE gamepadOf
  /\ UNCHANGED gamepad

(* A plausible slip: the new transport is started before the old is        *)
(* stopped.                                                                *)
RunningAfterLateStop(old, new, mode) == Stopped(old, Started(new, mode, running))
RunningAfter(old, new, mode) == Started(new, mode, Stopped(old, running))

(* A plausible slip: the MIDI device is kept for the next start. *)
DeviceKept(old) == midiDevice
DeviceAfterStop(old) == IF old = "UsbHost" THEN NoUsbDevice ELSE midiDevice
EnabledAfterStop(old) == old # "UsbHost" /\ midiEnabled

(* setOutputMode(): the old transport is stopped and the new one started,  *)
(* if the multiplexer itself was started.                                  *)
SetOutputMode(mode) ==
  LET old == selectedTransport
      new == Instance(mode)
  IN  IF mode = selectedMode
      THEN UNCHANGED <<selectedMode, selectedTransport, crashed, running, host>>
      ELSE /\ selectedMode' = mode /\ selectedTransport' = new
           /\ IF ~initialized THEN UNCHANGED <<crashed, running, host>>
              ELSE IF new = NoTransport
              THEN crashed' = TRUE /\ running' = Stopped(old, running) /\ UNCHANGED host
              ELSE /\ running' = RunningAfter(old, new, mode)
                   /\ StartHost(new, EnabledAfterStop(old), DeviceAfterStop(old))
                   /\ UNCHANGED crashed

-----------------------------------------------------------------------------
(* setup(): the configuration is applied first, then start() is called.    *)
LoadConfig ==
  /\ ~initialized /\ ~crashed
  /\ SetOutputMode(file)
  /\ UNCHANGED <<file, initialized, usb>>

StartSelected ==
  /\ ~initialized /\ ~crashed /\ selectedMode = file
  /\ IF selectedTransport = NoTransport
     THEN crashed' = TRUE /\ UNCHANGED <<initialized, running, host>>
     ELSE /\ initialized' = TRUE
          /\ running' = Started(selectedTransport, selectedMode, running)
          /\ StartHost(selectedTransport, midiEnabled, midiDevice)
          /\ UNCHANGED crashed
  /\ UNCHANGED <<file, selectedMode, selectedTransport, usb>>

(* The web page offers getSupportedOutputModes() only; the configuration   *)
(* that is uploaded may name any.                                          *)
SelectMode(mode) ==
  /\ initialized /\ ~crashed
  /\ Instance(mode) # NoTransport
  /\ SetOutputMode(mode)
  /\ UNCHANGED <<file, initialized, usb>>

SaveConfig ==
  /\ initialized /\ ~crashed
  /\ file' = selectedMode
  /\ UNCHANGED <<initialized, selectedMode, selectedTransport, crashed, running, host, usb>>

(* A new configuration is written, and then the board resets. *)
Boot(mode) ==
  /\ file' = mode
  /\ initialized' = FALSE /\ crashed' = FALSE
  /\ selectedMode' = "UsbDevice" /\ selectedTransport' = "UsbDevice"
  /\ running' = [t \in Board |-> Off]
  /\ hostUp' = FALSE
  /\ midiEnabled' = FALSE /\ midiDevice' = NoUsbDevice
  /\ gamepadOf' = Off /\ gamepad' = NoUsbDevice
  /\ mounted' = {} /\ renewed' = {}
  /\ UNCHANGED plugged

Reset == Boot(file)
Upload(mode) == initialized /\ ~crashed /\ Boot(mode)

-----------------------------------------------------------------------------
(* The USB host port. *)
Plug(d) ==
  /\ d \notin plugged
  /\ plugged' = plugged \cup {d}
  /\ UNCHANGED <<mux, host, mounted, renewed>>

Unplug(d) ==
  /\ d \in plugged
  /\ plugged' = plugged \ {d}
  /\ renewed' = IF d \in mounted THEN renewed \cup {d} ELSE renewed
  /\ UNCHANGED <<mux, host, mounted>>

(* update() of the selected transport runs tuh_task_ext(). *)
RunsHost == ~crashed /\ initialized /\ hostUp
            /\ selectedTransport \in UsesGamepad \cup {"UsbHost"}

(* tuh_midi_umount_cb(), tuh_hid_umount_cb(), unmountDevice() *)
Unmount(d) ==
  /\ RunsHost /\ d \in renewed
  /\ mounted' = mounted \ {d} /\ renewed' = renewed \ {d}
  /\ midiDevice' = IF midiEnabled /\ midiDevice = d THEN NoUsbDevice ELSE midiDevice
  /\ gamepad' = IF gamepadOf # Off /\ gamepad = d THEN NoUsbDevice ELSE gamepad
  /\ UNCHANGED <<mux, hostUp, midiEnabled, gamepadOf, plugged>>

(* tuh_midi_mount_cb(), tuh_hid_mount_cb(): one device at a time; who is   *)
(* not enabled does not hear of it later.                                  *)
Mount(d) ==
  /\ RunsHost /\ d \in plugged \ mounted
  /\ mounted' = mounted \cup {d}
  /\ midiDevice' = IF d \in MidiDevices /\ midiEnabled /\ midiDevice = NoUsbDevice
                   THEN d ELSE midiDevice
  /\ gamepad' = IF d \in Gamepads /\ gamepadOf # Off /\ gamepad = NoUsbDevice
                THEN d ELSE gamepad
  /\ UNCHANGED <<mux, hostUp, midiEnabled, gamepadOf, plugged, renewed>>

Init ==
  /\ file \in Modes
  /\ initialized = FALSE /\ crashed = FALSE
  /\ selectedMode = "UsbDevice" /\ selectedTransport = "UsbDevice"
  /\ running = [t \in Board |-> Off]
  /\ hostUp = FALSE
  /\ midiEnabled = FALSE /\ midiDevice = NoUsbDevice
  /\ gamepadOf = Off /\ gamepad = NoUsbDevice
  /\ plugged = {} /\ mounted = {} /\ renewed = {}

Next ==
  \/ LoadConfig
  \/ StartSelected
  \/ \E mode \in Modes : SelectMode(mode)
  \/ SaveConfig
  \/ Reset
  \/ \E mode \in Modes : Upload(mode)
  \/ \E d \in MidiDevices \cup Gamepads : Plug(d)
  \/ \E d \in MidiDevices \cup Gamepads : Unplug(d)
  \/ \E d \in MidiDevices \cup Gamepads : Unmount(d)
  \/ \E d \in MidiDevices \cup Gamepads : Mount(d)

Spec == Init /\ [][Next]_vars

-----------------------------------------------------------------------------
TypeOK ==
  /\ {file, selectedMode} \subseteq Modes
  /\ selectedTransport \in Board \cup {NoTransport}
  /\ running \in [Board -> Modes \cup {Off}]
  /\ {initialized, crashed, hostUp, midiEnabled} \subseteq BOOLEAN
  /\ midiDevice \in MidiDevices \cup {NoUsbDevice}
  /\ gamepad \in Gamepads \cup {NoUsbDevice}
  /\ gamepadOf \in UsesGamepad \cup {Off}
  /\ mounted \subseteq MidiDevices \cup Gamepads /\ renewed \subseteq mounted

(* The selected transport runs, in the selected mode, and no other does,   *)
(* also if two modes share a transport; the board hangs only because of a  *)
(* file that names a mode it does not have (setOutputMode, start).         *)
OneTransportRuns ==
  /\ initialized =>
       running = [t \in Board |-> IF t = selectedTransport THEN selectedMode ELSE Off]
  /\ ~initialized => \A t \in Board : running[t] = Off
  /\ crashed => Instance(file) = NoTransport

(* A device that is used is one that the USB stack knows, although devices *)
(* are taken out while nobody listens and transports are stopped while     *)
(* they are used (devIndex, enabled); and the MIDI device is used by the   *)
(* MIDI host only.                                                         *)
UsedDevicesAreThere ==
  /\ {midiDevice, gamepad} \subseteq mounted \cup {NoUsbDevice}
  /\ midiDevice # NoUsbDevice => selectedTransport = "UsbHost"

(* The choice of the output as a whole (midi_transport.h:96). *)
OneOutputIsUsed == TypeOK /\ OneTransportRuns /\ UsedDevicesAreThere
=============================================================================
