-------------------------------- MODULE Hosts --------------------------------
(***************************************************************************)
(* The hosts and servers of the board: the choice of the MIDI output and   *)
(* who uses the USB host (MO), the Rock Band drum (RB), the Guitar Hero    *)
(* drum with a cable (SP) and as a Wii remote (GW), the network over USB   *)
(* (NU), its DHCP server (DH) and the web pages (WS).  They share no       *)
(* state, so that a behaviour is one of a single part.  A variable whose   *)
(* name several parts use is renamed.                                      *)
(***************************************************************************)
EXTENDS Integers

CONSTANTS
  Board, MidiDevices, Gamepads,  (* outputs of the board, what is plugged in *)
  DrumModes, Strikes,            (* modes of the drum, what is played on it  *)
  GamepadReports,                (* and what a gamepad does meanwhile        *)
  HoldMs, MaxPollMs, DrumClock,  (* its times, and the size of its clock     *)
  SpiStrikes,                    (* what is played on the wired drum         *)
  WiiStrikes, WiiGamepads,       (* and on the Wii drum, its gamepad,        *)
  WiiRequests, MaxWiiAnswers,    (* what the console asks for, how much,     *)
  WiiHoldMs, WiiClock,           (* its time, and the size of its clock      *)
  Buffers,                       (* frames that the USB driver holds         *)
  Clients, Entries, MaxQueue,    (* computers, addresses, packets under way  *)
  Pages, Configs, Changes,       (* web pages and what they send             *)
  MaxSent, MaxQueued             (* messages that wait                       *)

VARIABLES moFile, moInitialized, selectedMode, selectedTransport, moCrashed,
          running, hostUp, midiEnabled, midiDevice, gamepadOf, gamepad,
          moPlugged, moMounted, renewed
moVars == <<moFile, moInitialized, selectedMode, selectedTransport,
            moCrashed, running, hostUp, midiEnabled, midiDevice, gamepadOf,
            gamepad, moPlugged, moMounted, renewed>>

MO == INSTANCE MidiOutputs WITH
        file <- moFile, initialized <- moInitialized, crashed <- moCrashed,
        plugged <- moPlugged, mounted <- moMounted

VARIABLES rbNow, rbMode, ids, origIds, hitInfos, hidReport, hung, endpoint,
          rbMounted, sincePoll, updated, rbDue, offered
rbVars == <<rbNow, rbMode, ids, origIds, hitInfos, hidReport, hung, endpoint,
            rbMounted, sincePoll, updated, rbDue, offered>>

RB == INSTANCE Rockband WITH
        Modes <- DrumModes, ClockSize <- DrumClock,
        now <- rbNow, mode <- rbMode, mounted <- rbMounted, due <- rbDue

VARIABLES started, pendingPadHits, midiNoteBuffer, midiNoteBufferCount, tx,
          spiConsole, missing
spVars == <<started, pendingPadHits, midiNoteBuffer, midiNoteBufferCount,
            tx, spiConsole, missing>>

SP == INSTANCE GuitarHeroSpi WITH Strikes <- SpiStrikes, console <- spiConsole

VARIABLES ghNow, hitTimesMs, wii_report, wasPressed, storing, input_report,
          wiimote, wiiConsole, wiiSent
wiVars == <<ghNow, hitTimesMs, wii_report, wasPressed, storing,
            input_report, wiimote, wiiConsole, wiiSent>>

GW == INSTANCE GuitarHeroWii WITH
        Strikes <- WiiStrikes, GamepadReports <- WiiGamepads,
        Requests <- WiiRequests, MaxQueue <- MaxWiiAnswers,
        HoldMs <- WiiHoldMs, ClockSize <- WiiClock,
        now <- ghNow, console <- wiiConsole, sent <- wiiSent

VARIABLES entries, client, requests, dhAnswers, forgotten
dhVars == <<entries, client, requests, dhAnswers, forgotten>>

DH == INSTANCE Dhcp WITH answers <- dhAnswers

VARIABLES nuMounted, suspended, usb_link_up, received_frame, handling, sending,
          holds, armed, lost
nuVars == <<nuMounted, suspended, usb_link_up, received_frame, handling,
            sending, holds, armed, lost>>

NU == INSTANCE NetworkUsb WITH mounted <- nuMounted

VARIABLES value, isConfigDirty, wsFile, wsResetDue, sock, wsSent, wsAnswers,
          pending, websock, timer, connected, waiting, wsShown, shownDirty,
          stale, old
wsVars == <<value, isConfigDirty, wsFile, wsResetDue, sock, wsSent,
            wsAnswers, pending, websock, timer, connected, waiting, wsShown,
            shownDirty, stale, old>>

WS == INSTANCE WebSession WITH
        Values <- Configs, Requests <- Changes,
        file <- wsFile, resetDue <- wsResetDue, sent <- wsSent,
        answers <- wsAnswers, shown <- wsShown

ASSUME HostsAssumption ==
  /\ MO!OutputsAssumption /\ RB!RockbandAssumption /\ SP!StrikesAssumption
  /\ GW!WiiAssumption /\ DH!DhcpAssumption /\ NU!NetworkUsbAssumption
  /\ WS!WebAssumption

-----------------------------------------------------------------------------
(* One output runs, the selected one, and the devices it uses are there    *)
(* (midi_transport.h:96, usb_host_gamepad.cpp).                            *)
OneOutputIsUsed == MO!OneOutputIsUsed

(* The host sees every hit that the protocol has room for, and what it     *)
(* reads from a report is what was hit; room for a new hit is found        *)
(* (midi_transport_rockband.cpp:352).                                      *)
RockbandTellsTheHits ==
  /\ [](RB!TypeOK /\ RB!RoomIsFound)
  /\ RB!HitsReachTheHost /\ RB!ReportsTellTheHits

(* No hit is lost between the main loop and the console's polls, and none  *)
(* is heard twice; reports show the pads that are held, no note is dropped *)
(* while the console listens, and it can decrypt what it gets              *)
(* (midi_transport_guitar_hero_spi.cpp:49, wiimote.c).                     *)
GuitarHeroTellsTheHits ==
  /\ [](SP!TypeOK /\ SP!NoHitIsLost) /\ SP!HitsAreHeardOnce
  /\ [](GW!TypeOK /\ GW!ConsoleKnowsTheKey)
  /\ GW!ReportsShowTheHits /\ GW!NoNoteIsDropped

(* An address has one owner, and frames are received again after each one  *)
(* (dhserver.c:349, network_usb.cpp:193).                                  *)
NetworkServes == DH!LeasesAreKept /\ NU!ReceptionGoesOn

(* A connected page shows the configuration of the firmware, once its      *)
(* changes have arrived (connection.ts:79, webui.cpp:493).                 *)
PagesShowTheConfig == WS!PagesShowTheConfig
=============================================================================
