# A TLA+ verification of EavesDrum

EavesDrum is the firmware of a drum trigger module: it samples piezos, switches and a hi-hat
pedal, decides when a pad was struck or a cymbal was choked, and sends MIDI (or the reports of
a game controller) to one of several outputs. It is configured from a web page that the board
serves itself. This directory specifies the logic of the firmware in TLA+, checks it with TLC
on small instances, and proves part of it with TLAPS for every value of the constants.

All paths are relative to `src/` of the repository; most of the code is in `src/src`.

## 1. The system

The firmware is one endless loop, `loop()` in `main.cpp:49-58`, without threads:

    drumKit.updateDrums()        sample the pads, send MIDI, feed the monitor
    networkConnection.update()   handle the commands of the web page
    midiTransport.update()       let the output do its work (HID reports, BLE, ...)
    UsbDevice::update(), DrumIO::update()

So a web command never runs in the middle of the evaluation of a pad, but it does run between
any two samples of a scan, between a NoteOn and its NoteOff, and between a hit and the message
the monitor sends about it. Interrupts and callbacks exist in the SPI, the Wii and the BLE outputs
and in the USB network. All times are differences of `millis()` (wraps after 49 days) or
`micros()` (wraps after 71 minutes).

| component | code | state | operations | what is hard |
|---|---|---|---|---|
| note output | `drum_kit.cpp:192-241`, `note_event_queue.h` | gate time, queue of pending NoteOffs | poll, hit, restrike, full queue, immediate note | order of the queue, wrap-around, changes of gate time and output with pending notes, reset |
| pad sensing | `sensing/sensing.cpp`, `sensing/sensing_piezo_switch.cpp`, `sensing/latency.cpp` | state machine peak detect, scan, mask, decay; peaks, flags, times | one sample of the pad; latency test | choke against hit, double triggers, wrap-around, commands within a scan, flags left from an earlier iteration |
| scaling | `sensing/scale.cpp` | none | sensor value to MIDI value | ends of the ranges |
| sensor input | `drum_pad.cpp:23-44`, `drum_pin.h` | offset of a pin, balance | read, calibrate | division, unsigned offset, convergence |
| hi-hat pedal | `sensing/controller.cpp`, `drum_kit.cpp:149-168` | position, closing time, last controller value | read, chick, controller message | noise reduction at the ends, wrap-around, a pedal shared by two hi-hats |
| drum kit | `drum_kit.h`, `drum_kit.cpp` | pads, mappings, multiplexers | evaluate, look up roles and mappings | pointers from pads into the mappings |
| monitor | `monitor.cpp`, `monitor_history.*` | history ring, the hit to be shown | add an entry, mark a trigger, send | ring protection, another pad selected while a hit waits |
| web commands | `webui.cpp` | pieces of messages per client, dirty flag | assemble, dispatch, save, restore | frames and pieces of frames, failed writes, reset after a delay |
| configuration | `config/*.cpp` | the file | read, apply, write | missing transports, lost saves |
| multiplexers, connectors | `drum_mux.*`, `config/config_mux.cpp`, `config/config_connectors.cpp` | lines, channel values, indexes | set up, scan, load, save | lines that multiplexers share, indexes that shift |
| output selection | `midi_transport.h:84-210` | selected mode, initialised | start, stop, switch | modes without a transport, two modes of one transport |
| Rock Band drum | `midi_transport_rockband.cpp` | hits held for 20 ms, the HID report | note, report, gamepad | hits that expire unseen or exclude each other, a clock whose 0 stands for none |
| Guitar Hero drum, wired | `midi_transport_guitar_hero_spi.cpp` | pending hits, message buffer | note, interrupts of the console | interrupts between and within the notes, requests given up |
| Guitar Hero drum, Wii | `midi_transport_guitar_hero_wii.cpp`, `lib/wiimote-lib` | hit times, the emulated remote, its keys | note, report, requests of the console | stores torn by interrupts, requests that cross reports |
| Wii Bluetooth link | `wiimote_btstack.c` | connection, timers, pairing | pair, connect, reconnect, shut down | timers against events, a mode that is left in between |
| BLE MIDI client | `boards/rp2040/ble/ble_client.cpp`, `ble_midi_client.c` | state of the library, links, list of a scan | scan, pair, connect, stop | events of links nobody waits for any more |
| BLE MIDI server | `ble_server.cpp`, `ble_midi_server.c`, `ble_midi_pkt_codec.c` | encoder, rings, subscription | write a byte, send, receive | messages cut by a subscription, timestamps that wrap around |
| USB host, gamepad | `midi_transport_tiny_usb_host.cpp`, `usb_host_gamepad.cpp`, `lib/hidparser` | who uses which device, report items | mount, unmount, parse, report | devices that come and go unheard, odd descriptors, pools |
| touch sensors | `boards/rp2040/touch.cpp` | thresholds, calibration, PIO program | assign, read | program memory, readings before calibration, wrap-around |
| USB network, DHCP | `boards/rp2040/network_usb.cpp`, `lib/networking/dhserver.c` | received frame, leases | receive, hand over, send; lease | callbacks while a frame is handled, lost and repeated packets |
| page connection | `webui/src/connection`, `webui/src/config.tsx`, `webui.cpp:463-550` | sockets, timer, copy of the configuration | connect, disconnect, change, upload | old sockets that close late, answers that are overtaken |

What makes each of them correct:

* *note output*: every note that sounds gets its NoteOff, at the first poll after its gate time
  and not before, unless the queue is full; no pad strikes a note that sounds without stopping it
  first (the web page does, when it plays a note).
* *pad sensing*: each peak at its threshold is played exactly once, with a velocity above 0 and
  on a zone that was struck; messages are a mask time apart; a cymbal that is grabbed is choked,
  one that is struck is not; a pad never goes deaf.
* *sensor input*: the learned offset is a value of the ADC and settles at the bias voltage;
  calibrated readings keep the range 0 to 1023.
* *hi-hat pedal*: the receiver knows where the pedal is and each chick is played, although hi-hats that share the pedal sense it again and
  again; a chick means a fast closing (unless `micros()` wraps around meanwhile); a pedal at its end is closed (or open), whatever the noise settings are.
* *monitor*: what the page shows of a hit of a drum are the samples of that hit; every hit is shown in the end.
* *web commands, configuration*: every message is handled once and whole; "saved" means saved.
* *mappings*: a pad's notes are those of its role.
* *multiplexers*: what is read as a channel comes from that channel alone; a saved kit comes back.
* *outputs*: one output runs, the selected one; every note is reported once, while the host polls
  often enough, and what the host makes of a report is what was struck.
* *links* (Wii, BLE): the firmware writes to connections that exist, and is never without something
  that can bring the connection back.
* *gamepad*: what is read from a report is what the gamepad says; what is unplugged is given back.
* *touch sensors*: a fluctuation does not switch.
* *USB network, DHCP*: frames go on being received; an address has one owner.
* *page*: a connected page shows the configuration of the firmware, and whether it is saved.

## 2. The modules

| module | models | constants that are scaled down |
|---|---|---|
| `GatedVoices` | abstract: a drum machine with a fixed number of voices, the oldest one is stolen | |
| `NoteOutput` | the note output of `DrumKit`, `NoteEventQueue`, the phases of the loop, the web commands that touch notes, output switch, reset | queue of 32, 2^32, gate time up to 30 s |
| `Scaling` | `scale()`, linear `curve()` | 1023, 127, 8 |
| `PadSensing` | a drum or cymbal pad: samples, state machine, zones, choke, message, settings, connector, touch sensor, latency test | 1023, 2^32, 2^16, times |
| `SensorInput` | `readInput()`, `updateOffset()` | 1023, 2^16, the balance threshold |
| `HiHatPedal` | a pedal and the messages of the hi-hats that use it | 1023, 127, 2^8, 2^16, 2^32, ms |
| `SlidingWindow` | abstract: a window of the last entries that never loses a marked trigger | |
| `MonitorHistory` | the ring of samples and gaps, the marks, the copy that is sent | ring of 200, 2^16 |
| `Monitor` | `DrumMonitor`: scans, hits and pedal moves of the monitored pad, the hit that waits to be shown, the latency test, the commands of the page | window of 200, 2^32, waits |
| `DrumKitConfig` | pads, roles, the mappings they point at, the configuration file, the commands of the page that change, save and restore them, resets | 20 pads, 32 mappings |
| `KitFile` | multiplexers and connectors: load, save, scan | pins of a board, 8 multiplexers |
| `MidiOutputs` | the selection of the output, the two users of the USB host port | |
| `Rockband` | the Rock Band drum and the generic gamepad, the report, the host | 20 ms, 2^32 |
| `GuitarHeroPads`, `GuitarHeroSpi` | the pads and notes of the drum kit; the wired output | |
| `Wiimote`, `GuitarHeroWii` | the emulated remote as operators on a record; the Wii output, main loop and interrupts | 2^32, queue of the console |
| `WiiLink` | the Bluetooth link of the remote | |
| `BleClient` | the link to a BLE MIDI device | |
| `BleScan` | the scan for BLE MIDI devices, the list and the page | ticks before a silent device is removed, list of 16 |
| `BleMidiCodec`, `BleServer` | the packets of BLE MIDI as operators; the BLE MIDI server | timestamps of 13 bits, packet size, rings |
| `HidGamepad` | parser of report descriptors, reports of a gamepad | stack, usages, pool of 50 items |
| `Touch` | touch sensors | 2^32, times |
| `NetworkUsb`, `Dhcp` | the USB network interface; the table of leases and its clients | leases, packets under way |
| `Links`, `Hosts`, `GamepadPort`, `Touches`, `Multiplexers` | `WiiLink`, `BleClient` and `BleScan`; `MidiOutputs`, `Rockband`, `GuitarHeroSpi`, `GuitarHeroWii`, `NetworkUsb`, `Dhcp` and `WebSession`; `HidGamepad`; `Touch`; `KitFile`: side by side, to be proved about under the names of the runs | |
| `WebSession` | pages and firmware over WebSockets: sockets, frames, the configuration and its copies | queues |
| `NoteOutput_proofs`, `PadSensing_proofs`, `MonitorHistory_proofs`, `Monitor_proofs`, `DrumKitConfig_proofs` | proofs about the module of the name (`PadSensing_proofs`: `Scaling` too; `DrumKitConfig_proofs`: `Multiplexers` too) | |
| `Inputs_proofs` | proofs about `HiHatPedal` and `HidGamepad` | |
| `Transports_proofs` | proofs about the drums for consoles: `Rockband`, `GuitarHeroSpi`, `GuitarHeroWii` | |
| `Devices_proofs` | proofs about the parts of `Links`, the other parts of `Hosts`, `SensorInput` and `Touches` | |
| `MCNoteOutput`, `MCPadSensing`, `MCHiHatPedal`, `MCDrumKitConfig`, `MCDevices` | the instances for TLC (the other modules need none) | |

`PadSensing` and `HiHatPedal` extend `Scaling`; `NoteOutput` refines `GatedVoices`,
and `MonitorHistory` refines `SlidingWindow`; `GuitarHeroWii` builds on `Wiimote`, `BleServer` on `BleMidiCodec`, and both Guitar
Hero outputs on `GuitarHeroPads`. The modules
share no variable: a pad hands a note to the note output by a call that returns nothing and
reads no state of the pad, so `NoteOutput` takes the notes of *any* pads, in any number per
iteration, as input, and `PadSensing` and `HiHatPedal` end at the message they cause.

### NoteOutput

`phase` is the place of the loop: *poll* (`sendPendingMidiNoteOffMessages()`, the first thing
`updateDrums()` does), *pads* (hits arrive), *web* (everything else). Time passes in every phase
(`Tick`), so that a note struck in the middle of an iteration has another time than one struck
before. `sincePoll` bounds the duration of an iteration: the code cannot be right if the loop
stands still for 49 days. `sounding` is what the receivers hear and `abandoned` what was left
sounding by an output switch or a reset; no guard reads them, nor `struckTwice`, which says whether a NoteOn of the
step met a note that sounded. The handlers send several messages, which `NoteOn` and `NoteOffs` apply one after the other to what is
heard, so that `ObserveNoteOn` sees what sounds between a NoteOff and a NoteOn of one step. `PadsStopBeforeTheyStrike` is about the
pads: a note that the page plays (`webui.cpp:269`) or that starts a latency test is struck even while it sounds
(`drum_kit.cpp:192-197`), and its NoteOff comes while the first one is still queued. The queue is a sequence, oldest
first; `RemoveIndex` is the `memmove` of the array. The conversion of a hit to a note is the
mapping's; an unassigned note (255) sends nothing and is no input.

### PadSensing

`Sense` is one call of `evaluatePad()`: clear the flags (`resetHitInfo()`), read, one step of the
state machine, and the message of `evaluateDrum()` or `evaluateCymbalWithNotes()`. The two
implementations of the code, `PiezoSensing` and `PiezoSwitchSensing`, differ in the zones that
can start a scan (`PeakZones`), in what is counted for a switch, and in how the zone of a hit is
chosen; the model has one state machine and these three differences. The decay threshold is a
float in the code; the model computes the same quotient in integers, rounded down, as the
conversion to an integer does. `Pass` is an iteration without the pad, `LatencySense` one in
which a latency test listens to it. Web commands change settings, connector, touch sensor and
the enabled flag at any time, also within a scan. Touch, choke switch and samples are arbitrary
inputs. A pad without an active connector is not sensed but still evaluated, as in the code.

`scanned` remembers what the samples of the scan showed (a peak, a grab, a change of the
settings), `sinceReport` the time since the last message; both are history variables.

The zone type `Zones1_Controller` is the pedal's, and stands in `HiHatPedal`.

### SensorInput

A pin that is read directly or through a multiplexer, for a drum, a cymbal (both `~isPedal`; a cymbal
never calibrates) or a pedal. The division by an offset of 0 is `Undefined`, as what it yields
depends on the processor.

### HiHatPedal

An iteration of the main loop senses the pedal (`SensePedal`) and evaluates the hi-hat (`EvaluateHiHat`) for one of the hi-hats that
use the pedal after the other (`hiHat`), all with the sense time of the iteration. A sensing overwrites `isMoving` and `chick` of the
one before it (`controller.cpp:20-28, 81`), which is harmless because the hi-hat in between has sent them: `ReceiverKnowsThePedal` says
that what was not sent yet waits for the hi-hat it was found for. Without a connector a sensing keeps everything, so that the
last movement and the last chick are sent again for each hi-hat, in every iteration, until there is a connector again. The commands of
the page come between two iterations; `UpdateOtherDrums` is one without hi-hats, or a latency test. Times in ms are quotients of
`micros()`, as in the code, so they wrap around somewhere else than a word of 32 bits does, and `ClosingTimeMs` is the unsigned
difference passed as a signed `long` to `map()`. The percentage of the pedal is compared without rounding. What the code does besides:
the monitor looks at the pedal after the pads were evaluated, so that it misses what only the first sensing of a shared pedal found.

### MonitorHistory and Monitor

An iteration writes up to three entries of the ring: a lone sample once more, a gap, the new
sample. They go through one record (`Ring`), one `AddEntryRaw` after the other, each of which may be
refused because the ring is full. `MonitorHistory` marks and sends in any order in which an end
follows a start, so what holds there holds for whatever `DrumMonitor` does.

`Monitor` keeps of the history only the places of the trigger in the window of the last entries,
which is what the ring comes to, as `ImplementsWindow` shows. One iteration is `UpdateDrums`: new entries,
then the drum, the pedal or the latency test, each up to its message. The events of the pads are
inputs, in the order in which `PadSensing` produces them: a hit or a choke ends a scan and is seen in one
iteration. `Sense` assumes that a scan does not fill the ring (a scan time of a few ms, 200
entries), and an iteration without a new entry passes no ms. One drum and one pedal are enough,
as one pad is monitored at a time; messages about other pads read and change no state of the monitor.

`unshown` collects the hits since the last message in their order, and `shown` those that a message stands for, each up to the first two, which tell one hit from several;
`disturbed` says whether a command of the page, or a scan without a result, came while a trigger was
marked, or a hit of a latency test is to be shown at 0; all three are history variables.

Five things the code does that no property excludes, as nothing in the repository says otherwise: the
discarded scans of a cymbal that is held send the old hit again; a message may show the signals of two pads
when the page changes pads while a hit waits; a latency test that starts then ignores its first hit; a chick replaces a chick or a move of the pedal that waits
for its 100 ms (`monitor.cpp:98-105`), so that the page is told of the last one; and a hit of a latency test whose time to be shown is 0, as `millis()` wraps around, is replaced
by the next one (`monitor.cpp:121-129`).

### DrumKitConfig

A pad keeps a pointer into the array of mappings (`pads[i].mappings`, an index, `None` for a null pointer). Three
places set it: a role that is chosen on the page, a message with mappings, which only finds the *first* pad of
a role, and the deletion of all mappings. A mapping has one note, since the seven notes of the code are handled alike,
and of a pad only what these handlers couple is kept: role, pointer, connector and the enabled flag,
which `applyPadConfig()` clears when there is no connector. Names, groups, settings and the other sections of
the file are stored as they are.

The file is its sections. Writing it fails (the file cannot be opened, which is reported), succeeds, or stops
when the file system is full, which the code neither notices nor reports (`Cut`). `Restart` is a reset, on request, a
second after an upload or by a power failure, at any time; the file system of the board (external) keeps
the old file until the new one is closed. `wereRolesShared` and `fileHolds` are history variables.

Four things the code does that no property excludes, as nothing in the repository says otherwise: a failed
save is shown as saved; a save between an upload and its reset overwrites the upload; a message with mappings
that has the replace marker and no role deletes all; of two pads with one role only the first gets
new mappings. The build for a PC, which cannot reset, is not modelled.

### KitFile

`config` is the multiplexer and connector part of the file. Loading skips what is wrong and shifts the indexes of what
follows; a connector with one wrong pin has none; more connectors than there is room for, and repeated names, are skipped. A multiplexer whose pins
cannot be set up is kept, off and unread. `level` are the lines, `ReadAnalogInPin` the channels that drive
an input, which is what the hardware adds (external). The code never sets `selectPins[3]` of an HC4051, whose type is
then asked from it (`drum_mux.h:40`): `InitMux` takes the type from memory, so that such a multiplexer may be saved as an HC4067 with three select
pins, which the next start rejects. A save between an upload and its restart overwrites the upload.

### MidiOutputs

`running` tells which transport was started in which mode; `Transport` maps modes to the transports of a board. The USB
stack is external: it calls `Mount` and `Unmount` only from the `update()` of a transport that runs it, so that `plugged`, `mounted` and
`renewed` (unplugged unheard) differ. What the code does besides: a mode without a transport is a call through a null
pointer, on each start as the mode is in the file; a MIDI device that is plugged in while the host port serves a gamepad is not used until it is
plugged in again, and vice versa; the gamepad of one output stays registered when the next one has none.

### Rockband

A ms has any number of notes and one `Update`; the host (external) polls at least every `MaxPollMs`. `due` are the hits that the host is
to see, `Decoded` is how the console reads a report. `Room` is the loop that removes the oldest hits until nothing is in conflict, and
`hung` is its never ending: a hit in the last ms before `millis()` wraps around is never the oldest, so
that it cannot be removed. A hit at `millis()` 0 is lost.

### GuitarHeroSpi, Wiimote, GuitarHeroWii

`GuitarHeroSpi` has one action per interrupt (`Collect` for 0xAA, `Offer` for 0x55, `Deselect`) and the console's side. `missing` is
what the console should still hear. A console that asks again before it has fetched, or raises chip select, renounces the buffered hits, and what is
pending when the output is stopped is played at its next start.

`Wiimote` keeps of a remote what the code looks at. `GuitarHeroWii` splits a hit into its stores, between which a report may be fetched, in any order,
as neither is `volatile`. `console` is what the console knows of the encryption from the answers it got. The console is assumed to write the three parts of a
key in order, all of the same key, to an extension it was told of (`IsSensible`); how it uses the remote is otherwise arbitrary. What the code does besides: `reset_ir` is
never cleared, so that every report counts as changed; a hit at `millis()` 0 leaves a button that was down stuck until the next hit; the
note of a hit is lost if the report that goes out is the one that announces the extension; the queue and the key survive a new connection;
each start allocates the EEPROM again (`wiimote.c:838`).

### WiiLink

Timers are sets of armed timers that may fire at any moment; the stack and the console are external. History: `gaveUp` and `interrupted`. What the code does
besides: a pairing that times out leaves the remote dormant although it knows a console; leaving the mode during pairing leaves `isPairing`,
so that the button does nothing later; a connection attempt under way at power-off arms the timer again.

### BleClient

`state` is the library's, `connecting` and `links` are the stack's (external). `stop()` waits for the end of the connection in the main loop (`stopping`).
What the code does besides: after a scan with an open connection another device cannot be chosen (the state is idle, so nothing is
disconnected); a failed attempt may be taken for a connection; a connection is kept unusable after an error of discovery; a change of the pairing
while it waits has no effect.

### BleScan

The list of the library changes in interrupts (`AdvertisingReport`, `Tick`, `DisconnectionComplete`), the main loop reads it once per second (`Update`) and clears
the flag in a step of its own (`ScanResultsSent`), so that ticks fall between. The hash of the list is the set of its devices. History: `silent`, `cutShort`.
What the code does besides: a link that breaks during a scan ends the list's timer while the page waits for devices
(`ble_midi_client.c:415, 101`), and the radio goes on scanning after the scan; a name that comes after the first report is not sent, as the hash is of the addresses only;
if the pairing is changed within a second of the start of a scan the page is not told that it has ended, and its button stays disabled
(`cutShort`). A report of a new device is appended without a look at the length of the array, 16 (`ble_midi_client.c:329-335`); the module assumes that no more than
`MaxScanItems` devices come into reach (`ScanAssumption`), and says nothing of a place with more.

### BleMidiCodec, BleServer

The codec is translated byte by byte, as its state is what goes wrong; `Decode` of the other direction is the firmware's own decoder.
`BleServer` writes the bytes of a message one after the other (`BeginMessage`, `ContinueMessage`), with callbacks between. `due` is what the host is to
hear. What the code does besides: a host that unsubscribes and subscribes again over one link is not served again
(`midi_service_stream_handler.c:194, 208`), and a write of it then goes through a null pointer; a start while the stack shuts down stays off; nobody reads the
messages of the host, so that the ring is full in the end; some legal packets make the decoder loop (`Hangs`); a message that does
not fit into the packet loses its status byte if it is running status (`ble_midi_pkt_codec.c:190`); a wrap-around of the time adds 1 in place of
128.

### HidGamepad

A descriptor is a sequence of items; `Parse` is the parser, `pools` what it holds of its finite pools, and `shown` what the gamepad
means by a report, which comes from the order of the fields alone. Left out by `IsOrderly`: descriptors that go back to an earlier report by a pop, which the code
misreads. More than 50 usable items are a failed assertion (`crashed`); a button without usage moves the others by one; a gamepad that is plugged in while no output uses it is not used until it is
plugged in again.

### Touch

`loaded` counts how often the program was loaded into the PIO (17 of 32 instructions): the second assignment finds no room, and all sensors
use one state machine, so that one sensor works. `beyond` is how long the readings have been beyond the threshold, since the last switch. Readings that do
not vary during calibration leave the maximum at 0 and the sensor deaf; the code reads a sensor only while its cymbal is sensed.

### NetworkUsb and Dhcp

`NetworkUsb` has the callbacks at every place where the USB stack runs, which includes the wait of the output (`TaskRuns`) while a
frame is handled. A frame for which there is no buffer is dropped, and the reception is not renewed (`lost`); an output waits forever while the host
is there but does not read. Two re-entrant paths free a frame twice or lose it (`InitCb` while handling). `Dhcp` has clients
that follow the protocol, and a link that loses packets. Offers reserve nothing, a request without the option is ignored, there is no refusal,
and leases never end. `forgotten` are the clients whose lease a repeated request freed without an answer.

### WebSession

A page has a socket in use and perhaps one that is closing. Messages have a cut: pieces per frame. `stale` are the pages whose copy may be old for a
reason outside of the exchange: another page changed the configuration (pages are not told), a message was lost, or an answer came after
a later change of the page had been sent (the page then shows the old value, and hides the button for saving).
`old` counts the answers that are overtaken. What the code does besides: a message of several frames whose last frame comes whole is lost; answers are dropped when the queue
of a client is full; a late result of an upload is taken for that of the next one; what is changed while the socket is not open is not sent. Commands
that change no configuration are left out.

## 3. What is checked

| run | shows | size |
|---|---|---|
| `note_output` | types, `NotesAreUnique`, `NoNoteHangs`, `NoNoteIsOverdue`, `NotesAreKeptForTheGateTime`; `NoteOutput` implements `GatedVoices` | 3 notes, 2 outputs, queue of 2, clock of 4 ms, gate times 0, 2 and 3 (cut to 2) |
| `note_release` | every queued note is released, under fairness | 2 notes |
| `pads` | `MessagesComeFromScans`, `NoDoubleTrigger`, `EveryPeakIsPlayed`, `NoPhantomChoke` with web commands | 5 pads of two zones (snares, cymbals with switch, touch sensor or two piezos), each changeable into any other |
| `pads_live` | a held cymbal is choked, no pad goes deaf | these and 2 cymbals of three zones, with connectors of 1 and 3 pins |
| `pads_unplug` | **violated**: "isHit() and isChoke() is only true for one sensing period" (`monitor.cpp:74`): a pad whose connector is removed right after a hit sends its note in every iteration | |
| `sensor_input` | offset in range, calibrated readings, the offset settles | ADC of 8 values, threshold 3 |
| `pedal` | `ReceiverKnowsThePedal`, `ChicksTellTheClosingTime`, `PedalReachesItsEnds` | up to 2 hi-hats that share the pedal, ADC of 6 values, clock of 6 ms |
| `monitor_history` | `NoSampleStandsAlone`, `TriggerIsInOrder`; `MonitorHistory` implements `SlidingWindow` | ring of 6, counter of 4 |
| `monitor` | `EachMessageShowsOneHit`, `EveryHitIsShown`, `RecordingGoesOn`, with commands | window of 3, clock of 7 ms, waits of 2, 1 and 1 ms |
| `kit_config` | `PadsPointAtTheirRole`, `UnsharedRoleDecidesTheMappings`, `CleanKitComesBack` | 2 pads, 3 roles, room for 2 mappings |
| `kit_replace` | **violated**: "if there is more than one mapping we assume that the user wants to replace all mappings" (`webui.cpp:248`): with two roles the mappings of the others stay | the same, with room for 3 |
| `devices` | the parts around the drum kit, one per behaviour, see below | 16 parts |

`devices` runs `MCDevices`, which puts the modules of the outputs, hosts, network, sensors, page and multiplexers side by side (those of `Links`, `Hosts`, `Touches` and `Multiplexers` are there already). They share
no state, so that a behaviour is one of a single part, chosen at the start, and the properties of a part are conjoined
under one name:

| property | parts and instances |
|---|---|
| `RockbandTellsTheHits` | `HitsReachTheHost`, `ReportsTellTheHits`, `RoomIsFound`: a pad and two cymbals that exclude each other; as either controller, a pad, a cymbal and a gamepad; hold of 2 ms, clock of 4 |
| `GuitarHeroTellsTheHits` | `NoHitIsLost`, `HitsAreHeardOnce` (wired, pads and a note of two pads); `ReportsShowTheHits`, `NoNoteIsDropped`, `ConsoleKnowsTheKey` (Wii: played, with a gamepad; and with a console that writes keys, reads registers and switches report modes) |
| `WiiLinkRecovers` | `KeepsTrying`, `PairingIsSaved`, `ReportsGoToAConnection`, `PairingEnds`: two consoles |
| `BleClientKeepsGoing` | `NotesGoOverALink`, `WaitingHasAReason`, `StopReturns`: two devices; `ListTellsWhoIsThere`, `FirmwareKnowsThePage`, `PageWillKnowOfTheScan`: a scan with two devices, removed after 2 ticks |
| `BleMessagesAreUnderstood` | `PacketsTellTheNotes`, `PacketsGoOut`, `HostIsUnderstood`: two messages; one message, and three of the host of 1 to 3 bytes; time of 2 values, packets of up to 6 bytes, rings of 2 |
| `OneOutputIsUsed` | `OneTransportRuns`, `UsedDevicesAreThere`: outputs of every kind, two MIDI devices, a gamepad |
| `GamepadIsUnderstood` | `ReportsAreUnderstood`, `PoolsAreGivenBack`: descriptors of two and three blocks out of eleven, with ids, pushes, pops, padding and unusable fields; reports with and without id |
| `TouchesAreStable` | `SwitchesAreStable`: a sensor, readings of 3 values, clock of 7 |
| `NetworkServes` | `LeasesAreKept`: two computers and one address; `ReceptionGoesOn`: two buffers |
| `PagesShowTheConfig` | a page with two sockets; a setting in a frame of two pieces, and an upload in one; a pad in one frame, and a setting in two |
| `MultiplexersAreKept` | `SavedKitComesBack`, `ChannelsAreReadAlone`: three files with up to three multiplexers, wrong nodes, shared lines and pins, an HC4051 |

The view of this run keeps the variables of the chosen part. In some parts it leaves out what no later step and no property reads,
or counts what only its number matters of; for the page the two sockets are interchangeable. The instance has one page, so that the effect of a second one on `stale` is in the module only.

For each property of a passing run there is a mutant, a plausible slip in the code (an operator
whose comment begins "A plausible slip"), that the run detects. Some more slips are in the modules, for the other conjuncts of a property of `devices`: each
breaks the run in the same way.

**Bounds.** Every bound is a constant. The clocks are small so that they wrap around within a
behaviour, several times between two events; all assumptions on them (`..Assumption`) are what
makes differences unambiguous in the code (an iteration plus the longest time waited for is
below the range of the clock). A queue of two with three notes is full, gives up its oldest
note, and holds a note that is struck again in either position. The ADC has as many values as
it takes to have values below, at, between and above two thresholds; the scaling keeps the
shape of the real one, where the top of the range must be cut off (1023 / 8 + 1 = 128). Scans of the pads
last one to three samples, so that a peak, a grab and a command can fall before, into and after
each other. The ring of 6 turns several times around marks of every length and groups of
three entries; the window of 3 tells a trigger at the oldest place, the newest and between. The clock
of the monitor is longer than it takes to fill the window twice, as 200 samples take far less than 49 days:
`EveryHitIsShown` needs that, because a time to be sent may be lost in the wrap-around and the full window makes up for it.
Two pads can share a role, swap their roles, and take one that no pad has; with three roles the array of two is full, and
messages of 0, 1, 2 and 3 roles are on both sides of every limit in `handleSetMappingsRequest()`. Uploads replace one section or both.
In `devices` a pool, ring, table or queue has room for fewer than the instance needs, so that it is full and
refuses; every clock wraps around within a few events; and there are at least two of whatever is confused if it is confused (consoles, devices, clients, sockets, pads in
conflict), but for the touch sensors, of which only one works.
`MaxAge` only saturates a history variable, above the times it is compared with.
The view of the run `pads` leaves out `now` except through the differences the code takes, and
what no later step reads; the runs of liveness use no view and no symmetry.

**Types.** `TypeOK` is checked in `note_output`, `sensor_input`, `monitor_history` and, where a module of `devices` has one, there; in the other modules it
documents the state.

**Fairness.** `loop()` is called forever and the clock advances: weak fairness of the loop's own
steps (`Loop`, `Tick`; `Evaluation` for a pad; `Sensing` and `EvaluateHiHat` for a pedal; `Read` for a pin; in the monitor an
iteration with an entry that is due). No user action, no
command and no sample is fair. `pads_live` has no commands at all: with them a user could disable a
pad for good. `devices` has no liveness: what recovers there (a link, a reception) is stated as an invariant, that something which can bring it
about is under way. In `monitor` the commands stay: `EveryHitIsShown` and `RecordingGoesOn` are conditional on
a page that stays at a pad, and say that a hit is shown or the page delays it.

## 4. What is proved

TLAPS checks these for every value of the constants that meets the named assumptions
(`NoteOutputAssumption`, `PadSensingAssumption`, `SensorInputAssumption`, `ScalingAssumption`, `HiHatPedalAssumption`, `HistoryAssumption`, `MonitorAssumption`, `DrumKitConfigAssumption`,
`LinksAssumption`, `HostsAssumption`, `GamepadPortAssumption`, `TouchesAssumption`, `MultiplexersAssumption`), which TLC evaluates in the runs.

* `NoteTypes`, `QueuedNotesAreUnique`, `NotesDoNotHang` (`NoteOutput_proofs`). The inductive
  invariant is `NoteInv == TypeOK /\ NotesAreUnique /\ NoNoteHangs /\ NothingIsQueuedWithoutGate`. `NoNoteHangs` alone is not
  inductive: `RemoveNote` takes out the first entry of a note, so that the note would still be
  queued, or be released twice, if it could be there again; a full queue that gives up its oldest
  note must have an entry; and with a gate time of 0 a pad does not look into the queue, so that it must be empty when the pads are
  evaluated, which the poll just before sees to, whenever the page has changed the gate time. The proof rests on lemmas on the queue as an array: what `RemoveIndex`,
  `RemoveNote`, `RemoveOldestNotes` and `AddNote` keep, in which order, and how long the result is.
* `NotesAreNotOverdue`. The poll looks at the front only. That is enough
  because the entries are in the order of their ages, and no entry is older than the longest gate
  time plus an iteration, so that ages modulo the clock are true ages: `AgeInv`, on top of `NoteInv`.
  `Tick` is the interesting step, in which a modular age grows by one and must not wrap around.
* `QueueKeepsNotes`: an action property, from the same invariant. An entry leaves the queue at a poll, and then it is among the first ones, all of which
  are due; or at a hit, and then it is the note itself or the oldest entry of a full queue (`HitShape` tells the three cases of a hit apart).
* `NoteOutputIsGatedVoices`: `NoteOutput` implements `GatedVoices`. The notes of the queue are the voices; each
  change of the array is one of the abstract machine (`VoicesOfAppend`, `VoicesOfRemoveIndex`, `VoicesOfRemoveOldest`), and all else is a stutter.
* `PadTypes`, `EveryPeakAlwaysPlays`, `NoChokeIsMadeUp` (`PadSensing_proofs`), for all settings, wirings and resolutions. `ScanHasACause` says that a scan was
  started by a peak, and then the maxima still hold a sample at the configured threshold, or by a choke, unless the settings changed meanwhile. A scan that starts
  while the threshold sinks is the interesting case: the quotient never falls below the configured threshold (`DecayLemma`, `DecayedPeakLemma`). At its end
  the peak must survive the choice of the zone, with any bias, and the curve: a value scales to 0 exactly below its threshold, a bias makes no 0 of a hit, the zone that is chosen
  has a highest value, and the curve maps only 0 to 0 (`ScaleLemma`, `BoostLemma`, `HighestLemma`, `HitZoneLemma`, `SwitchZoneLemma`, `CurveLemma`).
* `MessagesOnlyComeFromScans`, `MessagesStayApart`, if the wiring of a pad only grows (`ZonesStayWired`): settings, touch sensor and the enabled flag
  may change at any time, a connector may be set where there was none and a pad may get more zones. Without that the properties are false, which is what `pads_unplug` finds; the run `pads` has pads of two zones, for which it holds.
  `UnwiredIsSilent` says that no flag is left where `resetHitInfo()` does not clear it; `ReportIsOld` how old the last report is at least in each state of the machine
  (`LeastAge`), as differences of a clock that wraps around: a step lets them grow by no more than the clock (`SensingStepAges`), and the end of a scan is the only one that starts them anew.
* `PedalTypes`, `ReceiverAlwaysKnowsThePedal`, `ChicksSoundWhenFast` (`Inputs_proofs`). The invariant is
  `PedalInv == TypeOK /\ ReceiverKnowsThePedal /\ ClosingInv`. `ClosingInv` ties the time in ms that the firmware keeps to the moment at which the pedal
  left the open position (`MomentStays`): the step that closes it computes the duration from that time alone. That a sensing forgets nothing is a
  matter of turns: it waits until the hi-hat before it was evaluated, and then nothing is left to be sent (`SensingIsSentFirst`). The rest is arithmetic for all
  values: two quotients of times differ by the duration in ms or one more (`ClosingTimeLemma`), a duration below the timeout becomes a velocity above 0 in spite of the
  truncation and the byte it passes through (`FastChick`), and one above it becomes 0 (`SlowChick`).
* `OffsetStaysInRange`, `BalanceNeverLeansOutwards` (`Devices_proofs`). The code steps an
  unsigned offset up and down without looking at the ends of its range. The range alone is not
  inductive: with offset 0 and a balance just above the lower threshold, one more sample below
  would step it to -1. No sample can be below 0, so at an end the balance never leans outwards
  (`NoLeanOutwards`), and it is reset when the end is reached.
* `CalibratedReadings`: a step that reads a calibrated pin yields a sensor value, 0 exactly at the offset,
  full scale at both ends (`DistanceSpansTheRange` and `DistanceAtTheEnds`, on the truncated quotients).
* `TouchesAreAlwaysStable` (`Devices_proofs`) assumes that the times are positive and that
  the clock has room for the values and the calibration (`TouchesAssumption`). `StartIsBeyond` says that the time a sensor keeps is never older
  than its readings are beyond the threshold: the difference of the clock that the code tests may be too small after a wrap-around, and never too great.
* `HistoryTypes`, `TriggersStayInOrder`, `NoLonelySamples` (`MonitorHistory_proofs`), for rings of every size.
  Because a step writes up to three entries, the invariant is one of the record between two entries
  (`RingInv`), and `EntryKeepsRingInv` shows that one entry keeps it; `GapKeepsRingInv` that a gap does,
  whichever of its two entries is refused. `NoSampleStandsAlone` is not inductive: `CounterIsRight` adds that
  `numberValuesAfterLastGap` is 1 when the ring ends in a gap and a sample (and perhaps also after it
  wrapped around, when a sample is doubled needlessly), and that what is doubled is a sample. The arithmetic of
  positions is in lemmas that remove the remainders (`RelativeStep`, `SlotStep`).
* `HistoryIsASlidingWindow` (`MonitorHistory_proofs`): the ring implements `SlidingWindow`, for rings of every size. `EntrySlides` is the heart of it: writing an
  entry over the oldest slot slides the window by one, the places of the marks with it, and a ring that is full refuses it exactly when the start of the trigger
  would leave the window. An iteration is a batch of none to three such steps (`EntriesFill`), a mark is at the last place (`PlaceOfLast`), and the two
  pieces that `copyTo` copies make the window (`CopyIsTheWindow`). It needs one invariant more: marks are set and cleared together (`MarksGoTogether`),
  else the end of a trigger without a start would wander.
* `MonitorTypes`, `EachMessageShowsTheHit` (`Monitor_proofs`), for every length of the ring from 2 entries on, every width of the clock and all waiting times. The property
  speaks of the step that sends; the invariant `TriggerStandsForOneHit` says what a marked trigger is for until then: either one hit waits and is all that happened since the last
  message, or moves and chicks of the pedal and nothing else (`HitIsMarked`), or a scan marked the trigger and its hit is still to come (`ScanIsMarked`). In the latter state nothing must be sent, and nothing is: no time is set, the
  next scan goes on (`lastSensingState`), and a ring that is full ends the scan first, which is the guard of `Sense` (a scan is far shorter than the ring).
  A message is due only while a trigger is marked (`DueIsMarked`), so that none is made of a history without one.
* `KitTypes`, `PadsAlwaysPointAtTheirRole`, `UnsharedRoleAlwaysDecides`, `SavedKitComesBack` (`DrumKitConfig_proofs`). `KitInv` says that pads and
  mappings form a kit of `Kits` (no role twice in the array, pads point at their role), and of `UnsharedKits` (pads also *find* their role) as long as no role was shared.
  Neither property is inductive without the other parts: a role that is in the array twice would be found at another place than the one the
  pad points at. A message, an upload or a file is applied by a fold over its entries; `FoldInvariant` proves by induction on the
  entries that what every entry keeps, the fold keeps. The induction is over a *set* of numbers, as the library's theorems with an operator as parameter cannot be used: a set that
  has 0 and is closed under successors has all numbers, since the others would have a smallest one (`LeastElement`, from the well-foundedness of `<`).
  `RoundTrip` uses it to show that a kit that is written and read is the same but for the order of its pointers, entry by entry (`ReadBackStep`).
* `MultiplexersAreAlwaysKept` (`DrumKitConfig_proofs`), for every file and every set of pins. The kit is made of the file by two folds, over the nodes of the
  multiplexers and, given these, of the connectors; `StepFoldExists` and `FoldedValues` reduce a fold to its steps, so that `MuxNodesLemma` and
  `AddConnectorsLemma` show what is made of any nodes, and that nodes without faults stay as they are. `KitComesBack` is the round trip. For the channels the obvious invariant,
  that a multiplexer is off while another one is read, is not true: one may select its channels with the enable line of another one. `AreOff` excepts the lines that the multiplexer whose turn it is
  selects with, and is kept because a scan ends with the last channel, which leaves all of them high (`LastChannel`): a scan in another order could leave another multiplexer enabled.
  `SelectedLemma` is the arithmetic: lines that differ tell the channel by its bits (`Bits`).
* `WiiLinkAlwaysRecovers` (`Devices_proofs`): the conjunction that the run checks is inductive as it stands.
* `ConnectionAlwaysKeepsGoing`: `BleInv` adds how the states of the library, the stack and the main loop go together: which of them are left when the
  stack is off, and that events still find their handlers.
* `ScanIsAlwaysTold`: `ScanInv` adds that the list holds each device once, and exactly those that were heard within the timeout (`ListOf`). The step that
  needs it is the tick, which goes over the list and removes entries while it does; `VisitLemma` is one visit, `TickLemma` the pass, by induction as above.
* `OneOutputIsAlwaysUsed` (`Devices_proofs`): `OutputsInv` adds that the selected transport is that of the selected mode, and who may hold a device while
  which output runs. It holds for every board, that is every set of transports.
* `ReceptionAlwaysGoesOn` (`NetworkInv`), and `LeasesAreAlwaysKept`: that a client keeps its address is not inductive,
  since its answer or an old request may be under way. `DhcpInv` adds that the packets of a transaction are behind those of earlier ones (`InOrder`),
  that a request asks for what the client wants now (`AsksForItsOwn`), and that what an answer under way grants, and what a client has, is in the
  table, with no stale request that could free it (`AcksAreKept`, `BoundIsKept`). This holds for queues of every length, with losses and repetitions.
* `PagesAlwaysShowTheConfig`, for every number of pages and every cut of messages into frames and pieces. What is checked speaks of moments at which nothing is under way. `WebInv` says what
  holds before: the last change under way to the firmware is what the page shows; if there is none, the page shows the configuration, or an answer is under way or asked for (`CopyWillAgree`).
  That needs to know which answers tell the truth: those sent after the last change do, one that was sent before makes the page stale when it is heard, and the result of an upload is on its
  way to a stale page only, because no configuration before it is current (`AnswersTell`). A command is handled as it was sent because what came of it so far are exactly its first pieces (`PiecesAreInOrder`).
* `RockbandAlwaysTellsTheHits` (`Transports_proofs`), for all strikes and gamepads, every hold time and every clock. That a hit is not removed before the host has seen it is a matter of time:
  `DueAreRecent` bounds how old a hit is while the report before it waits for the host, and then while the main loop has not handed over the next one; both together are less than the hold.
  That the reports tell the hits rests on `Tellable`: of pads and cymbals held together there is one each, which `Room` sees to (`RoomLemma`: it removes hits until there is room, and stops
  before the ninth unless one cannot be removed; `OldestLemma` finds the oldest one). `ToldLemma` reads buttons, flags and hat back, `VelocityLemma` the velocities. A report without hits is
  left to the gamepad, so that no flag of a hit may remain in it (`HitsAreTold`).
* `GuitarHeroAlwaysTellsTheHits` (`Transports_proofs`), for all strikes, gamepads and requests of the console, every hold time, clock and length of the queue.
  The wired drum: `SpiInv` adds to `NoHitIsLost` that the messages under way are about each pad once at most (`OncePerPad`), that the count in the transfer is that of the buffer, and
  that the buffer does not change between the count and the messages. That the array of hits, the messages made of it and what the console hears are the same hits is about sequences that are filtered: `VelocitiesOf`
  and `PendingMessages` are recursive functions, of which `VelocitiesLemma` and the lemma on the pads (each has a note of its own) give the steps.
  The Wii drum: `ConsoleKnowsTheKey` speaks of one report. `WiiInv` says of the state between the reports that each write whose answer the console awaits has an acknowledgement in the queue, in
  the order of the writes (`Due`, `Awaited`), that what the console will know when all of them are read is the key that the remote uses or nothing (`Knows`), that the parts of the key it wrote are those the remote
  has (`PartsAgree`), and that an extension it was told of, or will be by a status under way, stays plugged in. `ProcessLemma` and `GenerateLemma` are the remote's two entry points, a request and a report, for any
  queue; a request may be processed while the answers to others wait and a report is on its way. Acknowledgements are sent in the order of the writes, and extension data only when the queue is
  empty: the console has then read all answers, and a later write does not count for it before it is answered.
* `GamepadIsAlwaysUnderstood` (`Inputs_proofs`), for every descriptor and report, and all sizes of stacks and pool. The property compares two readings of a report: of the items, at the
  offsets the parser gave them, and of the fields in their order. `ParserInv` holds after each item of a descriptor, also when the parser fails: a field is at the `Place` where the fields before it in its report
  end (`IsInPlace`), the items are the wanted fields in their order (`IsChosen`), a report has an id of its own (`IsReports`), and the collections are a list of which the last one is open (`IsCollections`), so that
  as many are released as were acquired. In an orderly descriptor the reports and the ids go together, and the place is the position that the gamepad means (`PositionIsPlace`, `UnderstoodLemma`).
  What is computed item by item is a recursive function; `RecExists` and `RecAgrees` give its steps.
* `BleClientAlwaysKeepsGoing` and `NetworkAlwaysServes` put two of these together, under the name of the run's property; the two specifications share no variable.

Only model-checked: `BleServer` and its codec; and all liveness properties (temporal proofs under fairness and ENABLED are out of the prover's reach).
The codec is a recursive operator on bytes whose meaning another recursion defines, bit by bit, and stays with TLC.

## 5. What is not modelled, and the plan

Left out for good:

* the presentation, JSON and YAML as formats, logging and the event log, LEDs, statistics, initialisation of hardware;
* the simulation on a PC (`boards/native`), which replaces the hardware and the Arduino library;
* USB device and serial MIDI, which are calls of a library; Wi-Fi; the name server, which answers each query from the query
  alone; tables of descriptors and service records; the cipher of the Wii remote and its motion data;
* curves other than the linear one (same end points, see `Scaling`), and physical properties of signals (samples
  are arbitrary).

External, modelled as the firmware relies on them: the Bluetooth and USB stacks, the consoles and hosts, the network, the browser's
sockets, the file system.

**Code that differs from what one expects.** Besides the two runs that are violated, the sections on the modules list what the code
does that the properties leave out. The ones that most look like defects: notes that sound when the output is switched get no
NoteOff at the old receiver (`midi_transport.h:98`, `NoNoteHangs` counts them as abandoned); an HC4051 may be saved as an HC4067; a message of several
WebSocket frames whose last frame arrives whole is lost; a second touch sensor cannot work; a frame that is dropped for lack of a buffer ends the
reception; a BLE host that subscribes again is not served; a pairing of the Wii remote that times out ends its reconnecting.

Planned: proofs about the buffers of `BleServer` (a packet holds whole messages, for every packet size), once its operators are written as recursive functions.
