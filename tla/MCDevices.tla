----------------------------- MODULE MCDevices -----------------------------
(***************************************************************************)
(* The parts that stand around the drum kit, one at a time: the outputs    *)
(* with a protocol of their own, the hosts they talk to, the network over  *)
(* USB, the touch sensors, the web pages and the multiplexers.  They share *)
(* no state, so that a behaviour is one of a single part, which is chosen  *)
(* at the start; the others rest.  Each part has a section with its        *)
(* variables, small values of its constants and what is checked of it.     *)
(*                                                                         *)
(* The Bluetooth links are those of Links, the outputs, the drums, the     *)
(* network and the web pages those of Hosts, the gamepad that of           *)
(* GamepadPort, a touch sensor that of Touches, and the multiplexers are   *)
(* those of Multiplexers, with the constants of the configuration: two     *)
(* consoles, two BLE MIDI devices, outputs of every kind with two MIDI     *)
(* devices and a gamepad, two buffers, two computers that ask for the only *)
(* address, one page with two sockets, a pool of five items for gamepads,  *)
(* clocks of 4 and 7 and three multiplexers.                               *)
(*                                                                         *)
(* A variable whose name several parts use is renamed here.  Some parts    *)
(* have a view, without what was sent already or what only carries values. *)
(* A part that rests stays in its initial state, so that its invariant is  *)
(* evaluated for the chosen part only.  Each property says what its part   *)
(* promises, and the type of its state where the part has a TypeOK.        *)
(***************************************************************************)
EXTENDS Integers, Sequences, SequencesExt, Links, Hosts, GamepadPort,
        Touches, Multiplexers

VARIABLE part

-----------------------------------------------------------------------------
(* The Rock Band drum: with a pad, a cymbal and a gamepad that shows a     *)
(* direction, as either controller (RB), and with a pad and two cymbals,   *)
(* which are in conflict (RC).                                             *)
RBStrikes == {<<38, 1>>, <<46, 3>>}
RBGamepadReports ==
  {[hasDPad |-> TRUE, dpad |-> {"DOWN"}, hasAxes |-> FALSE, x |-> 0, y |-> 0,
    pressed |-> {4}]}
RCStrikes == {<<38, 1>>, <<46, 2>>, <<49, 3>>}

RC == INSTANCE Rockband WITH
        Modes <- {"RockbandDrum"}, Strikes <- RCStrikes, GamepadReports <- {},
        ClockSize <- DrumClock,
        now <- rbNow, mode <- rbMode, mounted <- rbMounted, due <- rbDue

ASSUME RC!RockbandAssumption

RBView == <<rbNow, rbMode, ids, hitInfos, hung, RB!host, updated, RB!history,
            hidReport.buttons, hidReport.hat>>

-----------------------------------------------------------------------------
(* The Guitar Hero drum with a cable to the console: strikes of the        *)
(* pads, one of them of a note that has two.                               *)
SPIStrikes == {<<38, 1>>, <<40, 2>>, <<36, 1>>, <<57, 2>>}

(* The drum as a Wiimote, played (GW), and with a console that works on    *)
(* the keys of the encryption (KY).                                        *)
PLStrikes == {<<38, 2>>}
PLGamepadReports == {[pads |-> {2}, buttons |-> {"home"}], [pads |-> {}, buttons |-> {}]}
Report(m, isContinuous, isAcknowledged) ==
  [id |-> "12", mode |-> m, continuous |-> isContinuous, needsAck |-> isAcknowledged]
PLRequests == {Report("35", FALSE, FALSE)}

WriteRegister(a, d) == [id |-> "16", register |-> "a4", address |-> a, data |-> d]
KYRequests ==
  {Report("35", TRUE, FALSE), Report("3e", FALSE, TRUE),
   WriteRegister("f0", "55"), WriteRegister("f0", "aa"), WriteRegister("40", "key"),
   WriteRegister("46", "key"), WriteRegister("4c", "key"),
   [id |-> "16", register |-> "eeprom", offset |-> 5880, size |-> 16],
   [id |-> "17", register |-> "eeprom", offset |-> 0, size |-> 16],
   [id |-> "17", register |-> "a4", address |-> "fa", size |-> 17],
   [id |-> "15"], [id |-> "14", muted |-> FALSE, needsAck |-> FALSE]}

KY == INSTANCE GuitarHeroWii WITH
        Strikes <- {}, GamepadReports <- {},
        Requests <- KYRequests, MaxQueue <- 1, HoldMs <- 0, ClockSize <- 3,
        now <- ghNow, console <- wiiConsole, sent <- wiiSent

ASSUME KY!WiiAssumption

WIView ==
  <<ghNow, hitTimesMs, wii_report.buttons, wii_report.pressed, wasPressed,
    IF storing = <<>> THEN <<>> ELSE <<storing[1].pad, storing[1].left>>,
    wii_report.midi.note, input_report.resetIr,
    [f \in DOMAIN wiimote \ {"midi"} |-> wiimote[f]], wiiConsole,
    IF wiiSent = <<>> THEN <<>>
    ELSE <<wiiSent[1].report,
           IF wiiSent[1].extension = <<>> THEN <<>>
           ELSE <<wiiSent[1].extension[1].key>> >> >>

-----------------------------------------------------------------------------
(* The BLE MIDI server, with a note that begins and one that ends (BS),    *)
(* and with one note and messages of the host of one, two and three bytes  *)
(* (BH).                                                                   *)
VARIABLES bsSelected, bsInitialized, bsStack, bsLink, attached, bsConHandle,
          encoder, from_ble, requested, bsCrashed, clock, writing, bsDue, told
bsVars == <<bsSelected, bsInitialized, bsStack, bsLink, attached,
            bsConHandle, encoder, from_ble, requested, bsCrashed, clock,
            writing, bsDue, told>>

BSMessages == {<<144, 1, 1>>, <<128, 1, 2>>}
BHMessages == {<<144, 1, 1>>}
BHHostMessages == {<<144, 1, 1>>, <<192, 3>>, <<248>>}

BS == INSTANCE BleServer WITH
        Messages <- BSMessages, HostMessages <- {},
        LowSize <- 2, HighSize <- 1, Mtu <- 6, Capacity <- 2, Received <- 2,
        selected <- bsSelected, initialized <- bsInitialized, stack <- bsStack,
        link <- bsLink, con_handle <- bsConHandle, crashed <- bsCrashed, due <- bsDue
BH == INSTANCE BleServer WITH
        Messages <- BHMessages, HostMessages <- BHHostMessages,
        LowSize <- 2, HighSize <- 1, Mtu <- 6, Capacity <- 2, Received <- 2,
        selected <- bsSelected, initialized <- bsInitialized, stack <- bsStack,
        link <- bsLink, con_handle <- bsConHandle, crashed <- bsCrashed, due <- bsDue

ASSUME BS!CodecAssumption /\ BH!CodecAssumption

BSView ==
  <<BS!server, BS!connection, Len(encoder.ring), BS!PacketsTellTheNotes,
    encoder.running,
    IF encoder.next = 0 THEN <<>> ELSE <<encoder.next, encoder.time, encoder.bytes>>,
    Len(from_ble), BS!HostIsUnderstood, requested, clock,
    IF writing = <<>> \/ writing[1].whole THEN writing ELSE writing[1].left>>

(* The host gets the notes as they were written, without waiting for ever, *)
(* and its messages are understood (ble_midi_pkt_codec.c).                 *)
BleMessagesAreUnderstood ==
  part \in {"ble server", "ble host"} =>
    BS!PacketsTellTheNotes /\ BS!PacketsGoOut /\ BS!HostIsUnderstood

-----------------------------------------------------------------------------
(* The descriptors of gamepads: two or three blocks of items, and reports  *)
(* of it with and without an id.                                           *)
Item(t, v) == [tag |-> t, value |-> v]
Usage(u) == [tag |-> "usage", usage |-> u, page |-> "same"]
ButtonUsage(u) == [tag |-> "usage", usage |-> u, page |-> "button"]
Page(p) == Item("usage page", p)
Field(size, count, isConstant) ==
  <<Item("report size", size), Item("report count", count),
    [tag |-> "input", constant |-> isConstant]>>

Blocks ==
  {<<Page("button"), Item("usage minimum", 1), Item("usage maximum", 2)>> \o Field(1, 2, FALSE),
   <<Page("desktop"), Usage(57), Usage(48)>> \o Field(3, 2, FALSE),
   <<Page("desktop"), Usage(144), ButtonUsage(3)>> \o Field(1, 2, FALSE),
   Field(1, 1, TRUE),
   <<[tag |-> "output", constant |-> FALSE]>>,
   <<Item("report id", 1)>>, <<Item("report id", 2)>>, <<Item("push", 0)>>, <<Item("pop", 0)>>,
   <<Usage(48), [tag |-> "collection", constant |-> FALSE]>>, <<[tag |-> "end collection"]>>}
HGDescriptors == {FlattenSeq(b) : b \in UNION {[1..n -> Blocks] : n \in {2, 3}}}
HGReports == {[id |-> i, bits |-> b] : i \in 0..2, b \in {{}, {0}, {1, 4}, {0, 2}, {2, 3, 5}}}

-----------------------------------------------------------------------------
(* A web page: a setting in a frame of two pieces, and a configuration in  *)
(* one frame (WS); a pad in one frame, and a setting in two (WP), of which *)
(* the same is checked (PagesShowTheConfig of Hosts).                      *)
WSRequests ==
  {[cmd |-> "set", value |-> "a", cut |-> <<2>>],
   [cmd |-> "setConfig", value |-> "b", cut |-> <<1>>]}

WPRequests ==
  {[cmd |-> "pad", value |-> "a", cut |-> <<1>>],
   [cmd |-> "set", value |-> "b", cut |-> <<1, 1>>]}

WP == INSTANCE WebSession WITH
        Values <- Configs, Requests <- WPRequests,
        file <- wsFile, resetDue <- wsResetDue, sent <- wsSent,
        answers <- wsAnswers, shown <- wsShown

ASSUME WP!WebAssumption

(* The two sockets of the page are interchangeable, and so are the answers *)
(* that it does not listen to and the copies that are stale.               *)
WSView ==
  LET Of(s) == <<sock[s], wsSent[s], pending[s],
                 IF WS!Listens(s) THEN wsAnswers[s] \o <<old[s]>> ELSE Len(wsAnswers[s])>>
      used == websock["p1"]
      sockets == IF used = WS!NoSocket THEN {Of(s) : s \in WS!Sockets}
                 ELSE <<Of(used), {Of(s) : s \in WS!Sockets \ {used}}>>
  IN <<WS!firmware, used = WS!NoSocket, sockets, timer, connected, waiting,
       shownDirty, stale, IF stale = {} THEN wsShown["p1"] ELSE "any",
       old = old, wsAnswers = wsAnswers, wsShown = wsShown, sock = sock,
       wsSent = wsSent, pending = pending, websock = websock>>

-----------------------------------------------------------------------------
(* The multiplexers and connectors: files with two multiplexers at one     *)
(* input and a third one that selects with the enable line of one of them, *)
(* with wrong nodes and a multiplexer that cannot be set up, and with an   *)
(* HC4051; wrong, repeated and too many connectors.                        *)
Mux(type, select, analogIn, enable) ==
  [type |-> type, select |-> select, analogIn |-> analogIn, enable |-> enable]
Connector(id, pins) == [id |-> id, pins |-> pins]
OnMux(m, c) == [mux |-> m, index |-> c]
OnBoard(pin) == [mux |-> 255, index |-> pin]

KFFiles ==
  {[muxes |-> <<Mux("HC4067", <<2, 3, 4, 5>>, 26, 20), Mux("HC4067", <<2, 3, 4, 5>>, 26, 21),
                Mux("HC4067", <<2, 3, 4, 21>>, 28, 20)>>,
    connectors |-> <<Connector("A", <<OnMux(0, 15), OnMux(1, 3)>>),
                     Connector("B", <<OnMux(3, 0)>>), Connector("A", <<OnBoard(27)>>)>>],
   [muxes |-> <<Mux("HC4051", <<2, 3, 4, 5>>, 26, 20), Mux("HC4067", <<2, 3, 4, 5>>, 26, 21),
                Mux("HC4067", <<2, 3, 4, 99>>, 26, 20), Mux("HC4067", <<2, 3, 4, 5>>, 27, 20),
                Mux("HC4067", <<2, 3, 4, 5>>, 26, 20)>>,
    connectors |-> <<Connector("A", <<OnMux(0, 15), OnMux(1, 1), OnBoard(27), OnBoard(28)>>),
                     Connector("B", <<>>), Connector("C", <<OnBoard(27)>>)>>],
   [muxes |-> <<Mux("HC4051", <<2, 3, 4>>, 26, 255), Mux("HC4067", <<2, 3, 4, 5>>, 27, 99)>>,
    connectors |-> <<Connector("A", <<OnMux(0, 8)>>), Connector("B", <<OnMux(0, 7)>>)>>]}

-----------------------------------------------------------------------------
(* One part at a time.  One that rests has one initial state.              *)

Parts ==
  {"rockband", "rockband gamepad", "spi", "wii", "wii keys", "wii link",
   "ble client", "ble scan", "ble server", "ble host", "outputs", "gamepad", "touch",
   "dhcp", "usb network", "web", "web pads", "kit file"}

vars == <<part, rbVars, spVars, wiVars, wlVars, blVars, scVars, bsVars, moVars,
          hgVars, toVars, dhVars, nuVars, wsVars, kfVars>>

Init ==
  /\ part \in Parts
  /\ RB!Init /\ SP!Init /\ GW!Init /\ BS!Init /\ HG!Init /\ DH!Init /\ NU!Init
  /\ WL!Init /\ (part = "wii link" \/ wlPairingInfo = "none")
  /\ BL!Init /\ (part = "ble client" \/ bcPairingInfo = "none")
  /\ SC!Init
  /\ MO!Init /\ (part = "outputs" \/ moFile = "UsbDevice")
  /\ TO!Init /\ (part = "touch" \/ toNow = 0)
  /\ WS!Init /\ (part \in {"web", "web pads"} \/ value = "a")
  /\ KF!Init
  /\ part = "kit file" \/ (muxes[1].enable = 20 /\ muxes[2].enable = 21)
  /\ vars = vars  (* evaluates every function, which the view would not *)

OthersRest ==
  /\ UNCHANGED part
  /\ IF part \in {"rockband", "rockband gamepad"} THEN TRUE ELSE UNCHANGED rbVars
  /\ IF part = "spi" THEN TRUE ELSE UNCHANGED spVars
  /\ IF part \in {"wii", "wii keys"} THEN TRUE ELSE UNCHANGED wiVars
  /\ IF part = "wii link" THEN TRUE ELSE UNCHANGED wlVars
  /\ IF part = "ble client" THEN TRUE ELSE UNCHANGED blVars
  /\ IF part = "ble scan" THEN TRUE ELSE UNCHANGED scVars
  /\ IF part \in {"ble server", "ble host"} THEN TRUE ELSE UNCHANGED bsVars
  /\ IF part = "outputs" THEN TRUE ELSE UNCHANGED moVars
  /\ IF part = "gamepad" THEN TRUE ELSE UNCHANGED hgVars
  /\ IF part = "touch" THEN TRUE ELSE UNCHANGED toVars
  /\ IF part = "dhcp" THEN TRUE ELSE UNCHANGED dhVars
  /\ IF part = "usb network" THEN TRUE ELSE UNCHANGED nuVars
  /\ IF part \in {"web", "web pads"} THEN TRUE ELSE UNCHANGED wsVars
  /\ IF part = "kit file" THEN TRUE ELSE UNCHANGED kfVars

Next ==
  \/ part = "rockband" /\ RC!Next /\ OthersRest
  \/ part = "rockband gamepad" /\ RB!Next /\ OthersRest
  \/ part = "spi" /\ SP!Next /\ OthersRest
  \/ part = "wii" /\ GW!Next /\ OthersRest
  \/ part = "wii keys" /\ KY!Next /\ OthersRest
  \/ part = "wii link" /\ WL!Next /\ OthersRest
  \/ part = "ble client" /\ BL!Next /\ OthersRest
  \/ part = "ble scan" /\ SC!Next /\ OthersRest
  \/ part = "ble server" /\ BS!Next /\ OthersRest
  \/ part = "ble host" /\ BH!Next /\ OthersRest
  \/ part = "outputs" /\ MO!Next /\ OthersRest
  \/ part = "gamepad" /\ HG!Next /\ OthersRest
  \/ part = "touch" /\ TO!Next /\ OthersRest
  \/ part = "dhcp" /\ DH!Next /\ OthersRest
  \/ part = "usb network" /\ NU!Next /\ OthersRest
  \/ part = "web" /\ WS!Next /\ OthersRest
  \/ part = "web pads" /\ WP!Next /\ OthersRest
  \/ part = "kit file" /\ KF!Next /\ OthersRest

Spec == Init /\ [][Next]_vars

(* Of the part that was chosen. *)
View ==
  CASE part \in {"rockband", "rockband gamepad"} -> <<part, RBView>>
    [] part = "spi" -> <<part, spVars>>
    [] part \in {"wii", "wii keys"} -> <<part, WIView>>
    [] part = "wii link" -> <<part, wlVars>>
    [] part = "ble client" -> <<part, blVars>>
    [] part = "ble scan" -> <<part, scVars>>
    [] part \in {"ble server", "ble host"} -> <<part, BSView>>
    [] part = "outputs" -> <<part, moVars>>
    [] part = "gamepad" -> <<part, hgVars>>
    [] part = "touch" -> <<part, toVars>>
    [] part = "dhcp" -> <<part, dhVars>>
    [] part = "usb network" -> <<part, nuVars>>
    [] part \in {"web", "web pads"} -> <<part, WSView>>
    [] part = "kit file" -> <<part, kfVars>>

=============================================================================
