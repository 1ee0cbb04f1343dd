------------------------------ MODULE KitFile ------------------------------
(***************************************************************************)
(* The multiplexers and connectors of the kit: how they are made from the  *)
(* configuration file and written to it again (config_mux.cpp,             *)
(* config_connectors.cpp, config_file.cpp), and how the multiplexers are   *)
(* read (drum_mux.cpp).                                                    *)
(*                                                                         *)
(* A pin of a connector names a multiplexer by its index.  The index of a  *)
(* multiplexer depends on those before it that the file describes wrongly, *)
(* and multiplexers share the lines of the board: select lines, and an     *)
(* analog input if each is enabled by a line of its own.                   *)
(*                                                                         *)
(* The voltage that is read is the set of channels that drive the input.   *)
(***************************************************************************)
EXTENDS Integers, SequencesExt

CONSTANTS
  Files,         (* the multiplexer and connector nodes of a file          *)
  AnalogPins,    (* that the board has                                      *)
  DigitalPins,
  MaxMux,        (* MAX_MUX_COUNT                                           *)
  MaxConnectors  (* MAX_CONNECTOR_COUNT                                     *)

Unused == 255  (* no enable pin; no multiplexer: a pin of the board; no pin *)
MaxPins == 3
SelectPins == [HC4051 |-> 3, HC4067 |-> 4]

(* The numbers of pins are bytes. *)
MuxNode ==
  [type : DOMAIN SelectPins \cup {"other"}, select : Seq(0..Unused),
   analogIn : 0..Unused, enable : 0..Unused]
Pin == [mux : 0..Unused, index : 0..Unused]
ConnectorNode == [id : STRING, pins : Seq(Pin)]

KitFileAssumption ==
  /\ {MaxMux, MaxConnectors} \subseteq Nat \ {0}
  /\ AnalogPins \cup DigitalPins \subseteq 0..(Unused - 1)
  /\ Files \subseteq [muxes : Seq(MuxNode), connectors : Seq(ConnectorNode)]

VARIABLES
  config,        (* what the file holds                                     *)
  muxes,         (* of the kit                                              *)
  connectors,
  level,         (* digital pins that are high                              *)
  position,      (* the multiplexer and the channel to be read next         *)
  channelBuffer, (* multiplexer -> channel -> what was read, once it was    *)
  savedKit       (* what the file was written from (history variable)       *)

kitVars == <<muxes, connectors>>
vars == <<config, kitVars, level, position, channelBuffer, savedKit>>

NoKit == [muxes |-> <<>>, connectors |-> <<>>]

-----------------------------------------------------------------------------
(* From the file.                                                          *)

(* A node that is wrong makes no multiplexer; absent nodes are empty. *)
ApplyMuxConfig(node) ==
  /\ node.type \in DOMAIN SelectPins
  /\ Len(node.select) = SelectPins[node.type]
  /\ node.analogIn # Unused

(* The pins that can be used are set up, even if others cannot: the        *)
(* multiplexer is off and all its select lines are high.                   *)
InitLevels(node) == ({node.enable} \cup Range(node.select)) \cap DigitalPins

(* The fourth select pin of an HC4051 is never set: what is in memory      *)
(* decides the type that getMuxType() gives later.                         *)
InitMux(node, typeInMemory) ==
  [type |-> IF node.type = "HC4051" THEN typeInMemory ELSE node.type,
   select |-> node.select, analogIn |-> node.analogIn, enable |-> node.enable,
   initialized |-> /\ node.analogIn \in AnalogPins
                   /\ node.enable \in DigitalPins \cup {Unused}
                   /\ Range(node.select) \subseteq DigitalPins]

AddMux(made, node) ==
  IF Len(made) < MaxMux /\ ApplyMuxConfig(node) THEN Append(made, node) ELSE made

MuxNodes(nodes) == FoldLeft(AddMux, <<>>, nodes)

ChannelCount(mux) == 2 ^ Len(mux.select)

IsPinValid(ms, pin) ==
  IF pin.mux = Unused THEN pin.index # Unused
  ELSE pin.mux < Len(ms) /\ pin.index < ChannelCount(ms[pin.mux + 1])

(* A connector with a wrong pin has none, one with too many the first. *)
ApplyPinsConfig(ms, pins) ==
  LET used == SubSeq(pins, 1, IF Len(pins) < MaxPins THEN Len(pins) ELSE MaxPins)
  IN IF \A p \in DOMAIN used : IsPinValid(ms, used[p]) THEN used ELSE <<>>

AddConnector(ms, made, node) ==
  IF \/ Len(made) >= MaxConnectors
     \/ \E c \in DOMAIN made : made[c].id = node.id
  THEN made
  ELSE Append(made, [id |-> node.id, pins |-> ApplyPinsConfig(ms, node.pins)])

AddConnectors(ms, nodes) ==
  FoldLeft(LAMBDA made, node : AddConnector(ms, made, node), <<>>, nodes)

-----------------------------------------------------------------------------
(* To the file.                                                            *)

ConvertMux(mux) ==
  [type |-> mux.type, select |-> mux.select, analogIn |-> mux.analogIn,
   enable |-> mux.enable]

(* A plausible slip: the index is asked instead of the multiplexer. *)
ConvertPinByIndex(pin) == IF pin.mux = 0 THEN [pin EXCEPT !.mux = Unused] ELSE pin

ConvertPin(pin) == pin

ConvertConnector(connector) ==
  [id |-> connector.id,
   pins |-> [p \in DOMAIN connector.pins |-> ConvertPin(connector.pins[p])]]

GetConfig ==
  [muxes |-> [m \in DOMAIN muxes |-> ConvertMux(muxes[m])],
   connectors |-> [c \in DOMAIN connectors |-> ConvertConnector(connectors[c])]]

-----------------------------------------------------------------------------
(* Reading the multiplexers.                                               *)

IsEnabled(mux, high) == mux.enable = Unused \/ mux.enable \notin high

(* The channel that the select lines tell. *)
Selected(mux, high) ==
  LET Bit(i) == IF i <= Len(mux.select) /\ mux.select[i] \in high THEN 2 ^ (i - 1) ELSE 0
  IN Bit(1) + Bit(2) + Bit(3) + Bit(4)

(* What drives an analog input. *)
ReadAnalogInPin(pin, high) ==
  {<<m, Selected(muxes[m], high)>> :
     m \in {n \in DOMAIN muxes : muxes[n].analogIn = pin /\ IsEnabled(muxes[n], high)}}

SelectChannel(mux, channel, high) ==
  LET On(i) == (channel \div 2 ^ (i - 1)) % 2 = 1
  IN (high \ Range(mux.select)) \cup {mux.select[i] : i \in {j \in DOMAIN mux.select : On(j)}}

SetMuxEnabled(mux, enable, high) ==
  IF mux.enable = Unused THEN high
  ELSE IF enable THEN high \ {mux.enable} ELSE high \cup {mux.enable}

(* A plausible slip: the multiplexer stays enabled. *)
AfterReadingEnabled(mux, high) == SetMuxEnabled(mux, TRUE, high)

AfterReading(mux, high) == SetMuxEnabled(mux, FALSE, high)

NextPosition(m, c) ==
  IF muxes[m].initialized /\ c + 1 < ChannelCount(muxes[m]) THEN <<m, c + 1>>
  ELSE <<1 + (m % Len(muxes)), 0>>

(* One channel of scan(); a multiplexer that could not be set up has none. *)
ScanChannel ==
  /\ muxes # <<>>
  /\ LET m == position[1]
         c == position[2]
         mux == muxes[m]
         during == SetMuxEnabled(mux, TRUE, SelectChannel(mux, c, level))
     IN /\ position' = NextPosition(m, c)
        /\ IF mux.initialized
           THEN /\ LET read == ReadAnalogInPin(mux.analogIn, during)
                   IN channelBuffer' = [channelBuffer EXCEPT ![m] =
                        [d \in DOMAIN @ \cup {c} |-> IF d = c THEN read ELSE @[d]]]
                /\ level' = AfterReading(mux, during)
           ELSE UNCHANGED <<channelBuffer, level>>
  /\ UNCHANGED <<config, kitVars, savedKit>>

-----------------------------------------------------------------------------
(* The kit.                                                                *)

(* What a kit made from a file can be. *)
KitsOf(f) ==
  LET nodes == MuxNodes(f.muxes)
  IN {[muxes |-> [m \in DOMAIN nodes |-> InitMux(nodes[m], types[m])],
       connectors |-> AddConnectors(nodes, f.connectors)] :
        types \in [DOMAIN nodes -> DOMAIN SelectPins]}

IsLoaded(f, kit, m, cs, high, at, buffer) ==
  /\ m = kit.muxes /\ cs = kit.connectors
  /\ high = UNION {InitLevels(node) : node \in Range(MuxNodes(f.muxes))}
  /\ at = <<1, 0>>
  /\ buffer = [n \in DOMAIN kit.muxes |-> <<>>]

Init ==
  /\ config \in Files
  /\ savedKit = NoKit
  /\ \E kit \in KitsOf(config) :
       IsLoaded(config, kit, muxes, connectors, level, position, channelBuffer)

(* The save button. *)
SaveDrumKitConfig ==
  /\ config' = GetConfig
  /\ savedKit' = [muxes |-> muxes, connectors |-> connectors]
  /\ UNCHANGED <<kitVars, level, position, channelBuffer>>

(* A file is uploaded, and the board is started again in the end. *)
Upload ==
  /\ config' \in Files
  /\ savedKit' = NoKit
  /\ UNCHANGED <<kitVars, level, position, channelBuffer>>

Restart ==
  /\ \E kit \in KitsOf(config) :
       IsLoaded(config, kit, muxes', connectors', level', position', channelBuffer')
  /\ UNCHANGED <<config, savedKit>>

Next == ScanChannel \/ SaveDrumKitConfig \/ Upload \/ Restart

Spec == Init /\ [][Next]_vars

-----------------------------------------------------------------------------
(* Correctness.                                                            *)

(* The kit that was saved is the one that the next start makes, with the   *)
(* indexes that its connectors use and without what was skipped before.    *)
(* It need not be if it has an HC4051, as its type may be written wrongly. *)
SavedKitComesBack ==
  (savedKit # NoKit /\ \A m \in DOMAIN savedKit.muxes : Len(savedKit.muxes[m].select) = 4)
  => KitsOf(config) = {savedKit}

(* The lines of a multiplexer are its own, as far as its reading needs it: *)
(* it selects with the enable lines of no other one at its input.          *)
IsWired(m) ==
  LET mux == muxes[m]
  IN /\ mux.initialized
     /\ IsInjective(mux.select) /\ mux.enable \notin Range(mux.select)
     /\ \A n \in DOMAIN muxes \ {m} :
          muxes[n].analogIn = mux.analogIn =>
            muxes[n].enable \in DigitalPins \ ({mux.enable} \cup Range(mux.select))

(* What is read as a channel comes from it alone, even if another          *)
(* multiplexer at the input could not be set up (drum_mux.cpp:81).         *)
ChannelsAreReadAlone ==
  \A m \in DOMAIN muxes : IsWired(m) =>
    \A c \in DOMAIN channelBuffer[m] : channelBuffer[m][c] = {<<m, c>>}

=============================================================================
