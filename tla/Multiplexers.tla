---------------------------- MODULE Multiplexers ----------------------------
(***************************************************************************)
(* The multiplexers and connectors of the board and their file (KF).       *)
(***************************************************************************)
EXTENDS Integers

CONSTANTS
  Files, AnalogPins, DigitalPins, MaxMux, MaxConnectors

VARIABLES config, muxes, connectors, level, position, channelBuffer, savedKit
kfVars == <<config, muxes, connectors, level, position, channelBuffer,
            savedKit>>

KF == INSTANCE KitFile

ASSUME MultiplexersAssumption == KF!KitFileAssumption

-----------------------------------------------------------------------------
(* The multiplexers come back as they were saved, and a channel is read    *)
(* alone (config_mux.cpp, drum_mux.cpp:81).                                *)
MultiplexersAreKept == KF!SavedKitComesBack /\ KF!ChannelsAreReadAlone
=============================================================================
