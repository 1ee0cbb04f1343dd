--------------------------- MODULE GuitarHeroPads ---------------------------
(***************************************************************************)
(* The six pads of the Guitar Hero drum kit and the notes that are played  *)
(* on them (guitar_hero_util.h), for the wired and the Wii kit.            *)
(***************************************************************************)
EXTENDS Naturals

PadIds == <<"Red", "Blue", "Green", "Yellow", "Orange", "Kick">>
Pads == {PadIds[i] : i \in DOMAIN PadIds}

PadNotes ==
  [Red |-> {31, 34, 37, 38, 39, 40}, Blue |-> {47, 48}, Green |-> {41, 43, 45},
   Yellow |-> {22, 26, 42, 44, 46, 50, 54},
   Orange |-> {49, 51, 52, 53, 55, 56, 57, 59}, Kick |-> {33, 35, 36}]

PadIndexToNote(p) ==
  [Red |-> 38, Blue |-> 48, Green |-> 45, Yellow |-> 46, Orange |-> 49, Kick |-> 36][p]

(* The pads a note is played on: one, or none. *)
NoteToPadIds(note) == {p \in Pads : note \in PadNotes[p]}
=============================================================================
