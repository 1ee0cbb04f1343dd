---------------------------- MODULE MCNoteOutput ----------------------------
(* DrumKit's note output on a board with two outputs, three notes and a    *)
(* queue of two entries, whose millis() wraps around every few ms.         *)
EXTENDS NoteOutput, TLC

(* Notes and outputs are interchangeable: the safety run uses this. *)
Symmetry == Permutations(Notes) \cup Permutations(Modes)
=============================================================================
