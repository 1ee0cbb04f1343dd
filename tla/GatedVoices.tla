---------------------------- MODULE GatedVoices -----------------------------
(***************************************************************************)
(* What DrumKit's note output promises: a drum machine with a fixed number *)
(* of voices.  Striking a note gives it the newest voice; if the note      *)
(* already has one it moves there, and if all voices are taken the oldest  *)
(* one is stolen.  Voices end in the order in which they began.            *)
(***************************************************************************)
EXTENDS Naturals, Sequences

CONSTANTS Notes,      (* the notes that can be struck                      *)
          MaxVoices   (* the number of voices                              *)

VARIABLE voices       (* the notes that have a voice, the oldest first     *)

Init == voices = <<>>

(* the voices without the k-th one *)
Without(k) ==
  [i \in 1..(Len(voices) - 1) |-> IF i < k THEN voices[i] ELSE voices[i + 1]]

HasNoVoice(note) == \A k \in DOMAIN voices : voices[k] # note

StrikeAgain(note) ==
  \E k \in DOMAIN voices :
    voices[k] = note /\ voices' = Append(Without(k), note)

StrikeNew(note) ==
  /\ HasNoVoice(note)
  /\ Len(voices) < MaxVoices
  /\ voices' = Append(voices, note)

StealOldest(note) ==
  /\ HasNoVoice(note)
  /\ Len(voices) = MaxVoices
  /\ voices' = Append(Without(1), note)

(* some of the oldest voices end, all of them when the board is reset *)
Release(count) ==
  voices' = [i \in 1..(Len(voices) - count) |-> voices[i + count]]

Next ==
  \/ \E note \in Notes : StrikeAgain(note) \/ StrikeNew(note) \/ StealOldest(note)
  \/ \E count \in 1..Len(voices) : Release(count)

Spec == Init /\ [][Next]_voices
=============================================================================
