---------------------------- MODULE SlidingWindow ----------------------------
(***************************************************************************)
(* What the history of the monitor promises: a window of the last entries, *)
(* oldest first, that slides as entries come, except that it stands still  *)
(* when the first entry of a marked trigger would leave it.  A message     *)
(* shows the whole window and where the trigger is in it, and ends the     *)
(* trigger.                                                                *)
(***************************************************************************)
EXTENDS Integers, Sequences

CONSTANTS Size, Entry, MaxBatch

VARIABLES
  window,          (* entries, and the places of the start and the end of   *)
                   (* the trigger, 0 without one                            *)
  message          (* what is shown in this step, if anything               *)

NoMessage == [history |-> <<>>]

Older(place) == IF place = 0 THEN 0 ELSE place - 1

Slide(w, entry) ==
  IF w.start = 1 THEN w
  ELSE [entries |-> Append(Tail(w.entries), entry),
        start |-> Older(w.start), end |-> Older(w.end)]

SlideAll(w, batch) ==
  LET slid[n \in 0..Len(batch)] ==
        IF n = 0 THEN w ELSE Slide(slid[n - 1], batch[n])
  IN slid[Len(batch)]

Init ==
  /\ \E entry \in Entry :
       window = [entries |-> [i \in 1..Size |-> entry], start |-> 0, end |-> 0]
  /\ message = NoMessage

Fill ==
  /\ \E n \in 0..MaxBatch : \E batch \in [1..n -> Entry] :
       window' = SlideAll(window, batch)
  /\ message' = NoMessage

MarkTrigger ==
  /\ \/ window' = [window EXCEPT !.start = Size, !.end = Size]
     \/ window.start # 0 /\ window' = [window EXCEPT !.end = Size]
  /\ message' = NoMessage

Show ==
  /\ window.start # 0
  /\ message' = [history |-> window.entries,
                 start |-> window.start - 1, end |-> window.end - 1]
  /\ window' = [window EXCEPT !.start = 0, !.end = 0]

Next == Fill \/ MarkTrigger \/ Show

Spec == Init /\ [][Next]_<<window, message>>
=============================================================================
