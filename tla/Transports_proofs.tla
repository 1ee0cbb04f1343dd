-------------------------- MODULE Transports_proofs --------------------------
(***************************************************************************)
(* Theorems about the drums that the board is for a console: the Rock Band *)
(* drum (Rockband) and the Guitar Hero drums, the wired one                *)
(* (GuitarHeroSpi) and the one of the Wii (GuitarHeroWii); for all         *)
(* strikes, gamepads and requests, and every time a hit is held.           *)
(*                                                                         *)
(* A theorem is about the specification of the drum that it names.         *)
(***************************************************************************)
EXTENDS Hosts, Sequences, FiniteSets, SequenceTheorems, FiniteSetTheorems,
        WellFoundedInduction, TLAPS

(* Induction over the natural numbers up to a bound, for sets. *)
LEMMA InductionUpTo ==
  ASSUME NEW n \in Nat, NEW S, 0 \in S, \A i \in 0..(n - 1) : i \in S => i + 1 \in S
  PROVE  0..n \subseteq S
<1> DEFINE T == (0..n) \ S
<1> SUFFICES ASSUME T # {} PROVE FALSE
  OBVIOUS
<1>1. T \subseteq Nat
  OBVIOUS
<1>2. PICK x \in T : \A y \in T : ~(<<y, x>> \in OpToRel(<, Nat))
  <2> HIDE DEF T
  <2> QED
    BY <1>1, WFMin, NatLessThanWellFounded
<1>3. x \in 0..n /\ x \notin S /\ x # 0
  BY <1>2
<1>4. x - 1 \in 0..(n - 1) /\ (x - 1) + 1 = x /\ x - 1 \in Nat /\ x \in Nat /\ x - 1 < x
      /\ x - 1 \in 0..n
  BY <1>3
<1>5. <<x - 1, x>> \in OpToRel(<, Nat)
  BY <1>4 DEF OpToRel
<1>6. x - 1 \in S
  BY <1>2, <1>4, <1>5
<1> QED
  BY <1>3, <1>4, <1>6

-----------------------------------------------------------------------------
(* The Rock Band drum.  Its pads and cymbals, name by name.                *)
DrumPads == {"Red_Pad", "Yellow_Pad", "Blue_Pad", "Green_Pad"}
Cymbals == {"Yellow_Cymbal", "Blue_Cymbal", "Green_Cymbal"}
Pedals == {"Kick", "HiHatPedal"}

LEMMA PadsLemma ==
  /\ RB!Pads = DrumPads \cup Cymbals \cup Pedals
  /\ RB!Elements(RB!RBPads) = DrumPads
  /\ RB!Elements(RB!RBCymbals) = Cymbals
  /\ DOMAIN RB!PedalButtons = Pedals
  /\ \A p : RB!IsPad(p) <=> p \in DrumPads
  /\ \A p : RB!IsCymbal(p) <=> p \in Cymbals
<1>1. RB!Pads = DrumPads \cup Cymbals \cup Pedals
  BY DEF RB!Pads, RB!PadNotes, DrumPads, Cymbals, Pedals
<1>2. RB!Elements(RB!RBPads) = DrumPads
  BY DEF RB!Elements, RB!RBPads, DrumPads
<1>3. RB!Elements(RB!RBCymbals) = Cymbals
  BY DEF RB!Elements, RB!RBCymbals, Cymbals
<1>4. DOMAIN RB!PedalButtons = Pedals
  BY DEF RB!PedalButtons, Pedals
<1> QED
  BY <1>1, <1>2, <1>3, <1>4 DEF RB!IsPad, RB!IsCymbal

(* A sequence of three parts. *)
LEMMA ThreeParts ==
  ASSUME NEW S, NEW a \in Seq(S), NEW b \in Seq(S), NEW c \in Seq(S),
         Len(a) = 4, Len(b) = 3, Len(c) = 2
  PROVE  /\ (a \o b) \o c \in Seq(S) /\ Len((a \o b) \o c) = 9
         /\ \A i \in 1..4 : ((a \o b) \o c)[i] = a[i]
         /\ \A i \in 5..7 : ((a \o b) \o c)[i] = b[i - 4]
         /\ \A i \in 8..9 : ((a \o b) \o c)[i] = c[i - 7]
<1> DEFINE d == a \o b
<1>1. /\ d \in Seq(S) /\ Len(d) = Len(a) + Len(b)
      /\ \A i \in 1..(Len(a) + Len(b)) : d[i] = IF i <= Len(a) THEN a[i] ELSE b[i - Len(a)]
  BY ConcatProperties
<1> HIDE DEF d
<1>4. d \in Seq(S)
  BY <1>1
<1> DEFINE e == d \o c
<1>2. /\ e \in Seq(S) /\ Len(e) = Len(d) + Len(c)
      /\ \A i \in 1..(Len(d) + Len(c)) : e[i] = IF i <= Len(d) THEN d[i] ELSE c[i - Len(d)]
  BY <1>4, ConcatProperties
<1> HIDE DEF e
<1>3. /\ e \in Seq(S) /\ Len(e) = 9
      /\ \A i \in 1..4 : e[i] = a[i]
      /\ \A i \in 5..7 : e[i] = b[i - 4]
      /\ \A i \in 8..9 : e[i] = c[i - 7]
  BY <1>1, <1>2
<1> QED
  BY <1>3 DEF d, e

(* Every pad has a number. *)
LEMMA IndexLemma ==
  /\ RB!PadIds[1] = "Red_Pad" /\ Len(RB!PadIds) = 9
  /\ \A p \in RB!Pads : RB!Index(p) \in 1..9
  /\ \A p, q \in RB!Pads : RB!Index(p) = RB!Index(q) => p = q
<1> DEFINE pedals == <<"Kick", "HiHatPedal">>
<1>1. /\ RB!PadIds \in Seq(RB!Pads) /\ Len(RB!PadIds) = 9
      /\ \A i \in 1..4 : RB!PadIds[i] = RB!RBPads[i]
      /\ \A i \in 5..7 : RB!PadIds[i] = RB!RBCymbals[i - 4]
      /\ \A i \in 8..9 : RB!PadIds[i] = pedals[i - 7]
  <2>1. /\ RB!RBPads \in Seq(RB!Pads) /\ Len(RB!RBPads) = 4
        /\ RB!RBCymbals \in Seq(RB!Pads) /\ Len(RB!RBCymbals) = 3
        /\ pedals \in Seq(RB!Pads) /\ Len(pedals) = 2
    BY PadsLemma DEF RB!RBPads, RB!RBCymbals, DrumPads, Cymbals, Pedals
  <2>2. RB!PadIds = (RB!RBPads \o RB!RBCymbals) \o pedals
    BY DEF RB!PadIds
  <2> HIDE DEF pedals
  <2> QED
    BY <2>1, <2>2, ThreeParts
<1>2. DOMAIN RB!PadIds = 1..9 /\ Len(RB!PadIds) = 9 /\ RB!PadIds[1] = "Red_Pad"
  BY <1>1 DEF RB!RBPads
<1>3. ASSUME NEW p \in RB!Pads
      PROVE  RB!Index(p) \in 1..9 /\ RB!PadIds[RB!Index(p)] = p
  <2>1. \E i \in 1..9 : RB!PadIds[i] = p
    <3>1. \/ p = RB!PadIds[1] \/ p = RB!PadIds[2] \/ p = RB!PadIds[3]
          \/ p = RB!PadIds[4] \/ p = RB!PadIds[5] \/ p = RB!PadIds[6]
          \/ p = RB!PadIds[7] \/ p = RB!PadIds[8] \/ p = RB!PadIds[9]
      BY <1>1, PadsLemma DEF DrumPads, Cymbals, Pedals, RB!RBPads, RB!RBCymbals
    <3>2. {1, 2, 3, 4, 5, 6, 7, 8, 9} \subseteq 1..9
      OBVIOUS
    <3> QED
      BY <3>1, <3>2
  <2> QED
    BY <1>2, <2>1 DEF RB!Index
<1> QED
  BY <1>2, <1>3

(* The time since a hit, and how it grows. *)
LEMMA ElapsedLemma ==
  ASSUME NEW c \in Nat \ {0}, NEW n \in 0..(c - 1), NEW t \in 0..(c - 1)
  PROVE  (n + c - t) % c = IF n >= t THEN n - t ELSE n + c - t
<1>1. \A b \in Nat \ {0} : \A k \in 0..(b - 1) : k % b = k /\ (k + b) % b = k
  OBVIOUS
<1>2. CASE n >= t
  <2>1. n - t \in 0..(c - 1) /\ n + c - t = (n - t) + c
    BY <1>2
  <2> QED
    BY <1>1, <1>2, <2>1
<1>3. CASE n < t
  <2>1. n + c - t \in 0..(c - 1)
    BY <1>3
  <2> QED
    BY <1>1, <1>3, <2>1
<1> QED
  BY <1>2, <1>3

LEMMA TickLater ==
  ASSUME NEW c \in Nat \ {0}, NEW n \in 0..(c - 1), NEW t \in 0..(c - 1),
         ((n + c - t) % c) + 1 < c
  PROVE  /\ (n + 1) % c \in 0..(c - 1)
         /\ (((n + 1) % c) + c - t) % c = ((n + c - t) % c) + 1
<1>1. (n + 1) % c = IF n + 1 = c THEN 0 ELSE n + 1
  OBVIOUS
<1> DEFINE m == (n + 1) % c
<1>2. m \in 0..(c - 1) /\ (m = IF n + 1 = c THEN 0 ELSE n + 1)
  BY <1>1
<1> HIDE DEF m
<1>3. (m + c - t) % c = IF m >= t THEN m - t ELSE m + c - t
  BY <1>2, ElapsedLemma
<1>4. (n + c - t) % c = IF n >= t THEN n - t ELSE n + c - t
  BY ElapsedLemma
<1> QED
  BY <1>2, <1>3, <1>4 DEF m
-----------------------------------------------------------------------------
(* Which hits are held together.                                           *)
Held(hits) == {p \in RB!Pads : hits[p].timeMs # 0}
HeldPads(hits) == {p \in RB!Pads : RB!IsPad(p) /\ hits[p].timeMs # 0}
HeldCymbals(hits) == {p \in RB!Pads : RB!IsCymbal(p) /\ hits[p].timeMs # 0}

(* A pad and a cymbal are the only ones of their kind. *)
Tellable(held) ==
  \A p \in held \cap DrumPads, c \in held \cap Cymbals :
    held \cap DrumPads = {p} /\ held \cap Cymbals = {c}

(* The cardinality that the module of the drum uses. *)
LEMMA SameCardinality == ASSUME NEW S PROVE RB!Cardinality(S) = Cardinality(S)
BY DEF RB!Cardinality, Cardinality

LEMMA PadsAreFinite == IsFiniteSet(RB!Pads) /\ Cardinality(RB!Pads) <= 9
<1> DEFINE f == [p \in RB!Pads |-> RB!Index(p)]
<1>1. \A n \in Int : IsFiniteSet(1..n) /\ Cardinality(1..n) = IF 1 > n THEN 0 ELSE n - 1 + 1
  BY FS_Interval
<1>2. IsFiniteSet(1..9) /\ Cardinality(1..9) = 9
  <2>1. 9 \in Int /\ 9 - 1 + 1 = 9 /\ ~(1 > 9)
    OBVIOUS
  <2> QED
    BY <1>1, <2>1
<1>3. f \in [RB!Pads -> 1..9] /\ \A p, q \in RB!Pads : f[p] = f[q] => p = q
  BY IndexLemma
<1> HIDE DEF f
<1>4. f \in Injection(RB!Pads, 1..9)
  BY <1>3 DEF Injection, IsInjective
<1> QED
  BY <1>2, <1>4, FS_Injection

(* A conflict is between two hits at least; without one there is room.     *)
LEMMA ConflictLemma ==
  ASSUME NEW hits, NEW new
  PROVE  /\ RB!HasConflict(hits, new) =>
              \E p, q \in Held(hits) : p # q
         /\ ~RB!HasConflict(hits, new) /\ new \in DrumPads =>
              \/ HeldCymbals(hits) = {}
              \/ HeldPads(hits) = {} /\ \E c : HeldCymbals(hits) = {c}
         /\ ~RB!HasConflict(hits, new) /\ new \in Cymbals =>
              \/ HeldPads(hits) = {}
              \/ HeldCymbals(hits) = {} /\ \E p : HeldPads(hits) = {p}
<1> DEFINE n == Cardinality(HeldPads(hits))
           m == Cardinality(HeldCymbals(hits))
<1>1. /\ IsFiniteSet(HeldPads(hits)) /\ IsFiniteSet(HeldCymbals(hits))
  <2>1. HeldPads(hits) \subseteq RB!Pads /\ HeldCymbals(hits) \subseteq RB!Pads
    BY DEF HeldPads, HeldCymbals
  <2> QED
    BY <2>1, PadsAreFinite, FS_Subset
<1>2. /\ n \in Nat /\ m \in Nat
      /\ n = 0 <=> HeldPads(hits) = {}
      /\ m = 0 <=> HeldCymbals(hits) = {}
      /\ n = 1 <=> \E p : HeldPads(hits) = {p}
      /\ m = 1 <=> \E c : HeldCymbals(hits) = {c}
  BY <1>1, FS_CardinalityType, FS_EmptySet, FS_Singleton
<1>3. RB!HasConflict(hits, new) <=>
        \/ new \in DrumPads /\ m # 0 /\ ~(n = 0 /\ m = 1)
        \/ new \in Cymbals /\ n # 0 /\ ~(m = 0 /\ n = 1)
  <2>1. RB!HasConflict(hits, new) <=>
          \/ RB!IsPad(new) /\ m # 0 /\ ~(n = 0 /\ m = 1)
          \/ RB!IsCymbal(new) /\ n # 0 /\ ~(m = 0 /\ n = 1)
    <3>1. /\ RB!Cardinality(HeldPads(hits)) = n
          /\ RB!Cardinality(HeldCymbals(hits)) = m
      BY SameCardinality DEF n, m
    <3> QED
      BY <3>1, Zenon DEF RB!HasConflict, HeldPads, HeldCymbals
  <2> QED
    BY <2>1, PadsLemma
<1>4. /\ HeldPads(hits) \subseteq Held(hits) /\ HeldCymbals(hits) \subseteq Held(hits)
      /\ HeldPads(hits) \cap HeldCymbals(hits) = {}
  BY PadsLemma DEF HeldPads, HeldCymbals, Held, DrumPads, Cymbals
<1> HIDE DEF n, m
<1>5. ~(new \in DrumPads /\ new \in Cymbals)
  BY DEF DrumPads, Cymbals
<1>6. RB!HasConflict(hits, new) => \E p, q \in Held(hits) : p # q
  <2>1. CASE HeldPads(hits) # {} /\ HeldCymbals(hits) # {}
    BY <1>4, <2>1
  <2>2. CASE HeldPads(hits) = {} /\ HeldCymbals(hits) # {} /\ m # 1
    BY <1>2, <1>4, <2>2
  <2>3. CASE HeldCymbals(hits) = {} /\ HeldPads(hits) # {} /\ n # 1
    BY <1>2, <1>4, <2>3
  <2> QED
    BY <1>2, <1>3, <2>1, <2>2, <2>3
<1> QED
  BY <1>2, <1>3, <1>5, <1>6

(* A new hit for which there is room can be told from the others. *)
LEMMA RoomIsTellable ==
  ASSUME NEW hits, NEW new \in RB!Pads, Tellable(Held(hits)), ~RB!HasConflict(hits, new)
  PROVE  Tellable(Held(hits) \cup {new})
<1>1. /\ Held(hits) \cap DrumPads = HeldPads(hits)
      /\ Held(hits) \cap Cymbals = HeldCymbals(hits)
  BY PadsLemma DEF Held, HeldPads, HeldCymbals
<1>2. DrumPads \cap Cymbals = {}
  BY DEF DrumPads, Cymbals
<1>3. CASE new \in DrumPads
  <2>1. \/ HeldCymbals(hits) = {}
        \/ HeldPads(hits) = {} /\ \E c : HeldCymbals(hits) = {c}
    BY <1>3, ConflictLemma
  <2> QED
    BY <1>1, <1>2, <1>3, <2>1 DEF Tellable
<1>4. CASE new \in Cymbals
  <2>1. \/ HeldPads(hits) = {}
        \/ HeldCymbals(hits) = {} /\ \E p : HeldPads(hits) = {p}
    BY <1>4, ConflictLemma
  <2> QED
    BY <1>1, <1>2, <1>4, <2>1 DEF Tellable
<1>5. CASE new \notin DrumPads /\ new \notin Cymbals
  BY <1>5 DEF Tellable
<1> QED
  BY <1>3, <1>4, <1>5

(* Fewer hits are told apart all the more. *)
LEMMA FewerAreTellable ==
  ASSUME NEW held, NEW fewer \in SUBSET held, Tellable(held)
  PROVE  Tellable(fewer)
BY DEF Tellable
-----------------------------------------------------------------------------
(* Room for a new hit.                                                     *)
Hit == [timeMs : 0..(DrumClock - 1), velocity : 0..127]

(* Those that may be removed as the oldest one. *)
Removable(hits) == {p \in RB!Pads : hits[p].timeMs \in 1..(DrumClock - 2)}

(* If some can, the oldest of them is removed, otherwise the first pad is. *)
LEMMA OldestLemma ==
  ASSUME NEW hits \in [RB!Pads -> Hit], RB!RockbandAssumption
  PROVE  /\ RB!OldestHit(hits) \in RB!Pads
         /\ Removable(hits) # {} => RB!OldestHit(hits) \in Removable(hits)
<1> DEFINE weight(p) == 10 * hits[p].timeMs + RB!Index(p)
           W == {weight(p) : p \in Removable(hits)}
<1>1. /\ DrumClock \in Nat
      /\ \A p \in RB!Pads : hits[p].timeMs \in Nat /\ RB!Index(p) \in 1..9
  BY IndexLemma DEF RB!RockbandAssumption, Hit
<1>2. Removable(hits) \subseteq RB!Pads
  BY DEF Removable
<1>3. CASE Removable(hits) # {}
  <2>1. W \subseteq Nat /\ W # {}
    BY <1>1, <1>2, <1>3
  <2>2. PICK w \in W : \A v \in W : ~(<<v, w>> \in OpToRel(<, Nat))
    <3> HIDE DEF W
    <3> QED
      BY <2>1, WFMin, NatLessThanWellFounded
  <2>3. \A v \in W : w <= v
    <3> SUFFICES ASSUME NEW v \in W, v < w PROVE FALSE
      <4> HIDE DEF W
      <4> QED
        BY <2>1
    <3>1. v \in Nat /\ w \in Nat
      BY <2>1
    <3>2. <<v, w>> \in OpToRel(<, Nat)
      <4> HIDE DEF W
      <4> QED
        BY <3>1 DEF OpToRel
    <3> QED
      BY <2>2, <3>2
  <2>4. PICK p \in Removable(hits) : w = weight(p)
    BY <2>2
  <2>5. \A q \in Removable(hits) :
          \/ hits[p].timeMs < hits[q].timeMs
          \/ hits[p].timeMs = hits[q].timeMs /\ RB!Index(p) <= RB!Index(q)
    <3> SUFFICES ASSUME NEW q \in Removable(hits)
                 PROVE  \/ hits[p].timeMs < hits[q].timeMs
                        \/ hits[p].timeMs = hits[q].timeMs /\ RB!Index(p) <= RB!Index(q)
      OBVIOUS
    <3>1. weight(q) \in W
      OBVIOUS
    <3>2. weight(p) <= weight(q)
      <4> HIDE DEF W, weight
      <4> QED
        BY <2>3, <2>4, <3>1
    <3>3. /\ hits[p].timeMs \in Nat /\ RB!Index(p) \in 1..9
          /\ hits[q].timeMs \in Nat /\ RB!Index(q) \in 1..9
      BY <1>1, <1>2
    <3> QED
      BY <3>2, <3>3
  <2>6. RB!OldestHit(hits) \in Removable(hits)
    <3> HIDE DEF W, weight
    <3> QED
      BY <1>3, <2>4, <2>5 DEF RB!OldestHit, Removable
  <2> QED
    BY <1>2, <2>6
<1>4. CASE Removable(hits) = {}
  <2>1. RB!OldestHit(hits) = RB!PadIds[1]
    BY <1>4 DEF RB!OldestHit, Removable
  <2>2. "Red_Pad" \in RB!Pads
    BY PadsLemma DEF DrumPads
  <2> QED
    BY <1>4, <2>1, <2>2, IndexLemma
<1> QED
  BY <1>3, <1>4

(* A step of the removal. *)
MakeRoom(hits, new) == IF RB!HasConflict(hits, new) THEN RB!RemoveOldestHit(hits) ELSE hits

(* What is left of the hits, one step after the other. *)
IsRoom(new, n, after) ==
  after = [k \in 0..n |-> IF k = 0 THEN hitInfos ELSE MakeRoom(after[k - 1], new)]

LEMMA RoomExists ==
  ASSUME NEW new, NEW n \in Nat
  PROVE  \E after : IsRoom(new, n, after)
<1> DEFINE S == {i \in 0..n : \E after : IsRoom(new, i, after)}
<1>1. 0 \in S
  <2> DEFINE f == [k \in 0..0 |-> hitInfos]
  <2>1. IsRoom(new, 0, f)
    BY DEF IsRoom
  <2> QED
    BY <2>1
<1>2. ASSUME NEW i \in 0..(n - 1), i \in S
      PROVE  i + 1 \in S
  <2>1. PICK f : IsRoom(new, i, f)
    BY <1>2
  <2>2. f = [k \in 0..i |-> IF k = 0 THEN hitInfos ELSE MakeRoom(f[k - 1], new)]
    BY <2>1 DEF IsRoom
  <2> DEFINE h == [k \in 0..(i + 1) |-> IF k = i + 1 THEN MakeRoom(f[i], new) ELSE f[k]]
  <2>3. ASSUME NEW k \in 0..(i + 1)
        PROVE  h[k] = IF k = 0 THEN hitInfos ELSE MakeRoom(h[k - 1], new)
    <3>1. CASE k = i + 1
      <4>1. k # 0 /\ k - 1 = i /\ i \in 0..(i + 1) /\ i # i + 1
        BY <3>1
      <4>2. h[k - 1] = f[i]
        BY <4>1
      <4> QED
        BY <3>1, <4>1, <4>2
    <3>2. CASE k # i + 1
      <4>1. /\ k \in 0..i /\ h[k] = f[k]
            /\ f[k] = IF k = 0 THEN hitInfos ELSE MakeRoom(f[k - 1], new)
        BY <2>2, <3>2
      <4>2. k # 0 => h[k - 1] = f[k - 1]
        BY <4>1
      <4> HIDE DEF h
      <4> QED
        BY <4>1, <4>2
    <3> QED
      BY <3>1, <3>2
  <2>4. h = [k \in 0..(i + 1) |-> h[k]]
    OBVIOUS
  <2> HIDE DEF h
  <2>5. h = [k \in 0..(i + 1) |-> IF k = 0 THEN hitInfos ELSE MakeRoom(h[k - 1], new)]
    BY <2>3, <2>4
  <2>6. IsRoom(new, i + 1, h)
    BY <2>5 DEF IsRoom
  <2> QED
    BY <2>6
<1> HIDE DEF S
<1>3. 0..n \subseteq S
  BY <1>1, <1>2, InductionUpTo
<1> QED
  BY <1>3 DEF S

LEMMA RoomIsRoom ==
  ASSUME NEW new
  PROVE  \E after : IsRoom(new, 9, after) /\ RB!Room(new) = after[9]
<1>1. 9 \in Nat
  OBVIOUS
<1>2. \E after : IsRoom(new, 9, after)
  BY <1>1, RoomExists
<1> DEFINE after == CHOOSE f : IsRoom(new, 9, f)
<1>3. IsRoom(new, 9, after)
  BY <1>2
<1>4. RB!Room(new) = after[9]
  BY IndexLemma DEF RB!Room, IsRoom, MakeRoom
<1> QED
  BY <1>3, <1>4

(* Hits are left as they are or removed, but never all of them. *)
LeftOf(hits) ==
  /\ hits \in [RB!Pads -> Hit]
  /\ \A p \in RB!Pads : hits[p] = hitInfos[p] \/ hits[p] = RB!NoHit
  /\ Held(hitInfos) # {} => Held(hits) # {}

(* A hit of the last ms before the clock wraps around. *)
HasLastMs(hits) == \E p \in RB!Pads : hits[p].timeMs = DrumClock - 1

(* After n steps there is room, or n hits were removed, or one is left     *)
(* that cannot be.                                                         *)
Counted(hits, new, n) ==
  \/ HasLastMs(hits)
  \/ ~RB!HasConflict(hits, new)
  \/ Cardinality(Held(hits)) + n <= 9

LEMMA RemoveLemma ==
  ASSUME NEW hits \in [RB!Pads -> Hit], RB!RockbandAssumption
  PROVE  /\ RB!RemoveOldestHit(hits) \in [RB!Pads -> Hit]
         /\ \E o \in RB!Pads :
              /\ Removable(hits) # {} => o \in Removable(hits)
              /\ RB!RemoveOldestHit(hits)[o] = RB!NoHit
              /\ \A p \in RB!Pads \ {o} : RB!RemoveOldestHit(hits)[p] = hits[p]
              /\ Held(RB!RemoveOldestHit(hits)) = Held(hits) \ {o}
<1> DEFINE o == RB!OldestHit(hits)
           h == RB!RemoveOldestHit(hits)
<1>1. o \in RB!Pads /\ (Removable(hits) # {} => o \in Removable(hits))
  BY OldestLemma
<1>2. h = [hits EXCEPT ![o] = RB!NoHit]
  BY DEF RB!RemoveOldestHit
<1>3. RB!NoHit \in Hit /\ RB!NoHit.timeMs = 0
  BY DEF RB!NoHit, Hit, RB!RockbandAssumption
<1> HIDE DEF o, h
<1>4. h \in [RB!Pads -> Hit] /\ h[o] = RB!NoHit /\ \A p \in RB!Pads \ {o} : h[p] = hits[p]
  BY <1>1, <1>2, <1>3
<1>5. Held(h) = Held(hits) \ {o}
  BY <1>3, <1>4 DEF Held
<1> QED
  BY <1>1, <1>4, <1>5 DEF h

LEMMA MakeRoomLemma ==
  ASSUME NEW hits, NEW new, RB!RockbandAssumption, NEW n \in Nat,
         LeftOf(hits), Counted(hits, new, n)
  PROVE  LeftOf(MakeRoom(hits, new)) /\ Counted(MakeRoom(hits, new), new, n + 1)
<1>1. CASE ~RB!HasConflict(hits, new)
  BY <1>1 DEF MakeRoom, Counted
<1>2. CASE RB!HasConflict(hits, new)
  <2> DEFINE h == RB!RemoveOldestHit(hits)
  <2>1. hits \in [RB!Pads -> Hit] /\ MakeRoom(hits, new) = h
    BY <1>2 DEF LeftOf, MakeRoom
  <2>2. /\ h \in [RB!Pads -> Hit]
        /\ \E o \in RB!Pads :
             /\ Removable(hits) # {} => o \in Removable(hits)
             /\ h[o] = RB!NoHit
             /\ \A p \in RB!Pads \ {o} : h[p] = hits[p]
             /\ Held(h) = Held(hits) \ {o}
    BY <2>1, RemoveLemma
  <2> HIDE DEF h
  <2>3. PICK o \in RB!Pads :
          /\ Removable(hits) # {} => o \in Removable(hits)
          /\ h[o] = RB!NoHit
          /\ \A p \in RB!Pads \ {o} : h[p] = hits[p]
          /\ Held(h) = Held(hits) \ {o}
    BY <2>2
  <2>4. PICK p1 \in Held(hits), p2 \in Held(hits) : p1 # p2
    BY <1>2, ConflictLemma
  <2>5. LeftOf(h)
    BY <2>2, <2>3, <2>4 DEF LeftOf
  <2>6. DrumClock \in Nat /\ \A p \in RB!Pads : hits[p].timeMs \in 0..(DrumClock - 1)
    BY <2>1 DEF RB!RockbandAssumption, Hit
  <2>7. ASSUME HasLastMs(hits)
        PROVE  HasLastMs(h)
    <3>1. CASE Removable(hits) # {}
      <4>1. PICK p \in RB!Pads : hits[p].timeMs = DrumClock - 1
        BY <2>7 DEF HasLastMs
      <4>2. o # p
        BY <2>3, <2>6, <3>1, <4>1 DEF Removable
      <4> QED
        BY <2>3, <4>1, <4>2 DEF HasLastMs
    <3>2. CASE Removable(hits) = {}
      <4>1. ASSUME NEW p \in Held(hits)
            PROVE  p \in RB!Pads /\ hits[p].timeMs = DrumClock - 1
        BY <2>6, <3>2 DEF Removable, Held
      <4>2. PICK p \in Held(hits) : p # o
        BY <2>4
      <4> QED
        BY <2>3, <4>1, <4>2 DEF HasLastMs
    <3> QED
      BY <3>1, <3>2
  <2>8. ASSUME ~HasLastMs(hits)
        PROVE  Cardinality(Held(h)) + n + 1 <= 9
    <3>1. \A p \in Held(hits) : p \in Removable(hits)
      BY <2>6, <2>8 DEF Removable, Held, HasLastMs
    <3>2. o \in Held(hits)
      <4>1. o \in Removable(hits)
        BY <2>3, <2>4, <3>1
      <4> QED
        BY <4>1 DEF Removable, Held
    <3>3. IsFiniteSet(Held(hits))
      <4>1. Held(hits) \subseteq RB!Pads
        BY DEF Held
      <4> QED
        BY <4>1, PadsAreFinite, FS_Subset
    <3>4. /\ Cardinality(Held(hits)) \in Nat
          /\ Cardinality(Held(h)) = Cardinality(Held(hits)) - 1
      BY <2>3, <3>2, <3>3, FS_RemoveElement, FS_CardinalityType
    <3>5. Cardinality(Held(hits)) + n <= 9
      BY <1>2, <2>8 DEF Counted
    <3> QED
      BY <3>4, <3>5
  <2>9. Counted(h, new, n + 1)
    <3>1. CASE HasLastMs(hits)
      BY <2>7, <3>1 DEF Counted
    <3>2. CASE ~HasLastMs(hits)
      <4>1. Cardinality(Held(h)) + n + 1 <= 9
        BY <2>8, <3>2
      <4>2. IsFiniteSet(Held(h))
        <5>1. Held(h) \subseteq RB!Pads
          BY DEF Held
        <5> QED
          BY <5>1, PadsAreFinite, FS_Subset
      <4>3. Cardinality(Held(h)) \in Nat
        BY <4>2, FS_CardinalityType
      <4> QED
        BY <4>1, <4>3 DEF Counted
    <3> QED
      BY <3>1, <3>2
  <2> QED
    BY <2>1, <2>5, <2>9
<1> QED
  BY <1>1, <1>2

(* What Room() returns: there is room, or a hit cannot be removed.         *)
LEMMA RoomLemma ==
  ASSUME hitInfos \in [RB!Pads -> Hit], NEW new, RB!RockbandAssumption
  PROVE  /\ LeftOf(RB!Room(new))
         /\ RB!HasConflict(RB!Room(new), new) => HasLastMs(RB!Room(new))
<1>1. PICK after : IsRoom(new, 9, after) /\ RB!Room(new) = after[9]
  BY RoomIsRoom
<1>2. /\ after[0] = hitInfos
      /\ \A k \in 1..9 : after[k] = MakeRoom(after[k - 1], new)
  BY <1>1 DEF IsRoom
<1> DEFINE Good(k) == LeftOf(after[k]) /\ Counted(after[k], new, k)
           S == {k \in 0..9 : Good(k)}
<1>3. 0 \in S
  <2>1. LeftOf(hitInfos)
    BY DEF LeftOf
  <2>2. IsFiniteSet(Held(hitInfos)) /\ Cardinality(Held(hitInfos)) <= Cardinality(RB!Pads)
    <3>1. Held(hitInfos) \subseteq RB!Pads
      BY DEF Held
    <3> QED
      BY <3>1, PadsAreFinite, FS_Subset
  <2>3. Cardinality(Held(hitInfos)) \in Nat /\ Cardinality(RB!Pads) \in Nat
    BY <2>2, PadsAreFinite, FS_CardinalityType
  <2>4. Cardinality(Held(hitInfos)) + 0 <= 9
    BY <2>2, <2>3, PadsAreFinite
  <2> QED
    BY <1>2, <2>1, <2>4 DEF Counted
<1>4. ASSUME NEW k \in 0..(9 - 1), k \in S
      PROVE  k + 1 \in S
  <2>1. k \in Nat /\ k + 1 \in 1..9 /\ k + 1 \in 0..9 /\ (k + 1) - 1 = k
    OBVIOUS
  <2>2. after[k + 1] = MakeRoom(after[k], new)
    BY <1>2, <2>1
  <2>3. LeftOf(after[k]) /\ Counted(after[k], new, k)
    BY <1>4
  <2>4. Good(k + 1)
    BY <2>1, <2>2, <2>3, MakeRoomLemma
  <2> HIDE DEF Good
  <2> QED
    BY <2>1, <2>4
<1>5. Good(9)
  <2>1. 9 \in Nat /\ 9 \in 0..9
    OBVIOUS
  <2>2. 0..9 \subseteq S
    <3> HIDE DEF S
    <3> QED
      BY <1>3, <1>4, <2>1, InductionUpTo
  <2> QED
    BY <2>1, <2>2
<1>6. RB!HasConflict(after[9], new) => HasLastMs(after[9])
  <2> SUFFICES ASSUME RB!HasConflict(after[9], new), ~HasLastMs(after[9]) PROVE FALSE
    OBVIOUS
  <2>1. Cardinality(Held(after[9])) + 9 <= 9
    BY <1>5 DEF Counted
  <2>2. IsFiniteSet(Held(after[9]))
    <3>1. Held(after[9]) \subseteq RB!Pads
      BY DEF Held
    <3> QED
      BY <3>1, PadsAreFinite, FS_Subset
  <2>3. Held(after[9]) = {}
    BY <2>1, <2>2, FS_CardinalityType, FS_EmptySet
  <2> QED
    BY <2>3, ConflictLemma
<1> QED
  BY <1>1, <1>5, <1>6

(* What the host reads from the buttons of a report.                       *)
Flags == {"l3", "r3", "kick", "hiHatPedal"}

(* The buttons that stand for held hits of the drum, one by one.           *)
LEMMA ButtonsLemma ==
  ASSUME NEW held \in SUBSET RB!Pads, rbMode = "RockbandDrum"
  PROVE  /\ "red" \in RB!Buttons(held) <=> "Red_Pad" \in held
         /\ "yellow" \in RB!Buttons(held) <=>
              "Yellow_Pad" \in held \/ "Yellow_Cymbal" \in held
         /\ "blue" \in RB!Buttons(held) <=> "Blue_Pad" \in held \/ "Blue_Cymbal" \in held
         /\ "green" \in RB!Buttons(held) <=>
              "Green_Pad" \in held \/ "Green_Cymbal" \in held
         /\ "kick" \in RB!Buttons(held) <=> "Kick" \in held
         /\ "hiHatPedal" \in RB!Buttons(held) <=> "HiHatPedal" \in held
         /\ "l3" \in RB!Buttons(held) <=> held \cap DrumPads # {}
         /\ "r3" \in RB!Buttons(held) <=> held \cap Cymbals # {}
<1>1. ~RB!IsGenericGamepadMode
  BY DEF RB!IsGenericGamepadMode
<1>2. /\ RB!ButtonOf("Red_Pad") = "red" /\ RB!ButtonOf("Yellow_Pad") = "yellow"
      /\ RB!ButtonOf("Blue_Pad") = "blue" /\ RB!ButtonOf("Green_Pad") = "green"
      /\ RB!ButtonOf("Yellow_Cymbal") = "yellow" /\ RB!ButtonOf("Blue_Cymbal") = "blue"
      /\ RB!ButtonOf("Green_Cymbal") = "green"
      /\ RB!ButtonOf("Kick") = "kick" /\ RB!ButtonOf("HiHatPedal") = "hiHatPedal"
  BY <1>1 DEF RB!ButtonOf, RB!ColourOf, RB!PedalButtons
<1>3. ASSUME NEW b, b \notin {"l3", "r3"}
      PROVE  b \in RB!Buttons(held) <=> \E p \in held : b = RB!ButtonOf(p)
  BY <1>3 DEF RB!Buttons
<1>4. /\ "l3" \in RB!Buttons(held) <=> \E p \in held : RB!IsPad(p)
      /\ "r3" \in RB!Buttons(held) <=> \E p \in held : RB!IsCymbal(p)
  <2>1. \A p \in held : RB!ButtonOf(p) \notin {"l3", "r3"}
    BY <1>2, PadsLemma DEF DrumPads, Cymbals, Pedals
  <2> QED
    BY <1>1, <2>1 DEF RB!Buttons
<1>5. held \subseteq DrumPads \cup Cymbals \cup Pedals
  BY PadsLemma
<1>6. /\ "red" \in RB!Buttons(held) <=> "Red_Pad" \in held
      /\ "yellow" \in RB!Buttons(held) <=>
              "Yellow_Pad" \in held \/ "Yellow_Cymbal" \in held
      /\ "blue" \in RB!Buttons(held) <=> "Blue_Pad" \in held \/ "Blue_Cymbal" \in held
      /\ "green" \in RB!Buttons(held) <=>
              "Green_Pad" \in held \/ "Green_Cymbal" \in held
  BY <1>2, <1>3, <1>5 DEF DrumPads, Cymbals, Pedals
<1>7. /\ "kick" \in RB!Buttons(held) <=> "Kick" \in held
      /\ "hiHatPedal" \in RB!Buttons(held) <=> "HiHatPedal" \in held
  BY <1>2, <1>3, <1>5 DEF DrumPads, Cymbals, Pedals
<1> QED
  BY <1>4, <1>6, <1>7, PadsLemma

(* What is read from the buttons and the hat, pad by pad. *)
LEMMA DecodedLemma ==
  ASSUME NEW report, rbMode = "RockbandDrum"
  PROVE  \A p : p \in RB!Decoded(report) <=>
           \/ /\ p \in DrumPads /\ "l3" \in report.buttons
              /\ RB!ColourOf[p] \in report.buttons
              /\ "r3" \in report.buttons =>
                   LET cymbal == IF report.hat = "UP" THEN "yellow"
                                 ELSE IF report.hat = "DOWN" THEN "blue" ELSE "green"
                   IN  \/ RB!ColourOf[p] # cymbal
                       \/ report.buttons \cap RB!Colours = {cymbal}
           \/ /\ p \in Cymbals /\ "r3" \in report.buttons
              /\ IF "l3" \in report.buttons
                 THEN RB!ColourOf[p] = IF report.hat = "UP" THEN "yellow"
                                       ELSE IF report.hat = "DOWN" THEN "blue" ELSE "green"
                 ELSE RB!ColourOf[p] \in report.buttons
           \/ p \in Pedals /\ RB!PedalButtons[p] \in report.buttons
<1> DEFINE cymbal == IF report.hat = "UP" THEN "yellow"
                     ELSE IF report.hat = "DOWN" THEN "blue" ELSE "green"
           colours == report.buttons \cap RB!Colours
           pads == IF "l3" \notin report.buttons THEN {}
                   ELSE IF "r3" \notin report.buttons THEN colours
                   ELSE IF colours = {cymbal} THEN colours ELSE colours \ {cymbal}
           cymbals == IF "r3" \notin report.buttons THEN {}
                      ELSE IF "l3" \notin report.buttons THEN colours ELSE {cymbal}
<1>1. RB!Decoded(report) =
        {p \in DrumPads : RB!ColourOf[p] \in pads}
        \cup {p \in Cymbals : RB!ColourOf[p] \in cymbals}
        \cup {p \in Pedals : RB!PedalButtons[p] \in report.buttons}
  BY PadsLemma DEF RB!Decoded
<1>2. \A p \in DrumPads \cup Cymbals : RB!ColourOf[p] \in RB!Colours
  BY DEF RB!ColourOf, RB!Colours, DrumPads, Cymbals
<1> HIDE DEF cymbal
<1>3. \A p \in DrumPads : RB!ColourOf[p] \in pads <=>
        /\ "l3" \in report.buttons /\ RB!ColourOf[p] \in report.buttons
        /\ "r3" \in report.buttons => RB!ColourOf[p] # cymbal \/ colours = {cymbal}
  BY <1>2
<1>4. \A p \in Cymbals : RB!ColourOf[p] \in cymbals <=>
        /\ "r3" \in report.buttons
        /\ IF "l3" \in report.buttons THEN RB!ColourOf[p] = cymbal
           ELSE RB!ColourOf[p] \in report.buttons
  BY <1>2
<1> HIDE DEF pads, cymbals
<1>5. \A p : p \in RB!Decoded(report) <=>
        \/ p \in DrumPads /\ RB!ColourOf[p] \in pads
        \/ p \in Cymbals /\ RB!ColourOf[p] \in cymbals
        \/ p \in Pedals /\ RB!PedalButtons[p] \in report.buttons
  BY <1>1
<1> QED
  BY <1>3, <1>4, <1>5 DEF cymbal, colours

(* A report of held hits that can be told apart tells these hits. *)
LEMMA ToldLemma ==
  ASSUME NEW held \in SUBSET RB!Pads, rbMode = "RockbandDrum", Tellable(held),
         NEW report, report.buttons = RB!Buttons(held), report.hat = RB!Hat(held)
  PROVE  RB!Decoded(report) = held
<1>1. held \subseteq DrumPads \cup Cymbals \cup Pedals
  BY PadsLemma
<1>2. /\ RB!ColourOf["Red_Pad"] = "red" /\ RB!ColourOf["Yellow_Pad"] = "yellow"
      /\ RB!ColourOf["Blue_Pad"] = "blue" /\ RB!ColourOf["Green_Pad"] = "green"
      /\ RB!ColourOf["Yellow_Cymbal"] = "yellow" /\ RB!ColourOf["Blue_Cymbal"] = "blue"
      /\ RB!ColourOf["Green_Cymbal"] = "green"
      /\ RB!PedalButtons["Kick"] = "kick" /\ RB!PedalButtons["HiHatPedal"] = "hiHatPedal"
  BY DEF RB!ColourOf, RB!PedalButtons
<1>3. \A p \in Pedals : p \in RB!Decoded(report) <=> p \in held
  <2>1. \A p \in Pedals : p \in RB!Decoded(report) <=> RB!PedalButtons[p] \in report.buttons
    BY DecodedLemma DEF Pedals, DrumPads, Cymbals
  <2> QED
    BY <1>2, <2>1, ButtonsLemma DEF Pedals
<1>4. CASE held \cap Cymbals = {}
  <2>1. "r3" \notin report.buttons /\ ("l3" \in report.buttons <=> held \cap DrumPads # {})
    BY <1>4, ButtonsLemma
  <2>2. \A p \in Cymbals : p \notin RB!Decoded(report) /\ p \notin held
    BY <1>4, <2>1, DecodedLemma DEF Pedals, DrumPads, Cymbals
  <2>3. \A p \in DrumPads : p \in RB!Decoded(report) <=>
          "l3" \in report.buttons /\ RB!ColourOf[p] \in report.buttons
    BY <2>1, DecodedLemma DEF Pedals, DrumPads, Cymbals
  <2>4. \A p \in DrumPads : RB!ColourOf[p] \in report.buttons <=> p \in held
    BY <1>2, <2>2, ButtonsLemma DEF DrumPads, Cymbals
  <2>5. \A p \in DrumPads : p \in RB!Decoded(report) <=> p \in held
    BY <2>1, <2>3, <2>4
  <2>6. \A p \in RB!Decoded(report) : p \in DrumPads \cup Cymbals \cup Pedals
    BY DecodedLemma
  <2> QED
    BY <1>1, <1>3, <2>2, <2>5, <2>6
<1>5. CASE held \cap Cymbals # {} /\ held \cap DrumPads = {}
  <2>1. "l3" \notin report.buttons /\ "r3" \in report.buttons
    BY <1>5, ButtonsLemma
  <2>2. \A p \in DrumPads : p \notin RB!Decoded(report) /\ p \notin held
    BY <1>5, <2>1, DecodedLemma DEF Pedals, DrumPads, Cymbals
  <2>3. \A p \in Cymbals : p \in RB!Decoded(report) <=> RB!ColourOf[p] \in report.buttons
    BY <2>1, DecodedLemma DEF Pedals, DrumPads, Cymbals
  <2>4. \A p \in Cymbals : RB!ColourOf[p] \in report.buttons <=> p \in held
    BY <1>2, <2>2, ButtonsLemma DEF DrumPads, Cymbals
  <2>5. \A p \in Cymbals : p \in RB!Decoded(report) <=> p \in held
    BY <2>3, <2>4
  <2>6. \A p \in RB!Decoded(report) : p \in DrumPads \cup Cymbals \cup Pedals
    BY DecodedLemma
  <2> QED
    BY <1>1, <1>3, <2>2, <2>5, <2>6
<1>6. CASE held \cap Cymbals # {} /\ held \cap DrumPads # {}
  <2>1. PICK d \in held \cap DrumPads, c \in held \cap Cymbals :
          held \cap DrumPads = {d} /\ held \cap Cymbals = {c}
    BY <1>6 DEF Tellable
  <2>2. "l3" \in report.buttons /\ "r3" \in report.buttons
    BY <1>6, ButtonsLemma
  <2> DEFINE cymbal == IF report.hat = "UP" THEN "yellow"
                       ELSE IF report.hat = "DOWN" THEN "blue" ELSE "green"
  <2>3. cymbal = RB!ColourOf[c]
    <3>1. report.hat = IF c = "Blue_Cymbal" THEN "DOWN"
                       ELSE IF c = "Yellow_Cymbal" THEN "UP" ELSE "CENTERED"
      BY <2>1 DEF RB!Hat, RB!IsGenericGamepadMode, Cymbals
    <3> QED
      BY <1>2, <3>1 DEF Cymbals
  <2>4. \A p \in Cymbals : p \in RB!Decoded(report) <=> RB!ColourOf[p] = cymbal
    BY <2>2, DecodedLemma DEF Pedals, DrumPads, Cymbals
  <2>5. \A p \in DrumPads : p \in RB!Decoded(report) <=>
          /\ RB!ColourOf[p] \in report.buttons
          /\ RB!ColourOf[p] # cymbal \/ report.buttons \cap RB!Colours = {cymbal}
    BY <2>2, DecodedLemma DEF Pedals, DrumPads, Cymbals
  <2> HIDE DEF cymbal
  <2>6. \A p \in Cymbals : RB!ColourOf[p] = RB!ColourOf[c] <=> p = c
    BY <1>2, <2>1 DEF Cymbals
  <2>7. \A p \in DrumPads \cup Cymbals :
          RB!ColourOf[p] \in RB!Colours
    BY <1>2 DEF DrumPads, Cymbals, RB!Colours
  <2>8. report.buttons \cap RB!Colours = {RB!ColourOf[d], RB!ColourOf[c]}
    <3>1. /\ "red" \in report.buttons <=> d = "Red_Pad"
          /\ "yellow" \in report.buttons <=> d = "Yellow_Pad" \/ c = "Yellow_Cymbal"
          /\ "blue" \in report.buttons <=> d = "Blue_Pad" \/ c = "Blue_Cymbal"
          /\ "green" \in report.buttons <=> d = "Green_Pad" \/ c = "Green_Cymbal"
      BY <2>1, ButtonsLemma DEF DrumPads, Cymbals
    <3> QED
      BY <1>2, <3>1 DEF DrumPads, Cymbals, RB!Colours
  <2>9. \A p, q \in DrumPads : RB!ColourOf[p] = RB!ColourOf[q] <=> p = q
    BY <1>2 DEF DrumPads
  <2>10. \A p \in DrumPads : p \in RB!Decoded(report) <=> p = d
    BY <2>1, <2>3, <2>5, <2>7, <2>8, <2>9
  <2>11. \A p \in RB!Decoded(report) : p \in DrumPads \cup Cymbals \cup Pedals
    BY DecodedLemma
  <2> QED
    BY <1>1, <1>3, <2>1, <2>3, <2>4, <2>6, <2>10, <2>11
<1> QED
  BY <1>4, <1>5, <1>6

(* Without the flags and the pedals nothing is read. *)
LEMMA NothingToldLemma ==
  ASSUME NEW report, rbMode = "RockbandDrum", report.buttons \cap Flags = {}
  PROVE  RB!Decoded(report) = {}
<1>1. /\ "l3" \notin report.buttons /\ "r3" \notin report.buttons
      /\ "kick" \notin report.buttons /\ "hiHatPedal" \notin report.buttons
  BY DEF Flags
<1>2. \A p \in Pedals : RB!PedalButtons[p] \notin report.buttons
  BY <1>1 DEF RB!PedalButtons, Pedals
<1> QED
  BY <1>1, <1>2, DecodedLemma

(* As a gamepad each hit has its button. *)
LEMMA GamepadToldLemma ==
  ASSUME NEW held \in SUBSET RB!Pads, rbMode # "RockbandDrum",
         NEW report, report.buttons = RB!Buttons(held)
  PROVE  held \subseteq RB!Decoded(report)
BY DEF RB!Decoded, RB!Buttons

(* The velocity of a hit, where the console looks for it. *)
LEMMA VelocityLemma ==
  ASSUME NEW held \in SUBSET RB!Pads, Tellable(held), NEW report,
         \A p \in held : hitInfos[p].velocity \in 1..127,
         RB!Decoded(report) = held, report.velocities = RB!Velocities(held),
         NEW p \in held \ Pedals
  PROVE  RB!DecodedVelocity(report, p) = hitInfos[p].velocity
<1>1. p \in DrumPads \cup Cymbals
  BY PadsLemma
<1>2. /\ RB!ColourOf["Red_Pad"] = "red" /\ RB!ColourOf["Yellow_Pad"] = "yellow"
      /\ RB!ColourOf["Blue_Pad"] = "blue" /\ RB!ColourOf["Green_Pad"] = "green"
      /\ RB!ColourOf["Yellow_Cymbal"] = "yellow" /\ RB!ColourOf["Blue_Cymbal"] = "blue"
      /\ RB!ColourOf["Green_Cymbal"] = "green"
  BY DEF RB!ColourOf
<1> DEFINE PadOf(c) == CHOOSE q \in RB!Elements(RB!RBPads) : RB!ColourOf[q] = c
           Struck(q) == q \in held /\ hitInfos[q].velocity # 0
           cymbals == RB!Elements(RB!RBCymbals) \cap held
           Doubled == {q \in cymbals : Struck(PadOf(RB!ColourOf[q]))}
           v == RB!Velocities(held)
<1>3. ASSUME NEW q \in DrumPads PROVE PadOf(RB!ColourOf[q]) = q
  BY <1>2, PadsLemma DEF DrumPads
<1>4. \A q \in held : Struck(q)
  BY DEF Pedals
<1>5. ASSUME NEW c \in RB!Colours
      PROVE  v[c] = IF c = "red" /\ Doubled # {}
                    THEN hitInfos[CHOOSE q \in Doubled :
                           \A r \in Doubled : RB!Index(r) <= RB!Index(q)].velocity
                    ELSE IF Struck(PadOf(c)) THEN hitInfos[PadOf(c)].velocity
                    ELSE IF \E q \in cymbals : RB!ColourOf[q] = c
                    THEN hitInfos[CHOOSE q \in cymbals : RB!ColourOf[q] = c].velocity
                    ELSE 0
  BY Zenon DEF RB!Velocities
<1>6. \A q \in DrumPads \cup Cymbals : RB!ColourOf[q] \in RB!Colours
  BY <1>2 DEF DrumPads, Cymbals, RB!Colours
<1>7. "red" \in RB!Colours
  BY DEF RB!Colours
<1>8. DrumPads \cap Cymbals = {}
  BY DEF DrumPads, Cymbals
<1> HIDE DEF v
<1>9. RB!DecodedVelocity(report, p) =
        IF p \in Cymbals /\ \E q \in held : q \in DrumPads /\ RB!ColourOf[q] = RB!ColourOf[p]
        THEN v["red"] ELSE v[RB!ColourOf[p]]
  BY PadsLemma DEF RB!DecodedVelocity, v
<1>10. CASE p \in DrumPads
  <2>1. RB!DecodedVelocity(report, p) = v[RB!ColourOf[p]]
    BY <1>8, <1>9, <1>10
  <2>2. RB!ColourOf[p] = "red" => Doubled = {}
    <3>1. cymbals = Cymbals \cap held
      BY PadsLemma
    <3> HIDE DEF PadOf, cymbals
    <3>2. SUFFICES ASSUME RB!ColourOf[p] = "red", NEW c \in Cymbals \cap held,
                          Struck(PadOf(RB!ColourOf[c]))
                   PROVE  FALSE
      BY <3>1
    <3>3. held \cap DrumPads = {p}
      BY <1>10 DEF Tellable
    <3>4. PadOf(RB!ColourOf[c]) \in DrumPads /\ PadOf(RB!ColourOf[c]) # p
      <4>1. PICK q \in DrumPads : RB!ColourOf[q] = RB!ColourOf[c] /\ q # p
        BY <1>2, <3>2 DEF DrumPads, Cymbals
      <4> HIDE DEF PadOf
      <4> QED
        BY <1>3, <4>1
    <3> QED
      BY <3>2, <3>3, <3>4
  <2>3. Struck(PadOf(RB!ColourOf[p])) /\ PadOf(RB!ColourOf[p]) = p
    BY <1>3, <1>4, <1>10
  <2> HIDE DEF Struck, PadOf, Doubled
  <2> QED
    BY <1>5, <1>6, <1>10, <2>1, <2>2, <2>3
<1>11. CASE p \in Cymbals
  <2>1. CASE \E q \in held : q \in DrumPads /\ RB!ColourOf[q] = RB!ColourOf[p]
    <3>1. PICK q \in held : q \in DrumPads /\ RB!ColourOf[q] = RB!ColourOf[p]
      BY <2>1
    <3>2. held \cap Cymbals = {p}
      BY <1>11, <3>1 DEF Tellable
    <3>3. Struck(PadOf(RB!ColourOf[p]))
      <4> HIDE DEF PadOf
      <4> QED
        BY <1>3, <1>4, <3>1
    <3>4. Doubled = {p}
      <4>1. cymbals = Cymbals \cap held
        BY PadsLemma
      <4> HIDE DEF PadOf, cymbals
      <4> QED
        BY <1>11, <3>2, <3>3, <4>1
    <3>5. RB!Index(p) <= RB!Index(p)
      BY IndexLemma
    <3>6. v["red"] = hitInfos[CHOOSE q2 \in Doubled :
                           \A r \in Doubled : RB!Index(r) <= RB!Index(q2)].velocity
      <4> HIDE DEF Doubled, Struck, PadOf
      <4> QED
        BY <1>5, <1>7, <3>4
    <3>7. (CHOOSE q2 \in Doubled : \A r \in Doubled : RB!Index(r) <= RB!Index(q2)) = p
      <4> HIDE DEF Doubled
      <4> QED
        BY <3>4, <3>5
    <3> QED
      BY <1>9, <1>11, <2>1, <3>6, <3>7
  <2>2. CASE ~\E q \in held : q \in DrumPads /\ RB!ColourOf[q] = RB!ColourOf[p]
    <3>1. RB!DecodedVelocity(report, p) = v[RB!ColourOf[p]]
      BY <1>9, <2>2
    <3>2. RB!ColourOf[p] # "red"
      BY <1>2, <1>11 DEF Cymbals
    <3>3. ~Struck(PadOf(RB!ColourOf[p]))
      <4>1. PICK q \in DrumPads : RB!ColourOf[q] = RB!ColourOf[p]
        BY <1>2, <1>11 DEF DrumPads, Cymbals
      <4> HIDE DEF PadOf
      <4>2. PadOf(RB!ColourOf[p]) = q
        BY <1>3, <4>1
      <4> QED
        BY <2>2, <4>1, <4>2
    <3>4. \A q \in Cymbals : RB!ColourOf[q] = RB!ColourOf[p] => q = p
      BY <1>2, <1>11 DEF Cymbals
    <3>5. cymbals = Cymbals \cap held
      BY PadsLemma
    <3> HIDE DEF cymbals
    <3>6. /\ \E q \in cymbals : RB!ColourOf[q] = RB!ColourOf[p]
          /\ (CHOOSE q \in cymbals : RB!ColourOf[q] = RB!ColourOf[p]) = p
      BY <1>11, <3>4, <3>5
    <3> HIDE DEF Struck, PadOf, Doubled
    <3> QED
      BY <1>5, <1>6, <1>11, <3>1, <3>2, <3>3, <3>6
  <2> QED
    BY <2>1, <2>2
<1> QED
  BY <1>1, <1>10, <1>11
-----------------------------------------------------------------------------
(* The invariant of the drum.                                              *)

(* Hits that are held can be told apart, and a report without hits has no  *)
(* flag of a hit left in it.                                               *)
HitsAreTold ==
  /\ \A p \in Held(hitInfos) : hitInfos[p].velocity \in 1..127
  /\ Tellable(Held(hitInfos))
  /\ hidReport = [buttons |-> hidReport.buttons, hat |-> hidReport.hat,
                  velocities |-> hidReport.velocities]
  /\ Held(hitInfos) = {} => hidReport.buttons \cap Flags = {}

(* The hits the host waits for are held, and the report handed over tells  *)
(* those it is to tell.                                                    *)
DueAreHeld ==
  /\ rbDue \subseteq Held(hitInfos)
  /\ ~rbMounted => rbDue = {}
  /\ rbMounted => rbMode # "off"
  /\ endpoint # <<>> => rbMounted /\ offered \subseteq RB!Decoded(endpoint[1])
  /\ endpoint = <<>> => offered = {}

(* They are held for no longer than the host takes to fetch the report     *)
(* before, and the main loop to hand over the next one.                    *)
DueAreRecent ==
  ~hung => \A p \in rbDue \ offered :
    IF endpoint # <<>> THEN RB!ElapsedMs(hitInfos[p].timeMs) <= sincePoll
    ELSE RB!ElapsedMs(hitInfos[p].timeMs) <= IF updated THEN MaxPollMs ELSE MaxPollMs + 1

RockInv ==
  /\ RB!TypeOK /\ origIds = RB!MidiIds
  /\ hung => HasLastMs(hitInfos)
  /\ HitsAreTold /\ DueAreHeld /\ DueAreRecent

LEMMA RockNumbers ==
  ASSUME RB!RockbandAssumption
  PROVE  /\ DrumClock \in Nat /\ HoldMs \in Nat /\ MaxPollMs \in Nat
         /\ 0 < MaxPollMs /\ MaxPollMs < HoldMs /\ HoldMs + 1 < DrumClock
         /\ \A s \in Strikes : s[2] \in 1..127
BY DEF RB!RockbandAssumption

LEMMA RockTypes ==
  ASSUME RB!TypeOK, RB!RockbandAssumption
  PROVE  /\ hitInfos \in [RB!Pads -> Hit]
         /\ \A p \in RB!Pads : hitInfos[p].timeMs \in 0..(DrumClock - 1)
         /\ rbNow \in 0..(DrumClock - 1)
BY DEF RB!TypeOK, Hit

LEMMA RockInit ==
  ASSUME RB!RockbandAssumption, RB!Init
  PROVE  RockInv
<1>1. \A p \in RB!Pads : hitInfos[p] = RB!NoHit
  BY DEF RB!Init
<1>2. RB!NoHit.timeMs = 0
  BY DEF RB!NoHit
<1>3. Held(hitInfos) = {}
  BY <1>1, <1>2 DEF Held
<1>4. RB!NoHit \in Hit
  BY RockNumbers DEF RB!NoHit, Hit
<1>5. hitInfos \in [RB!Pads -> Hit]
  BY <1>4 DEF RB!Init
<1>6. RB!TypeOK
  <2>1. rbNow \in 0..(DrumClock - 1) /\ sincePoll \in 0..MaxPollMs
    BY RockNumbers DEF RB!Init
  <2>2. ids \in (0..2) \X (0..2) /\ ids = RB!MidiIds
    BY DEF RB!Init, RB!MidiIds
  <2>3. /\ rbMode \in DrumModes \cup {"off"} /\ hung \in BOOLEAN
        /\ rbMounted \in BOOLEAN /\ updated \in BOOLEAN
        /\ offered \subseteq rbDue /\ rbDue \subseteq RB!Pads
    BY DEF RB!Init
  <2> QED
    BY <1>5, <2>1, <2>2, <2>3 DEF RB!TypeOK, Hit
<1>7. HitsAreTold
  <2>1. hidReport = [buttons |-> {}, hat |-> "CENTERED", velocities |-> RB!NoVelocities]
    BY DEF RB!Init, RB!EmptyReport
  <2> QED
    BY <1>3, <2>1 DEF HitsAreTold, Tellable
<1>8. DueAreHeld /\ DueAreRecent /\ origIds = RB!MidiIds /\ ~hung
  BY DEF RB!Init, DueAreHeld, DueAreRecent
<1> QED
  BY <1>6, <1>7, <1>8 DEF RockInv
-----------------------------------------------------------------------------
(* The steps.                                                              *)
LEMMA RockTick ==
  ASSUME RB!RockbandAssumption, RockInv, RB!Tick
  PROVE  RockInv'
<1>1. /\ UNCHANGED <<rbMode, ids, origIds, hitInfos, hidReport, hung, endpoint,
                     rbMounted, rbDue, offered>>
      /\ rbNow' = (rbNow + 1) % DrumClock /\ updated' = FALSE
      /\ rbMode # "off" => updated \/ hung
      /\ rbMounted => sincePoll < MaxPollMs
      /\ sincePoll' = IF rbMounted THEN sincePoll + 1 ELSE 0
  BY DEF RB!Tick, RB!code, RB!history
<1>2. RB!TypeOK /\ sincePoll \in 0..MaxPollMs /\ rbDue \subseteq RB!Pads
  BY DEF RockInv, RB!TypeOK
<1>3. rbNow' \in 0..(DrumClock - 1) /\ sincePoll' \in 0..MaxPollMs
  BY <1>1, <1>2, RockNumbers, RockTypes
<1>4. RB!TypeOK'
  BY <1>1, <1>2, <1>3 DEF RB!TypeOK
<1>5. HitsAreTold'
  BY <1>1 DEF RockInv, HitsAreTold, Held
<1>6. DueAreHeld'
  <2>1. \A r : RB!Decoded(r)' = RB!Decoded(r)
    BY <1>1 DEF RB!Decoded, RB!ButtonOf, RB!IsGenericGamepadMode
  <2> QED
    BY <1>1, <2>1 DEF RockInv, DueAreHeld, Held
<1>7. DueAreRecent'
  <2> SUFFICES ASSUME ~hung, NEW p \in rbDue \ offered
               PROVE  IF endpoint # <<>>
                      THEN RB!ElapsedMs(hitInfos[p].timeMs)' <= sincePoll'
                      ELSE RB!ElapsedMs(hitInfos[p].timeMs)' <= MaxPollMs + 1
    BY <1>1 DEF DueAreRecent
  <2> DEFINE before == RB!ElapsedMs(hitInfos[p].timeMs)
             after == RB!ElapsedMs(hitInfos[p].timeMs)'
  <2>1. rbMounted /\ updated
    BY <1>1, <1>2 DEF RockInv, DueAreHeld
  <2>2. before <= IF endpoint # <<>> THEN sincePoll ELSE MaxPollMs
    BY <2>1 DEF RockInv, DueAreRecent
  <2>3. hitInfos[p].timeMs \in 0..(DrumClock - 1) /\ rbNow \in 0..(DrumClock - 1)
    BY <1>2, RockTypes
  <2>4. before = (rbNow + DrumClock - hitInfos[p].timeMs) % DrumClock
    BY DEF RB!ElapsedMs
  <2>5. after = (((rbNow + 1) % DrumClock) + DrumClock - hitInfos[p].timeMs) % DrumClock
    BY <1>1 DEF RB!ElapsedMs
  <2>6. DrumClock \in Nat \ {0}
    BY RockNumbers
  <2> HIDE DEF before, after
  <2>7. before \in Nat /\ before <= MaxPollMs /\ before + 1 < DrumClock
    BY <1>2, <2>2, <2>3, <2>4, <2>6, RockNumbers
  <2>8. after = before + 1
    BY <2>3, <2>4, <2>5, <2>6, <2>7, TickLater
  <2>9. IF endpoint # <<>> THEN after <= sincePoll' ELSE after <= MaxPollMs + 1
    BY <1>1, <1>2, <2>1, <2>2, <2>7, <2>8, RockNumbers
  <2> QED
    BY <2>9 DEF after
<1> QED
  BY <1>1, <1>4, <1>5, <1>6, <1>7 DEF RockInv, HasLastMs

(* The device is found anew: nothing is due, and the hits stay. *)
LEMMA RockRestart ==
  ASSUME RB!RockbandAssumption, RockInv, RB!Restarted,
         UNCHANGED <<rbNow, hitInfos, hung, updated, origIds>>,
         rbMode' \in DrumModes \cup {"off"}, ids' \in (0..2) \X (0..2),
         rbMode' = "off" => ids' = RB!MidiIds,
         \/ hidReport' = hidReport
         \/ hidReport' = [hidReport EXCEPT !.hat = "CENTERED"]
  PROVE  RockInv'
<1>1. /\ rbMounted' = FALSE /\ endpoint' = <<>> /\ sincePoll' = 0
      /\ rbDue' = {} /\ offered' = {}
  BY DEF RB!Restarted
<1>2. RB!TypeOK'
  <2>1. /\ rbNow \in 0..(DrumClock - 1) /\ hung \in BOOLEAN /\ updated \in BOOLEAN
        /\ hitInfos \in [RB!Pads -> [timeMs : 0..(DrumClock - 1), velocity : 0..127]]
    BY DEF RockInv, RB!TypeOK
  <2>2. 0 \in 0..MaxPollMs /\ RB!MidiIds' = RB!MidiIds
    BY RockNumbers DEF RB!MidiIds
  <2> QED
    BY <1>1, <2>1, <2>2 DEF RB!TypeOK
<1>3. HitsAreTold'
  <2>1. /\ hidReport' = [buttons |-> hidReport'.buttons, hat |-> hidReport'.hat,
                         velocities |-> hidReport'.velocities]
        /\ hidReport'.buttons = hidReport.buttons
    BY DEF RockInv, HitsAreTold
  <2> QED
    BY <2>1 DEF RockInv, HitsAreTold, Held
<1> QED
  BY <1>1, <1>2, <1>3 DEF RockInv, DueAreHeld, DueAreRecent, HasLastMs, RB!MidiIds

LEMMA RockStarts ==
  ASSUME RB!RockbandAssumption, RockInv,
         (\E m \in DrumModes : RB!Start(m)) \/ RB!Stop \/ RB!Unmount
  PROVE  RockInv'
<1>1. ids \in (0..2) \X (0..2) /\ (rbMode = "off" => ids = RB!MidiIds) /\ origIds = RB!MidiIds
  BY DEF RockInv, RB!TypeOK
<1>2. DrumModes \subseteq {"RockbandDrum", "GamepadUsb"}
  BY DEF RB!RockbandAssumption
<1>3. ASSUME NEW m \in DrumModes, RB!Start(m)
      PROVE  RockInv'
  <2>1. /\ rbMode = "off" /\ rbMode' = m /\ origIds' = ids
        /\ ids' = IF m = "RockbandDrum" THEN RB!HarmonixIds ELSE <<ids[1], ids[2] + 1>>
        /\ hidReport' = [hidReport EXCEPT !.hat = "CENTERED"]
        /\ RB!Restarted /\ UNCHANGED <<rbNow, hitInfos, hung, updated>>
    BY <1>3 DEF RB!Start
  <2>2. ids' \in (0..2) \X (0..2)
    BY <1>1, <2>1 DEF RB!MidiIds, RB!HarmonixIds
  <2>3. rbMode' # "off" /\ rbMode' \in DrumModes \cup {"off"} /\ origIds' = origIds
    BY <1>1, <1>2, <2>1
  <2> QED
    BY <2>1, <2>2, <2>3, RockRestart
<1>4. CASE RB!Stop
  <2>1. /\ rbMode' = "off" /\ ids' = origIds /\ RB!Restarted
        /\ UNCHANGED <<rbNow, origIds, hitInfos, hidReport, hung, updated>>
    BY <1>4 DEF RB!Stop
  <2>2. ids' \in (0..2) \X (0..2) /\ ids' = RB!MidiIds
    BY <1>1, <2>1 DEF RB!MidiIds
  <2> QED
    BY <2>1, <2>2, RockRestart
<1>5. CASE RB!Unmount
  <2>1. RB!Restarted /\ UNCHANGED <<rbNow, RB!code, updated>>
    BY <1>5 DEF RB!Unmount
  <2>2. UNCHANGED <<rbNow, rbMode, ids, origIds, hitInfos, hidReport, hung, updated>>
    BY <2>1 DEF RB!code
  <2>3. rbMode \in DrumModes \cup {"off"}
    BY DEF RockInv, RB!TypeOK
  <2> QED
    BY <1>1, <2>1, <2>2, <2>3, RockRestart
<1> QED
  BY <1>3, <1>4, <1>5

LEMMA RockMount ==
  ASSUME RB!RockbandAssumption, RockInv, RB!Mount
  PROVE  RockInv'
<1>1. /\ rbMode # "off" /\ ~rbMounted /\ rbMounted' = TRUE /\ sincePoll' = 0
      /\ UNCHANGED <<rbNow, rbMode, ids, origIds, hitInfos, hidReport, hung,
                     endpoint, updated, rbDue, offered>>
  BY DEF RB!Mount, RB!code, RB!history
<1>2. endpoint = <<>> /\ rbDue = {} /\ offered = {}
  BY <1>1 DEF RockInv, DueAreHeld
<1>3. RB!TypeOK'
  BY <1>1, RockNumbers DEF RockInv, RB!TypeOK
<1>4. HitsAreTold'
  BY <1>1 DEF RockInv, HitsAreTold, Held
<1>5. DueAreHeld' /\ DueAreRecent'
  BY <1>1, <1>2 DEF RockInv, DueAreHeld, DueAreRecent
<1> QED
  BY <1>1, <1>3, <1>4, <1>5 DEF RockInv, HasLastMs

(* The host has got the report, and with it all the hits it is to show. *)
LEMMA RockPoll ==
  ASSUME RB!RockbandAssumption, RockInv, RB!Poll
  PROVE  RockInv'
<1>1. /\ rbMounted /\ sincePoll' = 0 /\ offered' = {} /\ endpoint' = <<>>
      /\ rbDue' = IF endpoint = <<>> THEN rbDue
                  ELSE rbDue \ (offered \cap RB!Decoded(endpoint[1]))
      /\ UNCHANGED <<rbNow, rbMode, ids, origIds, hitInfos, hidReport, hung,
                     rbMounted, updated>>
  BY DEF RB!Poll, RB!code
<1>2. rbDue' = rbDue \ offered
  BY <1>1 DEF RockInv, DueAreHeld
<1>3. RB!TypeOK'
  BY <1>1, <1>2, RockNumbers DEF RockInv, RB!TypeOK
<1>4. HitsAreTold'
  BY <1>1 DEF RockInv, HitsAreTold, Held
<1>5. DueAreHeld'
  BY <1>1, <1>2 DEF RockInv, DueAreHeld, Held
<1>6. DueAreRecent'
  <2> SUFFICES ASSUME ~hung, NEW p \in rbDue \ offered
               PROVE  RB!ElapsedMs(hitInfos[p].timeMs)'
                        <= IF updated THEN MaxPollMs ELSE MaxPollMs + 1
    BY <1>1, <1>2 DEF DueAreRecent
  <2> DEFINE e == RB!ElapsedMs(hitInfos[p].timeMs)
  <2>1. RB!ElapsedMs(hitInfos[p].timeMs)' = e
    BY <1>1 DEF RB!ElapsedMs
  <2>2. IF endpoint # <<>> THEN e <= sincePoll
        ELSE e <= IF updated THEN MaxPollMs ELSE MaxPollMs + 1
    BY DEF RockInv, DueAreRecent
  <2>3. /\ rbNow \in 0..(DrumClock - 1)
        /\ hitInfos[p].timeMs \in 0..(DrumClock - 1)
    BY RockTypes DEF RockInv, RB!TypeOK
  <2>4. e \in Nat
    BY <2>3, RockNumbers DEF RB!ElapsedMs
  <2> HIDE DEF e
  <2>5. sincePoll \in Nat /\ sincePoll <= MaxPollMs
    BY RockNumbers DEF RockInv, RB!TypeOK
  <2> QED
    BY <2>1, <2>2, <2>4, <2>5, RockNumbers
<1> QED
  BY <1>1, <1>3, <1>4, <1>5, <1>6 DEF RockInv, HasLastMs

(* A new hit: the ones in conflict with it have made room. *)
LEMMA RockNote ==
  ASSUME RB!RockbandAssumption, RockInv, NEW note, NEW velocity \in 1..127,
         RB!SendNoteOn(note, velocity)
  PROVE  RockInv'
<1> DEFINE p == RB!NoteToPadId(note)
           room == RB!Room(p)
           new == [timeMs |-> rbNow, velocity |-> velocity]
<1>1. /\ ~hung /\ p # RB!NoPad /\ ~RB!IsHit(p)
      /\ IF RB!HasConflict(room, p) THEN hung' = TRUE /\ hitInfos' = room
         ELSE hitInfos' = [room EXCEPT ![p] = new] /\ hung' = hung
      /\ rbDue' = {q \in IF rbMounted THEN rbDue \cup {p} ELSE rbDue : hitInfos'[q].timeMs # 0}
      /\ offered' = (offered \cap rbDue') \ {p}
      /\ UNCHANGED <<rbNow, rbMode, ids, origIds, hidReport, endpoint, rbMounted,
                     sincePoll, updated>>
  BY DEF RB!SendNoteOn, RB!host
<1>2. p \in RB!Pads
  BY <1>1 DEF RB!NoteToPadId
<1>3. /\ hitInfos \in [RB!Pads -> Hit] /\ rbNow \in 0..(DrumClock - 1)
  BY RockTypes DEF RockInv
<1>4. LeftOf(room) /\ (RB!HasConflict(room, p) => HasLastMs(room))
  BY <1>3, RoomLemma
<1> HIDE DEF p, room
<1>5. new \in Hit
  BY <1>3 DEF Hit
<1> HIDE DEF new
<1>6. /\ hitInfos' \in [RB!Pads -> Hit]
      /\ \A q \in RB!Pads \ {p} : hitInfos'[q] = hitInfos[q] \/ hitInfos'[q] = RB!NoHit
      /\ hitInfos'[p] = IF RB!HasConflict(room, p) THEN room[p] ELSE new
      /\ \A q \in RB!Pads \ {p} : hitInfos'[q] = room[q]
  BY <1>1, <1>2, <1>4, <1>5 DEF LeftOf
<1>7. RB!NoHit.timeMs = 0 /\ new.timeMs = rbNow /\ new.velocity = velocity
  BY DEF RB!NoHit, new
<1>8. room[p].timeMs = 0
  BY <1>1, <1>2, <1>4, <1>7 DEF LeftOf, RB!IsHit
<1>9. /\ Held(hitInfos)' \subseteq Held(room) \cup {p}
      /\ RB!HasConflict(room, p) => Held(hitInfos)' = Held(room)
      /\ Held(room) \subseteq Held(hitInfos)' /\ Held(room) \subseteq Held(hitInfos)
  <2>1. \A q \in RB!Pads : q \in Held(hitInfos)' <=> hitInfos'[q].timeMs # 0
    BY DEF Held
  <2>2. \A q \in RB!Pads : q \in Held(room) <=> room[q].timeMs # 0
    BY DEF Held
  <2>3. Held(room) \subseteq RB!Pads /\ Held(hitInfos)' \subseteq RB!Pads
    BY DEF Held
  <2>4. Held(room) \subseteq Held(hitInfos)
    BY <1>4, <1>7 DEF LeftOf, Held
  <2>5. \A q \in RB!Pads \ {p} : q \in Held(hitInfos)' <=> q \in Held(room)
    BY <1>6, <2>1, <2>2
  <2>6. /\ p \notin Held(room)
        /\ RB!HasConflict(room, p) => p \notin Held(hitInfos)'
    <3>1. RB!HasConflict(room, p) => hitInfos'[p] = room[p]
      BY <1>6
    <3> QED
      BY <1>2, <1>8, <2>1, <2>2, <3>1
  <2> QED
    BY <2>3, <2>4, <2>5, <2>6
<1>10. RB!TypeOK'
  <2>1. /\ rbMode \in DrumModes \cup {"off"} /\ hung' \in BOOLEAN
        /\ ids \in (0..2) \X (0..2) /\ (rbMode = "off" => ids = RB!MidiIds)
        /\ rbMounted \in BOOLEAN /\ sincePoll \in 0..MaxPollMs /\ updated \in BOOLEAN
        /\ rbDue \subseteq RB!Pads
    BY <1>1 DEF RockInv, RB!TypeOK
  <2>2. offered' \subseteq rbDue' /\ rbDue' \subseteq RB!Pads
    BY <1>1, <1>2, <2>1
  <2> QED
    BY <1>1, <1>3, <1>6, <2>1, <2>2 DEF RB!TypeOK, Hit, RB!MidiIds
<1>11. hung' => HasLastMs(hitInfos)'
  BY <1>1, <1>4 DEF HasLastMs
<1>12. HitsAreTold'
  <2>1. Tellable(Held(room))
    BY <1>9, FewerAreTellable DEF RockInv, HitsAreTold
  <2>2. Tellable(Held(hitInfos)')
    <3>1. CASE RB!HasConflict(room, p)
      BY <1>9, <2>1, <3>1
    <3>2. CASE ~RB!HasConflict(room, p)
      <4>1. Tellable(Held(room) \cup {p})
        BY <1>2, <2>1, <3>2, RoomIsTellable
      <4> QED
        BY <1>9, <4>1, FewerAreTellable
    <3> QED
      BY <3>1, <3>2
  <2>3. \A q \in Held(hitInfos)' : hitInfos'[q].velocity \in 1..127
    <3> SUFFICES ASSUME NEW q \in RB!Pads, hitInfos'[q].timeMs # 0
                 PROVE  hitInfos'[q].velocity \in 1..127
      BY DEF Held
    <3>1. CASE q = p
      BY <1>6, <1>7, <1>8, <3>1
    <3>2. CASE q # p
      <4>1. hitInfos'[q] = hitInfos[q] /\ q \in Held(hitInfos)
        BY <1>6, <1>7, <3>2 DEF Held
      <4> QED
        BY <4>1 DEF RockInv, HitsAreTold
    <3> QED
      BY <3>1, <3>2
  <2>4. Held(hitInfos)' = {} => Held(hitInfos) = {}
    BY <1>4, <1>9 DEF LeftOf
  <2>5. Tellable(Held(hitInfos))'
    BY <2>2 DEF Tellable, DrumPads, Cymbals
  <2> QED
    BY <1>1, <2>3, <2>4, <2>5 DEF RockInv, HitsAreTold
<1>13. DueAreHeld'
  <2>1. rbDue' \subseteq Held(hitInfos)'
    <3>1. rbDue \subseteq RB!Pads
      BY DEF RockInv, RB!TypeOK
    <3> QED
      BY <1>1, <1>2, <3>1 DEF Held
  <2>2. \A r : RB!Decoded(r)' = RB!Decoded(r)
    BY <1>1 DEF RB!Decoded, RB!ButtonOf, RB!IsGenericGamepadMode
  <2> QED
    BY <1>1, <2>1, <2>2 DEF RockInv, DueAreHeld
<1>14. DueAreRecent'
  <2> SUFFICES ASSUME ~hung', NEW q \in rbDue' \ offered'
               PROVE  IF endpoint # <<>>
                      THEN RB!ElapsedMs(hitInfos[q].timeMs)' <= sincePoll
                      ELSE RB!ElapsedMs(hitInfos[q].timeMs)'
                             <= IF updated THEN MaxPollMs ELSE MaxPollMs + 1
    BY <1>1 DEF DueAreRecent
  <2>1. ~RB!HasConflict(room, p) /\ hitInfos'[q].timeMs # 0
    BY <1>1
  <2>2. CASE q = p
    <3>1. hitInfos'[q].timeMs = rbNow
      BY <1>6, <1>7, <2>1, <2>2
    <3>2. RB!ElapsedMs(hitInfos[q].timeMs)' = (rbNow + DrumClock - rbNow) % DrumClock
      BY <1>1, <3>1 DEF RB!ElapsedMs
    <3>3. \A c \in Nat \ {0} : \A n \in 0..(c - 1) : (n + c - n) % c = 0
      OBVIOUS
    <3>4. RB!ElapsedMs(hitInfos[q].timeMs)' = 0
      BY <1>3, <3>2, <3>3, RockNumbers
    <3>5. sincePoll \in Nat
      BY RockNumbers DEF RockInv, RB!TypeOK
    <3> QED
      BY <3>4, <3>5, RockNumbers
  <2>3. CASE q # p
    <3>1. q \in rbDue /\ q \notin offered
      BY <1>1, <2>3
    <3>2. q \in RB!Pads
      BY <3>1 DEF RockInv, RB!TypeOK
    <3>3. hitInfos'[q] = hitInfos[q]
      BY <1>6, <1>7, <2>1, <2>3, <3>2
    <3>4. RB!ElapsedMs(hitInfos[q].timeMs)' = RB!ElapsedMs(hitInfos[q].timeMs)
      BY <1>1, <3>3 DEF RB!ElapsedMs
    <3> QED
      BY <1>1, <3>1, <3>4 DEF RockInv, DueAreRecent
  <2> QED
    BY <2>2, <2>3
<1> QED
  BY <1>1, <1>10, <1>11, <1>12, <1>13, <1>14 DEF RockInv, RB!MidiIds

(* The report of the main loop. *)
LEMMA ReportLemma ==
  ASSUME RockInv, NEW report, RB!TypeOK,
         Held(hitInfos) = {} => report.buttons \cap Flags = {}
  PROVE  LET held == {p \in RB!Pads : RB!IsHit(p) /\ ~RB!IsExpired(p)}
         IN  /\ RB!BuildReport(report).velocities = RB!Velocities(held)
             /\ held = {} => RB!BuildReport(report).buttons \cap Flags = {}
             /\ held \subseteq RB!Decoded(RB!BuildReport(report))
             /\ rbMode = "RockbandDrum" =>
                  RB!Decoded(RB!BuildReport(report)) = held
<1> DEFINE held == {p \in RB!Pads : RB!IsHit(p) /\ ~RB!IsExpired(p)}
           told == RB!BuildReport(report)
<1>1. /\ told.velocities = RB!Velocities(held)
      /\ Held(hitInfos) # {} =>
           told.buttons = RB!Buttons(held) /\ told.hat = RB!Hat(held)
      /\ Held(hitInfos) = {} => told.buttons = report.buttons
  BY DEF RB!BuildReport, Held, RB!IsHit
<1>2. held \subseteq Held(hitInfos) /\ held \in SUBSET RB!Pads
  BY DEF Held, RB!IsHit
<1>3. Tellable(held)
  BY <1>2, FewerAreTellable DEF RockInv, HitsAreTold
<1> HIDE DEF held, told
<1>4. held = {} => told.buttons \cap Flags = {}
  <2> SUFFICES ASSUME held = {}, Held(hitInfos) # {}
               PROVE  told.buttons \cap Flags = {}
    BY <1>1
  <2>1. told.buttons = RB!Buttons({})
    BY <1>1
  <2> QED
    BY <2>1 DEF RB!Buttons
<1>5. rbMode = "RockbandDrum" => RB!Decoded(told) = held
  <2>1. CASE Held(hitInfos) # {}
    BY <1>1, <1>2, <1>3, <2>1, ToldLemma
  <2>2. CASE Held(hitInfos) = {}
    BY <1>1, <1>2, <2>2, NothingToldLemma
  <2> QED
    BY <2>1, <2>2
<1>6. held \subseteq RB!Decoded(told)
  <2>1. CASE rbMode = "RockbandDrum"
    BY <1>5, <2>1
  <2>2. CASE rbMode # "RockbandDrum" /\ held # {}
    BY <1>1, <1>2, <2>2, GamepadToldLemma
  <2> QED
    BY <2>1, <2>2
<1> QED
  BY <1>1, <1>4, <1>5, <1>6 DEF held, told

(* What the main loop does, and what it does not do to the hits that the   *)
(* host waits for.                                                         *)
LEMMA RockUpdate ==
  ASSUME RB!RockbandAssumption, RockInv, RB!Update
  PROVE  /\ RockInv'
         /\ \A p \in rbDue : RB!IsHit(p)'
         /\ rbMode = "RockbandDrum" /\ endpoint' # endpoint =>
              LET report == endpoint'[1]
              IN  /\ RB!Decoded(report) = {p \in RB!Pads : RB!IsHit(p)'}
                  /\ \A p \in RB!Decoded(report) \ DOMAIN RB!PedalButtons :
                       RB!DecodedVelocity(report, p) = hitInfos[p].velocity
<1>1. /\ rbMode # "off" /\ ~hung /\ ~updated /\ updated' = TRUE
      /\ UNCHANGED <<rbNow, rbMode, ids, origIds, hung, rbMounted, sincePoll>>
  BY DEF RB!Update
<1>2. PICK report \in {hidReport}
                      \cup {RB!OnGamepadReportReceived(hidReport, d) : d \in GamepadReports} :
        IF RB!IsHidReady
        THEN /\ hidReport' = RB!BuildReport(report)
             /\ endpoint' = <<hidReport'>>
             /\ hitInfos' = [p \in RB!Pads |-> IF RB!IsExpired(p) THEN RB!NoHit ELSE hitInfos[p]]
             /\ rbDue' = {p \in rbDue : ~RB!IsExpired(p)}
             /\ offered' = rbDue'
        ELSE hidReport' = report /\ UNCHANGED <<endpoint, hitInfos, rbDue, offered>>
  BY DEF RB!Update, RB!history
<1>3. /\ report = [buttons |-> report.buttons, hat |-> report.hat,
                   velocities |-> report.velocities]
      /\ Held(hitInfos) = {} => report.buttons \cap Flags = {}
  <2>1. CASE report = hidReport
    BY <2>1 DEF RockInv, HitsAreTold
  <2>2. CASE report # hidReport
    <3>1. PICK d \in GamepadReports : report = RB!OnGamepadReportReceived(hidReport, d)
      BY <1>2, <2>2
    <3> DEFINE buttons ==
                 (hidReport.buttons \ DOMAIN RB!GamepadNumbers)
                 \cup {b \in DOMAIN RB!GamepadNumbers :
                         RB!GamepadNumbers[b] \cap d.pressed # {}}
    <3>2. report = [hidReport EXCEPT !.hat = RB!HatOf(d), !.buttons = buttons]
      BY <3>1, Zenon DEF RB!OnGamepadReportReceived
    <3>3. \A b \in buttons : b \in hidReport.buttons \/ b \in DOMAIN RB!GamepadNumbers
      OBVIOUS
    <3>4. Flags \cap DOMAIN RB!GamepadNumbers = {}
      BY DEF Flags, RB!GamepadNumbers
    <3> HIDE DEF buttons
    <3>5. /\ hidReport = [buttons |-> hidReport.buttons, hat |-> hidReport.hat,
                          velocities |-> hidReport.velocities]
          /\ Held(hitInfos) = {} => hidReport.buttons \cap Flags = {}
      BY DEF RockInv, HitsAreTold
    <3>6. /\ report = [buttons |-> report.buttons, hat |-> report.hat,
                       velocities |-> report.velocities]
          /\ report.buttons = buttons
      BY <3>2, <3>5
    <3> QED
      BY <3>3, <3>4, <3>5, <3>6
  <2> QED
    BY <2>1, <2>2
<1>4. RB!TypeOK /\ sincePoll \in 0..MaxPollMs /\ rbDue \subseteq RB!Pads
  BY DEF RockInv, RB!TypeOK
<1>5. CASE ~RB!IsHidReady
  <2>1. /\ hidReport' = report
        /\ UNCHANGED <<rbNow, rbMode, ids, origIds, hitInfos, hung, endpoint, rbMounted,
                       sincePoll, rbDue, offered>>
    BY <1>1, <1>2, <1>5
  <2>2. RB!TypeOK'
    BY <1>1, <1>4, <2>1 DEF RB!TypeOK
  <2>3. HitsAreTold'
    BY <1>3, <2>1 DEF RockInv, HitsAreTold, Held
  <2>4. DueAreHeld'
    <3>1. \A r : RB!Decoded(r)' = RB!Decoded(r)
      BY <2>1 DEF RB!Decoded, RB!ButtonOf, RB!IsGenericGamepadMode
    <3> QED
      BY <2>1, <3>1 DEF RockInv, DueAreHeld, Held
  <2>5. DueAreRecent'
    <3> SUFFICES ASSUME NEW p \in rbDue \ offered
                 PROVE  IF endpoint # <<>> THEN RB!ElapsedMs(hitInfos[p].timeMs)' <= sincePoll
                        ELSE RB!ElapsedMs(hitInfos[p].timeMs)' <= MaxPollMs
      BY <1>1, <2>1 DEF DueAreRecent
    <3>1. endpoint # <<>>
      BY <1>5 DEF RockInv, DueAreHeld, RB!IsHidReady
    <3>2. RB!ElapsedMs(hitInfos[p].timeMs)' = RB!ElapsedMs(hitInfos[p].timeMs)
      BY <2>1 DEF RB!ElapsedMs
    <3> QED
      BY <1>1, <3>1, <3>2 DEF RockInv, DueAreRecent
  <2>6. \A p \in rbDue : RB!IsHit(p)'
    BY <2>1 DEF RockInv, DueAreHeld, Held, RB!IsHit
  <2> QED
    BY <2>1, <2>2, <2>3, <2>4, <2>5, <2>6 DEF RockInv, HasLastMs, RB!MidiIds
<1>6. CASE RB!IsHidReady
  <2> DEFINE told == RB!BuildReport(report)
             held == {p \in RB!Pads : RB!IsHit(p) /\ ~RB!IsExpired(p)}
  <2>1. /\ endpoint = <<>> /\ rbMounted
        /\ hidReport' = told /\ endpoint' = <<told>> /\ endpoint'[1] = told
        /\ hitInfos' = [p \in RB!Pads |-> IF RB!IsExpired(p) THEN RB!NoHit ELSE hitInfos[p]]
        /\ rbDue' = {p \in rbDue : ~RB!IsExpired(p)} /\ offered' = rbDue'
    BY <1>2, <1>6 DEF RB!IsHidReady
  <2>2. /\ told.velocities = RB!Velocities(held)
        /\ held = {} => told.buttons \cap Flags = {}
        /\ held \subseteq RB!Decoded(told)
        /\ rbMode = "RockbandDrum" => RB!Decoded(told) = held
    BY <1>3, <1>4, ReportLemma
  <2>3. told = [buttons |-> told.buttons, hat |-> told.hat, velocities |-> told.velocities]
    BY DEF RB!BuildReport
  <2> HIDE DEF told
  <2>4. RB!NoHit.timeMs = 0 /\ RB!NoHit \in Hit
    BY RockNumbers DEF RB!NoHit, Hit
  <2>5. /\ {p \in RB!Pads : RB!IsHit(p)'} = held
        /\ Held(hitInfos)' = held
        /\ held \subseteq Held(hitInfos)
        /\ \A p \in held : hitInfos'[p] = hitInfos[p]
    <3>1. \A p \in RB!Pads : RB!IsHit(p)' <=> hitInfos'[p].timeMs # 0
      BY DEF RB!IsHit
    <3>2. \A p \in RB!Pads : hitInfos'[p].timeMs # 0 <=> p \in held
      BY <2>1, <2>4 DEF RB!IsHit
    <3> QED
      BY <2>1, <3>1, <3>2 DEF Held, RB!IsHit
  <2> HIDE DEF held
  <2>6. ASSUME NEW p \in rbDue
        PROVE  ~RB!IsExpired(p) /\ p \in held
    <3>1. p \in rbDue \ offered
      BY <2>1 DEF RockInv, DueAreHeld
    <3> DEFINE e == RB!ElapsedMs(hitInfos[p].timeMs)
    <3>2. e <= MaxPollMs + 1
      BY <1>1, <2>1, <3>1 DEF RockInv, DueAreRecent
    <3>3. /\ rbNow \in 0..(DrumClock - 1)
          /\ hitInfos[p].timeMs \in 0..(DrumClock - 1)
      BY <1>4, RockTypes
    <3>4. e \in Nat
      BY <3>3, RockNumbers DEF RB!ElapsedMs
    <3>5. RB!IsExpired(p) => e > HoldMs
      BY DEF RB!IsExpired
    <3> HIDE DEF e
    <3>6. ~RB!IsExpired(p)
      BY <3>2, <3>4, <3>5, RockNumbers
    <3>7. RB!IsHit(p)
      BY DEF RockInv, DueAreHeld, Held, RB!IsHit
    <3> QED
      BY <1>4, <3>6, <3>7 DEF held
  <2>7. rbDue' = rbDue /\ offered' = rbDue /\ rbDue \subseteq held
    BY <2>1, <2>6
  <2>8. RB!TypeOK'
    <3>1. hitInfos' \in [RB!Pads -> Hit]
      BY <1>4, <2>1, <2>4, RockTypes
    <3>2. /\ rbMode \in DrumModes \cup {"off"} /\ hung \in BOOLEAN /\ rbMounted \in BOOLEAN
          /\ ids \in (0..2) \X (0..2) /\ (rbMode = "off" => ids = RB!MidiIds)
          /\ rbNow \in 0..(DrumClock - 1)
      BY <1>4 DEF RB!TypeOK
    <3> QED
      BY <1>1, <1>4, <2>7, <3>1, <3>2 DEF RB!TypeOK, Hit, RB!MidiIds
  <2>9. HitsAreTold'
    <3>1. Tellable(held)
      BY <2>5, FewerAreTellable DEF RockInv, HitsAreTold
    <3>2. Tellable(Held(hitInfos))'
      BY <2>5, <3>1 DEF Tellable, DrumPads, Cymbals
    <3>3. \A p \in held : hitInfos'[p].velocity \in 1..127
      BY <2>5 DEF RockInv, HitsAreTold
    <3> QED
      BY <2>1, <2>2, <2>3, <2>5, <3>2, <3>3 DEF HitsAreTold
  <2>10. DueAreHeld'
    <3>1. \A r : RB!Decoded(r)' = RB!Decoded(r)
      BY <1>1 DEF RB!Decoded, RB!ButtonOf, RB!IsGenericGamepadMode
    <3>2. rbDue' \subseteq Held(hitInfos)'
      BY <2>5, <2>7
    <3>3. offered' \subseteq RB!Decoded(endpoint'[1])
      BY <2>1, <2>2, <2>7
    <3> QED
      BY <1>1, <2>1, <3>1, <3>2, <3>3 DEF DueAreHeld
  <2>11. DueAreRecent'
    BY <2>7 DEF DueAreRecent
  <2>12. rbMode = "RockbandDrum" =>
           \A p \in held \ Pedals : RB!DecodedVelocity(told, p) = hitInfos[p].velocity
    <3>1. held \in SUBSET RB!Pads
      BY DEF held
    <3>2. Tellable(held) /\ \A p \in held : hitInfos[p].velocity \in 1..127
      BY <2>5, FewerAreTellable DEF RockInv, HitsAreTold
    <3> QED
      BY <2>2, <3>1, <3>2, VelocityLemma
  <2>13. RockInv'
    BY <1>1, <2>8, <2>9, <2>10, <2>11 DEF RockInv, RB!MidiIds
  <2> QED
    BY <2>1, <2>2, <2>5, <2>6, <2>12, <2>13, PadsLemma
<1> QED
  BY <1>5, <1>6

LEMMA RockNext ==
  ASSUME RB!RockbandAssumption, RockInv, [RB!Next]_(RB!vars)
  PROVE  RockInv'
<1>1. CASE RB!Tick
  BY <1>1, RockTick
<1>2. CASE RB!Update
  BY <1>2, RockUpdate
<1>3. ASSUME NEW s \in Strikes, RB!SendNoteOn(s[1], s[2])
      PROVE  RockInv'
  <2>1. s[2] \in 1..127
    BY RockNumbers
  <2> QED
    BY <1>3, <2>1, RockNote
<1>4. CASE (\E m \in DrumModes : RB!Start(m)) \/ RB!Stop \/ RB!Unmount
  BY <1>4, RockStarts
<1>5. CASE RB!Mount
  BY <1>5, RockMount
<1>6. CASE RB!Poll
  BY <1>6, RockPoll
<1>7. CASE UNCHANGED RB!vars
  <2>1. UNCHANGED <<rbNow, rbMode, ids, origIds, hitInfos, hidReport, hung, endpoint,
                    rbMounted, sincePoll, updated, rbDue, offered>>
    BY <1>7 DEF RB!vars, RB!code, RB!host, RB!history
  <2>2. RB!TypeOK'
    BY <2>1 DEF RockInv, RB!TypeOK
  <2>3. HitsAreTold'
    BY <2>1 DEF RockInv, HitsAreTold, Held
  <2>4. DueAreHeld'
    <3>1. \A r : RB!Decoded(r)' = RB!Decoded(r)
      BY <2>1 DEF RB!Decoded, RB!ButtonOf, RB!IsGenericGamepadMode
    <3> QED
      BY <2>1, <3>1 DEF RockInv, DueAreHeld, Held
  <2>5. DueAreRecent'
    <3>1. \A t : RB!ElapsedMs(t)' = RB!ElapsedMs(t)
      BY <2>1 DEF RB!ElapsedMs
    <3> QED
      BY <2>1, <3>1 DEF RockInv, DueAreRecent
  <2> QED
    BY <2>1, <2>2, <2>3, <2>4, <2>5 DEF RockInv, HasLastMs, RB!MidiIds
<1> QED
  BY <1>1, <1>2, <1>3, <1>4, <1>5, <1>6, <1>7 DEF RB!Next

(* The Rock Band drum: every hit that the protocol has room for reaches    *)
(* the host, and what the host reads from a report is what was hit, with   *)
(* its velocity; room for a new hit is found, so sendNoteOn() returns,     *)
(* except for a hit of the last ms before millis() wraps around            *)
(* (midi_transport_rockband.cpp:352).                                      *)
THEOREM RockbandAlwaysTellsTheHits == RB!Spec => RockbandTellsTheHits
<1> USE HostsAssumption
<1>1. RB!RockbandAssumption
  BY DEF HostsAssumption
<1>2. RB!Init => RockInv
  BY <1>1, RockInit
<1>3. RockInv /\ [RB!Next]_(RB!vars) => RockInv'
  BY <1>1, RockNext
<1>4. RockInv => RB!TypeOK /\ RB!RoomIsFound
  BY DEF RockInv, RB!RoomIsFound, HasLastMs
<1>5. RockInv /\ [RB!Next]_(RB!vars) =>
        [RB!Update => \A p \in rbDue : RB!IsHit(p)']_(RB!vars)
  BY <1>1, RockUpdate
<1>6. RockInv /\ [RB!Next]_(RB!vars) =>
        [rbMode = "RockbandDrum" /\ RB!Update /\ endpoint' # endpoint =>
           LET report == endpoint'[1]
           IN  /\ RB!Decoded(report) = {p \in RB!Pads : RB!IsHit(p)'}
               /\ \A p \in RB!Decoded(report) \ DOMAIN RB!PedalButtons :
                    RB!DecodedVelocity(report, p) = hitInfos[p].velocity]_(RB!vars)
  BY <1>1, RockUpdate
<1> QED
  BY <1>2, <1>3, <1>4, <1>5, <1>6, PTL
    DEF RB!Spec, RockbandTellsTheHits, RB!HitsReachTheHost, RB!ReportsTellTheHits
-----------------------------------------------------------------------------
(* The wired Guitar Hero drum.  The messages of a pad, one after the       *)
(* other, and those of the pending hits, as functions.                     *)
Note == Nat \X (1..127)

VelocityStep(p, message, before) ==
  IF p \in SP!NoteToPadIds(message[1]) THEN Append(before, message[2]) ELSE before

IsVelocities(p, messages, n, f) ==
  f = [k \in 0..n |-> IF k = 0 THEN <<>> ELSE VelocityStep(p, messages[k], f[k - 1])]

(* There is such a function, up to any number of messages.                 *)
LEMMA VelocitiesExist ==
  ASSUME NEW p, NEW messages, NEW n \in Nat
  PROVE  \E f : IsVelocities(p, messages, n, f)
<1> DEFINE S == {i \in 0..n : \E f : IsVelocities(p, messages, i, f)}
<1>1. 0 \in S
  <2> DEFINE f == [k \in 0..0 |-> <<>>]
  <2>1. IsVelocities(p, messages, 0, f)
    BY DEF IsVelocities
  <2> QED
    BY <2>1
<1>2. ASSUME NEW i \in 0..(n - 1), i \in S
      PROVE  i + 1 \in S
  <2>1. PICK f : IsVelocities(p, messages, i, f)
    BY <1>2
  <2>2. f = [k \in 0..i |-> IF k = 0 THEN <<>> ELSE VelocityStep(p, messages[k], f[k - 1])]
    BY <2>1 DEF IsVelocities
  <2> DEFINE h == [k \in 0..(i + 1) |->
                     IF k = i + 1 THEN VelocityStep(p, messages[i + 1], f[i]) ELSE f[k]]
  <2>3. ASSUME NEW k \in 0..(i + 1)
        PROVE  h[k] = IF k = 0 THEN <<>> ELSE VelocityStep(p, messages[k], h[k - 1])
    <3>1. CASE k = i + 1
      <4>1. k # 0 /\ k - 1 = i /\ i \in 0..(i + 1) /\ i # i + 1
        BY <3>1
      <4>2. h[k - 1] = f[i]
        BY <4>1
      <4> QED
        BY <3>1, <4>1, <4>2
    <3>2. CASE k # i + 1
      <4>1. /\ k \in 0..i /\ h[k] = f[k]
            /\ f[k] = IF k = 0 THEN <<>> ELSE VelocityStep(p, messages[k], f[k - 1])
        BY <2>2, <3>2
      <4>2. k # 0 => h[k - 1] = f[k - 1]
        BY <4>1
      <4> HIDE DEF h
      <4> QED
        BY <4>1, <4>2
    <3> QED
      BY <3>1, <3>2
  <2>4. h = [k \in 0..(i + 1) |-> h[k]]
    OBVIOUS
  <2> HIDE DEF h
  <2>5. IsVelocities(p, messages, i + 1, h)
    BY <2>3, <2>4 DEF IsVelocities
  <2> QED
    BY <2>5
<1> HIDE DEF S
<1>3. 0..n \subseteq S
  BY <1>1, <1>2, InductionUpTo
<1> QED
  BY <1>3 DEF S

BeginsWith(longer, messages, n) == \A k \in 1..n : messages[k] = longer[k]

(* Two of them agree.                                                      *)
LEMMA VelocitiesAgree ==
  ASSUME NEW p, NEW messages, NEW longer, NEW n \in Nat, NEW m \in Nat, n <= m,
         BeginsWith(longer, messages, n),
         NEW f, IsVelocities(p, messages, n, f), NEW g, IsVelocities(p, longer, m, g)
  PROVE  \A k \in 0..n : f[k] = g[k]
<1> DEFINE S == {k \in 0..n : f[k] = g[k]}
<1>1. /\ f = [k \in 0..n |-> IF k = 0 THEN <<>> ELSE VelocityStep(p, messages[k], f[k - 1])]
      /\ g = [k \in 0..m |-> IF k = 0 THEN <<>> ELSE VelocityStep(p, longer[k], g[k - 1])]
  BY DEF IsVelocities
<1>2. 0 \in S
  BY <1>1
<1>3. ASSUME NEW k \in 0..(n - 1), k \in S
      PROVE  k + 1 \in S
  <2>1. k + 1 \in 0..n /\ k + 1 \in 0..m /\ k + 1 \in 1..n /\ k + 1 # 0 /\ (k + 1) - 1 = k
    OBVIOUS
  <2>2. /\ f[k + 1] = VelocityStep(p, messages[k + 1], f[k])
        /\ g[k + 1] = VelocityStep(p, longer[k + 1], g[k])
    BY <1>1, <2>1
  <2> QED
    BY <1>3, <2>1, <2>2 DEF BeginsWith
<1> HIDE DEF S
<1>4. 0..n \subseteq S
  BY <1>2, <1>3, InductionUpTo
<1> QED
  BY <1>4 DEF S

(* The velocities of a pad, one message after the other.                   *)
LEMMA VelocitiesLemma ==
  ASSUME NEW p, NEW messages, Len(messages) \in Nat
  PROVE  \E f : IsVelocities(p, messages, Len(messages), f)
                /\ SP!VelocitiesOf(p, messages) = f[Len(messages)]
<1> DEFINE n == Len(messages)
<1>1. \E f : IsVelocities(p, messages, n, f)
  BY VelocitiesExist
<1> DEFINE f == CHOOSE g : IsVelocities(p, messages, n, g)
<1>2. IsVelocities(p, messages, n, f)
  BY <1>1
<1>3. SP!VelocitiesOf(p, messages) = f[n]
  BY DEF SP!VelocitiesOf, IsVelocities, VelocityStep
<1> QED
  BY <1>2, <1>3

(* One message more. *)
LEMMA VelocitiesAppend ==
  ASSUME NEW p
  PROVE  /\ SP!VelocitiesOf(p, <<>>) = <<>>
         /\ \A messages \in Seq(Note), x \in Note :
              SP!VelocitiesOf(p, Append(messages, x)) =
                VelocityStep(p, x, SP!VelocitiesOf(p, messages))
<1>1. SP!VelocitiesOf(p, <<>>) = <<>>
  <2>1. Len(<<>>) = 0
    OBVIOUS
  <2>2. PICK f : IsVelocities(p, <<>>, 0, f) /\ SP!VelocitiesOf(p, <<>>) = f[0]
    BY <2>1, VelocitiesLemma
  <2> QED
    BY <2>2 DEF IsVelocities
<1>2. ASSUME NEW messages \in Seq(Note), NEW x \in Note
      PROVE  SP!VelocitiesOf(p, Append(messages, x)) =
               VelocityStep(p, x, SP!VelocitiesOf(p, messages))
  <2> DEFINE longer == Append(messages, x)
             n == Len(messages)
  <2>1. /\ n \in Nat /\ Len(longer) = n + 1 /\ longer[n + 1] = x
        /\ BeginsWith(longer, messages, n)
    BY DEF BeginsWith
  <2> HIDE DEF longer, n
  <2>2. PICK f : IsVelocities(p, messages, n, f) /\ SP!VelocitiesOf(p, messages) = f[n]
    BY <2>1, VelocitiesLemma DEF n
  <2>3. n + 1 \in Nat /\ n <= n + 1 /\ n + 1 \in 0..(n + 1) /\ n + 1 # 0
        /\ (n + 1) - 1 = n /\ n \in 0..n
    BY <2>1
  <2>4. PICK g : IsVelocities(p, longer, n + 1, g) /\ SP!VelocitiesOf(p, longer) = g[n + 1]
    BY <2>1, <2>3, VelocitiesLemma
  <2>5. f[n] = g[n]
    <3> DEFINE m == n + 1
    <3>1. /\ m \in Nat /\ n <= m /\ IsVelocities(p, longer, m, g)
      BY <2>3, <2>4
    <3> HIDE DEF m
    <3>2. \A k \in 0..n : f[k] = g[k]
      BY <2>1, <2>2, <3>1, VelocitiesAgree
    <3> QED
      BY <2>3, <3>2
  <2>6. g[n + 1] = VelocityStep(p, longer[n + 1], g[n])
    BY <2>3, <2>4 DEF IsVelocities
  <2> QED
    BY <2>1, <2>2, <2>4, <2>5, <2>6 DEF longer
<1> QED
  BY <1>1, <1>2
(* The pads of the drum, and the note that each of them has. *)
LEMMA SpiPadsLemma ==
  /\ Len(SP!PadIds) = 6 /\ \A i \in 1..6 : SP!PadIds[i] \in SP!Pads
  /\ \A p \in SP!Pads : \E i \in 1..6 : SP!PadIds[i] = p
  /\ \A i, j \in 1..6 : SP!PadIds[i] = SP!PadIds[j] => i = j
  /\ \A p \in SP!Pads : SP!PadIndexToNote(p) \in Nat
  /\ \A p, q \in SP!Pads : p \in SP!NoteToPadIds(SP!PadIndexToNote(q)) <=> p = q
<1>1. Len(SP!PadIds) = 6 /\ DOMAIN SP!PadIds = 1..6
  BY DEF SP!PadIds
<1>2. /\ SP!PadIds[1] = "Red" /\ SP!PadIds[2] = "Blue" /\ SP!PadIds[3] = "Green"
      /\ SP!PadIds[4] = "Yellow" /\ SP!PadIds[5] = "Orange" /\ SP!PadIds[6] = "Kick"
  BY DEF SP!PadIds
<1>3. SP!Pads = {"Red", "Blue", "Green", "Yellow", "Orange", "Kick"}
  <2>1. SP!Pads = {SP!PadIds[i] : i \in 1..6}
    BY <1>1 DEF SP!Pads
  <2>2. 1..6 = {1, 2, 3, 4, 5, 6}
    OBVIOUS
  <2> QED
    BY <1>2, <2>1, <2>2
<1>4. \A i \in 1..6 : SP!PadIds[i] \in SP!Pads
  BY <1>1 DEF SP!Pads
<1>5. \A p \in SP!Pads : \E i \in 1..6 : SP!PadIds[i] = p
  BY <1>1 DEF SP!Pads
<1>6. \A i, j \in 1..6 : SP!PadIds[i] = SP!PadIds[j] => i = j
  BY <1>2
<1>7. /\ SP!PadIndexToNote("Red") = 38 /\ SP!PadIndexToNote("Blue") = 48
      /\ SP!PadIndexToNote("Green") = 45 /\ SP!PadIndexToNote("Yellow") = 46
      /\ SP!PadIndexToNote("Orange") = 49 /\ SP!PadIndexToNote("Kick") = 36
  BY DEF SP!PadIndexToNote
<1>8. /\ SP!PadNotes["Red"] = {31, 34, 37, 38, 39, 40} /\ SP!PadNotes["Blue"] = {47, 48}
      /\ SP!PadNotes["Green"] = {41, 43, 45}
      /\ SP!PadNotes["Yellow"] = {22, 26, 42, 44, 46, 50, 54}
      /\ SP!PadNotes["Orange"] = {49, 51, 52, 53, 55, 56, 57, 59}
      /\ SP!PadNotes["Kick"] = {33, 35, 36}
  BY DEF SP!PadNotes
<1>9. ASSUME NEW p \in SP!Pads, NEW q \in SP!Pads
      PROVE  SP!PadIndexToNote(q) \in SP!PadNotes[p] <=> p = q
  BY <1>3, <1>7, <1>8
<1>10. \A p, q \in SP!Pads : p \in SP!NoteToPadIds(SP!PadIndexToNote(q)) <=> p = q
  BY <1>9 DEF SP!NoteToPadIds
<1>11. \A p \in SP!Pads : SP!PadIndexToNote(p) \in Nat
  BY <1>3, <1>7
<1> QED
  BY <1>1, <1>4, <1>5, <1>6, <1>10, <1>11

PendingStep(hits, pad, before) ==
  IF hits[pad] = 0 THEN before ELSE Append(before, <<SP!PadIndexToNote(pad), hits[pad]>>)

IsPending(n, f) ==
  f = [k \in 0..n |-> IF k = 0 THEN <<>>
                      ELSE PendingStep(pendingPadHits, SP!PadIds[k], f[k - 1])]

(* The messages of the pending hits, likewise.                             *)
LEMMA PendingExist ==
  ASSUME NEW n \in Nat
  PROVE  \E f : IsPending(n, f)
<1> DEFINE S == {i \in 0..n : \E f : IsPending(i, f)}
           Step(k, before) == PendingStep(pendingPadHits, SP!PadIds[k], before)
<1>1. 0 \in S
  <2> DEFINE f == [k \in 0..0 |-> <<>>]
  <2>1. IsPending(0, f)
    BY DEF IsPending
  <2> QED
    BY <2>1
<1>2. ASSUME NEW i \in 0..(n - 1), i \in S
      PROVE  i + 1 \in S
  <2>1. PICK f : IsPending(i, f)
    BY <1>2
  <2>2. f = [k \in 0..i |-> IF k = 0 THEN <<>> ELSE Step(k, f[k - 1])]
    BY <2>1 DEF IsPending
  <2> DEFINE h == [k \in 0..(i + 1) |-> IF k = i + 1 THEN Step(i + 1, f[i]) ELSE f[k]]
  <2> HIDE DEF Step
  <2>3. ASSUME NEW k \in 0..(i + 1)
        PROVE  h[k] = IF k = 0 THEN <<>> ELSE Step(k, h[k - 1])
    <3>1. CASE k = i + 1
      <4>1. k # 0 /\ k - 1 = i /\ i \in 0..(i + 1) /\ i # i + 1
        BY <3>1
      <4>2. h[k - 1] = f[i]
        BY <4>1
      <4> QED
        BY <3>1, <4>1, <4>2
    <3>2. CASE k # i + 1
      <4>1. k \in 0..i /\ h[k] = f[k] /\ f[k] = IF k = 0 THEN <<>> ELSE Step(k, f[k - 1])
        BY <2>2, <3>2
      <4>2. k # 0 => h[k - 1] = f[k - 1]
        BY <4>1
      <4> HIDE DEF h
      <4> QED
        BY <4>1, <4>2
    <3> QED
      BY <3>1, <3>2
  <2>4. h = [k \in 0..(i + 1) |-> h[k]]
    OBVIOUS
  <2> HIDE DEF h
  <2>5. IsPending(i + 1, h)
    BY <2>3, <2>4 DEF IsPending, Step
  <2> QED
    BY <2>5
<1> HIDE DEF S
<1>3. 0..n \subseteq S
  BY <1>1, <1>2, InductionUpTo
<1> QED
  BY <1>3 DEF S

(* Each pending hit makes one message. *)
LEMMA PendingLemma ==
  ASSUME pendingPadHits \in [SP!Pads -> 0..127]
  PROVE  /\ SP!PendingMessages \in Seq(Note) /\ Len(SP!PendingMessages) <= 6
         /\ \A p \in SP!Pads :
              SP!VelocitiesOf(p, SP!PendingMessages) = SP!Pending(p)
<1>1. \E f : IsPending(6, f)
  <2>1. 6 \in Nat
    OBVIOUS
  <2> QED
    BY <2>1, PendingExist
<1> DEFINE f == CHOOSE g : IsPending(6, g)
<1>2. IsPending(6, f)
  BY <1>1
<1>3. SP!PendingMessages = f[6]
  BY SpiPadsLemma DEF SP!PendingMessages, IsPending, PendingStep
<1> HIDE DEF f
<1>4. /\ f[0] = <<>>
      /\ \A k \in 1..6 : f[k] = PendingStep(pendingPadHits, SP!PadIds[k], f[k - 1])
  BY <1>2 DEF IsPending
<1> DEFINE Of(p, k) == IF \E i \in 1..k : SP!PadIds[i] = p THEN SP!Pending(p) ELSE <<>>
           Good(k) == /\ f[k] \in Seq(Note) /\ Len(f[k]) <= k
                      /\ \A p \in SP!Pads : SP!VelocitiesOf(p, f[k]) = Of(p, k)
           S == {k \in 0..6 : Good(k)}
<1>5. 0 \in S
  <2>1. f[0] \in Seq(Note) /\ Len(f[0]) <= 0
    BY <1>4
  <2>2. \A p \in SP!Pads : SP!VelocitiesOf(p, f[0]) = <<>>
    BY <1>4, VelocitiesAppend
  <2>3. \A p \in SP!Pads : Of(p, 0) = <<>>
    OBVIOUS
  <2> HIDE DEF Of
  <2> QED
    BY <2>1, <2>2, <2>3
<1>6. ASSUME NEW k \in 0..(6 - 1), k \in S
      PROVE  k + 1 \in S
  <2> DEFINE q == SP!PadIds[k + 1]
             x == <<SP!PadIndexToNote(q), pendingPadHits[q]>>
  <2>1. /\ k + 1 \in 1..6 /\ (k + 1) - 1 = k /\ k + 1 \in 0..6
        /\ k \in Nat
    OBVIOUS
  <2>2. q \in SP!Pads /\ f[k + 1] = PendingStep(pendingPadHits, q, f[k])
    BY <1>4, <2>1, SpiPadsLemma
  <2>3. /\ f[k] \in Seq(Note) /\ Len(f[k]) <= k
        /\ \A p \in SP!Pads : SP!VelocitiesOf(p, f[k]) = Of(p, k)
    BY <1>6
  <2>4. \A p \in SP!Pads : p # q => Of(p, k + 1) = Of(p, k)
    <3> HIDE DEF S, Good
    <3> SUFFICES ASSUME NEW p \in SP!Pads, p # q
                 PROVE  (\E i \in 1..(k + 1) : SP!PadIds[i] = p)
                          <=> (\E i \in 1..k : SP!PadIds[i] = p)
      OBVIOUS
    <3> QED
      BY <2>1
  <2>5. Of(q, k) = <<>> /\ Of(q, k + 1) = SP!Pending(q)
    <3>1. ~\E i \in 1..k : SP!PadIds[i] = q
      BY <2>1, SpiPadsLemma
    <3>2. \E i \in 1..(k + 1) : SP!PadIds[i] = q
      BY <2>1
    <3> QED
      BY <3>1, <3>2
  <2>6. CASE pendingPadHits[q] = 0
    <3>1. f[k + 1] = f[k] /\ SP!Pending(q) = <<>>
      BY <2>2, <2>6 DEF PendingStep, SP!Pending
    <3>2. \A p \in SP!Pads : Of(p, k + 1) = Of(p, k)
      BY <2>4, <2>5, <3>1
    <3> HIDE DEF Of, q
    <3> QED
      BY <2>1, <2>3, <3>1, <3>2
  <2>7. CASE pendingPadHits[q] # 0
    <3>1. f[k + 1] = Append(f[k], x) /\ SP!Pending(q) = <<pendingPadHits[q]>>
      BY <2>2, <2>7 DEF PendingStep, SP!Pending
    <3>2. x \in Note /\ x[1] = SP!PadIndexToNote(q) /\ x[2] = pendingPadHits[q]
      BY <2>2, <2>7, SpiPadsLemma DEF Note
    <3> HIDE DEF x
    <3>3. f[k + 1] \in Seq(Note) /\ Len(f[k + 1]) <= k + 1
      BY <2>1, <2>3, <3>1, <3>2
    <3>4. ASSUME NEW p \in SP!Pads
          PROVE  SP!VelocitiesOf(p, f[k + 1]) = Of(p, k + 1)
      <4>1. SP!VelocitiesOf(p, f[k + 1]) = VelocityStep(p, x, Of(p, k))
        <5> HIDE DEF Of
        <5> QED
          BY <2>3, <3>1, <3>2, VelocitiesAppend
      <4>2. p \in SP!NoteToPadIds(x[1]) <=> p = q
        BY <2>2, <3>2, SpiPadsLemma
      <4> HIDE DEF Of, q
      <4>3. CASE p = q
        BY <2>5, <3>1, <3>2, <4>1, <4>2, <4>3 DEF VelocityStep
      <4>4. CASE p # q
        BY <2>4, <4>1, <4>2, <4>4 DEF VelocityStep
      <4> QED
        BY <4>3, <4>4
    <3> HIDE DEF Of
    <3> QED
      BY <2>1, <3>3, <3>4
  <2> QED
    BY <2>6, <2>7
<1>7. Good(6)
  <2>1. 6 \in Nat /\ 6 \in 0..6
    OBVIOUS
  <2>2. 0..6 \subseteq S
    <3> HIDE DEF S
    <3> QED
      BY <1>5, <1>6, <2>1, InductionUpTo
  <2> QED
    BY <2>1, <2>2
<1>8. \A p \in SP!Pads : Of(p, 6) = SP!Pending(p)
  BY SpiPadsLemma
<1> HIDE DEF Of
<1> QED
  BY <1>3, <1>7, <1>8
(* A sequence of two parts, cut where they meet. *)
LEMMA PartsLemma ==
  ASSUME NEW S, NEW a \in Seq(S), NEW b \in Seq(S)
  PROVE  /\ a \o b \in Seq(S) /\ Len(a \o b) = Len(a) + Len(b)
         /\ SubSeq(a \o b, 1, Len(a)) = a
         /\ SubSeq(a \o b, Len(a) + 1, Len(a \o b)) = b
<1> DEFINE c == a \o b
<1>1. /\ c \in Seq(S) /\ Len(c) = Len(a) + Len(b)
      /\ \A i \in 1..(Len(a) + Len(b)) : c[i] = IF i <= Len(a) THEN a[i] ELSE b[i - Len(a)]
  BY ConcatProperties
<1>2. Len(a) \in Nat /\ Len(b) \in Nat
  OBVIOUS
<1> HIDE DEF c
<1>3. SubSeq(c, 1, Len(a)) = a
  <2> DEFINE d == SubSeq(c, 1, Len(a))
  <2>1. \A i \in 1..Len(a) : c[i] = a[i] /\ c[i] \in S
    BY <1>1, <1>2
  <2>2. /\ d \in Seq(S) /\ Len(d) = Len(a)
        /\ \A i \in 1..Len(a) : d[i] = c[i]
    BY <1>1, <1>2, <2>1
  <2> HIDE DEF d
  <2>3. d = a
    BY <2>1, <2>2, SeqEqual
  <2> QED
    BY <2>3 DEF d
<1>4. SubSeq(c, Len(a) + 1, Len(c)) = b
  <2> DEFINE d == SubSeq(c, Len(a) + 1, Len(c))
  <2>1. \A i \in 1..Len(b) : c[Len(a) + i] = b[i]
    BY <1>1, <1>2
  <2>2. /\ d \in Seq(S) /\ Len(d) = Len(b)
        /\ \A i \in 1..Len(b) : d[i] = c[Len(a) + i]
    BY <1>1, <1>2
  <2> HIDE DEF d
  <2>3. d = b
    BY <2>1, <2>2, SeqEqual
  <2> QED
    BY <2>3 DEF d
<1> QED
  BY <1>1, <1>3, <1>4 DEF c
-----------------------------------------------------------------------------
(* The invariant: messages that are under way are about each pad once at   *)
(* most, and the console reads what it expects.                            *)
Velocity == 1..127

OncePerPad(messages) ==
  /\ messages \in Seq(Note)
  /\ \A p \in SP!Pads : /\ SP!VelocitiesOf(p, messages) \in Seq(Velocity)
                        /\ Len(SP!VelocitiesOf(p, messages)) <= 1

SpiInv ==
  /\ SP!TypeOK /\ SP!NoHitIsLost
  /\ midiNoteBuffer \in Seq(Note)
  /\ ~started => spiConsole = "idle"
  /\ spiConsole \in {"asked", "counted"} =>
       midiNoteBufferCount = Len(midiNoteBuffer) /\ OncePerPad(midiNoteBuffer)
  /\ spiConsole = "asked" => tx = << SP!CountOf(midiNoteBufferCount) >>
  /\ spiConsole = "counted" => midiNoteBufferCount > 0
  /\ spiConsole = "fetching" =>
       \E messages : OncePerPad(messages) /\ tx = << SP!NotesOf(messages) >>

LEMMA NothingOncePerPad == OncePerPad(<<>>)
<1>1. \A p \in SP!Pads : SP!VelocitiesOf(p, <<>>) = <<>>
  BY VelocitiesAppend
<1>2. <<>> \in Seq(Note) /\ <<>> \in Seq(Velocity) /\ Len(<<>>) <= 1
  OBVIOUS
<1> QED
  BY <1>1, <1>2 DEF OncePerPad

(* The types of the invariant, for the steps that follow.                  *)
LEMMA SpiTypes ==
  ASSUME SpiInv
  PROVE  /\ pendingPadHits \in [SP!Pads -> 0..127]
         /\ \A p \in SP!Pads : SP!Pending(p) \in Seq(Velocity)
         /\ missing \in [SP!Pads -> Seq(Velocity)]
<1>1. /\ pendingPadHits \in [SP!Pads -> 0..127] /\ missing \in [SP!Pads -> Seq(Velocity)]
  BY DEF SpiInv, SP!TypeOK, Velocity
<1>2. ASSUME NEW p \in SP!Pads
      PROVE  SP!Pending(p) \in Seq(Velocity)
  <2>1. CASE pendingPadHits[p] = 0
    BY <2>1 DEF SP!Pending
  <2>2. CASE pendingPadHits[p] # 0
    <3>1. pendingPadHits[p] \in Velocity /\ SP!Pending(p) = <<pendingPadHits[p]>>
      BY <1>1, <2>2 DEF SP!Pending, Velocity
    <3> QED
      BY <3>1
  <2> QED
    BY <2>1, <2>2
<1> QED
  BY <1>1, <1>2

(* What is under way. *)
LEMMA SpiMessages ==
  ASSUME SpiInv
  PROVE  /\ OncePerPad(SP!Messages)
         /\ spiConsole \in {"asked", "counted"} => SP!Messages = midiNoteBuffer
         /\ spiConsole = "fetching" => tx = << SP!NotesOf(SP!Messages) >>
         /\ spiConsole \in {"idle", "selected", "done"} => SP!Messages = <<>>
<1>1. CASE spiConsole \in {"asked", "counted"}
  <2>1. SP!Messages = SubSeq(midiNoteBuffer, 1, Len(midiNoteBuffer))
    BY <1>1 DEF SP!Messages, SpiInv
  <2>2. SP!Messages = midiNoteBuffer
    BY <2>1, SubSeqFull DEF SpiInv
  <2> QED
    BY <1>1, <2>2 DEF SpiInv
<1>2. CASE spiConsole = "fetching"
  <2>1. PICK messages : OncePerPad(messages) /\ tx = << SP!NotesOf(messages) >>
    BY <1>2 DEF SpiInv
  <2>2. /\ tx # <<>> /\ tx[1].kind = "notes" /\ tx[1].messages = messages
    BY <2>1 DEF SP!NotesOf
  <2>3. SP!Messages = messages
    BY <1>2, <2>2 DEF SP!Messages
  <2> QED
    BY <1>2, <2>1, <2>3
<1>3. CASE spiConsole \in {"idle", "selected", "done"}
  <2>1. SP!Messages = <<>>
    BY <1>3 DEF SP!Messages
  <2> QED
    BY <1>3, <2>1, NothingOncePerPad
<1>4. spiConsole \in {"idle", "selected", "asked", "counted", "fetching", "done"}
  BY DEF SpiInv, SP!TypeOK
<1> QED
  BY <1>1, <1>2, <1>3, <1>4

(* Nothing is under way, and what waits is what is missing. *)
LEMMA SpiNothing ==
  ASSUME \A p \in SP!Pads : SP!Pending(p) \in Seq(Velocity),
         SP!Messages = <<>>, missing = [p \in SP!Pads |-> SP!Pending(p)]
  PROVE  SP!NoHitIsLost
<1> SUFFICES ASSUME NEW p \in SP!Pads
             PROVE  missing[p] = SP!VelocitiesOf(p, SP!Messages) \o SP!Pending(p)
  BY DEF SP!NoHitIsLost
<1>1. SP!VelocitiesOf(p, SP!Messages) = <<>>
  BY VelocitiesAppend
<1>2. <<>> \o SP!Pending(p) = SP!Pending(p)
  BY ConcatEmptySeq
<1> QED
  BY <1>1, <1>2

(* The types, when the buffer stays or shrinks. *)
Consoles6 == {"idle", "selected", "asked", "counted", "fetching", "done"}

LEMMA SpiTypesStay ==
  ASSUME SpiInv, midiNoteBuffer' = midiNoteBuffer,
         midiNoteBufferCount' = midiNoteBufferCount \/ midiNoteBufferCount' = 0,
         started' = started \/ started' = TRUE \/ started' = FALSE,
         tx' = tx \/ tx' = <<>> \/ \E x : tx' = << x >>,
         spiConsole' \in Consoles6,
         pendingPadHits' \in [SP!Pads -> 0..127], missing' \in [SP!Pads -> Seq(Velocity)]
  PROVE  SP!TypeOK'
<1>1. started' \in BOOLEAN
  BY DEF SpiInv, SP!TypeOK
<1>2. midiNoteBufferCount' \in 0..Len(midiNoteBuffer')
  BY DEF SpiInv, SP!TypeOK
<1>3. Len(tx') <= 1
  <2>1. CASE tx' = tx
    BY <2>1 DEF SpiInv, SP!TypeOK
  <2>2. CASE tx' = <<>>
    BY <2>2
  <2>3. ASSUME NEW x, tx' = << x >>
        PROVE  Len(tx') <= 1
    <3>1. Len(tx') = 1
      BY <2>3
    <3> QED
      BY <3>1
  <2> QED
    BY <2>1, <2>2, <2>3
<1>4. Len(midiNoteBuffer') <= Len(SP!PadIds)
  BY DEF SpiInv, SP!TypeOK
<1> QED
  BY <1>1, <1>2, <1>3, <1>4 DEF SP!TypeOK, Consoles6, Velocity

(* Nothing is under way at first.                                          *)
LEMMA SpiInit ==
  ASSUME SP!Init
  PROVE  SpiInv
<1> USE DEF SP!Init
<1>1. SP!TypeOK
  <2>1. /\ \A p \in SP!Pads : missing[p] = <<>>
        /\ <<>> \in Seq(1..127) /\ Len(<<>>) = 0
    OBVIOUS
  <2>2. missing \in [SP!Pads -> Seq(1..127)] /\ pendingPadHits \in [SP!Pads -> 0..127]
    BY <2>1
  <2>3. Len(SP!PadIds) = 6
    BY SpiPadsLemma
  <2>4. Len(midiNoteBuffer) <= Len(SP!PadIds) /\ midiNoteBufferCount \in 0..Len(midiNoteBuffer)
    BY <2>3
  <2>5. Len(tx) <= 1
    OBVIOUS
  <2>6. /\ started \in BOOLEAN
        /\ spiConsole \in {"idle", "selected", "asked", "counted", "fetching", "done"}
    OBVIOUS
  <2> QED
    BY <2>2, <2>4, <2>5, <2>6 DEF SP!TypeOK
<1>2. /\ \A p \in SP!Pads : SP!Pending(p) = <<>>
      /\ SP!Messages = <<>>
  BY DEF SP!Pending, SP!Messages
<1>3. SP!NoHitIsLost
  <2>1. \A p \in SP!Pads : SP!Pending(p) \in Seq(Velocity)
    <3>1. <<>> \in Seq(Velocity)
      OBVIOUS
    <3> QED
      BY <1>2, <3>1
  <2>2. missing = [p \in SP!Pads |-> SP!Pending(p)]
    BY <1>2 DEF SP!Pending
  <2> QED
    BY <1>2, <2>1, <2>2, SpiNothing
<1>4. midiNoteBuffer \in Seq(Note)
  OBVIOUS
<1> QED
  BY <1>1, <1>3, <1>4 DEF SpiInv

(* A new hit replaces the one that waits for the same pad, or joins those  *)
(* that are under way.                                                     *)
LEMMA SpiNote ==
  ASSUME SpiInv, NEW note, NEW velocity \in 1..127, SP!SendNoteOn(note, velocity)
  PROVE  SpiInv'
<1>1. PICK p \in SP!NoteToPadIds(note) :
        /\ pendingPadHits' = [pendingPadHits EXCEPT ![p] = velocity]
        /\ missing' = [missing EXCEPT ![p] =
                         Append(IF pendingPadHits[p] = 0 THEN @ ELSE SP!Front(@), velocity)]
  BY DEF SP!SendNoteOn
<1>2. UNCHANGED <<started, midiNoteBuffer, midiNoteBufferCount, tx, spiConsole>>
  BY DEF SP!SendNoteOn
<1>3. p \in SP!Pads /\ velocity \in Velocity
  BY DEF SP!NoteToPadIds, Velocity
<1> DEFINE V(q) == SP!VelocitiesOf(q, SP!Messages)
<1>4. /\ pendingPadHits \in [SP!Pads -> 0..127]
      /\ missing \in [SP!Pads -> Seq(Velocity)]
      /\ \A q \in SP!Pads : /\ SP!Pending(q) \in Seq(Velocity) /\ V(q) \in Seq(Velocity)
                            /\ missing[q] = V(q) \o SP!Pending(q)
  BY SpiTypes, SpiMessages DEF SpiInv, SP!NoHitIsLost, OncePerPad
<1>5. \A q \in SP!Pads : V(q)' = V(q)
  BY <1>2 DEF SP!Messages, SP!VelocitiesOf, SP!NoteToPadIds
<1>6. /\ pendingPadHits' \in [SP!Pads -> 0..127]
      /\ pendingPadHits'[p] = velocity
      /\ \A q \in SP!Pads \ {p} : pendingPadHits'[q] = pendingPadHits[q]
  BY <1>1, <1>3, <1>4
<1> HIDE DEF V
<1>7. /\ SP!Pending(p)' = <<velocity>>
      /\ \A q \in SP!Pads \ {p} : SP!Pending(q)' = SP!Pending(q)
  <2>1. SP!Pending(p)' = IF pendingPadHits'[p] = 0 THEN <<>> ELSE <<pendingPadHits'[p]>>
    BY DEF SP!Pending
  <2>2. velocity # 0
    OBVIOUS
  <2>3. SP!Pending(p)' = <<velocity>>
    BY <1>6, <2>1, <2>2
  <2>4. ASSUME NEW q \in SP!Pads \ {p}
        PROVE  SP!Pending(q)' = SP!Pending(q)
    <3>1. pendingPadHits'[q] = pendingPadHits[q]
      BY <1>6
    <3> QED
      BY <3>1 DEF SP!Pending
  <2> QED
    BY <2>3, <2>4
<1>8. (IF pendingPadHits[p] = 0 THEN missing[p] ELSE SP!Front(missing[p])) = V(p)
  <2>1. CASE pendingPadHits[p] = 0
    <3>1. SP!Pending(p) = <<>>
      BY <2>1 DEF SP!Pending
    <3> QED
      BY <1>3, <1>4, <2>1, <3>1, ConcatEmptySeq
  <2>2. CASE pendingPadHits[p] # 0
    <3> DEFINE x == SP!Pending(p)
    <3>1. x = <<pendingPadHits[p]>> /\ Len(x) = 1 /\ x \in Seq(Velocity)
      BY <1>3, <1>4, <2>2 DEF SP!Pending
    <3>2. missing[p] = V(p) \o x /\ V(p) \in Seq(Velocity)
      BY <1>3, <1>4
    <3> HIDE DEF x
    <3>3. /\ Len(V(p) \o x) = Len(V(p)) + 1
          /\ SubSeq(V(p) \o x, 1, Len(V(p))) = V(p)
      BY <3>1, <3>2, PartsLemma
    <3>4. Len(V(p)) \in Nat
      BY <3>2
    <3>5. SP!Front(missing[p]) = V(p)
      BY <3>2, <3>3, <3>4 DEF SP!Front
    <3> QED
      BY <2>2, <3>5
  <2> QED
    BY <2>1, <2>2
<1>9. /\ missing'[p] = Append(V(p), velocity)
      /\ \A q \in SP!Pads \ {p} : missing'[q] = missing[q]
      /\ missing' \in [SP!Pads -> Seq(Velocity)]
  <2>1. Append(V(p), velocity) \in Seq(Velocity)
    BY <1>3, <1>4
  <2>2. missing' = [missing EXCEPT ![p] = Append(V(p), velocity)]
    BY <1>1, <1>8
  <2> QED
    BY <1>3, <1>4, <2>1, <2>2
<1>10. Append(V(p), velocity) = V(p) \o <<velocity>>
  BY <1>3, <1>4
<1>11. SP!NoHitIsLost'
  <2>1. \A q \in SP!Pads : missing'[q] = V(q) \o SP!Pending(q)'
    BY <1>4, <1>7, <1>9, <1>10
  <2> QED
    BY <1>5, <2>1 DEF SP!NoHitIsLost, V
<1>12. SP!TypeOK'
  BY <1>2, <1>6, <1>9, SpiTypesStay DEF SP!TypeOK, SpiInv, Consoles6
<1> QED
  BY <1>2, <1>11, <1>12 DEF SpiInv

(* The console gives up: what is under way is renounced. *)
LEMMA SpiEnds ==
  ASSUME SpiInv, SP!Stop \/ SP!Deselect
  PROVE  SpiInv'
<1>1. /\ spiConsole' = "idle" /\ started' \in BOOLEAN
      /\ tx' = <<>> \/ tx' = << SP!Preamble >>
      /\ UNCHANGED <<pendingPadHits, midiNoteBuffer, midiNoteBufferCount>>
      /\ missing' = [p \in SP!Pads |-> SP!Pending(p)]
  BY DEF SP!Stop, SP!Deselect, SP!Renounce, SpiInv, SP!TypeOK
<1>2. \A p \in SP!Pads : SP!Pending(p)' = SP!Pending(p) /\ SP!Pending(p) \in Seq(Velocity)
  BY <1>1, SpiTypes DEF SP!Pending
<1>3. missing' \in [SP!Pads -> Seq(Velocity)]
  BY <1>1, <1>2
<1>4. SP!TypeOK'
  <2>1. pendingPadHits' \in [SP!Pads -> 0..127] /\ spiConsole' \in Consoles6
    BY <1>1, SpiTypes DEF Consoles6
  <2>2. (tx' = tx \/ tx' = <<>> \/ \E x : tx' = << x >>)
        /\ (started' = started \/ started' = TRUE \/ started' = FALSE)
    BY <1>1
  <2> QED
    BY <1>1, <1>3, <2>1, <2>2, SpiTypesStay
<1>5. SP!Messages' = <<>>
  BY <1>1 DEF SP!Messages
<1>6. /\ \A p \in SP!Pads : SP!Pending(p)' \in Seq(Velocity)
      /\ missing' = [p \in SP!Pads |-> SP!Pending(p)']
  BY <1>1, <1>2
<1>7. SP!NoHitIsLost'
  <2> SUFFICES ASSUME NEW p \in SP!Pads
               PROVE  missing'[p] = SP!VelocitiesOf(p, SP!Messages') \o SP!Pending(p)'
    BY DEF SP!NoHitIsLost
  <2>1. SP!VelocitiesOf(p, SP!Messages') = <<>>
    BY <1>5, VelocitiesAppend
  <2> QED
    BY <1>6, <2>1, ConcatEmptySeq
<1> QED
  BY <1>1, <1>4, <1>7 DEF SpiInv

(* Nothing is under way, and nothing begins to be. *)
LEMMA SpiBegins ==
  ASSUME SpiInv, SP!Start \/ SP!Select
  PROVE  SpiInv'
<1>1. /\ UNCHANGED <<pendingPadHits, midiNoteBuffer, midiNoteBufferCount, missing>>
      /\ started' \in BOOLEAN /\ (tx' = tx \/ tx' = << SP!Preamble >>)
  BY DEF SP!Start, SP!Select, SP!code, SpiInv, SP!TypeOK
<1>2. /\ pendingPadHits' \in [SP!Pads -> 0..127] /\ missing' \in [SP!Pads -> Seq(Velocity)]
      /\ tx' = tx \/ tx' = <<>> \/ \E x : tx' = << x >>
      /\ started' = started \/ started' = TRUE \/ started' = FALSE
  BY <1>1, SpiTypes
<1>3. CASE SP!Select
  <2>1. SP!Messages = <<>> /\ SP!Messages' = <<>>
    BY <1>3 DEF SP!Select, SP!Messages
  <2>2. SP!NoHitIsLost'
    BY <1>1, <2>1 DEF SpiInv, SP!NoHitIsLost, SP!Pending
  <2>3. SP!TypeOK'
    BY <1>1, <1>3, <1>2, SpiTypesStay DEF SP!Select, Consoles6
  <2>4. started' /\ spiConsole' = "selected"
    BY <1>3 DEF SP!Select, SP!code
  <2> QED
    BY <1>1, <2>2, <2>3, <2>4 DEF SpiInv
<1>4. CASE SP!Start
  <2>1. spiConsole = "idle" /\ spiConsole' = "idle"
    BY <1>4 DEF SP!Start, SpiInv
  <2>2. SP!Messages' = SP!Messages
    BY <2>1 DEF SP!Messages
  <2>3. SP!NoHitIsLost'
    BY <1>1, <2>2 DEF SpiInv, SP!NoHitIsLost, SP!Pending
  <2>4. SP!TypeOK'
    BY <1>1, <1>2, <2>1, SpiTypesStay DEF Consoles6
  <2> QED
    BY <1>1, <1>4, <2>1, <2>3, <2>4 DEF SpiInv, SP!Start
<1> QED
  BY <1>3, <1>4
(* The console asks, for the first time or again: what waits is under way, *)
(* and what was under way is renounced.                                    *)
LEMMA SpiAsk ==
  ASSUME SpiInv, SP!Ask
  PROVE  SpiInv'
<1> DEFINE messages == SP!PendingMessages
<1>1. /\ started' = started /\ spiConsole' = "asked"
      /\ midiNoteBuffer' = messages /\ midiNoteBufferCount' = Len(midiNoteBuffer')
      /\ tx' = << SP!CountOf(midiNoteBufferCount') >>
      /\ pendingPadHits' = [p \in SP!Pads |-> 0]
  BY DEF SP!Ask, SP!Collect
<1>2. /\ messages \in Seq(Note) /\ Len(messages) <= 6
      /\ \A p \in SP!Pads : SP!VelocitiesOf(p, messages) = SP!Pending(p)
  BY SpiTypes, PendingLemma
<1> HIDE DEF messages
<1>3. missing' = [p \in SP!Pads |-> SP!Pending(p)]
  <2>1. CASE spiConsole = "selected"
    <3>1. missing' = missing /\ SP!Messages = <<>>
      BY <2>1 DEF SP!Ask, SP!Messages
    <3>2. \A p \in SP!Pads : missing[p] = SP!Pending(p)
      <4> SUFFICES ASSUME NEW p \in SP!Pads PROVE missing[p] = SP!Pending(p)
        OBVIOUS
      <4>1. missing[p] = SP!VelocitiesOf(p, SP!Messages) \o SP!Pending(p)
        BY DEF SpiInv, SP!NoHitIsLost
      <4>2. SP!VelocitiesOf(p, SP!Messages) = <<>>
        BY <3>1, VelocitiesAppend
      <4> QED
        BY <4>1, <4>2, SpiTypes, ConcatEmptySeq
    <3> QED
      BY <3>1, <3>2, SpiTypes
  <2>2. CASE spiConsole # "selected"
    BY <2>2 DEF SP!Ask, SP!Renounce
  <2> QED
    BY <2>1, <2>2
<1>4. /\ missing' \in [SP!Pads -> Seq(Velocity)]
      /\ pendingPadHits' \in [SP!Pads -> 0..127]
  BY <1>1, <1>3, SpiTypes
<1>5. Len(messages) \in Nat /\ Len(messages) \in 0..Len(messages)
  BY <1>2
<1>6. SP!TypeOK'
  <2>1. Len(midiNoteBuffer') <= Len(SP!PadIds)
    BY <1>1, <1>2, SpiPadsLemma
  <2>2. midiNoteBufferCount' \in 0..Len(midiNoteBuffer')
    BY <1>1, <1>5
  <2>3. Len(tx') <= 1
    <3> DEFINE x == SP!CountOf(midiNoteBufferCount')
    <3>1. tx' = << x >>
      BY <1>1
    <3> HIDE DEF x
    <3>2. Len(tx') = 1
      BY <3>1
    <3> QED
      BY <3>2
  <2>4. started' \in BOOLEAN
    BY <1>1 DEF SpiInv, SP!TypeOK
  <2>5. spiConsole' \in {"idle", "selected", "asked", "counted", "fetching", "done"}
    BY <1>1
  <2> QED
    BY <1>4, <2>1, <2>2, <2>3, <2>4, <2>5 DEF SP!TypeOK, Velocity
<1>7. SP!Messages' = messages
  <2>1. SP!Messages' = SubSeq(midiNoteBuffer', 1, midiNoteBufferCount')
    BY <1>1 DEF SP!Messages
  <2> QED
    BY <1>1, <1>2, <2>1, SubSeqFull
<1>8. \A p \in SP!Pads : SP!Pending(p)' = <<>>
  BY <1>1 DEF SP!Pending
<1>9. SP!NoHitIsLost'
  <2> SUFFICES ASSUME NEW p \in SP!Pads
               PROVE  missing'[p] = SP!VelocitiesOf(p, SP!Messages') \o SP!Pending(p)'
    BY DEF SP!NoHitIsLost
  <2>1. SP!VelocitiesOf(p, SP!Messages') = SP!Pending(p)
    BY <1>2, <1>7
  <2> QED
    BY <1>3, <1>8, <2>1, SpiTypes, ConcatEmptySeq
<1>10. OncePerPad(messages)
  <2>1. \A p \in SP!Pads : SP!Pending(p) \in Seq(Velocity) /\ Len(SP!Pending(p)) <= 1
    <3>1. \A p \in SP!Pads : SP!Pending(p) \in Seq(Velocity)
      BY SpiTypes
    <3>2. \A p \in SP!Pads : Len(SP!Pending(p)) <= 1
      BY DEF SP!Pending
    <3> QED
      BY <3>1, <3>2
  <2> QED
    BY <1>2, <2>1 DEF OncePerPad
<1>11. ~started' => spiConsole' = "idle"
  BY <1>1 DEF SP!Ask, SpiInv
<1> QED
  BY <1>1, <1>2, <1>6, <1>9, <1>10, <1>11 DEF SpiInv

(* The console reads how many messages there are.                          *)
LEMMA SpiReadCount ==
  ASSUME SpiInv, SP!ReadCount
  PROVE  SpiInv'
<1>1. /\ spiConsole = "asked" /\ tx' = <<>>
      /\ UNCHANGED <<started, pendingPadHits, midiNoteBuffer, midiNoteBufferCount, missing>>
  BY DEF SP!ReadCount
<1>2. /\ midiNoteBufferCount = Len(midiNoteBuffer) /\ OncePerPad(midiNoteBuffer)
      /\ tx[1].n = midiNoteBufferCount /\ started
      /\ midiNoteBuffer \in Seq(Note)
  BY <1>1 DEF SpiInv, SP!CountOf
<1>3. spiConsole' = IF midiNoteBufferCount = 0 THEN "done" ELSE "counted"
  BY <1>2 DEF SP!ReadCount
<1>4. SP!TypeOK'
  <2>1. spiConsole' \in Consoles6
    BY <1>3 DEF Consoles6
  <2> QED
    BY <1>1, <2>1, SpiTypes, SpiTypesStay
<1>5. SP!Messages' = SP!Messages
  <2>1. SP!Messages = SubSeq(midiNoteBuffer, 1, midiNoteBufferCount)
    BY <1>1 DEF SP!Messages
  <2>2. CASE midiNoteBufferCount = 0
    <3>1. SP!Messages' = <<>>
      BY <1>3, <2>2 DEF SP!Messages
    <3> QED
      BY <2>1, <2>2, <3>1
  <2>3. CASE midiNoteBufferCount # 0
    BY <1>1, <1>3, <2>1, <2>3 DEF SP!Messages
  <2> QED
    BY <2>2, <2>3
<1>6. SP!NoHitIsLost'
  BY <1>1, <1>5 DEF SpiInv, SP!NoHitIsLost, SP!Pending
<1>7. spiConsole' = "counted" => midiNoteBufferCount' > 0
  <2>1. Len(midiNoteBuffer) \in Nat
    BY <1>2
  <2> QED
    BY <1>1, <1>2, <1>3, <2>1
<1> QED
  BY <1>1, <1>2, <1>3, <1>4, <1>6, <1>7 DEF SpiInv

(* The console fetches the messages.                                       *)
LEMMA SpiFetch ==
  ASSUME SpiInv, SP!Fetch
  PROVE  SpiInv'
<1>1. /\ midiNoteBufferCount = Len(midiNoteBuffer) /\ OncePerPad(midiNoteBuffer)
      /\ midiNoteBufferCount > 0 /\ midiNoteBuffer \in Seq(Note) /\ started
  BY DEF SP!Fetch, SpiInv
<1>2. /\ spiConsole = "counted" /\ spiConsole' = "fetching" /\ midiNoteBufferCount' = 0
      /\ tx' = << SP!NotesOf(SubSeq(midiNoteBuffer, 1, midiNoteBufferCount)) >>
      /\ UNCHANGED <<started, pendingPadHits, midiNoteBuffer, missing>>
  BY <1>1 DEF SP!Fetch, SP!Offer
<1>3. tx' = << SP!NotesOf(midiNoteBuffer) >>
  BY <1>1, <1>2, SubSeqFull
<1>4. SP!TypeOK'
  <2>1. spiConsole' \in Consoles6
    BY <1>2 DEF Consoles6
  <2> QED
    BY <1>2, <2>1, SpiTypes, SpiTypesStay
<1>5. SP!Messages' = midiNoteBuffer /\ SP!Messages = midiNoteBuffer
  <2>1. tx' # <<>> /\ tx'[1].kind = "notes" /\ tx'[1].messages = midiNoteBuffer
    BY <1>3 DEF SP!NotesOf
  <2>2. SP!Messages' = midiNoteBuffer
    BY <1>2, <2>1 DEF SP!Messages
  <2> QED
    BY <1>2, <2>2, SpiMessages
<1>6. SP!NoHitIsLost'
  BY <1>2, <1>5 DEF SpiInv, SP!NoHitIsLost, SP!Pending
<1> QED
  BY <1>1, <1>2, <1>3, <1>4, <1>6 DEF SpiInv

(* The console hears each pad once at most, and what it hears was missing. *)
LEMMA SpiReadNotes ==
  ASSUME SpiInv, SP!ReadNotes
  PROVE  /\ SpiInv'
         /\ \A p \in SP!Pads :
              LET heard == SP!VelocitiesOf(p, tx[1].messages)
              IN  Len(heard) <= 1 /\ SP!IsPrefix(heard, missing[p])
<1> DEFINE V(p) == SP!VelocitiesOf(p, SP!Messages)
<1>1. /\ spiConsole = "fetching" /\ spiConsole' = "done" /\ tx' = <<>>
      /\ missing' = [p \in SP!Pads |->
                       LET n == Len(SP!VelocitiesOf(p, tx[1].messages))
                       IN  SubSeq(missing[p], n + 1, Len(missing[p]))]
      /\ UNCHANGED <<started, pendingPadHits, midiNoteBuffer, midiNoteBufferCount>>
  BY DEF SP!ReadNotes
<1>2. OncePerPad(SP!Messages) /\ tx = << SP!NotesOf(SP!Messages) >>
  BY <1>1, SpiMessages
<1>3. tx[1].messages = SP!Messages
  BY <1>2 DEF SP!NotesOf
<1>4. ASSUME NEW p \in SP!Pads
      PROVE  /\ V(p) \in Seq(Velocity) /\ Len(V(p)) <= 1
             /\ SP!Pending(p) \in Seq(Velocity)
             /\ missing[p] = V(p) \o SP!Pending(p)
             /\ SubSeq(missing[p], Len(V(p)) + 1, Len(missing[p])) = SP!Pending(p)
             /\ SP!IsPrefix(V(p), missing[p])
  <2>1. /\ V(p) \in Seq(Velocity) /\ Len(V(p)) <= 1 /\ SP!Pending(p) \in Seq(Velocity)
        /\ missing[p] = V(p) \o SP!Pending(p)
    BY <1>2, SpiTypes DEF OncePerPad, SpiInv, SP!NoHitIsLost
  <2> HIDE DEF V
  <2>2. /\ Len(missing[p]) = Len(V(p)) + Len(SP!Pending(p))
        /\ SubSeq(missing[p], 1, Len(V(p))) = V(p)
        /\ SubSeq(missing[p], Len(V(p)) + 1, Len(missing[p])) = SP!Pending(p)
    BY <2>1, PartsLemma
  <2>3. SubSeq(V(p), 1, Len(V(p))) = V(p)
    BY <2>1, SubSeqFull
  <2>4. Len(V(p)) \in Nat /\ Len(SP!Pending(p)) \in Nat
    BY <2>1
  <2>5. Len(V(p)) <= Len(missing[p])
    BY <2>2, <2>4
  <2> QED
    BY <2>1, <2>2, <2>3, <2>5 DEF SP!IsPrefix
<1>5. missing' = [p \in SP!Pads |-> SP!Pending(p)]
  BY <1>1, <1>3, <1>4
<1>6. SP!TypeOK'
  <2>1. spiConsole' \in Consoles6
    BY <1>1 DEF Consoles6
  <2>2. missing' \in [SP!Pads -> Seq(Velocity)]
    BY <1>4, <1>5
  <2> QED
    BY <1>1, <2>1, <2>2, SpiTypes, SpiTypesStay
<1>7. SP!NoHitIsLost'
  <2> SUFFICES ASSUME NEW p \in SP!Pads
               PROVE  missing'[p] = SP!VelocitiesOf(p, SP!Messages') \o SP!Pending(p)'
    BY DEF SP!NoHitIsLost
  <2>1. SP!Messages' = <<>>
    BY <1>1 DEF SP!Messages
  <2>2. SP!VelocitiesOf(p, SP!Messages') = <<>>
    BY <2>1, VelocitiesAppend
  <2>3. SP!Pending(p)' = SP!Pending(p)
    BY <1>1 DEF SP!Pending
  <2> QED
    BY <1>4, <1>5, <2>2, <2>3, ConcatEmptySeq
<1>8. SpiInv'
  BY <1>1, <1>6, <1>7 DEF SpiInv
<1> QED
  BY <1>3, <1>4, <1>8

(* Every step keeps the invariant.                                         *)
LEMMA SpiNext ==
  ASSUME SP!StrikesAssumption, SpiInv, [SP!Next]_(SP!vars)
  PROVE  SpiInv'
<1>1. ASSUME NEW s \in SpiStrikes, SP!SendNoteOn(s[1], s[2])
      PROVE  SpiInv'
  BY <1>1, SpiNote DEF SP!StrikesAssumption
<1>2. CASE SP!Start \/ SP!Select
  BY <1>2, SpiBegins
<1>3. CASE SP!Stop \/ SP!Deselect
  BY <1>3, SpiEnds
<1>4. CASE SP!Ask
  BY <1>4, SpiAsk
<1>5. CASE SP!ReadCount
  BY <1>5, SpiReadCount
<1>6. CASE SP!Fetch
  BY <1>6, SpiFetch
<1>7. CASE SP!ReadNotes
  BY <1>7, SpiReadNotes
<1>8. CASE UNCHANGED SP!vars
  <2>1. UNCHANGED <<started, pendingPadHits, midiNoteBuffer, midiNoteBufferCount, tx,
                    spiConsole, missing>>
    BY <1>8 DEF SP!vars, SP!code
  <2>2. SP!TypeOK' /\ SP!NoHitIsLost'
    BY <2>1 DEF SpiInv, SP!TypeOK, SP!NoHitIsLost, SP!Messages, SP!Pending
  <2> QED
    BY <2>1, <2>2 DEF SpiInv
<1> QED
  BY <1>1, <1>2, <1>3, <1>4, <1>5, <1>6, <1>7, <1>8 DEF SP!Next

(* What the run checks of the wired drum.                                  *)
LEMMA SpiTellsTheHits ==
  SP!Spec => [](SP!TypeOK /\ SP!NoHitIsLost) /\ SP!HitsAreHeardOnce
<1> USE HostsAssumption
<1>1. SP!StrikesAssumption
  BY DEF HostsAssumption
<1>2. SP!Init => SpiInv
  BY SpiInit
<1>3. SpiInv /\ [SP!Next]_(SP!vars) => SpiInv'
  BY <1>1, SpiNext
<1>4. SpiInv => SP!TypeOK /\ SP!NoHitIsLost
  BY DEF SpiInv
<1>5. SpiInv /\ [SP!Next]_(SP!vars) =>
        [SP!ReadNotes =>
           \A p \in SP!Pads :
             LET heard == SP!VelocitiesOf(p, tx[1].messages)
             IN  Len(heard) <= 1 /\ SP!IsPrefix(heard, missing[p])]_(SP!vars)
  BY SpiReadNotes
<1> QED
  BY <1>2, <1>3, <1>4, <1>5, PTL DEF SP!Spec, SP!HitsAreHeardOnce

(* The Wii drum.  Sequences whose elements are of any kind. *)
IsSeq(q) == \E S : q \in Seq(S)

LEMMA SeqAppend ==
  ASSUME NEW q, IsSeq(q), NEW x
  PROVE  /\ IsSeq(Append(q, x)) /\ Len(q) \in Nat /\ Len(Append(q, x)) = Len(q) + 1
         /\ Append(q, x)[Len(q) + 1] = x
         /\ \A i \in 1..Len(q) : Append(q, x)[i] = q[i]
<1>1. PICK S : q \in Seq(S)
  BY DEF IsSeq
<1> DEFINE T == S \cup {x}
<1>2. q \in Seq(T) /\ x \in T
  BY <1>1, SeqMonotonic
<1> HIDE DEF T
<1>3. Append(q, x) \in Seq(T)
  BY <1>2
<1> QED
  BY <1>2, <1>3 DEF IsSeq

LEMMA SeqTail ==
  ASSUME NEW q, IsSeq(q), q # <<>>
  PROVE  /\ IsSeq(Tail(q)) /\ Len(q) \in Nat \ {0} /\ Len(Tail(q)) = Len(q) - 1
         /\ Head(q) = q[1] /\ \A i \in 1..(Len(q) - 1) : Tail(q)[i] = q[i + 1]
<1>1. PICK S : q \in Seq(S)
  BY DEF IsSeq
<1>2. Tail(q) \in Seq(S)
  BY <1>1
<1> QED
  BY <1>1, <1>2 DEF IsSeq

LEMMA SeqConcat ==
  ASSUME NEW q, IsSeq(q), NEW p, IsSeq(p)
  PROVE  /\ IsSeq(q \o p) /\ Len(q) \in Nat /\ Len(p) \in Nat
         /\ Len(q \o p) = Len(q) + Len(p)
         /\ \A i \in 1..(Len(q) + Len(p)) :
              (q \o p)[i] = IF i <= Len(q) THEN q[i] ELSE p[i - Len(q)]
<1>1. PICK S : q \in Seq(S)
  BY DEF IsSeq
<1>2. PICK T : p \in Seq(T)
  BY DEF IsSeq
<1> DEFINE U == S \cup T
<1>3. q \in Seq(U) /\ p \in Seq(U)
  <2>1. S \subseteq U /\ T \subseteq U
    OBVIOUS
  <2> HIDE DEF U
  <2> QED
    BY <1>1, <1>2, <2>1, SeqMonotonic
<1> HIDE DEF U
<1>4. /\ q \o p \in Seq(U) /\ Len(q) \in Nat /\ Len(p) \in Nat
      /\ Len(q \o p) = Len(q) + Len(p)
      /\ \A i \in 1..(Len(q) + Len(p)) :
           (q \o p)[i] = IF i <= Len(q) THEN q[i] ELSE p[i - Len(q)]
  BY <1>3, ConcatProperties
<1> QED
  BY <1>4 DEF IsSeq

LEMMA SeqOfFunction ==
  ASSUME NEW n \in Nat, NEW x
  PROVE  LET p == [i \in 1..n |-> x]
         IN  IsSeq(p) /\ Len(p) = n /\ \A i \in 1..n : p[i] = x
<1> DEFINE p == [i \in 1..n |-> x]
<1>1. p \in Seq({x}) /\ Len(p) = n
  OBVIOUS
<1> QED
  BY <1>1 DEF IsSeq

-----------------------------------------------------------------------------
(* The remote.  What waits in its queue are answers.  An extension that is *)
(* plugged in is the drum, and stays.                                      *)
Fields ==
  {"queue", "mode", "continuous", "sysExtension", "extensionConnected", "hotplugTimer",
   "encrypted", "tables", "reportType", "ident", "keyParts", "ircam", "leds",
   "extension", "buttons", "pressed", "midi"}

IsRemote(w) ==
  /\ DOMAIN w = Fields /\ DOMAIN w.keyParts = GW!KeyParts
  /\ w.mode \in GW!DataModes /\ IsSeq(w.queue)

IsAnswer(x) == x.type \in {"20", "21", "22", "30"}
IsAck(x) == x.type = "22" /\ x.of = "16"
TellsOfDrum(x) == x.type = "20" /\ x.extensionConnected = TRUE

(* What a request leaves as it is, and what it adds to the queue. *)
SameDrum(w, v) ==
  /\ v.extension = w.extension /\ v.sysExtension = w.sysExtension
  /\ v.extensionConnected = w.extensionConnected

SameKey(w, v) ==
  v.encrypted = w.encrypted /\ v.tables = w.tables /\ v.keyParts = w.keyParts

MayAnswer(w, x) ==
  IsAnswer(x) /\ (TellsOfDrum(x) => w.extensionConnected = TRUE)

Answered(w, v) ==
  /\ IsRemote(v) /\ SameDrum(w, v) /\ Len(w.queue) \in Nat /\ Len(v.queue) \in Nat
  /\ Len(w.queue) <= Len(v.queue)
  /\ \A i \in 1..Len(w.queue) : v.queue[i] = w.queue[i]
  /\ \A i \in (Len(w.queue) + 1)..Len(v.queue) :
       MayAnswer(w, v.queue[i])

(* What is put into the queue of the remote waits at its end.              *)
LEMMA PushLemma ==
  ASSUME NEW w, NEW u, IsRemote(u), SameDrum(w, u), u.queue = w.queue,
         NEW x, MayAnswer(w, x)
  PROVE  LET v == GW!Push(u, x)
         IN  /\ Answered(w, v) /\ SameKey(u, v)
             /\ Len(v.queue) = Len(w.queue) + 1 /\ v.queue[Len(v.queue)] = x
<1> DEFINE v == GW!Push(u, x)
<1>1. v.queue = Append(w.queue, x)
  BY DEF GW!Push, IsRemote, Fields
<1>2. SameDrum(u, v) /\ SameKey(u, v) /\ v.mode = u.mode /\ DOMAIN v = Fields
  BY DEF GW!Push, IsRemote, Fields, SameDrum, SameKey
<1>3. /\ IsSeq(v.queue) /\ Len(w.queue) \in Nat /\ Len(v.queue) = Len(w.queue) + 1
      /\ v.queue[Len(w.queue) + 1] = x
      /\ \A i \in 1..Len(w.queue) : v.queue[i] = w.queue[i]
  BY <1>1, SeqAppend DEF IsRemote
<1> HIDE DEF v
<1>4. IsRemote(v) /\ SameDrum(w, v)
  BY <1>2, <1>3 DEF IsRemote, SameKey, SameDrum
<1>5. \A i \in (Len(w.queue) + 1)..Len(v.queue) : i = Len(w.queue) + 1
  BY <1>3
<1>6. \A i \in (Len(w.queue) + 1)..Len(v.queue) : v.queue[i] = x
  BY <1>3, <1>5
<1>7. Len(w.queue) <= Len(v.queue) /\ Len(v.queue) \in Nat
  BY <1>3
<1>8. Answered(w, v)
  BY <1>3, <1>4, <1>6, <1>7 DEF Answered
<1>9. v.queue[Len(v.queue)] = x
  BY <1>3
<1> QED
  BY <1>2, <1>3, <1>8, <1>9 DEF v

(* Nothing is added. *)
LEMMA SilentLemma ==
  ASSUME NEW w, NEW u, IsRemote(u), SameDrum(w, u), u.queue = w.queue
  PROVE  Answered(w, u)
<1>1. Len(w.queue) \in Nat
  BY DEF IsRemote, IsSeq
<1> QED
  BY <1>1 DEF Answered

(* What is read of the memory is sent in packets, none of which is an      *)
(* acknowledgement.                                                        *)
LEMMA PacketsLemma ==
  ASSUME NEW w, NEW u, IsRemote(u), SameDrum(w, u), u.queue = w.queue,
         NEW of, NEW size \in Nat, NEW data, NEW key
  PROVE  LET v == [u EXCEPT !.queue = @ \o GW!Packets(of, size, data, key)]
         IN  Answered(w, v) /\ SameKey(u, v)
<1> DEFINE p == GW!Packets(of, size, data, key)
           v == [u EXCEPT !.queue = @ \o p]
           n == (size + GW!PacketSize - 1) \div GW!PacketSize
           x == [type |-> "21", of |-> of, error |-> 0, data |-> data, key |-> key]
<1>1. n \in Nat
  BY DEF GW!PacketSize
<1>2. p = [i \in 1..n |-> x]
  BY DEF GW!Packets
<1>3. MayAnswer(w, x)
  BY DEF IsAnswer, TellsOfDrum, MayAnswer
<1> HIDE DEF p, n, x
<1>4. IsSeq(p) /\ Len(p) = n /\ \A i \in 1..n : p[i] = x
  BY <1>1, <1>2, SeqOfFunction
<1>5. v.queue = w.queue \o p
  BY DEF IsRemote, Fields
<1>6. SameDrum(u, v) /\ SameKey(u, v) /\ v.mode = u.mode /\ DOMAIN v = Fields
  BY DEF IsRemote, Fields, SameDrum, SameKey
<1> HIDE DEF v
<1>7. /\ IsSeq(v.queue) /\ Len(w.queue) \in Nat /\ Len(v.queue) = Len(w.queue) + n
      /\ \A i \in 1..(Len(w.queue) + n) :
           v.queue[i] = IF i <= Len(w.queue) THEN w.queue[i] ELSE p[i - Len(w.queue)]
  <2>1. IsSeq(w.queue)
    BY DEF IsRemote
  <2>2. /\ IsSeq(w.queue \o p) /\ Len(w.queue) \in Nat /\ Len(w.queue \o p) = Len(w.queue) + Len(p)
        /\ \A i \in 1..(Len(w.queue) + Len(p)) :
             (w.queue \o p)[i] = IF i <= Len(w.queue) THEN w.queue[i] ELSE p[i - Len(w.queue)]
    BY <1>4, <2>1, SeqConcat
  <2> QED
    BY <1>4, <1>5, <2>2
<1>8. IsRemote(v) /\ SameDrum(w, v)
  BY <1>6, <1>7 DEF IsRemote, SameKey, SameDrum
<1>9. ASSUME NEW i \in (Len(w.queue) + 1)..Len(v.queue)
      PROVE  v.queue[i] = x
  <2>1. /\ i \in 1..(Len(w.queue) + n) /\ ~(i <= Len(w.queue))
        /\ i - Len(w.queue) \in 1..n
    BY <1>1, <1>7
  <2> QED
    BY <1>4, <1>7, <2>1
<1>10. /\ Len(w.queue) <= Len(v.queue) /\ Len(v.queue) \in Nat
       /\ \A i \in 1..Len(w.queue) : v.queue[i] = w.queue[i]
  BY <1>1, <1>7
<1>11. Answered(w, v)
  BY <1>3, <1>7, <1>8, <1>9, <1>10 DEF Answered
<1> QED
  BY <1>6, <1>11 DEF v, p
(* A request is answered, and only the writes of the console change the    *)
(* key: then the answer is an acknowledgement.                             *)
LEMMA AckLemma ==
  ASSUME NEW w, NEW u, IsRemote(u), SameDrum(w, u), u.queue = w.queue,
         NEW of, NEW error
  PROVE  LET v == GW!PushAck(u, of, error)
         IN  /\ Answered(w, v) /\ SameKey(u, v)
             /\ Len(v.queue) = Len(w.queue) + 1
             /\ of = "16" => IsAck(v.queue[Len(v.queue)])
<1> DEFINE x == [type |-> "22", of |-> of, error |-> error]
<1>1. MayAnswer(w, x) /\ (of = "16" => IsAck(x))
  BY DEF IsAnswer, TellsOfDrum, IsAck, MayAnswer
<1>2. GW!PushAck(u, of, error) = GW!Push(u, x)
  BY DEF GW!PushAck
<1> HIDE DEF x
<1> DEFINE v == GW!Push(u, x)
<1>3. /\ Answered(w, v) /\ SameKey(u, v)
      /\ Len(v.queue) = Len(w.queue) + 1 /\ v.queue[Len(v.queue)] = x
  BY <1>1, PushLemma
<1> QED
  BY <1>1, <1>2, <1>3

(* An acknowledgement that was asked for.                                  *)
LEMMA AckIfLemma ==
  ASSUME NEW w, NEW u, IsRemote(u), SameDrum(w, u), u.queue = w.queue,
         NEW needed, NEW of
  PROVE  Answered(w, GW!PushAckIf(u, needed, of)) /\ SameKey(u, GW!PushAckIf(u, needed, of))
<1>1. CASE needed
  <2>1. GW!PushAckIf(u, needed, of) = GW!PushAck(u, of, 0)
    BY <1>1 DEF GW!PushAckIf
  <2> QED
    BY <2>1, AckLemma
<1>2. CASE ~needed
  <2>1. GW!PushAckIf(u, needed, of) = u
    BY <1>2 DEF GW!PushAckIf
  <2> QED
    BY <2>1, SilentLemma DEF SameKey
<1> QED
  BY <1>1, <1>2

(* A write to a register of the extension. *)
Written(w, r) ==
  IF r.register # "a4" THEN w
  ELSE IF r.address \in GW!KeyParts THEN GW!WriteKeyPart(w, r.address, r.data)
  ELSE IF r.address = "f0" /\ r.data = "aa" THEN [w EXCEPT !.encrypted = TRUE]
  ELSE IF r.address = "f0" /\ r.data = "55" THEN [w EXCEPT !.encrypted = FALSE]
  ELSE w

(* What is written changes the key as the console expects.                 *)
LEMMA WrittenLemma ==
  ASSUME NEW w, IsRemote(w), NEW r
  PROVE  /\ IsRemote(Written(w, r)) /\ SameDrum(w, Written(w, r))
         /\ Written(w, r).queue = w.queue
         /\ r.register = "a4" /\ r.address = "f0" /\ r.data = "55"
              => GW!Key(Written(w, r)) = GW!NoKey
         /\ r.register = "a4" /\ r.address = "4c" /\ w.keyParts["40"] = r.data
              /\ w.keyParts["46"] = r.data => GW!Key(Written(w, r)) = r.data
         /\ ~(r.register = "a4" /\ (r.address = "4c" \/ (r.address = "f0" /\ r.data \in {"55", "aa"})))
              => GW!Key(Written(w, r)) = GW!Key(w)
         /\ Written(w, r).keyParts =
              IF r.register = "a4" /\ r.address \in GW!KeyParts
              THEN [w.keyParts EXCEPT ![r.address] = r.data] ELSE w.keyParts
<1> DEFINE v == Written(w, r)
<1> USE DEF GW!Key, SameDrum
<1>1. CASE r.register # "a4"
  <2>1. v = w
    BY <1>1 DEF Written
  <2> HIDE DEF v
  <2> QED
    BY <1>1, <2>1 DEF v
<1>2. CASE r.register = "a4" /\ r.address \in GW!KeyParts
  <2> DEFINE parts == [w.keyParts EXCEPT ![r.address] = r.data]
  <2>1. v = GW!WriteKeyPart(w, r.address, r.data)
    BY <1>2 DEF Written
  <2>2. r.address # "f0" /\ DOMAIN parts = GW!KeyParts
    BY <1>2 DEF GW!KeyParts, IsRemote
  <2>3. CASE r.address = "4c"
    <3>1. v = [w EXCEPT !.keyParts = parts, !.encrypted = TRUE,
                        !.tables = IF \A a \in GW!KeyParts : parts[a] = r.data
                                   THEN r.data ELSE "mixed"]
      BY <2>1, <2>3 DEF GW!WriteKeyPart
    <3>2. w.keyParts["40"] = r.data /\ w.keyParts["46"] = r.data =>
            \A a \in GW!KeyParts : parts[a] = r.data
      BY <2>3 DEF GW!KeyParts, IsRemote
    <3> HIDE DEF parts
    <3>3. /\ v.keyParts = parts /\ v.encrypted = TRUE
          /\ v.tables = IF \A a \in GW!KeyParts : parts[a] = r.data THEN r.data ELSE "mixed"
          /\ v.queue = w.queue /\ v.mode = w.mode /\ DOMAIN v = Fields
          /\ v.extension = w.extension /\ v.sysExtension = w.sysExtension
          /\ v.extensionConnected = w.extensionConnected
      BY <3>1 DEF IsRemote, Fields
    <3> HIDE DEF v
    <3>4. IsRemote(v)
      BY <2>2, <3>3 DEF IsRemote
    <3> QED
      BY <1>2, <2>2, <2>3, <3>2, <3>3, <3>4 DEF v, parts
  <2>4. CASE r.address # "4c"
    <3>1. v = [w EXCEPT !.keyParts = parts]
      BY <2>1, <2>4 DEF GW!WriteKeyPart
    <3> HIDE DEF parts
    <3>2. /\ v.keyParts = parts /\ v.encrypted = w.encrypted /\ v.tables = w.tables
          /\ v.queue = w.queue /\ v.mode = w.mode /\ DOMAIN v = Fields
          /\ v.extension = w.extension /\ v.sysExtension = w.sysExtension
          /\ v.extensionConnected = w.extensionConnected
      BY <3>1 DEF IsRemote, Fields
    <3> HIDE DEF v
    <3>3. IsRemote(v)
      BY <2>2, <3>2 DEF IsRemote
    <3> QED
      BY <1>2, <2>2, <2>4, <3>2, <3>3 DEF v, parts
  <2> QED
    BY <2>3, <2>4
<1>3. CASE r.register = "a4" /\ r.address \notin GW!KeyParts
  <2>1. \/ v = w /\ ~(r.address = "f0" /\ r.data \in {"55", "aa"})
        \/ v = [w EXCEPT !.encrypted = TRUE] /\ r.address = "f0" /\ r.data = "aa"
        \/ v = [w EXCEPT !.encrypted = FALSE] /\ r.address = "f0" /\ r.data = "55"
    BY <1>3 DEF Written
  <2>2. r.address # "4c"
    BY <1>3 DEF GW!KeyParts
  <2> HIDE DEF v
  <2>3. CASE v = w
    BY <1>3, <2>1, <2>2, <2>3 DEF v, IsRemote, Fields
  <2>4. ASSUME NEW e, v = [w EXCEPT !.encrypted = e]
        PROVE  /\ v.encrypted = e /\ v.keyParts = w.keyParts
               /\ v.queue = w.queue /\ v.mode = w.mode /\ DOMAIN v = Fields
               /\ v.extension = w.extension /\ v.sysExtension = w.sysExtension
               /\ v.extensionConnected = w.extensionConnected
               /\ IsRemote(v)
    BY <2>4 DEF IsRemote, Fields
  <2>5. CASE v = [w EXCEPT !.encrypted = TRUE] /\ r.address = "f0" /\ r.data = "aa"
    BY <1>3, <2>4, <2>5 DEF v
  <2>6. CASE v = [w EXCEPT !.encrypted = FALSE] /\ r.address = "f0" /\ r.data = "55"
    BY <1>3, <2>4, <2>6 DEF v
  <2> QED
    BY <2>1, <2>3, <2>5, <2>6
<1> QED
  BY <1>1, <1>2, <1>3
IsRequest(r) ==
  /\ r.id = "12" => r.mode \in GW!DataModes
  /\ r.id = "16" /\ r.register = "a4" => r.data # "nothing"
  /\ r.id = "17" => r.size \in Nat

Writes(r) == r.id = "16" /\ r.register # "eeprom"

(* A request of the console is processed.                                  *)
LEMMA ProcessLemma ==
  ASSUME NEW w, IsRemote(w), NEW r, IsRequest(r)
  PROVE  LET v == GW!ProcessReport(w, r)
         IN  /\ Answered(w, v)
             /\ ~Writes(r) => SameKey(w, v)
             /\ Writes(r) => /\ SameKey(Written(w, r), v)
                             /\ Len(v.queue) = Len(w.queue) + 1
                             /\ IsAck(v.queue[Len(v.queue)])
<1> DEFINE v == GW!ProcessReport(w, r)
<1>1. ASSUME NEW u, IsRemote(u), SameDrum(w, u), SameKey(w, u), u.queue = w.queue,
             NEW needed, NEW of, v = GW!PushAckIf(u, needed, of)
      PROVE  Answered(w, v) /\ SameKey(w, v)
  <2> HIDE DEF v
  <2>1. Answered(w, v) /\ SameKey(u, v)
    BY <1>1, AckIfLemma
  <2> QED
    BY <1>1, <2>1 DEF SameKey
<1>2. /\ SameDrum(w, w) /\ SameKey(w, w)
      /\ w.queue = w.queue
  BY DEF SameDrum, SameKey
<1>3. CASE r.id \in {"10", "18"}
  <2>1. v = GW!PushAckIf(w, r.needsAck, r.id) /\ ~Writes(r)
    BY <1>3 DEF GW!ProcessReport, Writes
  <2> QED
    BY <1>1, <1>2, <2>1
<1>4. CASE r.id = "11"
  <2> DEFINE u == [w EXCEPT !.leds = r.on]
  <2>1. v = GW!PushAckIf(u, r.needsAck, r.id) /\ ~Writes(r)
    BY <1>4 DEF GW!ProcessReport, Writes
  <2>2. IsRemote(u) /\ SameDrum(w, u) /\ SameKey(w, u) /\ u.queue = w.queue
    BY DEF IsRemote, SameDrum, SameKey, Fields
  <2> HIDE DEF u, v
  <2>3. Answered(w, v) /\ SameKey(w, v)
    BY <1>1, <2>1, <2>2
  <2> QED
    BY <2>1, <2>3 DEF v
<1>5. CASE r.id = "12"
  <2> DEFINE u == [w EXCEPT !.mode = r.mode, !.continuous = r.continuous]
  <2>1. v = GW!PushAckIf(u, r.needsAck, r.id) /\ ~Writes(r)
    BY <1>5 DEF GW!ProcessReport, Writes
  <2>2. IsRemote(u) /\ SameDrum(w, u) /\ SameKey(w, u) /\ u.queue = w.queue
    BY <1>5 DEF IsRemote, SameDrum, SameKey, Fields, IsRequest
  <2> HIDE DEF u, v
  <2>3. Answered(w, v) /\ SameKey(w, v)
    BY <1>1, <2>1, <2>2
  <2> QED
    BY <2>1, <2>3 DEF v
<1>6. CASE r.id \in {"13", "1a"}
  <2> DEFINE u == [w EXCEPT !.ircam = r.on]
  <2>1. v = GW!PushAckIf(u, r.needsAck, r.id) /\ ~Writes(r)
    BY <1>6 DEF GW!ProcessReport, Writes
  <2>2. IsRemote(u) /\ SameDrum(w, u) /\ SameKey(w, u) /\ u.queue = w.queue
    BY DEF IsRemote, SameDrum, SameKey, Fields
  <2> HIDE DEF u, v
  <2>3. Answered(w, v) /\ SameKey(w, v)
    BY <1>1, <2>1, <2>2
  <2> QED
    BY <2>1, <2>3 DEF v
<1>7. CASE r.id \in {"14", "19"}
  <2>1. v = GW!EnableSpeaker(w, r) /\ ~Writes(r)
    BY <1>7 DEF GW!ProcessReport, Writes
  <2>2. CASE r.muted
    BY <1>1, <1>2, <2>1, <2>2 DEF GW!EnableSpeaker
  <2>3. CASE ~r.muted
    <3>1. v = GW!PushAck(w, r.id, 7)
      BY <2>1, <2>3 DEF GW!EnableSpeaker
    <3> QED
      BY <1>2, <2>1, <3>1, AckLemma
  <2> QED
    BY <2>2, <2>3
<1>8. CASE r.id = "15"
  <2> DEFINE x == [type |-> "20", extensionConnected |-> w.extensionConnected,
                   ircam |-> w.ircam, leds |-> w.leds]
  <2>1. v = GW!Push(w, x) /\ ~Writes(r)
    BY <1>8 DEF GW!ProcessReport, GW!PushStatus, Writes
  <2>2. MayAnswer(w, x)
    BY DEF MayAnswer, IsAnswer, TellsOfDrum
  <2> HIDE DEF x, v
  <2>3. Answered(w, v) /\ SameKey(w, v)
    BY <1>2, <2>1, <2>2, PushLemma
  <2> QED
    BY <2>1, <2>3 DEF v
<1>9. ASSUME NEW of, NEW error, v = GW!Push(w, GW!MemoryError(of, error))
      PROVE  Answered(w, v) /\ SameKey(w, v)
  <2> DEFINE x == GW!MemoryError(of, error)
  <2>1. MayAnswer(w, x)
    BY DEF MayAnswer, IsAnswer, TellsOfDrum, GW!MemoryError
  <2> HIDE DEF x, v
  <2> QED
    BY <1>2, <1>9, <2>1, PushLemma DEF x
<1>10. CASE r.id = "16" /\ r.register = "eeprom"
  <2>1. v = GW!WriteEeprom(w, r) /\ ~Writes(r)
    BY <1>10 DEF GW!ProcessReport, Writes
  <2>2. CASE r.offset + r.size > GW!EepromSize
    BY <1>9, <2>1, <2>2 DEF GW!WriteEeprom
  <2>3. CASE ~(r.offset + r.size > GW!EepromSize)
    <3>1. v = GW!PushAck(w, "16", 0)
      BY <2>1, <2>3 DEF GW!WriteEeprom
    <3> QED
      BY <1>2, <2>1, <3>1, AckLemma
  <2> QED
    BY <2>2, <2>3
<1>11. CASE r.id = "16" /\ r.register # "eeprom"
  <2> DEFINE u == Written(w, r)
             of == "16"
  <2>1. v = GW!PushAck(u, of, 0) /\ Writes(r)
    BY <1>11 DEF GW!ProcessReport, GW!WriteRegister, Writes, Written
  <2>2. IsRemote(u) /\ SameDrum(w, u) /\ u.queue = w.queue
    BY WrittenLemma
  <2> HIDE DEF u, v
  <2>3. /\ Answered(w, v) /\ SameKey(u, v) /\ Len(v.queue) = Len(w.queue) + 1
        /\ IsAck(v.queue[Len(v.queue)])
    BY <2>1, <2>2, AckLemma
  <2> QED
    BY <2>1, <2>3 DEF u, v
<1>12. CASE r.id = "17" /\ r.register = "eeprom"
  <2>1. v = GW!ReadEeprom(w, r) /\ ~Writes(r)
    BY <1>12 DEF GW!ProcessReport, Writes
  <2>2. CASE r.offset + r.size > GW!EepromSize
    BY <1>9, <2>1, <2>2 DEF GW!ReadEeprom
  <2>3. CASE ~(r.offset + r.size > GW!EepromSize)
    <3> DEFINE of == "eeprom"
               key == GW!NoKey
               size == r.size
    <3>1. v = [w EXCEPT !.queue = @ \o GW!Packets(of, size, of, key)]
      BY <2>1, <2>3 DEF GW!ReadEeprom
    <3>2. size \in Nat
      BY <1>12 DEF IsRequest
    <3> HIDE DEF of, key, size, v
    <3>3. Answered(w, v) /\ SameKey(w, v)
      BY <1>2, <3>1, <3>2, PacketsLemma
    <3> QED
      BY <2>1, <3>3 DEF v
  <2> QED
    BY <2>2, <2>3
<1>13. CASE r.id = "17" /\ r.register # "eeprom"
  <2>1. v = GW!ReadRegister(w, r) /\ ~Writes(r)
    BY <1>13 DEF GW!ProcessReport, Writes
  <2>2. CASE r.register = "a6"
    BY <1>9, <2>1, <2>2 DEF GW!ReadRegister
  <2>3. CASE r.register # "a6"
    <3> DEFINE data == IF r.register = "a4" /\ r.address = "fa" THEN w.ident ELSE "memory"
               key == IF r.register = "a4" THEN GW!Key(w) ELSE GW!NoKey
               size == r.size
    <3>1. v = [w EXCEPT !.queue = @ \o GW!Packets(r.address, size, data, key)]
      BY <2>1, <2>3 DEF GW!ReadRegister
    <3>2. size \in Nat
      BY <1>13 DEF IsRequest
    <3> HIDE DEF data, key, size, v
    <3>3. Answered(w, v) /\ SameKey(w, v)
      BY <1>2, <3>1, <3>2, PacketsLemma
    <3> QED
      BY <2>1, <3>3 DEF v
  <2> QED
    BY <2>2, <2>3
<1>14. CASE r.id \notin {"10", "11", "12", "13", "14", "15", "16", "17", "18", "19", "1a"}
  <2>1. v = w /\ ~Writes(r)
    BY <1>14 DEF GW!ProcessReport, Writes
  <2> QED
    BY <1>2, <2>1, SilentLemma
<1> QED
  BY <1>3, <1>4, <1>5, <1>6, <1>7, <1>8, <1>10, <1>11, <1>12, <1>13, <1>14

(* So many acknowledgements are under way. *)
Due(n, q) ==
  \E f \in [1..n -> 1..Len(q)] :
    /\ \A i \in 1..n : IsAck(q[f[i]])
    /\ \A i, j \in 1..n : i < j => f[i] < f[j]

Extends(q, r) ==
  /\ IsSeq(r) /\ Len(q) \in Nat /\ Len(r) \in Nat /\ Len(q) <= Len(r)
  /\ \A i \in 1..Len(q) : r[i] = q[i]

(* Acknowledgements that are under way: there are always none at least;    *)
LEMMA DueNothing ==
  /\ \A q : Due(0, q)
  /\ \A n \in Nat : Due(n, <<>>) => n = 0
<1>1. ASSUME NEW q PROVE Due(0, q)
  <2> DEFINE f == [i \in 1..0 |-> 1]
  <2>1. f \in [1..0 -> 1..Len(q)] /\ 1..0 = {}
    OBVIOUS
  <2> QED
    BY <2>1 DEF Due
<1>2. ASSUME NEW n \in Nat, Due(n, <<>>), n # 0 PROVE FALSE
  <2>1. PICK f : f \in [1..n -> 1..Len(<<>>)]
    BY <1>2 DEF Due
  <2>2. 1 \in 1..n /\ 1..Len(<<>>) = {}
    BY <1>2
  <2> QED
    BY <2>1, <2>2
<1> QED
  BY <1>1, <1>2

(* they stay under way when the queue grows;                               *)
LEMMA DueExtends ==
  ASSUME NEW n \in Nat, NEW q, NEW r, Due(n, q), Extends(q, r)
  PROVE  Due(n, r)
<1>1. PICK f \in [1..n -> 1..Len(q)] :
        /\ \A i \in 1..n : IsAck(q[f[i]])
        /\ \A i, j \in 1..n : i < j => f[i] < f[j]
  BY DEF Due
<1>2. f \in [1..n -> 1..Len(r)] /\ \A i \in 1..n : q[f[i]] = r[f[i]]
  BY DEF Extends
<1> QED
  BY <1>1, <1>2 DEF Due

(* a write brings another one;                                             *)
LEMMA DueMore ==
  ASSUME NEW n \in Nat, NEW q, NEW r, Due(n, q), Extends(q, r),
         Len(r) = Len(q) + 1, IsAck(r[Len(r)])
  PROVE  Due(n + 1, r)
<1>1. PICK f \in [1..n -> 1..Len(q)] :
        /\ \A i \in 1..n : IsAck(q[f[i]])
        /\ \A i, j \in 1..n : i < j => f[i] < f[j]
  BY DEF Due
<1>2. Len(q) \in Nat /\ Len(r) \in Nat /\ \A i \in 1..Len(q) : r[i] = q[i]
  BY DEF Extends
<1> DEFINE g == [i \in 1..(n + 1) |-> IF i = n + 1 THEN Len(r) ELSE f[i]]
<1>3. ASSUME NEW i \in 1..(n + 1)
      PROVE  g[i] \in 1..Len(r) /\ IsAck(r[g[i]]) /\ (i # n + 1 => g[i] <= Len(q))
  <2>1. CASE i = n + 1
    <3>1. g[i] = Len(r)
      BY <2>1
    <3> HIDE DEF g
    <3> QED
      BY <1>2, <2>1, <3>1
  <2>2. CASE i # n + 1
    <3>1. i \in 1..n /\ g[i] = f[i] /\ f[i] \in 1..Len(q)
      BY <2>2
    <3> HIDE DEF g
    <3> QED
      BY <1>1, <1>2, <3>1
  <2> QED
    BY <2>1, <2>2
<1>4. ASSUME NEW i \in 1..(n + 1), NEW j \in 1..(n + 1), i < j
      PROVE  g[i] < g[j]
  <2>1. i \in 1..n /\ g[i] = f[i] /\ f[i] \in 1..Len(q)
    BY <1>4
  <2>2. CASE j = n + 1
    <3>1. g[j] = Len(r)
      BY <2>2
    <3> HIDE DEF g
    <3> QED
      BY <1>2, <2>1, <3>1
  <2>3. CASE j # n + 1
    <3>1. j \in 1..n /\ g[j] = f[j]
      BY <2>3
    <3> QED
      BY <1>1, <1>4, <2>1, <3>1
  <2> QED
    BY <2>2, <2>3
<1>5. g \in [1..(n + 1) -> 1..Len(r)]
  BY <1>3
<1> HIDE DEF g
<1> QED
  BY <1>3, <1>4, <1>5 DEF Due

(* and one less is when the first of the queue is taken.                   *)
LEMMA DueLess ==
  ASSUME NEW n \in Nat, NEW m \in Nat, m <= n, NEW q, Due(n, q)
  PROVE  Due(m, q)
<1>1. PICK f \in [1..n -> 1..Len(q)] :
        /\ \A i \in 1..n : IsAck(q[f[i]])
        /\ \A i, j \in 1..n : i < j => f[i] < f[j]
  BY DEF Due
<1> DEFINE g == [i \in 1..m |-> f[i]]
<1>2. 1..m \subseteq 1..n
  OBVIOUS
<1>3. g \in [1..m -> 1..Len(q)] /\ \A i \in 1..m : g[i] = f[i]
  BY <1>2
<1> HIDE DEF g
<1> QED
  BY <1>1, <1>2, <1>3 DEF Due

(* The first answer is taken. *)
LEMMA DueTail ==
  ASSUME NEW n \in Nat, NEW q, IsSeq(q), q # <<>>, Due(n, q)
  PROVE  Due(IF IsAck(Head(q)) /\ n > 0 THEN n - 1 ELSE n, Tail(q))
<1>1. PICK f \in [1..n -> 1..Len(q)] :
        /\ \A i \in 1..n : IsAck(q[f[i]])
        /\ \A i, j \in 1..n : i < j => f[i] < f[j]
  BY DEF Due
<1> DEFINE r == Tail(q)
<1>2. /\ Len(q) \in Nat \ {0} /\ Len(r) = Len(q) - 1
      /\ Head(q) = q[1] /\ \A i \in 1..(Len(q) - 1) : r[i] = q[i + 1]
  BY SeqTail
<1> HIDE DEF r
<1>3. CASE IsAck(Head(q)) /\ n > 0
  <2> DEFINE m == n - 1
             g == [i \in 1..m |-> f[i + 1] - 1]
  <2>1. ASSUME NEW i \in 1..m
        PROVE  g[i] \in 1..Len(r) /\ IsAck(r[g[i]]) /\ g[i] = f[i + 1] - 1
    <3>1. i + 1 \in 1..n /\ 1 \in 1..n /\ 1 < i + 1
      BY <1>3
    <3>2. f[i + 1] \in 1..Len(q) /\ f[1] \in 1..Len(q) /\ f[1] < f[i + 1]
      BY <1>1, <3>1
    <3>3. g[i] = f[i + 1] - 1
      OBVIOUS
    <3>4. g[i] \in 1..(Len(q) - 1) /\ g[i] + 1 = f[i + 1]
      BY <1>2, <3>2, <3>3
    <3>5. r[g[i]] = q[f[i + 1]]
      BY <1>2, <3>4
    <3> QED
      BY <1>1, <1>2, <3>1, <3>3, <3>4, <3>5
  <2>2. ASSUME NEW i \in 1..m, NEW j \in 1..m, i < j
        PROVE  g[i] < g[j]
    <3>1. i + 1 \in 1..n /\ j + 1 \in 1..n /\ i + 1 < j + 1
      BY <1>3, <2>2
    <3>2. f[i + 1] < f[j + 1] /\ f[i + 1] \in 1..Len(q) /\ f[j + 1] \in 1..Len(q)
      BY <1>1, <3>1
    <3>3. g[i] = f[i + 1] - 1 /\ g[j] = f[j + 1] - 1
      BY <2>1
    <3> QED
      BY <1>2, <3>2, <3>3
  <2>3. g \in [1..m -> 1..Len(r)]
    BY <2>1
  <2> HIDE DEF g
  <2>4. Due(m, r)
    BY <2>1, <2>2, <2>3 DEF Due
  <2> QED
    BY <1>3, <2>4 DEF r
<1>4. CASE n = 0
  BY <1>4, DueNothing
<1>5. CASE ~IsAck(Head(q))
  <2> DEFINE g == [i \in 1..n |-> f[i] - 1]
  <2>1. ASSUME NEW i \in 1..n
        PROVE  g[i] \in 1..Len(r) /\ IsAck(r[g[i]]) /\ g[i] = f[i] - 1
    <3>1. f[i] \in 1..Len(q) /\ IsAck(q[f[i]]) /\ f[i] # 1
      BY <1>1, <1>2, <1>5
    <3>2. g[i] = f[i] - 1
      OBVIOUS
    <3>3. g[i] \in 1..(Len(q) - 1) /\ g[i] + 1 = f[i]
      BY <1>2, <3>1, <3>2
    <3>4. r[g[i]] = q[f[i]]
      BY <1>2, <3>3
    <3> QED
      BY <1>2, <3>1, <3>2, <3>3, <3>4
  <2>2. ASSUME NEW i \in 1..n, NEW j \in 1..n, i < j
        PROVE  g[i] < g[j]
    <3>1. f[i] < f[j] /\ f[i] \in 1..Len(q) /\ f[j] \in 1..Len(q)
      BY <1>1, <2>2
    <3>2. g[i] = f[i] - 1 /\ g[j] = f[j] - 1
      BY <2>1
    <3> QED
      BY <1>2, <3>1, <3>2
  <2>3. g \in [1..n -> 1..Len(r)]
    BY <2>1
  <2> HIDE DEF g
  <2>4. Due(n, r)
    BY <2>1, <2>2, <2>3 DEF Due
  <2> QED
    BY <1>5, <2>4 DEF r
<1> QED
  BY <1>3, <1>4, <1>5

(* The remote and what waits: no other extension than the drum, which the  *)
(* console is told of when it is plugged in.                               *)
MayWait(w, x) == IsAnswer(x) /\ (TellsOfDrum(x) => w.sysExtension = "drum")

IsDrum(w) ==
  /\ IsRemote(w)
  /\ w.extension \in {GW!NoExtension, "drum"}
  /\ w.sysExtension \in {GW!NoExtension, "drum"}
  /\ w.sysExtension = "drum" => w.extension = "drum"
  /\ w.extensionConnected \in BOOLEAN
  /\ w.extensionConnected = TRUE => w.sysExtension = "drum"
  /\ \A i \in 1..Len(w.queue) : MayWait(w, w.queue[i])

LEMMA ExtendsItself ==
  ASSUME NEW q, IsSeq(q)
  PROVE  Extends(q, q)
<1>1. Len(q) \in Nat
  BY DEF IsSeq
<1> QED
  BY <1>1 DEF Extends

(* An answered request leaves a remote with the drum. *)
LEMMA DrumAnswered ==
  ASSUME NEW w, IsDrum(w), NEW v, Answered(w, v)
  PROVE  IsDrum(v) /\ Extends(w.queue, v.queue)
<1>1. ASSUME NEW i \in 1..Len(v.queue)
      PROVE  MayWait(v, v.queue[i])
  <2>1. Len(w.queue) \in Nat /\ Len(v.queue) \in Nat
    BY DEF Answered
  <2>2. CASE i <= Len(w.queue)
    <3>1. i \in 1..Len(w.queue)
      BY <2>1, <2>2
    <3>2. MayWait(w, w.queue[i]) /\ v.queue[i] = w.queue[i]
      BY <3>1 DEF IsDrum, Answered
    <3> QED
      BY <3>2 DEF MayWait, Answered, SameDrum
  <2>3. CASE ~(i <= Len(w.queue))
    <3>1. i \in (Len(w.queue) + 1)..Len(v.queue)
      BY <2>1, <2>3
    <3>2. MayAnswer(w, v.queue[i])
      BY <3>1 DEF Answered
    <3> QED
      BY <3>2 DEF MayWait, MayAnswer, Answered, SameDrum, IsDrum
  <2> QED
    BY <2>2, <2>3
<1>2. Extends(w.queue, v.queue)
  BY DEF Answered, Extends, IsRemote
<1> QED
  BY <1>1, <1>2 DEF IsDrum, Answered, SameDrum

SameInput(w, v) == v.pressed = w.pressed /\ v.midi = w.midi /\ v.mode = w.mode

(* Once the drum is plugged in, it stays. *)
LEMMA HotPlugLemma ==
  ASSUME NEW w, IsDrum(w)
  PROVE  LET v == GW!HotPlug(w)
         IN  /\ IsDrum(v) /\ SameInput(w, v) /\ Extends(w.queue, v.queue)
             /\ v.encrypted = w.encrypted /\ v.tables = w.tables
             /\ w.extension = w.sysExtension => v = w
<1> DEFINE v == GW!HotPlug(w)
<1>1. IsRemote(w) /\ IsSeq(w.queue)
  BY DEF IsDrum, IsRemote
<1>2. CASE w.extension = w.sysExtension
  <2>1. v = w
    BY <1>2 DEF GW!HotPlug
  <2> HIDE DEF v
  <2> QED
    BY <1>1, <2>1, ExtendsItself DEF v, SameInput
<1>3. CASE w.extension # w.sysExtension
  <2>1. /\ w.sysExtension = GW!NoExtension /\ w.extension = "drum"
        /\ w.extensionConnected = FALSE
    BY <1>3 DEF IsDrum, GW!NoExtension
  <2>2. w.extension # GW!NoExtension
    BY <2>1 DEF GW!NoExtension
  <2> DEFINE later == [w EXCEPT !.hotplugTimer = @ - 1]
  <2>3. CASE w.hotplugTimer - 1 > 0
    <3>1. v = later
      BY <1>3, <2>1, <2>2, <2>3 DEF GW!HotPlug
    <3>2. /\ DOMAIN later = Fields /\ later.queue = w.queue /\ SameInput(w, later)
          /\ SameDrum(w, later) /\ SameKey(w, later)
      BY <1>1 DEF IsRemote, Fields, SameInput, SameDrum, SameKey
    <3> HIDE DEF later
    <3>3. IsRemote(later)
      BY <1>1, <3>2 DEF IsRemote, SameInput, SameKey
    <3>4. Answered(w, later)
      BY <3>2, <3>3, SilentLemma
    <3>5. IsDrum(later) /\ Extends(w.queue, later.queue)
      BY <3>4, DrumAnswered
    <3> HIDE DEF v
    <3> QED
      BY <1>3, <3>1, <3>2, <3>5 DEF v, SameKey
  <2>4. CASE ~(w.hotplugTimer - 1 > 0)
    <3> DEFINE u == [w EXCEPT !.hotplugTimer = @ - 1, !.extensionConnected = TRUE,
                              !.sysExtension = w.extension]
               x == [type |-> "20", extensionConnected |-> u.extensionConnected,
                     ircam |-> u.ircam, leds |-> u.leds]
               p == GW!Push(u, x)
    <3>1. v = GW!InitExtension(p)
      BY <1>3, <2>1, <2>2, <2>4 DEF GW!HotPlug, GW!PushStatus
    <3>2. /\ DOMAIN u = Fields /\ u.queue = w.queue /\ SameInput(w, u) /\ SameKey(w, u)
          /\ u.extension = "drum" /\ u.sysExtension = "drum" /\ u.extensionConnected = TRUE
      BY <1>1, <2>1 DEF IsRemote, Fields, SameInput, SameKey
    <3>3. IsAnswer(x)
      BY DEF IsAnswer
    <3> HIDE DEF u, x
    <3>4. IsRemote(u)
      BY <1>1, <3>2 DEF IsRemote, SameInput, SameKey
    <3>5. /\ DOMAIN p = Fields /\ p.queue = Append(w.queue, x)
          /\ SameInput(w, p) /\ SameKey(w, p) /\ p.extension = "drum"
          /\ p.sysExtension = "drum" /\ p.extensionConnected = TRUE
      BY <3>2 DEF GW!Push, Fields, SameInput, SameKey
    <3> HIDE DEF p, v
    <3>6. /\ IsSeq(p.queue) /\ Len(w.queue) \in Nat /\ Len(p.queue) = Len(w.queue) + 1
          /\ p.queue[Len(w.queue) + 1] = x
          /\ \A i \in 1..Len(w.queue) : p.queue[i] = w.queue[i]
      BY <1>1, <3>5, SeqAppend
    <3>7. /\ DOMAIN v = Fields /\ v.queue = p.queue /\ SameInput(p, v) /\ SameDrum(p, v)
          /\ v.encrypted = p.encrypted /\ v.tables = p.tables
          /\ DOMAIN v.keyParts = GW!KeyParts
      BY <3>1, <3>5 DEF GW!InitExtension, Fields, SameInput, SameDrum
    <3>8. IsRemote(v)
      BY <1>1, <3>5, <3>6, <3>7 DEF IsRemote, SameInput
    <3>9. ASSUME NEW i \in 1..Len(v.queue)
          PROVE  MayWait(v, v.queue[i])
      <4>1. v.sysExtension = "drum"
        BY <3>5, <3>7 DEF SameDrum
      <4>2. CASE i = Len(w.queue) + 1
        BY <3>3, <3>6, <3>7, <4>1, <4>2 DEF MayWait
      <4>3. CASE i # Len(w.queue) + 1
        <5>1. i \in 1..Len(w.queue)
          BY <3>6, <3>7, <4>3
        <5> QED
          BY <3>6, <3>7, <4>1, <5>1 DEF MayWait, IsDrum
      <4> QED
        BY <4>2, <4>3
    <3>10. IsDrum(v)
      BY <3>5, <3>7, <3>8, <3>9 DEF IsDrum, SameDrum
    <3>11. Extends(w.queue, v.queue)
      <4>1. Len(v.queue) \in Nat /\ Len(w.queue) <= Len(v.queue)
        BY <3>6, <3>7
      <4> QED
        BY <3>6, <3>7, <4>1 DEF Extends
    <3>12. SameInput(w, v)
      BY <3>5, <3>7 DEF SameInput
    <3>13. v.encrypted = w.encrypted /\ v.tables = w.tables
      BY <3>5, <3>7 DEF SameKey
    <3> QED
      BY <1>3, <3>10, <3>11, <3>12, <3>13 DEF v
  <2> QED
    BY <2>3, <2>4
<1> QED
  BY <1>2, <1>3
(* What is sent: an answer that waits, or a regular report when none does. *)
Sends(w, changed, g) ==
  /\ IsDrum(g.w) /\ g.w.encrypted = w.encrypted /\ g.w.tables = w.tables
  /\ w.sysExtension = "drum" => g.w.sysExtension = "drum" /\ g.w.keyParts = w.keyParts
  /\ g.sent = <<>> => Extends(w.queue, g.w.queue)
  /\ g.sent # <<>> =>
       LET x == g.sent[1]
       IN  /\ g.sent = << x >>
           /\ TellsOfDrum(x.report) => g.w.sysExtension = "drum"
           /\ x.extension # <<>> =>
                w.queue = <<>> /\ x.extension[1].key = GW!Key(w)
                  /\ x.extension[1].pressed = w.pressed
           /\ \A n \in Nat : Due(n, w.queue) =>
                Due(IF IsAck(x.report) /\ n > 0 THEN n - 1 ELSE n, g.w.queue)
  /\ changed /\ w.queue = <<>> /\ w.sysExtension = "drum" /\ w.mode \in GW!ExtensionModes =>
       g.sent[1].extension[1].midi = w.midi

LEMMA InterleavedLemma ==
  ASSUME NEW w, IsDrum(w), NEW report
  PROVE  LET v == GW!Interleaved(w, report)
         IN  /\ IsDrum(v) /\ v.queue = w.queue /\ SameDrum(w, v) /\ SameKey(w, v)
<1> DEFINE v == GW!Interleaved(w, report)
<1>1. IsRemote(w)
  BY DEF IsDrum
<1>2. CASE v = w
  <2> HIDE DEF v
  <2> QED
    BY <1>2 DEF v, SameDrum, SameKey
<1>3. CASE v = [w EXCEPT !.mode = IF w.mode = "3e" THEN "3f" ELSE "3e"]
  <2> HIDE DEF v
  <2>1. /\ DOMAIN v = Fields /\ v.queue = w.queue /\ SameDrum(w, v) /\ SameKey(w, v)
        /\ v.mode \in GW!DataModes
    BY <1>1, <1>3 DEF IsRemote, Fields, SameDrum, SameKey, GW!DataModes, GW!InterleavedModes
  <2>2. IsRemote(v)
    BY <1>1, <2>1 DEF IsRemote, SameKey
  <2>3. IsDrum(v)
    BY <2>1, <2>2 DEF IsDrum, SameDrum, MayWait
  <2> QED
    BY <2>1, <2>3 DEF v
<1> QED
  BY <1>2, <1>3 DEF GW!Interleaved

(* The report that goes out: an answer that waits, or else the input.      *)
LEMMA GenerateLemma ==
  ASSUME NEW w, IsDrum(w), NEW changed \in BOOLEAN
  PROVE  Sends(w, changed, GW!GenerateReport(w, changed))
<1> DEFINE u == GW!HotPlug(w)
           quiet == ~u.continuous /\ ~changed /\ u.queue = <<>>
           report == IF u.queue = <<>> THEN [type |-> u.mode] ELSE Head(u.queue)
           popped == IF u.queue = <<>> THEN u ELSE [u EXCEPT !.queue = Tail(@)]
           g == GW!GenerateReport(w, changed)
<1>1. g = IF quiet THEN [w |-> u, sent |-> <<>>]
          ELSE [w |-> GW!Interleaved(popped, report), sent |-> << GW!Filled(popped, report) >>]
  BY DEF GW!GenerateReport
<1>2. /\ IsDrum(u) /\ SameInput(w, u) /\ Extends(w.queue, u.queue)
      /\ u.encrypted = w.encrypted /\ u.tables = w.tables
      /\ w.extension = w.sysExtension => u = w
  BY HotPlugLemma
<1>3. w.sysExtension = "drum" => u = w
  BY <1>2 DEF IsDrum
<1> HIDE DEF u
<1>4. IsRemote(u) /\ IsSeq(u.queue)
  BY <1>2 DEF IsDrum, IsRemote
<1>5. CASE quiet
  <2>1. g.w = u /\ g.sent = <<>>
    BY <1>1, <1>5
  <2>2. ~changed
    BY <1>5
  <2> HIDE DEF g
  <2> QED
    BY <1>2, <1>3, <2>1, <2>2 DEF Sends, g
<1>6. CASE ~quiet
  <2>1. g.w = GW!Interleaved(popped, report) /\ g.sent = << GW!Filled(popped, report) >>
    BY <1>1, <1>6
  <2> HIDE DEF g, quiet
  <2>2. /\ IsDrum(popped) /\ SameInput(u, popped) /\ SameDrum(u, popped) /\ SameKey(u, popped)
        /\ popped.queue = IF u.queue = <<>> THEN u.queue ELSE Tail(u.queue)
    <3>1. CASE u.queue = <<>>
      <4>1. popped = u
        BY <3>1
      <4> HIDE DEF popped
      <4> QED
        BY <1>2, <3>1, <4>1 DEF SameInput, SameDrum, SameKey
    <3>2. CASE u.queue # <<>>
      <4>1. popped = [u EXCEPT !.queue = Tail(@)]
        BY <3>2
      <4> HIDE DEF popped
      <4>2. /\ DOMAIN popped = Fields /\ popped.queue = Tail(u.queue) /\ SameInput(u, popped)
            /\ SameDrum(u, popped) /\ SameKey(u, popped)
        BY <1>4, <4>1 DEF IsRemote, Fields, SameInput, SameDrum, SameKey
      <4>3. /\ IsSeq(popped.queue) /\ Len(u.queue) \in Nat \ {0}
            /\ Len(popped.queue) = Len(u.queue) - 1
            /\ \A i \in 1..(Len(u.queue) - 1) : popped.queue[i] = u.queue[i + 1]
        BY <1>4, <3>2, <4>2, SeqTail
      <4>4. IsRemote(popped)
        BY <1>4, <4>2, <4>3 DEF IsRemote, SameInput, SameKey
      <4>5. ASSUME NEW i \in 1..Len(popped.queue)
            PROVE  MayWait(popped, popped.queue[i])
        <5>1. i \in 1..(Len(u.queue) - 1) /\ i + 1 \in 1..Len(u.queue)
          BY <4>3
        <5>2. MayWait(u, u.queue[i + 1]) /\ popped.queue[i] = u.queue[i + 1]
          BY <1>2, <4>3, <5>1 DEF IsDrum
        <5> QED
          BY <4>2, <5>2 DEF MayWait, SameDrum
      <4>6. IsDrum(popped)
        BY <1>2, <4>2, <4>4, <4>5 DEF IsDrum, SameDrum
      <4> QED
        BY <3>2, <4>2, <4>6
    <3> QED
      BY <3>1, <3>2
  <2>3. u.queue # <<>> => Head(u.queue) = u.queue[1] /\ MayWait(u, u.queue[1])
    <3> SUFFICES ASSUME u.queue # <<>>
                 PROVE  Head(u.queue) = u.queue[1] /\ MayWait(u, u.queue[1])
      OBVIOUS
    <3>1. Len(u.queue) \in Nat \ {0} /\ Head(u.queue) = u.queue[1]
      BY <1>4, SeqTail
    <3>2. 1 \in 1..Len(u.queue)
      BY <3>1
    <3> QED
      BY <1>2, <3>1, <3>2 DEF IsDrum
  <2>4. /\ u.queue = <<>> => report = [type |-> u.mode]
        /\ u.queue # <<>> => report = Head(u.queue)
    OBVIOUS
  <2> HIDE DEF popped, report
  <2>5. /\ u.queue # <<>> => IsAnswer(report) /\ (TellsOfDrum(report) => u.sysExtension = "drum")
        /\ u.queue = <<>> => report.type = u.mode /\ report.type \in GW!DataModes
    BY <1>4, <2>3, <2>4 DEF MayWait, IsRemote
  <2>6. /\ IsAnswer(report) => report.type \notin GW!ExtensionModes
        /\ \A m \in GW!DataModes : m \notin {"20", "22"}
    BY DEF IsAnswer, GW!ExtensionModes, GW!DataModes, GW!InterleavedModes
  <2> DEFINE x == GW!Filled(popped, report)
  <2>7. /\ x.report = report
        /\ report.type \in GW!ExtensionModes =>
             x.extension = << GW!AppendExtension(popped) >>
        /\ report.type \notin GW!ExtensionModes => x.extension = <<>>
    BY DEF GW!Filled
  <2> DEFINE e == GW!AppendExtension(popped)
  <2>8. /\ e.key = GW!Key(w) /\ e.pressed = w.pressed /\ e.midi = w.midi
    <3>1. e.key = GW!Key(popped) /\ e.pressed = popped.pressed /\ e.midi = popped.midi
      BY DEF GW!AppendExtension
    <3> HIDE DEF e
    <3> QED
      BY <1>2, <2>2, <3>1 DEF SameInput, SameKey, GW!Key
  <2> HIDE DEF e, x
  <2>9. g.sent = << x >> /\ g.sent # <<>> /\ g.sent[1] = x
    BY <2>1 DEF x
  <2>10. /\ IsDrum(g.w) /\ g.w.queue = popped.queue /\ SameDrum(popped, g.w)
         /\ SameKey(popped, g.w)
    BY <2>1, <2>2, InterleavedLemma
  <2>11. x.extension # <<>> =>
           /\ w.queue = <<>> /\ u.queue = <<>>
           /\ x.extension[1].key = GW!Key(w) /\ x.extension[1].pressed = w.pressed
    <3> SUFFICES ASSUME x.extension # <<>>
                 PROVE  /\ w.queue = <<>> /\ u.queue = <<>>
                        /\ x.extension[1].key = GW!Key(w)
                        /\ x.extension[1].pressed = w.pressed
      OBVIOUS
    <3>1. report.type \in GW!ExtensionModes /\ x.extension = << e >>
      BY <2>7 DEF e
    <3>2. u.queue = <<>>
      BY <2>5, <2>6, <3>1
    <3>3. w.queue = <<>>
      <4>1. Len(w.queue) \in Nat /\ Len(w.queue) <= Len(u.queue) /\ Len(u.queue) = 0
        BY <1>2, <3>2 DEF Extends
      <4>2. Len(w.queue) = 0 /\ IsSeq(w.queue)
        BY <4>1 DEF IsDrum, IsRemote
      <4> QED
        BY <4>2 DEF IsSeq
    <3> QED
      BY <2>8, <3>1, <3>2, <3>3
  <2>12. TellsOfDrum(x.report) => g.w.sysExtension = "drum"
    <3>1. CASE u.queue = <<>>
      BY <2>5, <2>6, <2>7, <3>1 DEF TellsOfDrum
    <3>2. CASE u.queue # <<>>
      BY <2>2, <2>5, <2>7, <2>10, <3>2 DEF SameDrum
    <3> QED
      BY <3>1, <3>2
  <2>13. ASSUME NEW n \in Nat, Due(n, w.queue)
         PROVE  Due(IF IsAck(x.report) /\ n > 0 THEN n - 1 ELSE n, g.w.queue)
    <3>1. Due(n, u.queue)
      BY <1>2, <2>13, DueExtends
    <3>2. CASE u.queue = <<>>
      <4>1. n = 0
        BY <3>1, <3>2, DueNothing
      <4> QED
        BY <4>1, DueNothing
    <3>3. CASE u.queue # <<>>
      <4>1. g.w.queue = Tail(u.queue) /\ x.report = Head(u.queue)
        BY <2>2, <2>4, <2>7, <2>10, <3>3
      <4> QED
        BY <1>4, <3>1, <3>3, <4>1, DueTail
    <3> QED
      BY <3>2, <3>3
  <2>14. /\ g.w.encrypted = w.encrypted /\ g.w.tables = w.tables
         /\ w.sysExtension = "drum" => g.w.sysExtension = "drum" /\ g.w.keyParts = w.keyParts
    BY <1>2, <1>3, <2>2, <2>10 DEF SameKey, SameDrum
  <2>15. w.queue = <<>> /\ w.sysExtension = "drum" /\ w.mode \in GW!ExtensionModes =>
           x.extension[1].midi = w.midi
    <3> SUFFICES ASSUME w.queue = <<>>, w.sysExtension = "drum", w.mode \in GW!ExtensionModes
                 PROVE  x.extension[1].midi = w.midi
      OBVIOUS
    <3>1. report.type = w.mode
      BY <1>3, <2>5
    <3>2. x.extension = << e >>
      BY <2>7, <3>1 DEF e
    <3> QED
      BY <2>8, <3>2
  <2> QED
    BY <2>9, <2>10, <2>11, <2>12, <2>13, <2>14, <2>15 DEF Sends, g
<1> QED
  BY <1>5, <1>6

(* What the console knows of the key, once its writes are answered. *)
Knows(key, awaits, k) ==
  \/ \E i \in 1..Len(awaits) :
       /\ awaits[i] # "nothing" /\ awaits[i] \in {"unknown", k}
       /\ \A j \in (i + 1)..Len(awaits) : awaits[j] = "nothing"
  \/ (\A j \in 1..Len(awaits) : awaits[j] = "nothing") /\ key \in {"unknown", k}

(* If no answer is awaited the console knows the key, or not;              *)
LEMMA KnowsNow ==
  ASSUME NEW key, NEW k
  PROVE  Knows(key, <<>>, k) <=> key \in {"unknown", k}
<1>1. 1..Len(<<>>) = {}
  OBVIOUS
<1> QED
  BY <1>1 DEF Knows

(* a write adds what it will know;                                         *)
LEMMA KnowsMore ==
  ASSUME NEW key, NEW awaits, IsSeq(awaits), NEW k, Knows(key, awaits, k), NEW e, NEW l,
         e = "nothing" => l = k, e # "nothing" => e \in {"unknown", l}
  PROVE  Knows(key, Append(awaits, e), l)
<1> DEFINE more == Append(awaits, e)
<1>1. /\ Len(awaits) \in Nat /\ Len(more) = Len(awaits) + 1 /\ more[Len(awaits) + 1] = e
      /\ \A i \in 1..Len(awaits) : more[i] = awaits[i]
  BY SeqAppend
<1> HIDE DEF more
<1>2. CASE e # "nothing"
  <2>1. Len(more) \in 1..Len(more) /\ (Len(more) + 1)..Len(more) = {} /\ more[Len(more)] = e
    BY <1>1
  <2>2. Knows(key, more, l)
    BY <1>2, <2>1 DEF Knows
  <2> QED
    BY <2>2 DEF more
<1>3. CASE e = "nothing"
  <2>1. CASE \E i \in 1..Len(awaits) :
               /\ awaits[i] # "nothing" /\ awaits[i] \in {"unknown", k}
               /\ \A j \in (i + 1)..Len(awaits) : awaits[j] = "nothing"
    <3>1. PICK i \in 1..Len(awaits) :
            /\ awaits[i] # "nothing" /\ awaits[i] \in {"unknown", k}
            /\ \A j \in (i + 1)..Len(awaits) : awaits[j] = "nothing"
      BY <2>1
    <3>2. i \in 1..Len(more) /\ more[i] = awaits[i] /\ l = k
      BY <1>1, <1>3
    <3>3. \A j \in (i + 1)..Len(more) : more[j] = "nothing"
      <4> SUFFICES ASSUME NEW j \in (i + 1)..Len(more) PROVE more[j] = "nothing"
        OBVIOUS
      <4>1. j = Len(awaits) + 1 \/ j \in (i + 1)..Len(awaits)
        BY <1>1
      <4>2. j \in (i + 1)..Len(awaits) => j \in 1..Len(awaits)
        BY <1>1
      <4> QED
        BY <1>1, <1>3, <3>1, <4>1, <4>2
    <3>4. Knows(key, more, l)
      BY <3>1, <3>2, <3>3 DEF Knows
    <3> QED
      BY <3>4 DEF more
  <2>2. CASE (\A j \in 1..Len(awaits) : awaits[j] = "nothing") /\ key \in {"unknown", k}
    <3>1. \A j \in 1..Len(more) : more[j] = "nothing"
      <4> SUFFICES ASSUME NEW j \in 1..Len(more) PROVE more[j] = "nothing"
        OBVIOUS
      <4>1. j = Len(awaits) + 1 \/ j \in 1..Len(awaits)
        BY <1>1
      <4> QED
        BY <1>1, <1>3, <2>2, <4>1
    <3>2. Knows(key, more, l)
      BY <1>3, <2>2, <3>1 DEF Knows
    <3> QED
      BY <3>2 DEF more
  <2> QED
    BY <2>1, <2>2 DEF Knows
<1> QED
  BY <1>2, <1>3

(* and an answer tells it.                                                 *)
LEMMA KnowsAnswered ==
  ASSUME NEW key, NEW awaits, IsSeq(awaits), awaits # <<>>, NEW k, Knows(key, awaits, k)
  PROVE  Knows(IF Head(awaits) = "nothing" THEN key ELSE Head(awaits), Tail(awaits), k)
<1> DEFINE rest == Tail(awaits)
           n == Len(awaits)
           now == IF Head(awaits) = "nothing" THEN key ELSE Head(awaits)
<1>1. /\ n \in Nat \ {0} /\ Len(rest) = n - 1 /\ Head(awaits) = awaits[1]
      /\ \A i \in 1..(n - 1) : rest[i] = awaits[i + 1]
  BY SeqTail
<1>2. now = IF awaits[1] = "nothing" THEN key ELSE awaits[1]
  BY <1>1
<1> HIDE DEF rest, now
<1>3. CASE \E i \in 1..n :
             /\ awaits[i] # "nothing" /\ awaits[i] \in {"unknown", k}
             /\ \A j \in (i + 1)..n : awaits[j] = "nothing"
  <2>1. PICK i \in 1..n :
          /\ awaits[i] # "nothing" /\ awaits[i] \in {"unknown", k}
          /\ \A j \in (i + 1)..n : awaits[j] = "nothing"
    BY <1>3
  <2> HIDE DEF n
  <2>2. CASE i = 1
    <3>1. \A j \in 1..Len(rest) : rest[j] = "nothing"
      <4> SUFFICES ASSUME NEW j \in 1..Len(rest) PROVE rest[j] = "nothing"
        OBVIOUS
      <4>1. j \in 1..(n - 1) /\ j + 1 \in (i + 1)..n
        BY <1>1, <2>2
      <4> QED
        BY <1>1, <2>1, <4>1
    <3>2. now \in {"unknown", k}
      BY <1>2, <2>1, <2>2
    <3>3. Knows(now, rest, k)
      BY <3>1, <3>2 DEF Knows
    <3> QED
      BY <3>3 DEF rest, now
  <2>3. CASE i # 1
    <3>1. i - 1 \in 1..Len(rest) /\ i - 1 \in 1..(n - 1) /\ (i - 1) + 1 = i
      BY <1>1, <2>3
    <3>2. rest[i - 1] = awaits[i]
      BY <1>1, <3>1
    <3>3. \A j \in ((i - 1) + 1)..Len(rest) : rest[j] = "nothing"
      <4> SUFFICES ASSUME NEW j \in ((i - 1) + 1)..Len(rest) PROVE rest[j] = "nothing"
        OBVIOUS
      <4>1. j \in 1..(n - 1) /\ j + 1 \in (i + 1)..n
        BY <1>1, <3>1
      <4> QED
        BY <1>1, <2>1, <4>1
    <3>4. Knows(now, rest, k)
      BY <2>1, <3>1, <3>2, <3>3 DEF Knows
    <3> QED
      BY <3>4 DEF rest, now
  <2> QED
    BY <2>2, <2>3
<1>4. CASE (\A j \in 1..n : awaits[j] = "nothing") /\ key \in {"unknown", k}
  <2>1. 1 \in 1..n
    BY <1>1
  <2> HIDE DEF n
  <2>2. \A j \in 1..Len(rest) : rest[j] = "nothing"
    <3> SUFFICES ASSUME NEW j \in 1..Len(rest) PROVE rest[j] = "nothing"
      OBVIOUS
    <3>1. j \in 1..(n - 1) /\ j + 1 \in 1..n
      BY <1>1
    <3> QED
      BY <1>1, <1>4, <3>1
  <2>3. now = key
    BY <1>2, <1>4, <2>1
  <2>4. Knows(now, rest, k)
    BY <1>4, <2>2, <2>3 DEF Knows
  <2> QED
    BY <2>4 DEF rest, now
<1> QED
  BY <1>3, <1>4 DEF Knows

(* The invariant: the stores of a hit and what the console is shown ...    *)
ReportFields == {"buttons", "pressed", "midi", "resetIr"}
StoreFields == {"pad", "velocity", "note", "left"}

IsReport(x) == DOMAIN x = ReportFields /\ DOMAIN x.midi = {"note", "velocity"}
IsStore(s) == DOMAIN s = StoreFields /\ s.left \subseteq {"velocity", "note", "time"}

InputInv ==
  /\ ghNow \in 0..(WiiClock - 1)
  /\ hitTimesMs \in [GW!Pads -> 0..(WiiClock - 1)]
  /\ IsReport(wii_report) /\ wii_report.pressed \subseteq GW!Pads
  /\ wii_report.resetIr = TRUE /\ input_report.resetIr = FALSE
  /\ wasPressed \in BOOLEAN
  /\ storing = <<>> \/ \E s : storing = << s >> /\ IsStore(s)

(* ... and the link.  A write that awaits its answer has one under way; an *)
(* answer that the console reads now is not due any more.                  *)
Awaited(console, sent) ==
  LET n == Len(console.awaits)
  IN  IF sent # <<>> /\ IsAck(sent[1].report) /\ n > 0 THEN n - 1 ELSE n

IsConsole(console) ==
  /\ DOMAIN console = {"key", "awaits", "parts", "told"}
  /\ IsSeq(console.awaits) /\ IsSeq(console.parts)

PartsAgree(console, w) ==
  /\ console.parts # <<>> => w.sysExtension = "drum"
  /\ Len(console.parts) > 0 => w.keyParts["40"] = console.parts[1]
  /\ Len(console.parts) > 1 => w.keyParts["46"] = console.parts[2]

IsSent(sent, console, w) ==
  sent # <<>> =>
    /\ sent = << sent[1] >>
    /\ TellsOfDrum(sent[1].report) => w.sysExtension = "drum"
    /\ sent[1].extension # <<>> =>
         console.key \in {"unknown", sent[1].extension[1].key}

IsLink(w, console, sent) ==
  /\ IsDrum(w) /\ IsConsole(console) /\ IsSent(sent, console, w)
  /\ console.told = TRUE => w.sysExtension = "drum"
  /\ PartsAgree(console, w)
  /\ Due(Awaited(console, sent), w.queue)
  /\ Knows(console.key, console.awaits, GW!Key(w))

LinkInv == IsLink(wiimote, wiiConsole, wiiSent)

WiiInv == InputInv /\ LinkInv

LEMMA ModesLemma ==
  /\ "30" \in GW!DataModes /\ GW!NoExtension # "drum"
BY DEF GW!DataModes, GW!NoExtension

LEMMA OneElement == \A x : IsSeq(<< x >>) /\ Len(<< x >>) = 1 /\ << x >>[1] = x /\ << x >> # <<>>
<1> SUFFICES ASSUME NEW x
             PROVE  IsSeq(<< x >>) /\ Len(<< x >>) = 1 /\ << x >>[1] = x /\ << x >> # <<>>
  OBVIOUS
<1>1. << x >> \in Seq({x})
  OBVIOUS
<1> QED
  BY <1>1 DEF IsSeq

LEMMA NoElement == IsSeq(<<>>) /\ Len(<<>>) = 0
<1>1. <<>> \in Seq({0})
  OBVIOUS
<1> QED
  BY <1>1 DEF IsSeq

(* What a fresh remote, and a fresh console, are. *)
LEMMA NewLemma ==
  IsDrum(GW!New)
<1> DEFINE w == GW!New
           x == [type |-> "30"]
<1>1. /\ DOMAIN w = Fields /\ w.queue = << x >> /\ w.mode = "30"
      /\ w.extension = GW!NoExtension /\ w.sysExtension = GW!NoExtension
      /\ w.extensionConnected = FALSE /\ DOMAIN w.keyParts = GW!KeyParts
  BY DEF GW!New, GW!InitExtension, GW!Reset, Fields
<1> HIDE DEF w
<1>2. MayWait(w, x)
  BY DEF MayWait, IsAnswer, TellsOfDrum
<1> HIDE DEF x
<1>3. IsSeq(w.queue) /\ Len(w.queue) = 1 /\ w.queue[1] = x
  BY <1>1, OneElement
<1>4. IsRemote(w)
  BY <1>1, <1>3, ModesLemma DEF IsRemote
<1>5. \A i \in 1..Len(w.queue) : MayWait(w, w.queue[i])
  <2>1. \A i \in 1..Len(w.queue) : i = 1
    BY <1>3
  <2> QED
    BY <1>2, <1>3, <2>1
<1> QED
  BY <1>1, <1>4, <1>5, ModesLemma DEF IsDrum, w

LEMMA FreshLemma ==
  ASSUME NEW w, IsDrum(w)
  PROVE  IsLink(w, GW!FreshConsole, <<>>)
<1> DEFINE c == GW!FreshConsole
<1>1. /\ DOMAIN c = {"key", "awaits", "parts", "told"} /\ c.key = "unknown"
      /\ c.awaits = <<>> /\ c.parts = <<>> /\ c.told = FALSE
  BY DEF GW!FreshConsole
<1> HIDE DEF c
<1>2. IsConsole(c)
  BY <1>1, NoElement DEF IsConsole
<1>3. IsSent(<<>>, c, w)
  BY DEF IsSent
<1>4. PartsAgree(c, w)
  BY <1>1, NoElement DEF PartsAgree
<1>5. Awaited(c, <<>>) = 0
  BY <1>1, NoElement DEF Awaited
<1>6. Due(0, w.queue)
  BY DueNothing
<1>7. Knows(c.key, c.awaits, GW!Key(w))
  BY <1>1, KnowsNow
<1> QED
  BY <1>1, <1>2, <1>3, <1>4, <1>5, <1>6, <1>7 DEF IsLink, c

LEMMA NewInput ==
  /\ IsReport(GW!NewWiiReport) /\ GW!NewWiiReport.pressed = {}
  /\ GW!NewWiiReport.resetIr = TRUE /\ GW!EmptyReport.resetIr = FALSE
BY DEF GW!NewWiiReport, GW!EmptyReport, GW!NoMidi, IsReport, ReportFields

(* The invariant holds at first.                                           *)
LEMMA WiiInit ==
  ASSUME GW!WiiAssumption, GW!Init
  PROVE  WiiInv
<1>1. 0 \in 0..(WiiClock - 1)
  BY DEF GW!WiiAssumption
<1>2. InputInv
  <2>1. hitTimesMs \in [GW!Pads -> 0..(WiiClock - 1)]
    BY <1>1 DEF GW!Init
  <2>2. /\ ghNow = 0 /\ wii_report = GW!NewWiiReport /\ input_report = GW!EmptyReport
        /\ wasPressed = FALSE /\ storing = <<>>
    BY DEF GW!Init
  <2> QED
    BY <1>1, <2>1, <2>2, NewInput DEF InputInv
<1>3. LinkInv
  BY NewLemma, FreshLemma DEF GW!Init, LinkInv
<1> QED
  BY <1>2, <1>3 DEF WiiInv

(* start(), and a new connection. *)
LEMMA WiiStarts ==
  ASSUME GW!WiiAssumption, WiiInv, GW!Restart \/ GW!Reconnect
  PROVE  WiiInv'
<1>1. CASE GW!Restart
  <2>1. /\ ghNow' = ghNow /\ hitTimesMs' = hitTimesMs /\ storing' = storing
        /\ wasPressed' = wasPressed /\ storing = <<>>
        /\ wii_report' = GW!NewWiiReport /\ input_report' = GW!EmptyReport
        /\ wiimote' = GW!New /\ wiiConsole' = GW!FreshConsole /\ wiiSent' = <<>>
    BY <1>1 DEF GW!Restart, GW!Begin
  <2>2. InputInv'
    <3>1. /\ ghNow' \in 0..(WiiClock - 1) /\ hitTimesMs' \in [GW!Pads -> 0..(WiiClock - 1)]
          /\ wasPressed' \in BOOLEAN
      BY <2>1 DEF WiiInv, InputInv
    <3> QED
      BY <2>1, <3>1, NewInput DEF InputInv
  <2>3. IsLink(wiimote', wiiConsole', wiiSent')
    BY <2>1, NewLemma, FreshLemma
  <2> QED
    BY <2>2, <2>3 DEF WiiInv, LinkInv
<1>2. CASE GW!Reconnect
  <2>1. /\ UNCHANGED <<ghNow, hitTimesMs, wii_report, wasPressed, storing, input_report,
                       wiimote>>
        /\ wiiConsole' = GW!FreshConsole /\ wiiSent' = <<>>
    BY <1>2 DEF GW!Reconnect, GW!code
  <2>2. InputInv'
    BY <2>1 DEF WiiInv, InputInv
  <2>3. IsLink(wiimote', wiiConsole', wiiSent')
    BY <2>1, FreshLemma DEF WiiInv, LinkInv, IsLink
  <2> QED
    BY <2>2, <2>3 DEF WiiInv, LinkInv
<1> QED
  BY <1>1, <1>2

LEMMA LinkStays ==
  ASSUME LinkInv, UNCHANGED <<wiimote, wiiConsole, wiiSent>>
  PROVE  LinkInv'
<1>1. IsLink(wiimote', wiiConsole', wiiSent')
  BY DEF LinkInv
<1> QED
  BY <1>1 DEF LinkInv

(* The main loop: time, notes, the gamepad, and the stores of a hit. *)
LEMMA WiiTick ==
  ASSUME GW!WiiAssumption, WiiInv, GW!Tick
  PROVE  WiiInv'
<1>1. /\ ghNow' = (ghNow + 1) % WiiClock
      /\ UNCHANGED <<hitTimesMs, wii_report, wasPressed, storing, input_report,
                     wiimote, wiiConsole, wiiSent>>
  BY DEF GW!Tick, GW!code, GW!link
<1>2. ghNow' \in 0..(WiiClock - 1)
  <2>1. ghNow \in Nat /\ WiiClock \in Nat \ {0}
    BY DEF WiiInv, InputInv, GW!WiiAssumption
  <2> QED
    BY <1>1, <2>1
<1>3. InputInv'
  BY <1>1, <1>2 DEF WiiInv, InputInv
<1> QED
  BY <1>1, <1>3, LinkStays DEF WiiInv

LEMMA TriggerLemma ==
  ASSUME NEW pad, NEW velocity, NEW note, GW!TriggerPadHit(pad, velocity, note)
  PROVE  \E s : storing' = << s >> /\ IsStore(s)
<1> DEFINE s == [pad |-> pad, velocity |-> velocity, note |-> note,
                 left |-> {"velocity", "note", "time"}]
<1>1. storing' = << s >>
  BY DEF GW!TriggerPadHit
<1>2. IsStore(s)
  BY DEF IsStore, StoreFields
<1> QED
  BY <1>1, <1>2

LEMMA WiiNote ==
  ASSUME WiiInv, NEW note, NEW velocity, GW!SendNoteOn(note, velocity)
  PROVE  WiiInv'
<1>1. PICK p \in GW!NoteToPadIds(note) : GW!TriggerPadHit(p, velocity, GW!PadIndexToNote(p))
  BY DEF GW!SendNoteOn
<1>2. UNCHANGED <<ghNow, hitTimesMs, wii_report, wasPressed, input_report,
                  wiimote, wiiConsole, wiiSent>>
  BY DEF GW!SendNoteOn, GW!link
<1>3. \E s : storing' = << s >> /\ IsStore(s)
  BY <1>1, TriggerLemma
<1>4. InputInv'
  BY <1>2, <1>3 DEF WiiInv, InputInv
<1> QED
  BY <1>2, <1>4, LinkStays DEF WiiInv

LEMMA WiiGamepad ==
  ASSUME WiiInv, NEW data, GW!OnGamepadReportReceived(data)
  PROVE  WiiInv'
<1> DEFINE first == CHOOSE i \in data.pads : \A j \in data.pads : i <= j
           buttons == data.buttons \cup (IF data.pads # {} /\ first = 3 THEN {"a"} ELSE {})
           pad == GW!GamepadPads[first]
           note == GW!PadIndexToNote(pad)
<1>1. /\ wii_report' = [wii_report EXCEPT !.buttons = buttons]
      /\ storing' = storing \/ GW!TriggerPadHit(pad, 100, note)
      /\ wasPressed' = (data.pads # {})
      /\ UNCHANGED <<ghNow, hitTimesMs, input_report, wiimote, wiiConsole, wiiSent>>
  BY DEF GW!OnGamepadReportReceived, GW!link
<1> HIDE DEF buttons, pad, note, first
<1>2. storing' = <<>> \/ \E s : storing' = << s >> /\ IsStore(s)
  BY <1>1, TriggerLemma DEF WiiInv, InputInv
<1>3. /\ IsReport(wii_report') /\ wii_report'.pressed \subseteq GW!Pads
      /\ wii_report'.resetIr = TRUE
  BY <1>1 DEF WiiInv, InputInv, IsReport, ReportFields
<1>4. wasPressed' \in BOOLEAN
  BY <1>1
<1>5. InputInv'
  BY <1>1, <1>2, <1>3, <1>4 DEF WiiInv, InputInv
<1> QED
  BY <1>1, <1>5, LinkStays DEF WiiInv

(* A store of a hit.                                                       *)
LEMMA WiiStore ==
  ASSUME WiiInv, GW!Store
  PROVE  WiiInv'
<1>1. /\ storing # <<>>
      /\ UNCHANGED <<ghNow, wasPressed, input_report, wiimote, wiiConsole, wiiSent>>
  BY DEF GW!Store, GW!link
<1>2. PICK s : storing = << s >> /\ IsStore(s)
  BY <1>1 DEF WiiInv, InputInv
<1>3. storing[1] = s
  BY <1>2, OneElement
<1>4. PICK what \in s.left :
        LET rest == [s EXCEPT !.left = @ \ {what}]
        IN  /\ storing' = IF rest.left = {} THEN <<>> ELSE << rest >>
            /\ CASE what = "velocity" ->
                      /\ wii_report' = [wii_report EXCEPT !.midi.velocity = rest.velocity]
                      /\ UNCHANGED hitTimesMs
                 [] what = "note" ->
                      /\ wii_report' = [wii_report EXCEPT !.midi.note = rest.note]
                      /\ UNCHANGED hitTimesMs
                 [] what = "time" ->
                      /\ hitTimesMs' = [hitTimesMs EXCEPT ![rest.pad] = ghNow]
                      /\ UNCHANGED wii_report
  BY <1>3 DEF GW!Store
<1> DEFINE rest == [s EXCEPT !.left = @ \ {what}]
<1>5. IsStore(rest)
  BY <1>2 DEF IsStore, StoreFields
<1>6. what \in {"velocity", "note", "time"}
  BY <1>2, <1>4 DEF IsStore
<1>7. storing' = <<>> \/ storing' = << rest >>
  BY <1>4
<1> HIDE DEF rest
<1>8. /\ IsReport(wii_report') /\ wii_report'.pressed \subseteq GW!Pads
      /\ wii_report'.resetIr = TRUE
  <2>1. CASE what = "velocity"
    <3>1. wii_report' = [wii_report EXCEPT !.midi.velocity = rest.velocity]
      BY <1>4, <2>1 DEF rest
    <3> QED
      BY <3>1 DEF WiiInv, InputInv, IsReport, ReportFields
  <2>2. CASE what = "note"
    <3>1. wii_report' = [wii_report EXCEPT !.midi.note = rest.note]
      BY <1>4, <2>2 DEF rest
    <3> QED
      BY <3>1 DEF WiiInv, InputInv, IsReport, ReportFields
  <2>3. CASE what = "time"
    <3>1. wii_report' = wii_report
      BY <1>4, <2>3
    <3> QED
      BY <3>1 DEF WiiInv, InputInv
  <2> QED
    BY <1>6, <2>1, <2>2, <2>3
<1>9. hitTimesMs' \in [GW!Pads -> 0..(WiiClock - 1)]
  <2>1. hitTimesMs' = hitTimesMs \/ hitTimesMs' = [hitTimesMs EXCEPT ![rest.pad] = ghNow]
    BY <1>4, <1>6 DEF rest
  <2> QED
    BY <2>1 DEF WiiInv, InputInv
<1>10. InputInv'
  BY <1>1, <1>5, <1>7, <1>8, <1>9 DEF WiiInv, InputInv
<1> QED
  BY <1>1, <1>10, LinkStays DEF WiiInv

(* The console reads an answer that is not due any more. *)
LEMMA WiiConsoleReads ==
  ASSUME WiiInv, GW!ConsoleReads
  PROVE  WiiInv'
<1> DEFINE report == wiiSent[1].report
           c == wiiConsole
<1>1. /\ wiiSent # <<>> /\ wiiSent' = <<>>
      /\ UNCHANGED <<ghNow, hitTimesMs, wii_report, wasPressed, storing, input_report, wiimote>>
      /\ wiiConsole' =
           IF report.type = "22" /\ report.of = "16" /\ c.awaits # <<>>
           THEN [c EXCEPT !.key = IF Head(c.awaits) = "nothing" THEN @ ELSE Head(c.awaits),
                          !.awaits = Tail(@)]
           ELSE IF report.type = "20" THEN [c EXCEPT !.told = report.extensionConnected]
           ELSE c
  BY DEF GW!ConsoleReads, GW!code
<1>2. /\ IsDrum(wiimote) /\ IsConsole(c) /\ IsSent(wiiSent, c, wiimote)
      /\ c.told = TRUE => wiimote.sysExtension = "drum"
      /\ PartsAgree(c, wiimote)
      /\ Due(Awaited(c, wiiSent), wiimote.queue)
      /\ Knows(c.key, c.awaits, GW!Key(wiimote))
  BY DEF WiiInv, LinkInv, IsLink
<1>3. IsSeq(c.awaits) /\ IsSeq(c.parts) /\ DOMAIN c = {"key", "awaits", "parts", "told"}
  BY <1>2 DEF IsConsole
<1>4. TellsOfDrum(report) => wiimote.sysExtension = "drum"
  BY <1>1, <1>2 DEF IsSent
<1>5. Len(c.awaits) \in Nat /\ (c.awaits # <<>> <=> Len(c.awaits) > 0)
  <2>1. Len(c.awaits) \in Nat
    BY <1>3 DEF IsSeq
  <2>2. c.awaits # <<>> => Len(c.awaits) \in Nat \ {0}
    BY <1>3, SeqTail
  <2>3. c.awaits = <<>> => Len(c.awaits) = 0
    BY NoElement
  <2> QED
    BY <2>1, <2>2, <2>3
<1> HIDE DEF report, c
<1> DEFINE d == wiiConsole'
<1>6. CASE IsAck(report) /\ c.awaits # <<>>
  <2>1. d = [c EXCEPT !.key = IF Head(c.awaits) = "nothing" THEN @ ELSE Head(c.awaits),
                      !.awaits = Tail(@)]
    BY <1>1, <1>6 DEF IsAck
  <2> HIDE DEF d
  <2>2. /\ DOMAIN d = {"key", "awaits", "parts", "told"} /\ d.awaits = Tail(c.awaits)
        /\ d.key = IF Head(c.awaits) = "nothing" THEN c.key ELSE Head(c.awaits)
        /\ d.parts = c.parts /\ d.told = c.told
    BY <1>3, <2>1
  <2>3. IsSeq(d.awaits) /\ Len(d.awaits) = Len(c.awaits) - 1
    BY <1>3, <1>6, <2>2, SeqTail
  <2>4. IsConsole(d) /\ PartsAgree(d, wiimote)
    BY <1>2, <1>3, <2>2, <2>3 DEF IsConsole, PartsAgree
  <2>5. Awaited(d, <<>>) = Awaited(c, wiiSent)
    <3>1. Awaited(c, wiiSent) = Len(c.awaits) - 1
      BY <1>1, <1>5, <1>6 DEF Awaited, report
    <3> QED
      BY <2>3, <3>1 DEF Awaited
  <2>6. Knows(d.key, d.awaits, GW!Key(wiimote))
    BY <1>2, <1>3, <1>6, <2>2, KnowsAnswered
  <2>7. IsLink(wiimote, d, <<>>)
    BY <1>2, <2>2, <2>4, <2>5, <2>6 DEF IsLink, IsSent
  <2>8. IsLink(wiimote', wiiConsole', wiiSent')
    BY <1>1, <2>7 DEF d
  <2> QED
    BY <1>1, <2>8 DEF WiiInv, LinkInv, InputInv
<1>7. CASE ~(IsAck(report) /\ c.awaits # <<>>)
  <2>1. d = c \/ (report.type = "20" /\ d = [c EXCEPT !.told = report.extensionConnected])
    BY <1>1, <1>7 DEF IsAck
  <2> HIDE DEF d
  <2>2. /\ DOMAIN d = {"key", "awaits", "parts", "told"} /\ d.awaits = c.awaits
        /\ d.key = c.key /\ d.parts = c.parts
        /\ d.told = c.told \/ (report.type = "20" /\ d.told = report.extensionConnected)
    BY <1>3, <2>1
  <2>3. d.told = TRUE => wiimote.sysExtension = "drum"
    BY <1>2, <1>4, <2>2 DEF TellsOfDrum
  <2>4. IsConsole(d) /\ PartsAgree(d, wiimote)
    BY <1>2, <1>3, <2>2 DEF IsConsole, PartsAgree
  <2>5. Awaited(d, <<>>) = Awaited(c, wiiSent)
    BY <1>5, <1>7, <2>2 DEF Awaited, report
  <2>6. IsLink(wiimote, d, <<>>)
    BY <1>2, <2>2, <2>3, <2>4, <2>5 DEF IsLink, IsSent
  <2>7. IsLink(wiimote', wiiConsole', wiiSent')
    BY <1>1, <2>6 DEF d
  <2> QED
    BY <1>1, <2>7 DEF WiiInv, LinkInv, InputInv
<1> QED
  BY <1>6, <1>7

LEMMA AwaitedLemma ==
  ASSUME NEW c, IsConsole(c), NEW d, Len(d.awaits) = Len(c.awaits) + 1, NEW s
  PROVE  /\ Awaited(c, s) \in Nat
         /\ Awaited(d, s) = 0 \/ Awaited(d, s) = Awaited(c, s) + 1
<1>1. Len(c.awaits) \in Nat
  BY DEF IsConsole, IsSeq
<1> QED
  BY <1>1 DEF Awaited

(* What the console knows of the key after a write, and what it wrote of   *)
(* it.                                                                     *)
LEMMA KeyAfterLemma ==
  ASSUME NEW r, IsRequest(r), Writes(r), NEW w, IsRemote(w), NEW c, IsConsole(c),
         PartsAgree(c, w), c.told = TRUE => w.sysExtension = "drum",
         wiiConsole = c, GW!IsSensible(r), NEW v, SameKey(Written(w, r), v)
  PROVE  /\ GW!KeyAfter(r) = "nothing" => GW!Key(v) = GW!Key(w)
         /\ GW!KeyAfter(r) # "nothing" => GW!KeyAfter(r) \in {"unknown", GW!Key(v)}
<1>1. GW!Key(v) = GW!Key(Written(w, r))
  BY DEF SameKey, GW!Key
<1>2. CASE r.register = "a4" /\ r.address = "f0" /\ r.data = "55"
  <2>1. GW!KeyAfter(r) = GW!NoKey
    BY <1>2 DEF GW!KeyAfter
  <2>2. GW!Key(Written(w, r)) = GW!NoKey
    BY <1>2, WrittenLemma
  <2> QED
    BY <1>1, <2>1, <2>2 DEF GW!NoKey
<1>3. CASE r.register = "a4" /\ r.address = "f0" /\ r.data = "aa"
  BY <1>3 DEF GW!KeyAfter
<1>4. CASE r.register = "a4" /\ r.address = "4c"
  <2>1. GW!KeyAfter(r) = r.data /\ GW!PartNumber(r) = 3
    BY <1>4 DEF GW!KeyAfter, GW!PartNumber
  <2>2. Len(c.parts) = 2 /\ \A i \in DOMAIN c.parts : c.parts[i] = r.data
    BY <1>4, <2>1 DEF GW!IsSensible, Writes
  <2>3. DOMAIN c.parts = 1..Len(c.parts)
    BY DEF IsConsole, IsSeq
  <2>4. c.parts[1] = r.data /\ c.parts[2] = r.data
    BY <2>2, <2>3
  <2>5. w.keyParts["40"] = r.data /\ w.keyParts["46"] = r.data
    BY <2>2, <2>4 DEF PartsAgree
  <2>6. GW!Key(Written(w, r)) = r.data
    BY <1>4, <2>5, WrittenLemma
  <2>7. r.data # "nothing"
    BY <1>4 DEF IsRequest, Writes
  <2> QED
    BY <1>1, <2>1, <2>6, <2>7
<1>5. CASE r.register = "a4" /\ r.address \in {"40", "46"}
  BY <1>5 DEF GW!KeyAfter
<1>6. CASE /\ ~(r.register = "a4" /\ r.address = "f0" /\ r.data = "55")
           /\ ~(r.register = "a4" /\ r.address = "f0" /\ r.data = "aa")
           /\ ~(r.register = "a4" /\ r.address = "4c")
           /\ ~(r.register = "a4" /\ r.address \in {"40", "46"})
  <2>1. GW!KeyAfter(r) = "nothing"
    BY <1>6 DEF GW!KeyAfter
  <2>2. ~(r.register = "a4" /\ (r.address = "4c" \/ (r.address = "f0" /\ r.data \in {"55", "aa"})))
    BY <1>6
  <2>3. GW!Key(Written(w, r)) = GW!Key(w)
    BY <2>2, WrittenLemma
  <2> QED
    BY <1>1, <2>1, <2>3
<1> QED
  BY <1>2, <1>3, <1>4, <1>5, <1>6

(* The parts of a key that the console wrote are those the remote has.     *)
LEMMA PartsAfterLemma ==
  ASSUME NEW r, Writes(r), NEW w, IsRemote(w), NEW c, IsConsole(c),
         PartsAgree(c, w), c.told = TRUE => w.sysExtension = "drum",
         wiiConsole = c, GW!IsSensible(r),
         NEW v, SameKey(Written(w, r), v), v.sysExtension = w.sysExtension,
         NEW d, d.parts = GW!PartsAfter(r)
  PROVE  IsSeq(d.parts) /\ PartsAgree(d, v)
<1>1. v.keyParts = IF r.register = "a4" /\ r.address \in GW!KeyParts
                   THEN [w.keyParts EXCEPT ![r.address] = r.data] ELSE w.keyParts
  BY WrittenLemma DEF SameKey
<1>2. DOMAIN w.keyParts = {"40", "46", "4c"} /\ IsSeq(c.parts)
  BY DEF IsRemote, IsConsole, GW!KeyParts
<1>3. CASE r.register # "a4"
  <2>1. d.parts = c.parts /\ v.keyParts = w.keyParts
    BY <1>1, <1>3 DEF GW!PartsAfter
  <2> QED
    BY <1>2, <2>1 DEF PartsAgree
<1>4. CASE r.register = "a4"
  <2>1. w.sysExtension = "drum"
    <3>1. c.told
      BY <1>4 DEF GW!IsSensible, Writes
    <3> QED
      BY <3>1
  <2>2. CASE r.address \notin {"40", "46", "4c"}
    <3>1. GW!PartNumber(r) = 0
      BY <2>2 DEF GW!PartNumber
    <3>2. d.parts = <<>>
      BY <1>4, <3>1 DEF GW!PartsAfter
    <3> QED
      BY <3>2, NoElement DEF PartsAgree
  <2>3. CASE r.address = "40"
    <3>1. GW!PartNumber(r) = 1
      BY <2>3 DEF GW!PartNumber
    <3>2. d.parts = << r.data >>
      BY <1>4, <3>1 DEF GW!PartsAfter
    <3>3. v.keyParts["40"] = r.data
      BY <1>1, <1>2, <1>4, <2>3 DEF GW!KeyParts
    <3>4. IsSeq(d.parts) /\ Len(d.parts) = 1 /\ d.parts[1] = r.data
      BY <3>2, OneElement
    <3> QED
      BY <2>1, <3>3, <3>4 DEF PartsAgree
  <2>4. CASE r.address = "46"
    <3>1. GW!PartNumber(r) = 2
      BY <2>4 DEF GW!PartNumber
    <3>2. d.parts = Append(c.parts, r.data) /\ Len(c.parts) = 1
      BY <1>4, <3>1 DEF GW!PartsAfter, GW!IsSensible, Writes
    <3>3. v.keyParts["46"] = r.data /\ v.keyParts["40"] = w.keyParts["40"]
      BY <1>1, <1>2, <1>4, <2>4 DEF GW!KeyParts
    <3>4. /\ IsSeq(d.parts) /\ Len(d.parts) = 2 /\ d.parts[2] = r.data
          /\ d.parts[1] = c.parts[1]
      <4>1. /\ IsSeq(d.parts) /\ d.parts[Len(c.parts) + 1] = r.data
            /\ Len(d.parts) = Len(c.parts) + 1
            /\ \A i \in 1..Len(c.parts) : d.parts[i] = c.parts[i]
        BY <1>2, <3>2, SeqAppend
      <4> QED
        BY <3>2, <4>1
    <3> QED
      BY <2>1, <3>2, <3>3, <3>4 DEF PartsAgree
  <2>5. CASE r.address = "4c"
    <3>1. GW!PartNumber(r) = 3
      BY <2>5 DEF GW!PartNumber
    <3>2. d.parts = Append(c.parts, r.data) /\ Len(c.parts) = 2
      BY <1>4, <3>1 DEF GW!PartsAfter, GW!IsSensible, Writes
    <3>3. v.keyParts["46"] = w.keyParts["46"] /\ v.keyParts["40"] = w.keyParts["40"]
      BY <1>1, <1>2, <1>4, <2>5 DEF GW!KeyParts
    <3>4. /\ IsSeq(d.parts) /\ d.parts[2] = c.parts[2] /\ d.parts[1] = c.parts[1]
      BY <1>2, <3>2, SeqAppend
    <3> QED
      BY <2>1, <3>2, <3>3, <3>4 DEF PartsAgree
  <2> QED
    BY <2>2, <2>3, <2>4, <2>5
<1> QED
  BY <1>3, <1>4

(* A request of the console.                                               *)
LEMMA WiiReceive ==
  ASSUME WiiInv, NEW r, IsRequest(r), GW!Receive(r)
  PROVE  WiiInv'
<1> DEFINE w == wiimote
           v == wiimote'
           c == wiiConsole
           d == wiiConsole'
<1>1. /\ GW!IsSensible(r) /\ v = GW!ProcessReport(w, r)
      /\ d = IF Writes(r)
             THEN [c EXCEPT !.awaits = Append(@, GW!KeyAfter(r)), !.parts = GW!PartsAfter(r)]
             ELSE c
      /\ UNCHANGED <<ghNow, hitTimesMs, wii_report, wasPressed, storing, input_report, wiiSent>>
  BY DEF GW!Receive, Writes
<1>2. /\ IsDrum(w) /\ IsConsole(c) /\ IsSent(wiiSent, c, w)
      /\ c.told = TRUE => w.sysExtension = "drum"
      /\ PartsAgree(c, w)
      /\ Due(Awaited(c, wiiSent), w.queue)
      /\ Knows(c.key, c.awaits, GW!Key(w))
  BY DEF WiiInv, LinkInv, IsLink
<1>3. InputInv'
  BY <1>1 DEF WiiInv, InputInv
<1>4. IsRemote(w)
  BY <1>2 DEF IsDrum
<1>5. /\ Answered(w, v)
      /\ ~Writes(r) => SameKey(w, v)
      /\ Writes(r) => /\ SameKey(Written(w, r), v)
                      /\ Len(v.queue) = Len(w.queue) + 1
                      /\ IsAck(v.queue[Len(v.queue)])
  BY <1>1, <1>4, ProcessLemma
<1> HIDE DEF v, w, c, d
<1>6. IsDrum(v) /\ Extends(w.queue, v.queue) /\ v.sysExtension = w.sysExtension
  BY <1>2, <1>5, DrumAnswered DEF Answered, SameDrum
<1>7. Awaited(c, wiiSent) \in Nat
  <2>1. Len(c.awaits) \in Nat
    BY <1>2 DEF IsConsole, IsSeq
  <2> QED
    BY <2>1 DEF Awaited
<1>8. CASE ~Writes(r)
  <2>1. d = c /\ SameKey(w, v)
    BY <1>1, <1>5, <1>8
  <2>2. Due(Awaited(c, wiiSent), v.queue)
    BY <1>2, <1>6, <1>7, DueExtends
  <2>3. GW!Key(v) = GW!Key(w) /\ PartsAgree(c, v)
    BY <1>2, <1>6, <2>1 DEF SameKey, GW!Key, PartsAgree
  <2>4. IsSent(wiiSent, c, v)
    BY <1>2, <1>6 DEF IsSent
  <2>5. IsLink(v, d, wiiSent)
    BY <1>2, <1>6, <2>1, <2>2, <2>3, <2>4 DEF IsLink
  <2> QED
    BY <1>1, <1>3, <2>5 DEF WiiInv, LinkInv, v, d
<1>9. CASE Writes(r)
  <2> DEFINE e == GW!KeyAfter(r)
             parts == GW!PartsAfter(r)
  <2>1. d = [c EXCEPT !.awaits = Append(@, e), !.parts = parts]
    BY <1>1, <1>9
  <2>2. wiiConsole = c
    BY DEF c
  <2>3. /\ GW!KeyAfter(r) = "nothing" => GW!Key(v) = GW!Key(w)
        /\ GW!KeyAfter(r) # "nothing" => GW!KeyAfter(r) \in {"unknown", GW!Key(v)}
    BY <1>1, <1>2, <1>4, <1>5, <1>9, <2>2, KeyAfterLemma
  <2> HIDE DEF e, parts
  <2>4. /\ DOMAIN d = {"key", "awaits", "parts", "told"} /\ d.awaits = Append(c.awaits, e)
        /\ d.parts = parts /\ d.key = c.key /\ d.told = c.told
    BY <1>2, <2>1 DEF IsConsole
  <2>5. IsSeq(d.parts) /\ PartsAgree(d, v)
    <3>1. d.parts = GW!PartsAfter(r)
      BY <2>4 DEF parts
    <3> QED
      BY <1>1, <1>2, <1>4, <1>5, <1>6, <1>9, <2>2, <3>1, PartsAfterLemma
  <2>6. IsSeq(d.awaits) /\ Len(d.awaits) = Len(c.awaits) + 1
    BY <1>2, <2>4, SeqAppend DEF IsConsole
  <2>7. IsConsole(d)
    BY <2>4, <2>5, <2>6 DEF IsConsole
  <2>8. Knows(d.key, d.awaits, GW!Key(v))
    <3>1. e = "nothing" => GW!Key(v) = GW!Key(w)
      BY <2>3 DEF e
    <3>2. e # "nothing" => e \in {"unknown", GW!Key(v)}
      BY <2>3 DEF e
    <3>3. IsSeq(c.awaits) /\ Knows(c.key, c.awaits, GW!Key(w))
      BY <1>2 DEF IsConsole
    <3> DEFINE k == GW!Key(w)
               l == GW!Key(v)
    <3>4. (e = "nothing" => l = k) /\ (e # "nothing" => e \in {"unknown", l})
          /\ Knows(c.key, c.awaits, k)
      BY <3>1, <3>2, <3>3
    <3> HIDE DEF k, l
    <3>5. Knows(c.key, Append(c.awaits, e), l)
      BY <3>3, <3>4, KnowsMore
    <3> QED
      BY <2>4, <3>5 DEF l
  <2>9. Due(Awaited(d, wiiSent), v.queue)
    <3>1. Awaited(d, wiiSent) = 0 \/ Awaited(d, wiiSent) = Awaited(c, wiiSent) + 1
      BY <1>2, <2>6, AwaitedLemma
    <3>2. Due(Awaited(c, wiiSent) + 1, v.queue)
      BY <1>2, <1>5, <1>6, <1>7, <1>9, DueMore
    <3> QED
      BY <3>1, <3>2, DueNothing
  <2>10. IsSent(wiiSent, d, v)
    BY <1>2, <1>6, <2>4 DEF IsSent
  <2>11. IsLink(v, d, wiiSent)
    BY <1>2, <1>6, <2>4, <2>5, <2>7, <2>8, <2>9, <2>10 DEF IsLink
  <2> QED
    BY <1>1, <1>3, <2>11 DEF WiiInv, LinkInv, v, d
<1> QED
  BY <1>8, <1>9

(* The input makes the drum the extension, and changes nothing else that   *)
(* the link is about.                                                      *)
LEMMA TakeInputLemma ==
  ASSUME NEW w, IsDrum(w), NEW report, report.resetIr = TRUE
  PROVE  LET v == GW!TakeInput(w, report)
         IN  /\ IsDrum(v) /\ v.queue = w.queue /\ v.sysExtension = w.sysExtension
             /\ SameKey(w, v) /\ v.mode = w.mode
             /\ v.pressed = report.pressed /\ v.midi = report.midi
<1> DEFINE v == GW!TakeInput(w, report)
<1>1. IsRemote(w)
  BY DEF IsDrum
<1>2. v = [w EXCEPT !.extension = "drum", !.buttons = report.buttons,
                    !.pressed = report.pressed, !.midi = report.midi]
  BY DEF GW!TakeInput
<1> HIDE DEF v
<1>3. /\ DOMAIN v = Fields /\ v.extension = "drum" /\ v.pressed = report.pressed
      /\ v.midi = report.midi /\ v.queue = w.queue /\ v.sysExtension = w.sysExtension
      /\ v.extensionConnected = w.extensionConnected /\ v.mode = w.mode
      /\ SameKey(w, v)
  BY <1>1, <1>2 DEF IsRemote, Fields, SameKey
<1>4. IsRemote(v)
  BY <1>1, <1>3 DEF IsRemote, SameKey
<1>5. IsDrum(v)
  BY <1>3, <1>4 DEF IsDrum, MayWait
<1> QED
  BY <1>3, <1>5 DEF v

(* send_data(): what is sent, and what it shows. *)
LEMMA WiiSend ==
  ASSUME GW!WiiAssumption, WiiInv, GW!SendData
  PROVE  /\ WiiInv'
         /\ wiiSent' # <<>> /\ wiiSent'[1].extension # <<>> /\ wiimote.queue = <<>> =>
              wiiSent'[1].extension[1].pressed = GW!Shown
         /\ wii_report.midi.note # 0 /\ wii_report.midi'.note = 0 =>
              \/ wiimote.sysExtension = GW!NoExtension
              \/ wiimote.mode \notin GW!ExtensionModes
              \/ wiiSent'[1].extension[1].midi = wii_report.midi
<1> DEFINE report == [wii_report EXCEPT !.pressed = GW!Shown]
           changed == GW!TakesInput /\ report # input_report
           w == wiimote
           taken == IF changed THEN GW!TakeInput(w, report) ELSE w
           g == GW!GenerateReport(taken, changed)
           c == wiiConsole
<1>1. /\ wiiSent = <<>>
      /\ wiimote' = g.w /\ wiiSent' = g.sent
      /\ UNCHANGED <<ghNow, wasPressed, storing, wiiConsole>>
      /\ IF GW!TakesInput
         THEN /\ hitTimesMs' = [p \in GW!Pads |-> IF GW!IsReleased(p) THEN 0 ELSE hitTimesMs[p]]
              /\ wii_report' = [report EXCEPT !.midi = GW!NoMidi]
              /\ input_report' = [report EXCEPT !.resetIr = IF changed THEN FALSE ELSE @]
         ELSE UNCHANGED <<hitTimesMs, wii_report, input_report>>
  BY DEF GW!SendData
<1>2. /\ IsDrum(w) /\ IsConsole(c) /\ PartsAgree(c, w)
      /\ c.told = TRUE => w.sysExtension = "drum"
      /\ Due(Awaited(c, wiiSent), w.queue)
      /\ Knows(c.key, c.awaits, GW!Key(w))
  BY DEF WiiInv, LinkInv, IsLink
<1>3. /\ DOMAIN report = ReportFields /\ report.midi = wii_report.midi
      /\ report.resetIr = TRUE /\ report.pressed = GW!Shown
      /\ DOMAIN report.midi = {"note", "velocity"}
  BY DEF WiiInv, InputInv, IsReport, ReportFields
<1>4. GW!Shown \subseteq GW!Pads
  BY DEF GW!Shown
<1> HIDE DEF report
<1>5. changed <=> w.queue = <<>>
  <2>1. report # input_report
    BY <1>3 DEF WiiInv, InputInv
  <2> QED
    BY <2>1 DEF GW!TakesInput
<1>6. changed \in BOOLEAN
  OBVIOUS
<1> HIDE DEF changed, g
<1>7. /\ IsDrum(taken) /\ taken.queue = w.queue /\ taken.sysExtension = w.sysExtension
      /\ SameKey(w, taken) /\ taken.mode = w.mode
      /\ changed => taken.pressed = GW!Shown /\ taken.midi = wii_report.midi
  <2>1. CASE changed
    <3>1. taken = GW!TakeInput(w, report)
      BY <2>1
    <3> HIDE DEF taken
    <3> QED
      BY <1>2, <1>3, <3>1, TakeInputLemma
  <2>2. CASE ~changed
    <3>1. taken = w
      BY <2>2
    <3> HIDE DEF taken
    <3> QED
      BY <1>2, <2>2, <3>1 DEF SameKey
  <2> QED
    BY <2>1, <2>2
<1> HIDE DEF taken, w, c
<1>8. Sends(taken, changed, g)
  BY <1>6, <1>7, GenerateLemma DEF g
<1> DEFINE x == g.sent[1]
<1>9. /\ IsDrum(g.w) /\ g.w.encrypted = taken.encrypted /\ g.w.tables = taken.tables
      /\ w.sysExtension = "drum" => g.w.sysExtension = "drum" /\ g.w.keyParts = w.keyParts
      /\ g.sent = <<>> => Extends(w.queue, g.w.queue)
      /\ g.sent # <<>> =>
           /\ g.sent = << x >>
           /\ TellsOfDrum(x.report) => g.w.sysExtension = "drum"
           /\ x.extension # <<>> =>
                w.queue = <<>> /\ x.extension[1].key = GW!Key(taken)
                  /\ x.extension[1].pressed = taken.pressed
           /\ \A n \in Nat : Due(n, w.queue) =>
                Due(IF IsAck(x.report) /\ n > 0 THEN n - 1 ELSE n, g.w.queue)
  BY <1>7, <1>8 DEF Sends, SameKey
<1>10. changed /\ w.sysExtension = "drum" /\ w.mode \in GW!ExtensionModes =>
         x.extension[1].midi = wii_report.midi
  BY <1>5, <1>7, <1>8 DEF Sends
<1>11. GW!Key(taken) = GW!Key(w) /\ GW!Key(g.w) = GW!Key(w)
  BY <1>7, <1>9 DEF SameKey, GW!Key
<1> HIDE DEF x
<1>12. InputInv'
  <2>1. CASE w.queue = <<>>
    <3>1. /\ hitTimesMs' = [p \in GW!Pads |-> IF GW!IsReleased(p) THEN 0 ELSE hitTimesMs[p]]
          /\ wii_report' = [report EXCEPT !.midi = GW!NoMidi]
          /\ input_report' = [report EXCEPT !.resetIr = FALSE]
      BY <1>1, <1>5, <2>1 DEF GW!TakesInput, w
    <3>2. 0 \in 0..(WiiClock - 1)
      BY DEF GW!WiiAssumption
    <3>3. hitTimesMs' \in [GW!Pads -> 0..(WiiClock - 1)]
      BY <3>1, <3>2 DEF WiiInv, InputInv
    <3>4. /\ IsReport(wii_report') /\ wii_report'.pressed \subseteq GW!Pads
          /\ wii_report'.resetIr = TRUE /\ input_report'.resetIr = FALSE
      BY <1>3, <1>4, <3>1 DEF IsReport, ReportFields, GW!NoMidi
    <3> QED
      BY <1>1, <3>3, <3>4 DEF WiiInv, InputInv
  <2>2. CASE w.queue # <<>>
    <3>1. UNCHANGED <<hitTimesMs, wii_report, input_report>>
      BY <1>1, <2>2 DEF GW!TakesInput, w
    <3> QED
      BY <1>1, <3>1 DEF WiiInv, InputInv
  <2> QED
    BY <2>1, <2>2
<1>13. Len(c.awaits) \in Nat /\ Awaited(c, wiiSent) = Len(c.awaits)
  <2>1. Len(c.awaits) \in Nat
    BY <1>2 DEF IsConsole, IsSeq
  <2> QED
    BY <1>1, <2>1 DEF Awaited
<1>14. Due(Awaited(c, g.sent), g.w.queue)
  <2> DEFINE n == Len(c.awaits)
  <2>1. n \in Nat /\ Due(n, w.queue)
    BY <1>2, <1>13
  <2>2. CASE g.sent = <<>>
    <3>1. Due(n, g.w.queue)
      BY <1>9, <2>1, <2>2, DueExtends
    <3> QED
      BY <2>2, <3>1 DEF Awaited
  <2>3. CASE g.sent # <<>>
    <3>1. Due(IF IsAck(x.report) /\ n > 0 THEN n - 1 ELSE n, g.w.queue)
      BY <1>9, <2>1, <2>3
    <3> QED
      BY <2>3, <3>1 DEF Awaited, x
  <2> QED
    BY <2>2, <2>3
<1>15. IsSent(g.sent, c, g.w)
  <2> SUFFICES ASSUME g.sent # <<>>
               PROVE  /\ g.sent = << x >>
                      /\ TellsOfDrum(x.report) => g.w.sysExtension = "drum"
                      /\ x.extension # <<>> => c.key \in {"unknown", x.extension[1].key}
    BY DEF IsSent, x
  <2>1. ASSUME x.extension # <<>>
        PROVE  c.key \in {"unknown", x.extension[1].key}
    <3>1. w.queue = <<>> /\ x.extension[1].key = GW!Key(w)
      BY <1>9, <1>11, <2>1
    <3>2. Len(c.awaits) = 0
      BY <1>2, <1>13, <3>1, DueNothing
    <3>3. IsSeq(c.awaits)
      BY <1>2 DEF IsConsole
    <3>4. c.awaits = <<>>
      BY <3>2, <3>3 DEF IsSeq
    <3> QED
      BY <1>2, <3>1, <3>4, KnowsNow
  <2> QED
    BY <1>9, <2>1
<1>16. PartsAgree(c, g.w)
  <2>1. CASE w.sysExtension = "drum"
    BY <1>2, <1>9, <2>1 DEF PartsAgree
  <2>2. CASE w.sysExtension # "drum"
    <3>1. c.parts = <<>>
      BY <1>2, <2>2 DEF PartsAgree
    <3> QED
      BY <3>1, NoElement DEF PartsAgree
  <2> QED
    BY <2>1, <2>2
<1>17. IsLink(g.w, c, g.sent)
  <2>1. Knows(c.key, c.awaits, GW!Key(g.w))
    BY <1>2, <1>11
  <2>2. c.told = TRUE => g.w.sysExtension = "drum"
    BY <1>2, <1>9
  <2> QED
    BY <1>2, <1>9, <1>14, <1>15, <1>16, <2>1, <2>2 DEF IsLink
<1>18. WiiInv'
  <2>1. IsLink(wiimote', wiiConsole', wiiSent')
    BY <1>1, <1>17 DEF c
  <2> QED
    BY <1>12, <2>1 DEF WiiInv, LinkInv
<1>19. wiiSent' # <<>> /\ wiiSent'[1].extension # <<>> /\ wiimote.queue = <<>> =>
         wiiSent'[1].extension[1].pressed = GW!Shown
  BY <1>1, <1>5, <1>7, <1>9 DEF x, w
<1>20. wii_report.midi.note # 0 /\ wii_report.midi'.note = 0 =>
         \/ wiimote.sysExtension = GW!NoExtension
         \/ wiimote.mode \notin GW!ExtensionModes
         \/ wiiSent'[1].extension[1].midi = wii_report.midi
  <2> SUFFICES ASSUME wii_report.midi.note # 0, wii_report.midi'.note = 0,
                      w.sysExtension # GW!NoExtension, w.mode \in GW!ExtensionModes
               PROVE  wiiSent'[1].extension[1].midi = wii_report.midi
    BY DEF w
  <2>1. GW!TakesInput
    BY <1>1
  <2>2. w.sysExtension = "drum"
    BY <1>2 DEF IsDrum
  <2> QED
    BY <1>1, <1>5, <1>10, <2>1, <2>2 DEF GW!TakesInput, w, x
<1> QED
  BY <1>18, <1>19, <1>20

(* Every step keeps the invariant.                                         *)
LEMMA WiiNext ==
  ASSUME GW!WiiAssumption, WiiInv, [GW!Next]_(GW!vars)
  PROVE  WiiInv'
<1>1. CASE GW!Tick
  BY <1>1, WiiTick
<1>2. ASSUME NEW s \in WiiStrikes, GW!SendNoteOn(s[1], s[2])
      PROVE  WiiInv'
  BY <1>2, WiiNote
<1>3. ASSUME NEW data \in WiiGamepads, GW!OnGamepadReportReceived(data)
      PROVE  WiiInv'
  BY <1>3, WiiGamepad
<1>4. CASE GW!Store
  BY <1>4, WiiStore
<1>5. CASE GW!SendData
  BY <1>5, WiiSend
<1>6. CASE GW!ConsoleReads
  BY <1>6, WiiConsoleReads
<1>7. ASSUME NEW r \in WiiRequests, GW!Receive(r)
      PROVE  WiiInv'
  <2>1. IsRequest(r)
    BY DEF GW!WiiAssumption, IsRequest
  <2> QED
    BY <1>7, <2>1, WiiReceive
<1>8. CASE GW!Reconnect \/ GW!Restart
  BY <1>8, WiiStarts
<1>9. CASE UNCHANGED GW!vars
  <2>1. UNCHANGED <<ghNow, hitTimesMs, wii_report, wasPressed, storing, input_report,
                    wiimote, wiiConsole, wiiSent>>
    BY <1>9 DEF GW!vars, GW!code, GW!link
  <2>2. InputInv'
    BY <2>1 DEF WiiInv, InputInv
  <2> QED
    BY <2>1, <2>2, LinkStays DEF WiiInv
<1> QED
  BY <1>1, <1>2, <1>3, <1>4, <1>5, <1>6, <1>7, <1>8, <1>9 DEF GW!Next

(* What the run checks of the states of the Wii drum.                      *)
LEMMA WiiTypes ==
  ASSUME WiiInv
  PROVE  GW!TypeOK /\ GW!ConsoleKnowsTheKey
<1>1. Len(storing) <= 1
  <2>1. CASE storing = <<>>
    <3>1. Len(storing) = 0
      BY <2>1, NoElement
    <3> QED
      BY <3>1
  <2>2. CASE \E s : storing = << s >>
    <3>1. PICK s : storing = << s >>
      BY <2>2
    <3>2. Len(<< s >>) = 1
      BY OneElement
    <3>3. Len(storing) = 1
      BY <3>1, <3>2
    <3> QED
      BY <3>3
  <2> QED
    BY <2>1, <2>2 DEF WiiInv, InputInv
<1>2. Len(wiiSent) <= 1
  <2>1. CASE wiiSent = <<>>
    <3>1. Len(wiiSent) = 0
      BY <2>1, NoElement
    <3> QED
      BY <3>1
  <2>2. CASE wiiSent # <<>>
    <3> DEFINE x == wiiSent[1]
    <3>1. wiiSent = << x >>
      BY <2>2 DEF WiiInv, LinkInv, IsLink, IsSent
    <3> HIDE DEF x
    <3>2. Len(<< x >>) = 1
      BY OneElement
    <3>3. Len(wiiSent) = 1
      BY <3>1, <3>2
    <3> QED
      BY <3>3
  <2> QED
    BY <2>1, <2>2
<1>3. /\ ghNow \in 0..(WiiClock - 1) /\ hitTimesMs \in [GW!Pads -> 0..(WiiClock - 1)]
      /\ wii_report.pressed \subseteq GW!Pads /\ wii_report.resetIr = TRUE
      /\ wasPressed \in BOOLEAN
  BY DEF WiiInv, InputInv
<1>4. wiimote.mode \in GW!DataModes /\ wiimote.extension \in {GW!NoExtension, "drum"}
  BY DEF WiiInv, LinkInv, IsLink, IsDrum, IsRemote
<1>5. wii_report.resetIr
  BY <1>3
<1>6. GW!TypeOK
  BY <1>1, <1>2, <1>3, <1>4, <1>5 DEF GW!TypeOK
<1>7. GW!ConsoleKnowsTheKey
  BY DEF WiiInv, LinkInv, IsLink, IsSent, GW!ConsoleKnowsTheKey
<1> QED
  BY <1>6, <1>7

(* A pad that a report shows is held, or its time is 0. *)
LEMMA ShownLemma ==
  ASSUME GW!WiiAssumption, WiiInv
  PROVE  /\ {p \in GW!Pads : GW!IsPadHit(p)} \subseteq GW!Shown
         /\ \A p \in GW!Shown : GW!IsPadHit(p) \/ hitTimesMs[p] = 0
<1>1. ASSUME NEW p \in GW!Shown, ~GW!IsPadHit(p), hitTimesMs[p] # 0
      PROVE  FALSE
  <2>1. p \in GW!Pads /\ ~GW!IsReleased(p)
    BY <1>1 DEF GW!Shown
  <2> DEFINE e == GW!ElapsedMs(hitTimesMs[p])
  <2>2. e \in Int /\ WiiHoldMs \in Int
    <3>1. /\ ghNow \in Int /\ hitTimesMs[p] \in Int
          /\ WiiClock \in Nat \ {0} /\ WiiHoldMs \in Int
      BY <2>1 DEF WiiInv, InputInv, GW!WiiAssumption
    <3> QED
      BY <3>1 DEF GW!ElapsedMs
  <2>3. ~(e <= WiiHoldMs) /\ ~(e > WiiHoldMs)
    BY <1>1, <2>1 DEF GW!IsPadHit, GW!IsReleased
  <2> HIDE DEF e
  <2> QED
    BY <2>2, <2>3
<1>2. {p \in GW!Pads : GW!IsPadHit(p)} \subseteq GW!Shown
  BY DEF GW!Shown
<1> QED
  BY <1>1, <1>2

(* The Guitar Hero drums.  With the cable, no hit is lost between the main *)
(* loop and the polls of the console, and none is heard twice.  As a Wii   *)
(* remote, a report shows the pads that are held, no note is dropped while *)
(* the console listens, and a console that knows the key can decrypt what  *)
(* it gets (midi_transport_guitar_hero_spi.cpp:49, wiimote.c).             *)
THEOREM GuitarHeroAlwaysTellsTheHits == SP!Spec /\ GW!Spec => GuitarHeroTellsTheHits
<1> USE HostsAssumption
<1>1. GW!WiiAssumption
  BY DEF HostsAssumption
<1>2. GW!Init => WiiInv
  BY <1>1, WiiInit
<1>3. WiiInv /\ [GW!Next]_(GW!vars) => WiiInv'
  BY <1>1, WiiNext
<1>4. WiiInv => GW!TypeOK /\ GW!ConsoleKnowsTheKey
  BY WiiTypes
<1>5. WiiInv /\ [GW!Next]_(GW!vars) =>
        [wiiSent' # <<>> /\ wiiSent'[1].extension # <<>> /\ wiimote.queue = <<>> /\ GW!SendData =>
           LET shown == wiiSent'[1].extension[1].pressed
           IN  /\ {p \in GW!Pads : GW!IsPadHit(p)} \subseteq shown
               /\ \A p \in shown : GW!IsPadHit(p) \/ hitTimesMs[p] = 0]_(GW!vars)
  BY <1>1, WiiSend, ShownLemma
<1>6. WiiInv /\ [GW!Next]_(GW!vars) =>
        [wii_report.midi.note # 0 /\ wii_report.midi'.note = 0 /\ GW!SendData =>
           \/ wiimote.sysExtension = GW!NoExtension
           \/ wiimote.mode \notin GW!ExtensionModes
           \/ wiiSent'[1].extension[1].midi = wii_report.midi]_(GW!vars)
  BY <1>1, WiiSend
<1> QED
  BY <1>2, <1>3, <1>4, <1>5, <1>6, SpiTellsTheHits, PTL
    DEF GW!Spec, GuitarHeroTellsTheHits, GW!ReportsShowTheHits, GW!NoNoteIsDropped

=============================================================================
