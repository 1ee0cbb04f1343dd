------------------------ MODULE DrumKitConfig_proofs ------------------------
(***************************************************************************)
(* Theorems about the configuration of the kit and its file, for every     *)
(* number of pads and mappings and every sequence of commands, and about   *)
(* its multiplexers and connectors, for every file and board.              *)
(***************************************************************************)
EXTENDS DrumKitConfig, Multiplexers, SequenceTheorems, WellFoundedInduction, TLAPS

(* Every set of natural numbers has a smallest element. *)
LEMMA LeastElement ==
  ASSUME NEW T, T \subseteq Nat, T # {}
  PROVE  \E x \in T : \A y \in T : x <= y
<1>1. PICK x \in T : \A y \in T : ~(<<y, x>> \in OpToRel(<, Nat))
  BY WFMin, NatLessThanWellFounded
<1>2. \A y, z \in Nat : <<y, z>> \in OpToRel(<, Nat) <=> y < z
  BY DEF OpToRel
<1>3. \A y \in T : ~(y < x)
  BY <1>1, <1>2
<1>4. \A y \in T : x <= y
  <2>1. x \in Nat /\ \A y \in T : y \in Nat
    BY <1>1
  <2> QED
    BY <1>3, <2>1
<1> QED
  BY <1>1, <1>4

(* Induction over the natural numbers up to a bound, for sets. *)
LEMMA InductionUpTo ==
  ASSUME NEW n \in Nat, NEW S, 0 \in S, \A i \in 0..(n - 1) : i \in S => i + 1 \in S
  PROVE  0..n \subseteq S
<1> SUFFICES ASSUME (0..n) \ S # {} PROVE FALSE
  OBVIOUS
<1>1. PICK x \in (0..n) \ S : \A y \in (0..n) \ S : x <= y
  <2>1. (0..n) \ S \subseteq Nat
    OBVIOUS
  <2> QED
    BY <2>1, LeastElement
<1>2. x # 0 /\ x - 1 \in 0..(n - 1) /\ (x - 1) + 1 = x
  BY <1>1
<1>3. x - 1 \in S
  BY <1>1, <1>2
<1> QED
  BY <1>1, <1>2, <1>3

(* The largest element of a bounded set of numbers. *)
LEMMA MaxLemma ==
  ASSUME NEW n \in Nat, NEW s \in SUBSET (1..n), s # {}
  PROVE  Max(s) \in s /\ \A y \in s : y <= Max(s)
<1> DEFINE T == {n - x : x \in s}
<1>1. T \subseteq Nat /\ T # {}
  <2>1. \A x \in s : n - x \in Nat
    OBVIOUS
  <2> QED
    BY <2>1
<1>2. PICK z \in T : \A y \in T : z <= y
  BY <1>1, LeastElement
<1>3. PICK x \in s : z = n - x
  BY <1>2
<1>4. \A y \in s : x >= y
  <2> SUFFICES ASSUME NEW y \in s PROVE x >= y
    OBVIOUS
  <2>1. n - x <= n - y
    BY <1>2, <1>3
  <2>2. x \in Nat /\ y \in Nat
    BY <1>3
  <2> QED
    BY <2>1, <2>2
<1>5. \E m \in s : \A y \in s : m >= y
  BY <1>3, <1>4
<1>6. Max(s) \in s /\ \A y \in s : Max(s) >= y
  BY <1>5 DEF Max
<1>7. \A y \in s : y \in Nat
  OBVIOUS
<1> QED
  BY <1>6, <1>7

-----------------------------------------------------------------------------
(* What the fold over the entries yields for the first entries of a set of *)
(* positions, given what it yields for other sets.                         *)
FoldStep(k, entries, replace, iter, s) ==
  IF s = {} THEN k
  ELSE ApplyRole(iter[s \ {Max(s)}], entries[Max(s)], replace)

(* A function that folds over the sets of the first n positions. *)
IsFold(k, entries, replace, n, iter) ==
  iter = [s \in SUBSET (1..n) |-> FoldStep(k, entries, replace, iter, s)]

(* There is such a function for the positions of every sequence. *)
LEMMA FoldExists ==
  ASSUME NEW k, NEW entries, NEW replace, NEW n \in Nat
  PROVE  \E iter : IsFold(k, entries, replace, n, iter)
<1> DEFINE S == {i \in 0..n : \E iter : IsFold(k, entries, replace, i, iter)}
<1>1. 0 \in S
  <2> DEFINE iter == [s \in SUBSET (1..0) |-> k]
  <2>1. 1..0 = {}
    OBVIOUS
  <2>2. iter = [s \in SUBSET (1..0) |-> FoldStep(k, entries, replace, iter, s)]
    BY <2>1 DEF FoldStep
  <2>3. IsFold(k, entries, replace, 0, iter)
    BY <2>2 DEF IsFold
  <2> QED
    BY <2>3
<1>2. ASSUME NEW i \in 0..(n - 1), i \in S
      PROVE  i + 1 \in S
  <2>1. PICK g : IsFold(k, entries, replace, i, g)
    BY <1>2
  <2>2. g = [s \in SUBSET (1..i) |-> FoldStep(k, entries, replace, g, s)]
    BY <2>1 DEF IsFold
  <2> DEFINE h == [s \in SUBSET (1..(i + 1)) |->
                     IF i + 1 \in s THEN ApplyRole(g[s \ {i + 1}], entries[i + 1], replace)
                     ELSE g[s]]
  <2>3. ASSUME NEW s \in SUBSET (1..(i + 1))
        PROVE  h[s] = FoldStep(k, entries, replace, h, s)
    <3>1. CASE i + 1 \in s
      <4>1. Max(s) \in s /\ i + 1 <= Max(s)
        BY <3>1, MaxLemma
      <4>2. Max(s) = i + 1
        <5>1. s \subseteq 1..(i + 1) /\ i \in Nat
          OBVIOUS
        <5>2. Max(s) \in 1..(i + 1)
          BY <4>1, <5>1
        <5> QED
          BY <4>1, <5>1, <5>2
      <4>3. s \ {i + 1} \in SUBSET (1..(i + 1)) /\ i + 1 \notin s \ {i + 1}
        OBVIOUS
      <4>4. h[s \ {i + 1}] = g[s \ {i + 1}]
        BY <4>3
      <4>5. h[s] = ApplyRole(g[s \ {i + 1}], entries[i + 1], replace)
        BY <3>1
      <4> HIDE DEF h
      <4> QED
        BY <3>1, <4>2, <4>4, <4>5 DEF FoldStep
    <3>2. CASE i + 1 \notin s
      <4>1. s \in SUBSET (1..i)
        BY <3>2
      <4>2. h[s] = g[s]
        BY <3>2
      <4>3. g[s] = FoldStep(k, entries, replace, g, s)
        BY <2>2, <4>1
      <4>4. CASE s = {}
        BY <4>2, <4>3, <4>4 DEF FoldStep
      <4>5. CASE s # {}
        <5>1. s \ {Max(s)} \in SUBSET (1..(i + 1)) /\ i + 1 \notin s \ {Max(s)}
          BY <3>2
        <5>2. h[s \ {Max(s)}] = g[s \ {Max(s)}]
          BY <5>1
        <5> HIDE DEF h
        <5> QED
          BY <4>2, <4>3, <5>2 DEF FoldStep
      <4> QED
        BY <4>4, <4>5
    <3> QED
      BY <3>1, <3>2
  <2>4. h = [s \in SUBSET (1..(i + 1)) |-> h[s]]
    OBVIOUS
  <2> HIDE DEF h
  <2>5. h = [s \in SUBSET (1..(i + 1)) |-> FoldStep(k, entries, replace, h, s)]
    BY <2>3, <2>4
  <2>6. IsFold(k, entries, replace, i + 1, h)
    BY <2>5 DEF IsFold
  <2> QED
    BY <2>6
<1> HIDE DEF S
<1>3. 0..n \subseteq S
  BY <1>1, <1>2, InductionUpTo
<1> QED
  BY <1>3 DEF S

(* Applying the entries of a message one after the other: what holds of    *)
(* the kit before the first one, and is carried on by each entry, holds    *)
(* after the last one.  Inv is a sequence of sets of kits.                 *)
LEMMA FoldInvariant ==
  ASSUME NEW k, NEW E, NEW entries \in Seq(E), NEW replace, NEW Inv,
         k \in Inv[0],
         \A i \in 1..Len(entries) : \A c \in Inv[i - 1] :
           ApplyRole(c, entries[i], replace) \in Inv[i]
  PROVE  ApplyDrumKitMappings(k, entries, replace) \in Inv[Len(entries)]
<1> DEFINE n == Len(entries)
           iter == CHOOSE f : IsFold(k, entries, replace, n, f)
<1>1. n \in Nat /\ DOMAIN entries = 1..n
  BY LenProperties
<1>2. ApplyDrumKitMappings(k, entries, replace) = iter[1..n]
  BY <1>1 DEF ApplyDrumKitMappings, FoldLeft, MapThenFoldSet, IsFold, FoldStep
<1>3. IsFold(k, entries, replace, n, iter)
  BY <1>1, FoldExists
<1> HIDE DEF iter, n
<1>4. \A s \in SUBSET (1..n) : iter[s] = FoldStep(k, entries, replace, iter, s)
  BY <1>3, Zenon DEF IsFold
<1> DEFINE S == {i \in 0..n : iter[1..i] \in Inv[i]}
<1>5. 0 \in S
  <2>1. 1..0 = {} /\ {} \in SUBSET (1..n) /\ 0 \in 0..n
    BY <1>1
  <2>2. iter[{}] = k
    BY <1>4, <2>1 DEF FoldStep
  <2> QED
    BY <2>1, <2>2
<1>6. ASSUME NEW i \in 0..(n - 1), i \in S
      PROVE  i + 1 \in S
  <2>1. i + 1 \in 1..n /\ 1..(i + 1) \in SUBSET (1..n) /\ i + 1 \in 1..(i + 1)
    BY <1>1
  <2>2. Max(1..(i + 1)) = i + 1
    <3>1. 1..(i + 1) # {}
      BY <2>1
    <3>2. Max(1..(i + 1)) \in 1..(i + 1) /\ i + 1 <= Max(1..(i + 1))
      BY <1>1, <2>1, <3>1, MaxLemma
    <3>3. i \in Nat /\ Max(1..(i + 1)) \in Int /\ Max(1..(i + 1)) <= i + 1
      BY <1>1, <3>2
    <3> QED
      BY <3>2, <3>3
  <2>3. (1..(i + 1)) \ {i + 1} = 1..i
    OBVIOUS
  <2>4. iter[1..(i + 1)] = ApplyRole(iter[1..i], entries[i + 1], replace)
    BY <1>4, <2>1, <2>2, <2>3 DEF FoldStep
  <2>5. iter[1..i] \in Inv[(i + 1) - 1]
    BY <1>6
  <2>6. ApplyRole(iter[1..i], entries[i + 1], replace) \in Inv[i + 1]
    BY <2>1, <2>5 DEF n
  <2> QED
    BY <2>1, <2>4, <2>6
<1>7. 0..n \subseteq S
  <2> HIDE DEF S
  <2> QED
    BY <1>1, <1>5, <1>6, InductionUpTo
<1> QED
  BY <1>1, <1>2, <1>7 DEF n
-----------------------------------------------------------------------------
(* The index of a role is that of the first element with this role. *)
LEMMA IndexLemma ==
  ASSUME NEW X, NEW seq \in Seq(X), NEW role
  PROVE  /\ IndexOfRole(seq, role) \in 0..Len(seq)
         /\ IndexOfRole(seq, role) # 0 => seq[IndexOfRole(seq, role)].role = role
         /\ IndexOfRole(seq, role) = 0 => \A j \in 1..Len(seq) : seq[j].role # role
<1> DEFINE I == {i \in 1..Len(seq) : seq[i].role = role}
<1>1. IndexOfRole(seq, role) = IF I # {} THEN Min(I) ELSE 0
  BY DEF IndexOfRole, SelectInSeq
<1>2. Len(seq) \in Nat
  BY LenProperties
<1>3. CASE I = {}
  BY <1>1, <1>2, <1>3
<1>4. CASE I # {}
  <2>1. I \subseteq Nat
    OBVIOUS
  <2>2. \E x \in I : \A y \in I : x <= y
    BY <1>4, <2>1, LeastElement
  <2> HIDE DEF I
  <2>3. Min(I) \in I
    BY <2>2 DEF Min
  <2> QED
    BY <1>1, <1>2, <1>4, <2>3 DEF I
<1> QED
  BY <1>3, <1>4

(* No two mappings have the same role. *)
RolesAreUnique(m) == \A i, j \in 1..Len(m) : m[i].role = m[j].role => i = j

(* So the index of a role is the only one. *)
LEMMA IndexUnique ==
  ASSUME NEW X, NEW seq \in Seq(X), RolesAreUnique(seq), NEW i \in 1..Len(seq)
  PROVE  IndexOfRole(seq, seq[i].role) = i
<1> DEFINE x == IndexOfRole(seq, seq[i].role)
<1>1. /\ x \in 0..Len(seq)
      /\ x # 0 => seq[x].role = seq[i].role
      /\ x = 0 => \A j \in 1..Len(seq) : seq[j].role # seq[i].role
  BY IndexLemma
<1> HIDE DEF x
<1>2. x # 0 /\ x \in 1..Len(seq)
  BY <1>1
<1>3. x = i
  BY <1>1, <1>2 DEF RolesAreUnique
<1> QED
  BY <1>3 DEF x

(* Two sequences with the same roles, possibly with one more at the end,   *)
(* have the same index for the roles of the first one.                     *)
LEMMA IndexOfExtended ==
  ASSUME NEW X, NEW Y, NEW s \in Seq(X), NEW t \in Seq(Y),
         RolesAreUnique(t), Len(s) <= Len(t),
         \A i \in 1..Len(s) : t[i].role = s[i].role,
         NEW role, \A i \in 1..Len(t) : i > Len(s) => t[i].role # role
  PROVE  IndexOfRole(t, role) = IndexOfRole(s, role)
<1> DEFINE x == IndexOfRole(s, role)
           y == IndexOfRole(t, role)
<1>0. Len(s) \in Nat /\ Len(t) \in Nat
  BY LenProperties
<1>1. /\ x \in 0..Len(s)
      /\ x # 0 => s[x].role = role
      /\ x = 0 => \A j \in 1..Len(s) : s[j].role # role
  BY IndexLemma
<1>2. /\ y \in 0..Len(t)
      /\ y # 0 => t[y].role = role
      /\ y = 0 => \A j \in 1..Len(t) : t[j].role # role
  BY IndexLemma
<1> HIDE DEF x, y
<1>3. CASE x = 0
  <2>1. \A j \in 1..Len(t) : t[j].role # role
    BY <1>0, <1>1, <1>3
  <2> QED
    BY <1>0, <1>2, <1>3, <2>1 DEF x, y
<1>4. CASE x # 0
  <2>1. x \in 1..Len(t) /\ t[x].role = role
    BY <1>0, <1>1, <1>4
  <2>2. y \in 1..Len(t) /\ t[y].role = role
    BY <1>0, <1>2, <2>1
  <2>3. x = y
    BY <2>1, <2>2 DEF RolesAreUnique
  <2> QED
    BY <2>3 DEF x, y
<1> QED
  BY <1>3, <1>4

-----------------------------------------------------------------------------
(* A pad points at nothing or at the mapping of its role. *)
PadsPoint(k) ==
  \A i \in DOMAIN k.pads :
    k.pads[i].mappings # None =>
      /\ k.pads[i].mappings <= Len(k.mappings)
      /\ k.mappings[k.pads[i].mappings].role = k.pads[i].role

(* Every pad points at the mapping of its role if there is one. *)
PadsFind(k) ==
  \A i \in DOMAIN k.pads : k.pads[i].mappings = GetMappings(k.mappings, k.pads[i].role)

KitRecords == [pads : Seq(Pad), mappings : Seq(Mapping)]

(* The kits that a sequence of commands can make. *)
Kits == {k \in KitRecords : /\ Len(k.mappings) <= MaxMappings
                            /\ RolesAreUnique(k.mappings)
                            /\ PadsPoint(k)}
SharedKits == {k \in Kits : AreRolesShared(k.pads)}
UnsharedKits == {k \in Kits : ~AreRolesShared(k.pads) /\ PadsFind(k)}

(* The array holds a role after getOrCreateMappings(), or there is no room *)
(* for it; nothing else changes.                                           *)
LEMMA GetOrCreateLemma ==
  ASSUME NEW m \in Seq(Mapping), Len(m) <= MaxMappings, RolesAreUnique(m),
         NEW role \in Roles
  PROVE  LET n == GetOrCreateMappings(m, role)
             slot == GetMappings(n, role)
         IN  /\ n \in Seq(Mapping)
             /\ Len(n) <= MaxMappings
             /\ Len(n) \in {Len(m), Len(m) + 1}
             /\ RolesAreUnique(n)
             /\ \A i \in 1..Len(m) : n[i] = m[i]
             /\ Len(n) = Len(m) + 1 => n[Len(n)] = [role |-> role, note |-> "unassigned"]
             /\ slot = None => n = m
             /\ slot # None => slot \in 1..Len(n) /\ n[slot].role = role
<1> DEFINE n == GetOrCreateMappings(m, role)
           slot == GetMappings(n, role)
           x == [role |-> role, note |-> "unassigned"]
<1>0. Len(m) \in Nat /\ MaxMappings \in Nat
  BY LenProperties, DrumKitConfigAssumption
<1>1. CASE GetMappings(m, role) # None \/ Len(m) >= MaxMappings
  <2>1. n = m
    BY <1>1 DEF GetOrCreateMappings
  <2>2. slot \in 0..Len(n) /\ (slot # 0 => n[slot].role = role)
    BY <2>1, IndexLemma DEF GetMappings
  <2> HIDE DEF slot, n
  <2>3. slot # None => slot \in 1..Len(n) /\ n[slot].role = role
    BY <2>2 DEF None
  <2>4. /\ n \in Seq(Mapping) /\ Len(n) <= MaxMappings /\ Len(n) \in {Len(m), Len(m) + 1}
        /\ RolesAreUnique(n) /\ \A i \in 1..Len(m) : n[i] = m[i]
        /\ Len(n) # Len(m) + 1
    BY <1>0, <2>1
  <2> QED
    BY <2>1, <2>3, <2>4 DEF slot, n
<1>2. CASE ~(GetMappings(m, role) # None \/ Len(m) >= MaxMappings)
  <2>1. n = Append(m, x)
    BY <1>2 DEF GetOrCreateMappings
  <2>2. x \in Mapping
    BY DEF Mapping
  <2>3. \A j \in 1..Len(m) : m[j].role # role
    BY <1>2, IndexLemma DEF GetMappings, None
  <2> HIDE DEF n
  <2>4. /\ n \in Seq(Mapping) /\ Len(n) = Len(m) + 1 /\ n[Len(m) + 1] = x
        /\ \A i \in 1..Len(m) : n[i] = m[i]
    BY <1>0, <2>1, <2>2
  <2>5. \A i \in 1..Len(n) : i \in 1..Len(m) \/ i = Len(m) + 1
    BY <1>0, <2>4
  <2>6. RolesAreUnique(n)
    BY <2>3, <2>4, <2>5 DEF RolesAreUnique
  <2>7. Len(m) + 1 \in 1..Len(n) /\ n[Len(m) + 1].role = role
    BY <1>0, <2>4
  <2>8. slot = Len(m) + 1
    BY <2>4, <2>6, <2>7, IndexUnique DEF GetMappings
  <2>9. Len(n) <= MaxMappings
    BY <1>0, <1>2, <2>4
  <2> HIDE DEF slot
  <2>10. slot # None
    BY <1>0, <2>8 DEF None
  <2> QED
    BY <2>4, <2>6, <2>7, <2>8, <2>9, <2>10 DEF n, slot
<1> QED
  BY <1>1, <1>2
(* An entry leaves the roles of the pads, and of the mappings except for a *)
(* new one at the end; the first pad of the role points at its mapping.    *)
LEMMA ApplyRoleLemma ==
  ASSUME NEW k \in Kits, NEW entry \in MappingConfig, NEW replace \in BOOLEAN
  PROVE  LET r == ApplyRole(k, entry, replace)
             n == GetOrCreateMappings(k.mappings, entry.role)
             slot == GetMappings(n, entry.role)
             pad == GetPadByRole(k.pads, entry.role)
         IN  \/ r = k /\ slot = None
             \/ /\ slot \in 1..Len(n)
                /\ r \in KitRecords
                /\ Len(r.mappings) = Len(n)
                /\ \A i \in 1..Len(n) : r.mappings[i].role = n[i].role
                /\ DOMAIN r.pads = DOMAIN k.pads
                /\ \A i \in DOMAIN k.pads :
                     /\ r.pads[i].role = k.pads[i].role
                     /\ r.pads[i].mappings = IF i = pad THEN slot ELSE k.pads[i].mappings
<1> DEFINE n == GetOrCreateMappings(k.mappings, entry.role)
           slot == GetMappings(n, entry.role)
           pad == GetPadByRole(k.pads, entry.role)
           old == IF replace THEN "unassigned" ELSE n[slot].note
           note == ApplyMappings(old, entry.note)
           r == ApplyRole(k, entry, replace)
<1>1. /\ k.pads \in Seq(Pad) /\ k.mappings \in Seq(Mapping)
      /\ entry.role \in Roles /\ entry.note \in Notes \cup {"unassigned", "absent"}
  BY DEF Kits, KitRecords, MappingConfig
<1>2. /\ n \in Seq(Mapping) /\ Len(n) <= MaxMappings
      /\ slot # None => slot \in 1..Len(n)
  BY <1>1, GetOrCreateLemma DEF Kits
<1>3. pad \in 0..Len(k.pads) /\ MaxMappings \in Nat
  BY <1>1, IndexLemma, DrumKitConfigAssumption DEF GetPadByRole
<1>4. CASE slot = None
  BY <1>4 DEF ApplyRole
<1>5. CASE slot # None
  <2>1. r = [pads |-> IF pad = None THEN k.pads ELSE [k.pads EXCEPT ![pad].mappings = slot],
             mappings |-> [n EXCEPT ![slot].note = note]]
    BY <1>5 DEF ApplyRole
  <2> HIDE DEF r
  <2>2. slot \in 1..Len(n)
    BY <1>2, <1>5
  <2> HIDE DEF n, slot, pad
  <2>3. n[slot] \in Mapping
    BY <1>2, <2>2, ElementOfSeq
  <2>4. note \in Notes \cup {"unassigned"}
    BY <1>1, <2>3 DEF ApplyMappings, Mapping
  <2> HIDE DEF note
  <2> DEFINE t == [n EXCEPT ![slot].note = note]
             p == [k.pads EXCEPT ![pad].mappings = slot]
  <2>5. Len(n) \in Nat /\ DOMAIN n = 1..Len(n) /\ Len(k.pads) \in Nat
        /\ DOMAIN k.pads = 1..Len(k.pads)
    BY <1>1, <1>2, LenProperties
  <2>6. t \in Seq(Mapping) /\ Len(t) = Len(n) /\ \A i \in 1..Len(n) : t[i].role = n[i].role
    <3>1. [n[slot] EXCEPT !.note = note] \in Mapping
      BY <2>3, <2>4 DEF Mapping
    <3>2. t = [n EXCEPT ![slot] = [n[slot] EXCEPT !.note = note]]
      OBVIOUS
    <3> DEFINE x == [n[slot] EXCEPT !.note = note]
    <3>3. x.role = n[slot].role
      BY <2>3 DEF Mapping
    <3> HIDE DEF x, t
    <3>4. t = [n EXCEPT ![slot] = x] /\ x \in Mapping
      BY <3>1, <3>2 DEF x
    <3> QED
      BY <1>2, <2>2, <2>5, <3>3, <3>4, ExceptSeq
  <2>7. CASE pad = None
    <3>1. r = [pads |-> k.pads, mappings |-> t]
      BY <2>1, <2>7
    <3>2. \A i \in DOMAIN k.pads : i # pad
      BY <2>5, <2>7 DEF None
    <3> HIDE DEF t
    <3>3. r \in KitRecords /\ r.pads = k.pads /\ r.mappings = t
      BY <1>1, <2>6, <3>1 DEF KitRecords
    <3> QED
      BY <2>2, <2>6, <3>2, <3>3 DEF n, slot, pad, r
  <2>8. CASE pad # None
    <3>1. r = [pads |-> p, mappings |-> t]
      BY <2>1, <2>8
    <3>2. pad \in 1..Len(k.pads) /\ k.pads[pad] \in Pad
      BY <1>1, <1>3, <2>5, <2>8, ElementOfSeq DEF None
    <3>3. slot \in 0..MaxMappings
      BY <1>2, <1>3, <2>2, <2>5
    <3> DEFINE x == [k.pads[pad] EXCEPT !.mappings = slot]
    <3>4. x \in Pad /\ x.role = k.pads[pad].role /\ x.mappings = slot
      BY <3>2, <3>3 DEF Pad
    <3>5. p = [k.pads EXCEPT ![pad] = x]
      OBVIOUS
    <3> HIDE DEF x, p, t
    <3>6. p \in Seq(Pad) /\ DOMAIN p = DOMAIN k.pads
          /\ \A i \in DOMAIN k.pads : p[i] = IF i = pad THEN x ELSE k.pads[i]
      BY <1>1, <2>5, <3>2, <3>4, <3>5, ExceptSeq
    <3>7. r \in KitRecords /\ r.pads = p /\ r.mappings = t
      BY <2>6, <3>1, <3>6 DEF KitRecords
    <3>8. \A i \in DOMAIN k.pads : /\ p[i].role = k.pads[i].role
                                   /\ p[i].mappings = IF i = pad THEN slot ELSE k.pads[i].mappings
      BY <3>4, <3>6
    <3> QED
      BY <2>2, <2>6, <3>6, <3>7, <3>8 DEF n, slot, pad, r
  <2> QED
    BY <2>7, <2>8
<1> QED
  BY <1>4, <1>5
(* An entry makes a kit of a kit; whether the pads share roles stays as it *)
(* was, and unless they do, every pad still finds the mapping of its role. *)
LEMMA ApplyRoleKeepsKits ==
  ASSUME NEW k \in Kits, NEW entry \in MappingConfig, NEW replace \in BOOLEAN
  PROVE  /\ ApplyRole(k, entry, replace) \in Kits
         /\ AreRolesShared(ApplyRole(k, entry, replace).pads) <=> AreRolesShared(k.pads)
         /\ k \in UnsharedKits => ApplyRole(k, entry, replace) \in UnsharedKits
<1> DEFINE n == GetOrCreateMappings(k.mappings, entry.role)
           slot == GetMappings(n, entry.role)
           pad == GetPadByRole(k.pads, entry.role)
           r == ApplyRole(k, entry, replace)
<1>1. /\ k \in KitRecords /\ k.pads \in Seq(Pad) /\ k.mappings \in Seq(Mapping)
      /\ entry.role \in Roles /\ PadsPoint(k)
      /\ Len(k.mappings) <= MaxMappings /\ RolesAreUnique(k.mappings)
  BY DEF Kits, KitRecords, MappingConfig
<1>2. CASE r = k
  BY <1>2
<1>3. CASE /\ slot \in 1..Len(n)
           /\ r \in KitRecords
           /\ Len(r.mappings) = Len(n)
           /\ \A i \in 1..Len(n) : r.mappings[i].role = n[i].role
           /\ DOMAIN r.pads = DOMAIN k.pads
           /\ \A i \in DOMAIN k.pads :
                /\ r.pads[i].role = k.pads[i].role
                /\ r.pads[i].mappings = IF i = pad THEN slot ELSE k.pads[i].mappings
  <2>1. /\ n \in Seq(Mapping) /\ Len(n) <= MaxMappings /\ RolesAreUnique(n)
        /\ Len(n) \in {Len(k.mappings), Len(k.mappings) + 1}
        /\ \A i \in 1..Len(k.mappings) : n[i] = k.mappings[i]
        /\ Len(n) = Len(k.mappings) + 1 =>
             n[Len(n)] = [role |-> entry.role, note |-> "unassigned"]
        /\ slot # None => n[slot].role = entry.role
    BY <1>1, GetOrCreateLemma
  <2>2. /\ pad \in 0..Len(k.pads)
        /\ pad # 0 => k.pads[pad].role = entry.role
        /\ pad = 0 => \A j \in 1..Len(k.pads) : k.pads[j].role # entry.role
    BY <1>1, IndexLemma DEF GetPadByRole
  <2> HIDE DEF r, pad, slot, n
  <2>3. /\ Len(k.mappings) \in Nat /\ Len(n) \in Nat /\ Len(k.pads) \in Nat
        /\ DOMAIN k.pads = 1..Len(k.pads)
    BY <1>1, <2>1, LenProperties
  <2>4. n[slot].role = entry.role /\ slot # None
    BY <1>3, <2>1, <2>3 DEF None
  <2>5. RolesAreUnique(r.mappings)
    BY <1>3, <2>1 DEF RolesAreUnique
  <2>6. PadsPoint(r)
    <3> SUFFICES ASSUME NEW i \in DOMAIN k.pads, r.pads[i].mappings # None
                 PROVE  /\ r.pads[i].mappings <= Len(n)
                        /\ r.mappings[r.pads[i].mappings].role = k.pads[i].role
      BY <1>3 DEF PadsPoint
    <3>1. CASE i = pad
      BY <1>3, <2>2, <2>3, <2>4, <3>1
    <3>2. CASE i # pad
      <4> DEFINE x == k.pads[i].mappings
      <4>1. r.pads[i].mappings = x /\ x # None
        BY <1>3, <3>2
      <4>2. k.pads[i] \in Pad
        BY <1>1, <2>3, ElementOfSeq
      <4>3. x \in Nat /\ x <= Len(k.mappings) /\ k.mappings[x].role = k.pads[i].role
        BY <1>1, <4>1, <4>2, DrumKitConfigAssumption DEF PadsPoint, Pad
      <4> HIDE DEF x
      <4>4. x \in 1..Len(k.mappings) /\ x \in 1..Len(n)
        BY <2>1, <2>3, <4>1, <4>3 DEF None
      <4> QED
        BY <1>3, <2>1, <2>3, <4>1, <4>3, <4>4
    <3> QED
      BY <3>1, <3>2
  <2>7. r \in Kits
    BY <1>3, <2>1, <2>5, <2>6 DEF Kits
  <2>8. AreRolesShared(r.pads) <=> AreRolesShared(k.pads)
    BY <1>3 DEF AreRolesShared
  <2>9. ASSUME k \in UnsharedKits
        PROVE  r \in UnsharedKits
    <3>1. ~AreRolesShared(k.pads) /\ PadsFind(k)
      BY <2>9 DEF UnsharedKits
    <3>2. r.mappings \in Seq(Mapping)
      BY <1>3 DEF KitRecords
    <3> SUFFICES ASSUME NEW i \in DOMAIN k.pads
                 PROVE  r.pads[i].mappings = IndexOfRole(r.mappings, k.pads[i].role)
      BY <1>3, <2>7, <2>8, <3>1 DEF UnsharedKits, PadsFind, GetMappings
    <3>3. CASE i = pad
      <4>1. k.pads[i].role = entry.role /\ r.pads[i].mappings = slot
        BY <1>3, <2>2, <2>3, <3>3
      <4>2. r.mappings[slot].role = entry.role /\ slot \in 1..Len(r.mappings)
        BY <1>3, <2>4
      <4>3. IndexOfRole(r.mappings, r.mappings[slot].role) = slot
        BY <2>5, <3>2, <4>2, IndexUnique
      <4> QED
        BY <4>1, <4>2, <4>3
    <3>4. CASE i # pad
      <4>1. k.pads[i].role # entry.role
        <5>1. CASE pad = 0
          BY <2>2, <2>3, <5>1
        <5>2. CASE pad # 0
          <6>1. pad \in DOMAIN k.pads /\ k.pads[pad].role = entry.role
            BY <2>2, <2>3, <5>2
          <6> QED
            BY <3>1, <3>4, <6>1 DEF AreRolesShared
        <5> QED
          BY <5>1, <5>2
      <4>2. \A j \in 1..Len(r.mappings) :
              j > Len(k.mappings) => r.mappings[j].role = entry.role
        <5> SUFFICES ASSUME NEW j \in 1..Len(r.mappings), j > Len(k.mappings)
                     PROVE  r.mappings[j].role = entry.role
          OBVIOUS
        <5>1. j = Len(k.mappings) + 1 /\ Len(n) = Len(k.mappings) + 1 /\ j \in 1..Len(n)
          BY <1>3, <2>1, <2>3
        <5>2. n[j].role = entry.role
          BY <2>1, <5>1
        <5> QED
          BY <1>3, <5>1, <5>2
      <4>3. Len(k.mappings) <= Len(r.mappings)
        BY <1>3, <2>1, <2>3
      <4>4. \A j \in 1..Len(k.mappings) : r.mappings[j].role = k.mappings[j].role
        <5>1. \A j \in 1..Len(k.mappings) : j \in 1..Len(n)
          BY <2>1, <2>3
        <5> QED
          BY <1>3, <2>1, <5>1
      <4>5. IndexOfRole(r.mappings, k.pads[i].role) = IndexOfRole(k.mappings, k.pads[i].role)
        <5>1. k.mappings \in Seq(Mapping)
          BY <1>1
        <5>2. \A j \in 1..Len(r.mappings) :
                j > Len(k.mappings) => r.mappings[j].role # k.pads[i].role
          BY <4>1, <4>2
        <5> QED
          BY <2>5, <3>2, <4>3, <4>4, <5>1, <5>2, IndexOfExtended
      <4> QED
        BY <1>3, <3>1, <3>4, <4>5 DEF PadsFind, GetMappings
    <3> QED
      BY <3>3, <3>4
  <2> QED
    BY <2>7, <2>8, <2>9 DEF r
<1> QED
  BY <1>2, <1>3, ApplyRoleLemma

(* So does a message of several entries. *)
LEMMA ApplyMappingsKeepsKits ==
  ASSUME NEW k \in Kits, NEW entries \in Seq(MappingConfig), NEW replace \in BOOLEAN
  PROVE  LET r == ApplyDrumKitMappings(k, entries, replace)
         IN  /\ r \in Kits
             /\ k \in SharedKits => r \in SharedKits
             /\ k \in UnsharedKits => r \in UnsharedKits
<1> DEFINE r == ApplyDrumKitMappings(k, entries, replace)
           Stays(S) == [i \in Nat |-> S]
<1>1. Len(entries) \in Nat /\ \A i \in 1..Len(entries) : entries[i] \in MappingConfig
  BY ElementOfSeq, LenProperties
<1>2. ASSUME NEW S, S \in {Kits, SharedKits, UnsharedKits}, k \in S
      PROVE  r \in S
  <2>1. \A c \in S, e \in MappingConfig : ApplyRole(c, e, replace) \in S
    BY <1>2, ApplyRoleKeepsKits DEF SharedKits, UnsharedKits
  <2> DEFINE Inv == Stays(S)
  <2>2. \A i \in Nat : Inv[i] = S
    OBVIOUS
  <2>3. k \in Inv[0]
    BY <1>2, <2>2
  <2>4. \A i \in 1..Len(entries) : \A c \in Inv[i - 1] :
          ApplyRole(c, entries[i], replace) \in Inv[i]
    <3>1. \A i \in 1..Len(entries) : i \in Nat /\ i - 1 \in Nat
      BY <1>1
    <3> HIDE DEF Inv
    <3> QED
      BY <1>1, <2>1, <2>2, <3>1
  <2> HIDE DEF Inv
  <2>5. ApplyDrumKitMappings(k, entries, replace) \in Inv[Len(entries)]
    BY <2>3, <2>4, FoldInvariant
  <2> QED
    BY <1>1, <2>2, <2>5
<1> HIDE DEF r
<1>3. r \in Kits
  BY <1>2
<1>4. k \in SharedKits => r \in SharedKits
  BY <1>2
<1>5. k \in UnsharedKits => r \in UnsharedKits
  BY <1>2
<1> QED
  BY <1>3, <1>4, <1>5 DEF r
-----------------------------------------------------------------------------
(* The sections of a configuration have their types. *)
LEMMA ConfigSections ==
  ASSUME NEW c \in Configs
  PROVE  /\ "pads" \in DOMAIN c => c.pads \in Seq(PadConfig)
         /\ "mappings" \in DOMAIN c => c.mappings \in Seq(MappingConfig)
<1>1. CASE c = <<>>
  <2>1. DOMAIN c = {}
    BY <1>1, EmptySeq
  <2> QED
    BY <2>1
<1>2. CASE c \in [pads : Seq(PadConfig)]
  BY <1>2
<1>3. CASE c \in [mappings : Seq(MappingConfig)]
  BY <1>3
<1>4. CASE c \in [pads : Seq(PadConfig), mappings : Seq(MappingConfig)]
  BY <1>4
<1> QED
  BY <1>1, <1>2, <1>3, <1>4 DEF Configs

(* The pads that a configuration adds, before its mappings are read. *)
AddedPads(c) ==
  [pads |-> IF "pads" \in DOMAIN c
            THEN [i \in DOMAIN c.pads |-> ApplyPadConfig(c.pads[i])]
            ELSE <<>>,
   mappings |-> <<>>]

(* They are a kit without mappings. *)
LEMMA AddedPadsLemma ==
  ASSUME NEW c \in Configs
  PROVE  /\ AddedPads(c) \in Kits
         /\ \/ AddedPads(c) \in SharedKits
            \/ AddedPads(c) \in UnsharedKits
<1> DEFINE k == AddedPads(c)
<1>1. k.pads \in Seq(Pad) /\ \A i \in DOMAIN k.pads : k.pads[i].mappings = None
  <2>1. CASE "pads" \in DOMAIN c
    <3>1. c.pads \in Seq(PadConfig)
      BY <2>1, ConfigSections
    <3>2. Len(c.pads) \in Nat /\ DOMAIN c.pads = 1..Len(c.pads)
          /\ \A i \in 1..Len(c.pads) : c.pads[i] \in PadConfig
      BY <3>1, ElementOfSeq, LenProperties
    <3>3. \A x \in PadConfig : ApplyPadConfig(x) \in Pad /\ ApplyPadConfig(x).mappings = None
      BY DrumKitConfigAssumption DEF PadConfig, ApplyPadConfig, Pad, None
    <3> DEFINE e(i) == ApplyPadConfig(c.pads[i])
    <3>4. \A i \in 1..Len(c.pads) : e(i) \in Pad /\ e(i).mappings = None
      BY <3>2, <3>3
    <3> HIDE DEF e
    <3>5. [i \in 1..Len(c.pads) |-> e(i)] \in Seq(Pad)
      BY <3>2, <3>4, IsASeq
    <3>6. k.pads = [i \in 1..Len(c.pads) |-> e(i)]
      BY <2>1, <3>2 DEF e, AddedPads
    <3> QED
      BY <3>4, <3>5, <3>6
  <2>2. CASE "pads" \notin DOMAIN c
    <3>1. k.pads = <<>>
      BY <2>2 DEF AddedPads
    <3> QED
      BY <3>1, EmptySeq
  <2> QED
    BY <2>1, <2>2
<1>2. k.mappings = <<>> /\ <<>> \in Seq(Mapping) /\ Len(<<>>) = 0
  BY EmptySeq DEF AddedPads
<1>3. k = [pads |-> k.pads, mappings |-> k.mappings]
  BY DEF AddedPads
<1> HIDE DEF k
<1>4. k \in KitRecords
  BY <1>1, <1>2, <1>3 DEF KitRecords
<1>5. RolesAreUnique(k.mappings) /\ PadsPoint(k) /\ Len(k.mappings) <= MaxMappings
  BY <1>1, <1>2, DrumKitConfigAssumption DEF RolesAreUnique, PadsPoint
<1>6. k \in Kits
  BY <1>4, <1>5 DEF Kits
<1>7. \A role : IndexOfRole(k.mappings, role) = 0
  <2> SUFFICES ASSUME NEW role PROVE IndexOfRole(k.mappings, role) = 0
    OBVIOUS
  <2>1. IndexOfRole(k.mappings, role) \in 0..Len(k.mappings)
    BY <1>2, IndexLemma
  <2> QED
    BY <1>2, <2>1
<1>8. PadsFind(k)
  BY <1>1, <1>7 DEF PadsFind, GetMappings, None
<1> QED
  BY <1>6, <1>8 DEF SharedKits, UnsharedKits, k

(* A configuration makes a kit, in which every pad finds the mapping of    *)
(* its role unless pads share one.                                         *)
LEMMA ApplyConfigLemma ==
  ASSUME NEW c \in Configs
  PROVE  LET k == ApplyDrumKitConfig(c)
         IN  k \in Kits /\ (~AreRolesShared(k.pads) => k \in UnsharedKits)
<1> DEFINE k == ApplyDrumKitConfig(c)
           a == AddedPads(c)
<1>1. a \in Kits /\ (a \in SharedKits \/ a \in UnsharedKits)
  BY AddedPadsLemma
<1>2. CASE "mappings" \in DOMAIN c
  <2>1. k = ApplyDrumKitMappings(a, c.mappings, FALSE)
    BY <1>2 DEF ApplyDrumKitConfig, AddedPads
  <2> HIDE DEF a, k
  <2>2. c.mappings \in Seq(MappingConfig)
    BY <1>2, ConfigSections
  <2>3. /\ k \in Kits
        /\ a \in SharedKits => k \in SharedKits
        /\ a \in UnsharedKits => k \in UnsharedKits
    BY <1>1, <2>1, <2>2, ApplyMappingsKeepsKits
  <2> QED
    BY <1>1, <2>3 DEF SharedKits, k
<1>3. CASE "mappings" \notin DOMAIN c
  <2>1. k = a
    BY <1>3 DEF ApplyDrumKitConfig, AddedPads
  <2> HIDE DEF a, k
  <2> QED
    BY <1>1, <2>1 DEF SharedKits, k
<1> QED
  BY <1>2, <1>3
-----------------------------------------------------------------------------
(* The kit that is read back after the first i of the mappings that were   *)
(* written.                                                                *)
ReadBack(k, i) ==
  [pads |-> [j \in DOMAIN k.pads |->
               [role |-> k.pads[j].role, isConnected |-> k.pads[j].isConnected,
                isEnabled |-> k.pads[j].isEnabled /\ k.pads[j].isConnected,
                mappings |-> IF k.pads[j].mappings <= i THEN k.pads[j].mappings ELSE None]],
   mappings |-> [j \in 1..i |-> k.mappings[j]]]

(* The next mapping is appended, its note is the one that was written, and *)
(* the pad of its role points at it.                                       *)
LEMMA ReadBackStep ==
  ASSUME NEW k \in UnsharedKits, NEW i \in 1..Len(k.mappings)
  PROVE  ApplyRole(ReadBack(k, i - 1), MappingConfigs(k.mappings)[i], FALSE) = ReadBack(k, i)
<1> DEFINE b == ReadBack(k, i - 1)
           entry == MappingConfigs(k.mappings)[i]
           role == k.mappings[i].role
           n == GetOrCreateMappings(b.mappings, role)
           x == [role |-> role, note |-> "unassigned"]
           pad == GetPadByRole(b.pads, role)
           after == [j \in 1..i |-> k.mappings[j]]
<1>1. /\ k.pads \in Seq(Pad) /\ k.mappings \in Seq(Mapping)
      /\ PadsPoint(k) /\ PadsFind(k) /\ ~AreRolesShared(k.pads)
      /\ Len(k.mappings) <= MaxMappings /\ RolesAreUnique(k.mappings)
  BY DEF UnsharedKits, Kits, KitRecords
<1>2. /\ Len(k.mappings) \in Nat /\ DOMAIN k.mappings = 1..Len(k.mappings)
      /\ Len(k.pads) \in Nat /\ DOMAIN k.pads = 1..Len(k.pads)
      /\ MaxMappings \in Nat
  BY <1>1, LenProperties, DrumKitConfigAssumption
<1>3. /\ \A j \in 1..Len(k.mappings) : k.mappings[j] \in Mapping
      /\ \A j \in 1..Len(k.pads) : k.pads[j] \in Pad
  BY <1>1, ElementOfSeq
<1>4. /\ entry.role = role
      /\ entry.note = IF k.mappings[i].note = "unassigned" THEN "absent" ELSE k.mappings[i].note
  BY <1>2 DEF MappingConfigs
<1>5. ApplyMappings("unassigned", entry.note) = k.mappings[i].note
  BY <1>3, <1>4, DrumKitConfigAssumption DEF ApplyMappings, Mapping
<1>6. /\ i - 1 \in Nat /\ i \in Nat /\ i <= Len(k.mappings) /\ i <= MaxMappings
      /\ \A j \in 1..(i - 1) : j \in 1..Len(k.mappings) /\ j # i /\ j \in 1..i
      /\ \A j \in 1..i : j \in 1..Len(k.mappings) /\ (j # i => j \in 1..(i - 1))
  BY <1>1, <1>2
<1>7. /\ b.mappings = [j \in 1..(i - 1) |-> k.mappings[j]]
      /\ b.mappings \in Seq(Mapping) /\ Len(b.mappings) = i - 1
      /\ \A j \in 1..(i - 1) : b.mappings[j] = k.mappings[j]
  <2>1. b.mappings = [j \in 1..(i - 1) |-> k.mappings[j]]
    BY DEF ReadBack
  <2> HIDE DEF b
  <2> DEFINE e(j) == k.mappings[j]
  <2>2. \A j \in 1..(i - 1) : e(j) \in Mapping
    BY <1>3, <1>6
  <2> HIDE DEF e
  <2>3. [j \in 1..(i - 1) |-> e(j)] \in Seq(Mapping)
    BY <1>6, <2>2, IsASeq
  <2>4. b.mappings = [j \in 1..(i - 1) |-> e(j)]
    BY <2>1 DEF e
  <2>5. b.mappings \in Seq(Mapping) /\ DOMAIN b.mappings = 1..(i - 1)
    BY <2>3, <2>4
  <2>6. Len(b.mappings) = i - 1
    BY <1>6, <2>5, LenProperties
  <2> QED
    BY <2>1, <2>5, <2>6
<1>8. /\ b.pads \in Seq(Pad) /\ DOMAIN b.pads = DOMAIN k.pads /\ Len(b.pads) = Len(k.pads)
      /\ \A j \in DOMAIN k.pads : b.pads[j].role = k.pads[j].role
  <2> DEFINE e(j) == [role |-> k.pads[j].role, isConnected |-> k.pads[j].isConnected,
                isEnabled |-> k.pads[j].isEnabled /\ k.pads[j].isConnected,
                mappings |-> IF k.pads[j].mappings <= i - 1 THEN k.pads[j].mappings ELSE None]
  <2>1. b.pads = [j \in DOMAIN k.pads |-> e(j)]
    BY DEF ReadBack
  <2>2. \A j \in 1..Len(k.pads) : e(j) \in Pad /\ e(j).role = k.pads[j].role
    BY <1>2, <1>3 DEF Pad, None
  <2> HIDE DEF e, b
  <2>3. [j \in 1..Len(k.pads) |-> e(j)] \in Seq(Pad)
    BY <1>2, <2>2, IsASeq
  <2>4. b.pads \in Seq(Pad) /\ DOMAIN b.pads = 1..Len(k.pads)
    BY <1>2, <2>1, <2>3
  <2>5. Len(b.pads) = Len(k.pads)
    BY <1>2, <2>4, LenProperties
  <2> QED
    BY <1>2, <2>1, <2>2, <2>4, <2>5
<1>9. n = Append(b.mappings, x)
  <2>1. GetMappings(b.mappings, role) = None
    <3> DEFINE y == IndexOfRole(b.mappings, role)
    <3>1. y \in 0..(i - 1) /\ (y # 0 => b.mappings[y].role = role)
      BY <1>7, IndexLemma
    <3> HIDE DEF y, b
    <3>2. CASE y # 0
      <4>1. y \in 1..(i - 1) /\ k.mappings[y].role = role
        BY <1>6, <1>7, <3>1, <3>2
      <4>2. y \in 1..Len(k.mappings) /\ y # i
        BY <1>6, <4>1
      <4> QED
        BY <1>1, <4>1, <4>2 DEF RolesAreUnique
    <3> QED
      BY <3>2 DEF GetMappings, None, y
  <2>2. ~(Len(b.mappings) >= MaxMappings)
    BY <1>2, <1>6, <1>7
  <2> QED
    BY <2>1, <2>2 DEF GetOrCreateMappings
<1>10. /\ n \in Seq(Mapping) /\ Len(n) = i /\ DOMAIN n = 1..i
       /\ \A j \in 1..(i - 1) : n[j] = k.mappings[j]
       /\ n[i] = x
  <2>1. x \in Mapping
    BY <1>3 DEF Mapping
  <2> HIDE DEF n, b, x
  <2>2. n \in Seq(Mapping) /\ Len(n) = Len(b.mappings) + 1 /\ n[Len(b.mappings) + 1] = x
        /\ \A j \in 1..Len(b.mappings) : n[j] = b.mappings[j]
    BY <1>6, <1>7, <1>9, <2>1
  <2>3. (i - 1) + 1 = i
    BY <1>6
  <2>4. Len(n) = i /\ n[i] = x
    BY <1>7, <2>2, <2>3
  <2>5. DOMAIN n = 1..i
    BY <2>2, <2>4, LenProperties
  <2> QED
    BY <1>7, <2>2, <2>4, <2>5
<1>11. GetMappings(n, role) = i
  <2> HIDE DEF n
  <2>1. \A j \in 1..i : n[j].role = k.mappings[j].role
    BY <1>6, <1>10
  <2>2. RolesAreUnique(n)
    BY <1>1, <1>6, <1>10, <2>1 DEF RolesAreUnique
  <2>3. i \in 1..Len(n) /\ n[i].role = role
    BY <1>6, <1>10
  <2> QED
    BY <1>10, <2>2, <2>3, IndexUnique DEF GetMappings
<1> HIDE DEF n
<1>12. [n EXCEPT ![i].note = k.mappings[i].note] = after
  <2>1. x.role = role /\ [x EXCEPT !.note = k.mappings[i].note] = k.mappings[i]
    BY <1>3 DEF Mapping
  <2> HIDE DEF x
  <2>2. [n EXCEPT ![i].note = k.mappings[i].note]
          = [j \in 1..i |-> IF j = i THEN [x EXCEPT !.note = k.mappings[i].note] ELSE n[j]]
    BY <1>6, <1>10
  <2>3. \A j \in 1..i : j # i => n[j] = k.mappings[j]
    BY <1>6, <1>10
  <2> QED
    BY <2>1, <2>2, <2>3
<1>13. /\ pad \in 0..Len(k.pads)
       /\ pad # 0 => k.pads[pad].role = role
       /\ pad = 0 => \A j \in 1..Len(k.pads) : k.pads[j].role # role
  <2>1. /\ pad \in 0..Len(b.pads)
        /\ pad # 0 => b.pads[pad].role = role
        /\ pad = 0 => \A j \in 1..Len(b.pads) : b.pads[j].role # role
    BY <1>8, IndexLemma DEF GetPadByRole
  <2> HIDE DEF pad, b
  <2> QED
    BY <1>2, <1>8, <2>1
<1>14. \A j \in 1..Len(k.pads) : /\ k.pads[j].role = role => k.pads[j].mappings = i
                                 /\ k.pads[j].role # role => k.pads[j].mappings # i
  <2> SUFFICES ASSUME NEW j \in 1..Len(k.pads)
               PROVE  /\ k.pads[j].role = role => k.pads[j].mappings = i
                      /\ k.pads[j].role # role => k.pads[j].mappings # i
    OBVIOUS
  <2>1. ASSUME k.pads[j].role = role PROVE k.pads[j].mappings = i
    <3>1. IndexOfRole(k.mappings, role) = i
      BY <1>1, IndexUnique
    <3> QED
      BY <1>1, <1>2, <2>1, <3>1 DEF PadsFind, GetMappings
  <2>2. ASSUME k.pads[j].mappings = i PROVE k.pads[j].role = role
    BY <1>1, <1>2, <1>6, <2>2 DEF PadsPoint, None
  <2> QED
    BY <2>1, <2>2
<1>15. \A j \in 1..Len(k.pads) : j # pad <=> k.pads[j].role # role
  <2> HIDE DEF pad, role
  <2> SUFFICES ASSUME NEW j \in 1..Len(k.pads) PROVE j # pad <=> k.pads[j].role # role
    OBVIOUS
  <2>1. j = pad => k.pads[j].role = role
    BY <1>2, <1>13
  <2>2. ASSUME k.pads[j].role = role, j # pad PROVE FALSE
    <3>1. pad # 0 /\ pad \in 1..Len(k.pads) /\ k.pads[pad].role = role
      BY <1>2, <1>13, <2>2
    <3> QED
      BY <1>1, <1>2, <2>2, <3>1 DEF AreRolesShared
  <2> QED
    BY <2>1, <2>2
<1> DEFINE q == IF pad = None THEN b.pads ELSE [b.pads EXCEPT ![pad].mappings = i]
<1>16. q = ReadBack(k, i).pads
  <2> DEFINE e(j, l) ==
               [role |-> k.pads[j].role, isConnected |-> k.pads[j].isConnected,
                isEnabled |-> k.pads[j].isEnabled /\ k.pads[j].isConnected,
                mappings |-> IF k.pads[j].mappings <= l THEN k.pads[j].mappings ELSE None]
  <2>1. /\ b.pads = [j \in 1..Len(k.pads) |-> e(j, i - 1)]
        /\ ReadBack(k, i).pads = [j \in 1..Len(k.pads) |-> e(j, i)]
    BY <1>2 DEF ReadBack
  <2>2. ASSUME NEW j \in 1..Len(k.pads), j # pad PROVE e(j, i - 1) = e(j, i)
    <3>1. k.pads[j].mappings \in Nat /\ k.pads[j].mappings # i
      BY <1>2, <1>3, <1>14, <1>15, <2>2 DEF Pad
    <3>2. k.pads[j].mappings <= i <=> k.pads[j].mappings <= i - 1
      BY <1>6, <3>1
    <3> QED
      BY <3>2
  <2>3. ASSUME pad \in 1..Len(k.pads) PROVE [e(pad, i - 1) EXCEPT !.mappings = i] = e(pad, i)
    <3>1. k.pads[pad].mappings = i
      BY <1>14, <1>15, <2>3
    <3> HIDE DEF pad
    <3>2. i <= i
      BY <1>6
    <3> QED
      BY <3>1, <3>2
  <2> HIDE DEF e, pad, b
  <2>4. CASE pad = None
    <3>1. \A j \in 1..Len(k.pads) : e(j, i - 1) = e(j, i)
      BY <1>2, <2>2, <2>4 DEF None
    <3>2. q = b.pads
      BY <2>4
    <3> QED
      BY <2>1, <3>1, <3>2
  <2>5. CASE pad # None
    <3>1. pad \in 1..Len(k.pads)
      BY <1>2, <1>13, <2>5 DEF None
    <3>2. q = [b.pads EXCEPT ![pad] = [b.pads[pad] EXCEPT !.mappings = i]]
      BY <2>5
    <3> DEFINE z == [b.pads[pad] EXCEPT !.mappings = i]
    <3>3. z = e(pad, i)
      BY <2>1, <2>3, <3>1
    <3> HIDE DEF z, q
    <3>4. q = [b.pads EXCEPT ![pad] = z]
      BY <3>2 DEF z
    <3>5. q = [j \in 1..Len(k.pads) |-> IF j = pad THEN z ELSE e(j, i - 1)]
      BY <2>1, <3>1, <3>4
    <3>6. \A j \in 1..Len(k.pads) : (IF j = pad THEN z ELSE e(j, i - 1)) = e(j, i)
      BY <2>2, <3>3
    <3> QED
      BY <2>1, <3>5, <3>6, Zenon
  <2> QED
    BY <2>4, <2>5
<1>17. ApplyRole(b, entry, FALSE)
         = [pads |-> q, mappings |-> [n EXCEPT ![i].note = k.mappings[i].note]]
  <2>1. GetOrCreateMappings(b.mappings, entry.role) = n /\ GetPadByRole(b.pads, entry.role) = pad
    BY <1>4 DEF n
  <2>2. i # None /\ n[i].note = "unassigned"
    BY <1>6, <1>10 DEF None
  <2> HIDE DEF b, entry, pad, role, q, x
  <2> QED
    BY <1>4, <1>5, <1>11, <2>1, <2>2 DEF ApplyRole, q
<1>18. ReadBack(k, i) = [pads |-> ReadBack(k, i).pads, mappings |-> after]
  BY DEF ReadBack
<1> HIDE DEF b, entry, q, after
<1> QED
  BY <1>12, <1>16, <1>17, <1>18 DEF b, entry
(* A kit without shared roles comes back as it was written, except that    *)
(* pads without a connector are disabled.                                  *)
LEMMA RoundTrip ==
  ASSUME NEW k \in UnsharedKits
  PROVE  Audible(ApplyDrumKitConfig(GetDrumKitConfigAsJson(k))) = Audible(k)
<1> DEFINE n == Len(k.mappings)
           entries == MappingConfigs(k.mappings)
           c == GetDrumKitConfigAsJson(k)
           a == AddedPads(c)
           r == ReadBack(k, n)
<1>1. /\ k \in KitRecords /\ k.pads \in Seq(Pad) /\ k.mappings \in Seq(Mapping)
      /\ PadsPoint(k)
  BY DEF UnsharedKits, Kits, KitRecords
<1>2. /\ n \in Nat /\ DOMAIN k.mappings = 1..n
      /\ Len(k.pads) \in Nat /\ DOMAIN k.pads = 1..Len(k.pads)
  BY <1>1, LenProperties
<1>3. \A j \in 1..Len(k.pads) :
        /\ k.pads[j] \in Pad
        /\ k.pads[j].mappings \in Nat
        /\ k.pads[j].mappings <= n
        /\ k.pads[j].mappings <= 0 => k.pads[j].mappings = None
  <2> SUFFICES ASSUME NEW j \in 1..Len(k.pads)
               PROVE  /\ k.pads[j] \in Pad
                      /\ k.pads[j].mappings \in Nat
                      /\ k.pads[j].mappings <= n
                      /\ k.pads[j].mappings <= 0 => k.pads[j].mappings = None
    OBVIOUS
  <2>1. k.pads[j] \in Pad
    BY <1>1, ElementOfSeq
  <2>2. k.pads[j].mappings \in Nat
    BY <2>1, DrumKitConfigAssumption DEF Pad
  <2>3. k.pads[j].mappings # None => k.pads[j].mappings <= n
    BY <1>1, <1>2 DEF PadsPoint
  <2> HIDE DEF n
  <2>4. k.pads[j].mappings <= n
    BY <1>2, <2>2, <2>3 DEF None
  <2> QED
    BY <2>1, <2>2, <2>4 DEF None
<1>4. a = ReadBack(k, 0)
  <2>1. /\ a.mappings = <<>>
        /\ a = [pads |-> a.pads, mappings |-> a.mappings]
        /\ ReadBack(k, 0) = [pads |-> ReadBack(k, 0).pads, mappings |-> ReadBack(k, 0).mappings]
    BY DEF AddedPads, ReadBack
  <2>2. ReadBack(k, 0).mappings = <<>>
    <3>1. ReadBack(k, 0).mappings = [j \in 1..0 |-> k.mappings[j]]
      BY DEF ReadBack
    <3>2. 1..0 = {}
      OBVIOUS
    <3> QED
      BY <3>1, <3>2
  <2>3. c.pads = PadConfigs(k) /\ "pads" \in DOMAIN c
    BY DEF GetDrumKitConfigAsJson
  <2>4. a.pads = [j \in DOMAIN PadConfigs(k) |-> ApplyPadConfig(PadConfigs(k)[j])]
    BY <2>3 DEF AddedPads
  <2>5. /\ DOMAIN PadConfigs(k) = 1..Len(k.pads)
        /\ \A j \in 1..Len(k.pads) : PadConfigs(k)[j]
             = [role |-> k.pads[j].role, isConnected |-> k.pads[j].isConnected,
                isEnabled |-> k.pads[j].isEnabled]
    BY <1>2 DEF PadConfigs
  <2>6. \A j \in 1..Len(k.pads) : ApplyPadConfig(PadConfigs(k)[j])
           = [role |-> k.pads[j].role, isConnected |-> k.pads[j].isConnected,
              isEnabled |-> k.pads[j].isEnabled /\ k.pads[j].isConnected, mappings |-> None]
    <3> DEFINE x(j) == [role |-> k.pads[j].role, isConnected |-> k.pads[j].isConnected,
                isEnabled |-> k.pads[j].isEnabled]
    <3>1. \A j \in 1..Len(k.pads) : ApplyPadConfig(x(j))
           = [role |-> k.pads[j].role, isConnected |-> k.pads[j].isConnected,
              isEnabled |-> k.pads[j].isEnabled /\ k.pads[j].isConnected, mappings |-> None]
      BY DEF ApplyPadConfig
    <3>2. \A j \in 1..Len(k.pads) : PadConfigs(k)[j] = x(j)
      BY <2>5
    <3> HIDE DEF x
    <3> QED
      BY <3>1, <3>2
  <2>7. \A j \in 1..Len(k.pads) :
          (IF k.pads[j].mappings <= 0 THEN k.pads[j].mappings ELSE None) = None
    BY <1>3
  <2>8. ReadBack(k, 0).pads = [j \in 1..Len(k.pads) |->
           [role |-> k.pads[j].role, isConnected |-> k.pads[j].isConnected,
            isEnabled |-> k.pads[j].isEnabled /\ k.pads[j].isConnected,
            mappings |-> IF k.pads[j].mappings <= 0 THEN k.pads[j].mappings ELSE None]]
    BY <1>2 DEF ReadBack
  <2> DEFINE x(j, m) == [role |-> k.pads[j].role, isConnected |-> k.pads[j].isConnected,
            isEnabled |-> k.pads[j].isEnabled /\ k.pads[j].isConnected, mappings |-> m]
             y(j) == IF k.pads[j].mappings <= 0 THEN k.pads[j].mappings ELSE None
             z(j) == ApplyPadConfig(PadConfigs(k)[j])
  <2>9. a.pads = ReadBack(k, 0).pads
    <3>1. a.pads = [j \in 1..Len(k.pads) |-> z(j)]
      BY <2>4, <2>5
    <3>2. ReadBack(k, 0).pads = [j \in 1..Len(k.pads) |-> x(j, y(j))]
      BY <2>8
    <3>3. \A j \in 1..Len(k.pads) : z(j) = x(j, None) /\ y(j) = None
      BY <2>6, <2>7
    <3> HIDE DEF a, x, y, z
    <3> QED
      BY <3>1, <3>2, <3>3
  <2> QED
    BY <2>1, <2>2, <2>9
<1>5. entries \in Seq(MappingConfig) /\ Len(entries) = n
  <2> DEFINE e(j) == [role |-> k.mappings[j].role,
                note |-> IF k.mappings[j].note = "unassigned" THEN "absent" ELSE k.mappings[j].note]
  <2>1. \A j \in 1..n : k.mappings[j] \in Mapping
    BY <1>1, ElementOfSeq
  <2>2. \A j \in 1..n : e(j) \in MappingConfig
    BY <2>1 DEF Mapping, MappingConfig
  <2>3. entries = [j \in 1..n |-> e(j)]
    BY <1>2 DEF MappingConfigs
  <2> HIDE DEF e, n, entries
  <2>4. entries \in Seq(MappingConfig) /\ DOMAIN entries = 1..n
    BY <1>2, <2>2, <2>3, IsASeq
  <2> QED
    BY <1>2, <2>4, LenProperties
<1>6. ApplyDrumKitConfig(c) = ApplyDrumKitMappings(a, entries, FALSE)
  BY DEF ApplyDrumKitConfig, AddedPads, GetDrumKitConfigAsJson
<1>7. ApplyDrumKitMappings(a, entries, FALSE) = r
  <2> DEFINE Inv == [i \in Nat |-> {ReadBack(k, i)}]
  <2>1. a \in Inv[0]
    BY <1>4
  <2>2. ASSUME NEW i \in 1..Len(entries), NEW b \in Inv[i - 1]
        PROVE  ApplyRole(b, entries[i], FALSE) \in Inv[i]
    <3>1. i \in 1..n /\ i \in Nat /\ i - 1 \in Nat
      BY <1>2, <1>5
    <3>2. b = ReadBack(k, i - 1)
      BY <3>1
    <3>3. ApplyRole(ReadBack(k, i - 1), entries[i], FALSE) = ReadBack(k, i)
      BY <3>1, ReadBackStep
    <3> QED
      BY <3>1, <3>2, <3>3
  <2>3. Inv[n] = {r}
    BY <1>2
  <2> HIDE DEF Inv, a, entries, n, r
  <2>4. ApplyDrumKitMappings(a, entries, FALSE) \in Inv[Len(entries)]
    BY <1>5, <2>1, <2>2, FoldInvariant
  <2> QED
    BY <1>5, <2>3, <2>4
<1>8. r.mappings = k.mappings
  <2>1. r.mappings = [j \in 1..n |-> k.mappings[j]]
    BY DEF ReadBack
  <2> QED
    BY <1>1, <1>2, <2>1
<1> DEFINE pad(j) ==
             [role |-> k.pads[j].role, isConnected |-> k.pads[j].isConnected,
              isEnabled |-> k.pads[j].isEnabled /\ k.pads[j].isConnected,
              mappings |-> k.pads[j].mappings]
<1>9. r.pads = [j \in 1..Len(k.pads) |-> pad(j)]
  <2>1. r.pads = [j \in 1..Len(k.pads) |->
           [role |-> k.pads[j].role, isConnected |-> k.pads[j].isConnected,
            isEnabled |-> k.pads[j].isEnabled /\ k.pads[j].isConnected,
            mappings |-> IF k.pads[j].mappings <= n THEN k.pads[j].mappings ELSE None]]
    BY <1>2 DEF ReadBack
  <2> HIDE DEF r, n
  <2> QED
    BY <1>3, <2>1
<1>10. \A j \in 1..Len(k.pads) :
         /\ [k.pads[j] EXCEPT !.isEnabled = k.pads[j].isEnabled /\ k.pads[j].isConnected]
              = pad(j)
         /\ [pad(j) EXCEPT !.isEnabled = pad(j).isEnabled /\ pad(j).isConnected] = pad(j)
  <2> SUFFICES ASSUME NEW j \in 1..Len(k.pads)
        PROVE  /\ [k.pads[j] EXCEPT !.isEnabled = k.pads[j].isEnabled /\ k.pads[j].isConnected]
                    = pad(j)
               /\ [pad(j) EXCEPT !.isEnabled = pad(j).isEnabled /\ pad(j).isConnected] = pad(j)
    OBVIOUS
  <2>1. k.pads[j] \in Pad
    BY <1>3
  <2>2. [k.pads[j] EXCEPT !.isEnabled = k.pads[j].isEnabled /\ k.pads[j].isConnected] = pad(j)
    BY <2>1 DEF Pad
  <2>3. (pad(j).isEnabled /\ pad(j).isConnected) = pad(j).isEnabled
    BY <2>1 DEF Pad
  <2>4. [pad(j) EXCEPT !.isEnabled = pad(j).isEnabled] = pad(j)
    OBVIOUS
  <2> HIDE DEF pad
  <2> QED
    BY <2>2, <2>3, <2>4
<1>11. r = [pads |-> r.pads, mappings |-> r.mappings]
  BY DEF ReadBack
<1> DEFINE p == [j \in 1..Len(k.pads) |-> pad(j)]
<1>12. Audible(k) = [pads |-> p, mappings |-> k.mappings]
  <2>1. [j \in DOMAIN k.pads |->
     [k.pads[j] EXCEPT !.isEnabled = k.pads[j].isEnabled /\ k.pads[j].isConnected]] = p
    <3> HIDE DEF pad
    <3> QED
      BY <1>2, <1>10
  <2> HIDE DEF p
  <2>2. Audible(k) = [k EXCEPT !.pads = p]
    BY <2>1 DEF Audible
  <2> QED
    BY <1>1, <2>2 DEF KitRecords
<1>13. Audible(r) = [pads |-> p, mappings |-> k.mappings]
  <2>1. [j \in DOMAIN r.pads |->
     [r.pads[j] EXCEPT !.isEnabled = r.pads[j].isEnabled /\ r.pads[j].isConnected]] = p
    <3> HIDE DEF pad, r
    <3> QED
      BY <1>9, <1>10
  <2> HIDE DEF p
  <2>2. Audible(r) = [r EXCEPT !.pads = p]
    BY <2>1 DEF Audible
  <2> HIDE DEF r
  <2> QED
    BY <1>8, <1>11, <2>2
<1> QED
  BY <1>6, <1>7, <1>12, <1>13
-----------------------------------------------------------------------------
FullConfigs == [pads : Seq(PadConfig), mappings : Seq(MappingConfig)]

(* Both sections of a kit are written. *)
LEMMA WrittenLemma ==
  ASSUME NEW k \in Kits
  PROVE  GetDrumKitConfigAsJson(k) \in FullConfigs
<1>1. k.pads \in Seq(Pad) /\ k.mappings \in Seq(Mapping)
  BY DEF Kits, KitRecords
<1>2. /\ Len(k.mappings) \in Nat /\ DOMAIN k.mappings = 1..Len(k.mappings)
      /\ Len(k.pads) \in Nat /\ DOMAIN k.pads = 1..Len(k.pads)
  BY <1>1, LenProperties
<1>3. PadConfigs(k) \in Seq(PadConfig)
  <2> DEFINE e(i) == [role |-> k.pads[i].role, isConnected |-> k.pads[i].isConnected,
                      isEnabled |-> k.pads[i].isEnabled]
  <2>1. \A i \in 1..Len(k.pads) : k.pads[i] \in Pad
    BY <1>1, ElementOfSeq
  <2>2. \A i \in 1..Len(k.pads) : e(i) \in PadConfig
    BY <2>1 DEF Pad, PadConfig
  <2>3. PadConfigs(k) = [i \in 1..Len(k.pads) |-> e(i)]
    BY <1>2 DEF PadConfigs
  <2> HIDE DEF e
  <2> QED
    BY <1>2, <2>2, <2>3, IsASeq
<1>4. MappingConfigs(k.mappings) \in Seq(MappingConfig)
  <2> DEFINE e(j) == [role |-> k.mappings[j].role,
                note |-> IF k.mappings[j].note = "unassigned" THEN "absent" ELSE k.mappings[j].note]
  <2>1. \A j \in 1..Len(k.mappings) : k.mappings[j] \in Mapping
    BY <1>1, ElementOfSeq
  <2>2. \A j \in 1..Len(k.mappings) : e(j) \in MappingConfig
    BY <2>1 DEF Mapping, MappingConfig
  <2>3. MappingConfigs(k.mappings) = [j \in 1..Len(k.mappings) |-> e(j)]
    BY <1>2 DEF MappingConfigs
  <2> HIDE DEF e
  <2> QED
    BY <1>2, <2>2, <2>3, IsASeq
<1> QED
  BY <1>3, <1>4 DEF GetDrumKitConfigAsJson, FullConfigs

(* Also after the sections of an upload replaced them. *)
LEMMA MergedLemma ==
  ASSUME NEW c \in FullConfigs, NEW upload \in Configs
  PROVE  Merge(c, upload) \in FullConfigs
<1> DEFINE m == Merge(c, upload)
<1>1. DOMAIN c = {"pads", "mappings"}
  BY DEF FullConfigs
<1>2. m = [section \in {"pads", "mappings"} |->
             IF section \in DOMAIN upload THEN upload[section] ELSE c[section]]
  BY <1>1 DEF Merge
<1>3. m["pads"] \in Seq(PadConfig)
  BY <1>2, ConfigSections DEF FullConfigs
<1>4. m["mappings"] \in Seq(MappingConfig)
  BY <1>2, ConfigSections DEF FullConfigs
<1> DEFINE e(section) == IF section \in DOMAIN upload THEN upload[section] ELSE c[section]
<1>5. m = [section \in {"pads", "mappings"} |-> e(section)]
  BY <1>2
<1>6. e("pads") \in Seq(PadConfig) /\ e("mappings") \in Seq(MappingConfig)
  BY <1>3, <1>4, <1>5
<1> HIDE DEF m, e
<1> QED
  BY <1>5, <1>6 DEF FullConfigs, m

(* What may be left of a configuration is one. *)
LEMMA CutLemma ==
  ASSUME NEW c \in FullConfigs
  PROVE  c \in Configs /\ Cut(c) \subseteq Configs
<1>1. c.pads \in Seq(PadConfig)
  BY DEF FullConfigs
<1>2. [pads |-> c.pads] \in [pads : Seq(PadConfig)]
  BY <1>1
<1> QED
  BY <1>2 DEF Cut, Configs, FullConfigs

(* Without mappings, the pads point at none. *)
LEMMA DeleteAllLemma ==
  ASSUME NEW k \in Kits
  PROVE  /\ DeleteAllMappings(k) \in Kits
         /\ k \in UnsharedKits => DeleteAllMappings(k) \in UnsharedKits
<1> DEFINE r == DeleteAllMappings(k)
<1>1. k.pads \in Seq(Pad)
  BY DEF Kits, KitRecords
<1>2. /\ Len(k.pads) \in Nat /\ DOMAIN k.pads = 1..Len(k.pads)
      /\ \A i \in 1..Len(k.pads) : k.pads[i] \in Pad
  BY <1>1, LenProperties, ElementOfSeq
<1> DEFINE e(i) == [k.pads[i] EXCEPT !.mappings = None]
<1>3. \A i \in 1..Len(k.pads) :
        e(i) \in Pad /\ e(i).role = k.pads[i].role /\ e(i).mappings = None
  BY <1>2, DrumKitConfigAssumption DEF Pad, None
<1>4. r = [pads |-> [i \in 1..Len(k.pads) |-> e(i)], mappings |-> <<>>]
  BY <1>2 DEF DeleteAllMappings
<1> HIDE DEF r, e
<1>5. /\ r.pads \in Seq(Pad) /\ DOMAIN r.pads = DOMAIN k.pads
      /\ \A i \in DOMAIN k.pads : r.pads[i].role = k.pads[i].role /\ r.pads[i].mappings = None
  BY <1>2, <1>3, <1>4, IsASeq
<1>6. r.mappings = <<>> /\ r.mappings \in Seq(Mapping) /\ Len(r.mappings) = 0
  BY <1>4, EmptySeq
<1>7. r \in KitRecords
  BY <1>4, <1>5, <1>6 DEF KitRecords
<1>8. RolesAreUnique(r.mappings) /\ PadsPoint(r) /\ Len(r.mappings) <= MaxMappings
  BY <1>5, <1>6, DrumKitConfigAssumption DEF RolesAreUnique, PadsPoint
<1>9. \A role : IndexOfRole(r.mappings, role) = 0
  <2> SUFFICES ASSUME NEW role PROVE IndexOfRole(r.mappings, role) = 0
    OBVIOUS
  <2>1. IndexOfRole(r.mappings, role) \in 0..Len(r.mappings)
    BY <1>6, IndexLemma
  <2> QED
    BY <1>6, <2>1
<1>10. PadsFind(r)
  BY <1>5, <1>9 DEF PadsFind, GetMappings, None
<1>11. AreRolesShared(r.pads) <=> AreRolesShared(k.pads)
  BY <1>5 DEF AreRolesShared
<1> QED
  BY <1>7, <1>8, <1>10, <1>11 DEF Kits, UnsharedKits, r

(* A changed pad is one, and points at the mapping of its role or at what  *)
(* it pointed at.                                                          *)
LEMMA ChangeLemma ==
  ASSUME TypeOK, NEW pad \in Pad, NEW m \in PadMessages
  PROVE  LET z == Change(pad, m.change)
         IN  /\ z \in Pad
             /\ \/ z.role = pad.role /\ z.mappings = pad.mappings
                \/ z.mappings = GetMappings(mappings, z.role)
<1> DEFINE c == m.change
           z == Change(pad, c)
<1>1. /\ "role" \in DOMAIN c => c.role \in Roles
      /\ "isConnected" \in DOMAIN c => c.isConnected \in BOOLEAN
      /\ "isEnabled" \in DOMAIN c => c.isEnabled \in BOOLEAN
      /\ "mappings" \notin DOMAIN c
  BY DrumKitConfigAssumption
<1>2. DOMAIN pad = {"role", "isConnected", "isEnabled", "mappings"}
  BY DEF Pad
<1> DEFINE e(field) ==
     CASE field \in DOMAIN c -> c[field]
       [] field = "mappings" /\ "role" \in DOMAIN c -> GetMappings(mappings, c.role)
       [] OTHER -> pad[field]
<1>3. z = [field \in {"role", "isConnected", "isEnabled", "mappings"} |-> e(field)]
  BY <1>2 DEF Change
<1>4. /\ e("role") = IF "role" \in DOMAIN c THEN c.role ELSE pad.role
      /\ e("isConnected") = IF "isConnected" \in DOMAIN c THEN c.isConnected ELSE pad.isConnected
      /\ e("isEnabled") = IF "isEnabled" \in DOMAIN c THEN c.isEnabled ELSE pad.isEnabled
      /\ e("mappings") = IF "role" \in DOMAIN c THEN GetMappings(mappings, c.role) ELSE pad.mappings
  BY <1>1
<1>5. GetMappings(mappings, c.role) \in 0..MaxMappings
  <2>1. mappings \in Seq(Mapping) /\ Len(mappings) \in Nat /\ Len(mappings) <= MaxMappings
    BY LenProperties DEF TypeOK
  <2>2. GetMappings(mappings, c.role) \in 0..Len(mappings)
    BY <2>1, IndexLemma DEF GetMappings
  <2> QED
    BY <2>1, <2>2, DrumKitConfigAssumption
<1>6. /\ e("role") \in Roles /\ e("isConnected") \in BOOLEAN
      /\ e("isEnabled") \in BOOLEAN /\ e("mappings") \in 0..MaxMappings
  <2>1. /\ pad.role \in Roles /\ pad.isConnected \in BOOLEAN
        /\ pad.isEnabled \in BOOLEAN /\ pad.mappings \in 0..MaxMappings
    BY DEF Pad
  <2> HIDE DEF e
  <2> QED
    BY <1>1, <1>4, <1>5, <2>1
<1>7. /\ z.role = e("role") /\ z.mappings = e("mappings")
  BY <1>3
<1> HIDE DEF e, z
<1>8. z \in Pad
  BY <1>3, <1>6 DEF Pad
<1>9. \/ z.role = pad.role /\ z.mappings = pad.mappings
      \/ z.mappings = GetMappings(mappings, z.role)
  BY <1>4, <1>7
<1> QED
  BY <1>8, <1>9 DEF z
-----------------------------------------------------------------------------
(* The inductive invariant: the pads and the mappings are a kit that the   *)
(* commands can make, in which every pad finds its role if none was ever   *)
(* shared.  Only such a kit comes back from the file as it was.            *)
KitInv ==
  /\ TypeOK
  /\ Kit \in Kits
  /\ ~wereRolesShared => Kit \in UnsharedKits
  /\ CleanKitComesBack

(* What a kit is to the variables. *)
LEMMA KitOfVariables ==
  ASSUME Kit \in Kits
  PROVE  pads \in Seq(Pad) /\ mappings \in Seq(Mapping) /\ Len(mappings) <= MaxMappings
BY DEF Kits, KitRecords, Kit

(* The invariant holds for the kit of whatever file the board comes with.  *)
LEMMA KitInvInit == Init => KitInv
<1> SUFFICES ASSUME Init PROVE KitInv
  OBVIOUS
<1> DEFINE k == ApplyDrumKitConfig(file)
<1>1. file \in Configs
  BY DrumKitConfigAssumption DEF Init
<1>2. k \in Kits /\ (~AreRolesShared(k.pads) => k \in UnsharedKits)
  BY <1>1, ApplyConfigLemma
<1>3. Kit = k
  <2>1. Kit = [pads |-> k.pads, mappings |-> k.mappings]
    BY DEF Init, Kit
  <2> HIDE DEF k
  <2>2. k = [pads |-> k.pads, mappings |-> k.mappings]
    BY <1>2 DEF Kits, KitRecords
  <2> QED
    BY <2>1, <2>2
<1>4. wereRolesShared = AreRolesShared(k.pads) /\ wereRolesShared \in BOOLEAN
  BY DEF Init, AreRolesShared
<1>5. isConfigDirty \in BOOLEAN /\ fileHolds = "kit"
  BY DEF Init
<1>6. Audible(ApplyDrumKitConfig(file)) = Audible(Kit)
  BY <1>3
<1> HIDE DEF k
<1>7. TypeOK
  BY <1>1, <1>2, <1>3, <1>4, <1>5, KitOfVariables DEF TypeOK
<1> QED
  BY <1>2, <1>3, <1>4, <1>6, <1>7 DEF KitInv, CleanKitComesBack

(* A change of a pad leaves every pad pointing at its role. *)
LEMMA SetPadKeepsKitInv ==
  ASSUME KitInv, NEW m \in PadMessages, HandleSetPadConfig(m.index, m.change)
  PROVE  KitInv'
<1> DEFINE index == m.index
           z == Change(pads[index], m.change)
<1>1. /\ TypeOK /\ Kit \in Kits /\ (~wereRolesShared => Kit \in UnsharedKits)
      /\ pads \in Seq(Pad) /\ mappings \in Seq(Mapping) /\ Len(mappings) <= MaxMappings
  BY DEF KitInv, TypeOK
<1>2. /\ Len(pads) \in Nat /\ DOMAIN pads = 1..Len(pads) /\ Len(mappings) \in Nat
      /\ index \in 1..Len(pads)
  BY <1>1, LenProperties DEF HandleSetPadConfig
<1>3. /\ pads' = [pads EXCEPT ![index] = z]
      /\ isConfigDirty' = TRUE
      /\ wereRolesShared' = (wereRolesShared \/ AreRolesShared(pads'))
      /\ UNCHANGED <<mappings, file, fileHolds>>
  BY DEF HandleSetPadConfig
<1>4. pads[index] \in Pad
  BY <1>1, <1>2, ElementOfSeq
<1>5. /\ z \in Pad
      /\ \/ z.role = pads[index].role /\ z.mappings = pads[index].mappings
         \/ z.mappings = GetMappings(mappings, z.role)
  BY <1>1, <1>4, ChangeLemma
<1> HIDE DEF z, index
<1>6. /\ pads' \in Seq(Pad) /\ DOMAIN pads' = DOMAIN pads
      /\ \A i \in DOMAIN pads : pads'[i] = IF i = index THEN z ELSE pads[i]
  BY <1>1, <1>2, <1>3, <1>5, ExceptSeq
<1>7. Kit' \in KitRecords /\ Kit'.pads = pads' /\ Kit'.mappings = mappings
  BY <1>1, <1>3, <1>6 DEF Kit, KitRecords
<1>8. Kit.pads = pads /\ Kit.mappings = mappings /\ PadsPoint(Kit) /\ RolesAreUnique(mappings)
  BY <1>1 DEF Kit, Kits
<1>9. PadsPoint(Kit')
  <2> SUFFICES ASSUME NEW i \in DOMAIN pads, pads'[i].mappings # None
               PROVE  /\ pads'[i].mappings <= Len(mappings)
                      /\ mappings[pads'[i].mappings].role = pads'[i].role
    BY <1>6, <1>7 DEF PadsPoint
  <2>1. CASE i = index /\ z.mappings = GetMappings(mappings, z.role)
    <3>1. pads'[i] = z
      BY <1>6, <2>1
    <3>2. /\ GetMappings(mappings, z.role) \in 0..Len(mappings)
          /\ GetMappings(mappings, z.role) # 0
               => mappings[GetMappings(mappings, z.role)].role = z.role
      BY <1>1, IndexLemma DEF GetMappings
    <3> QED
      BY <1>2, <2>1, <3>1, <3>2 DEF None
  <2>2. CASE pads'[i].role = pads[i].role /\ pads'[i].mappings = pads[i].mappings
    BY <1>8, <2>2 DEF PadsPoint
  <2> QED
    BY <1>5, <1>6, <2>1, <2>2
<1>10. Kit' \in Kits
  BY <1>1, <1>7, <1>8, <1>9 DEF Kits
<1>11. ~wereRolesShared' => Kit' \in UnsharedKits
  <2> SUFFICES ASSUME ~wereRolesShared, ~AreRolesShared(pads') PROVE Kit' \in UnsharedKits
    BY <1>3
  <2>1. PadsFind(Kit)
    BY <1>1 DEF UnsharedKits
  <2>2. PadsFind(Kit')
    <3> SUFFICES ASSUME NEW i \in DOMAIN pads
                 PROVE  pads'[i].mappings = GetMappings(mappings, pads'[i].role)
      BY <1>6, <1>7 DEF PadsFind
    <3>1. pads[i].mappings = GetMappings(mappings, pads[i].role)
      BY <1>8, <2>1 DEF PadsFind
    <3> QED
      BY <1>5, <1>6, <3>1
  <2> QED
    BY <1>7, <1>10, <2>2 DEF UnsharedKits
<1>12. wereRolesShared' \in BOOLEAN
  BY <1>1, <1>3 DEF TypeOK, AreRolesShared
<1>13. TypeOK'
  BY <1>1, <1>3, <1>6, <1>12 DEF TypeOK
<1>14. CleanKitComesBack'
  BY <1>3 DEF CleanKitComesBack
<1> QED
  BY <1>10, <1>11, <1>13, <1>14 DEF KitInv

(* So does a message of mappings, also one that replaces all. *)
LEMMA SetMappingsKeepsKitInv ==
  ASSUME KitInv, NEW entries \in MappingMessages, NEW replace \in BOOLEAN,
         HandleSetMappings(entries, replace)
  PROVE  KitInv'
<1> DEFINE replaceAll == ReplacesAll(entries, replace)
           rest == IF replaceAll THEN DeleteAllMappings(Kit) ELSE Kit
           r == ApplyDrumKitMappings(rest, entries, replace /\ ~replaceAll)
<1>1. TypeOK /\ Kit \in Kits /\ (~wereRolesShared => Kit \in UnsharedKits)
  BY DEF KitInv
<1>2. /\ pads' = r.pads /\ mappings' = r.mappings
      /\ isConfigDirty' = TRUE
      /\ UNCHANGED <<file, wereRolesShared, fileHolds>>
  BY DEF HandleSetMappings, SetKit
<1>3. rest \in Kits /\ (Kit \in UnsharedKits => rest \in UnsharedKits)
  BY <1>1, DeleteAllLemma
<1>4. entries \in Seq(MappingConfig) /\ (replace /\ ~replaceAll) \in BOOLEAN
  BY DrumKitConfigAssumption
<1> HIDE DEF rest
<1>5. r \in Kits /\ (rest \in UnsharedKits => r \in UnsharedKits)
  BY <1>3, <1>4, ApplyMappingsKeepsKits
<1> HIDE DEF r
<1>6. Kit' = r
  <2>1. r = [pads |-> r.pads, mappings |-> r.mappings]
    BY <1>5 DEF Kits, KitRecords
  <2> QED
    BY <1>2, <2>1 DEF Kit
<1>7. TypeOK'
  <2>1. r.pads \in Seq(Pad) /\ r.mappings \in Seq(Mapping) /\ Len(r.mappings) <= MaxMappings
    BY <1>5 DEF Kits, KitRecords
  <2> QED
    BY <1>1, <1>2, <2>1 DEF TypeOK
<1>8. CleanKitComesBack'
  BY <1>2 DEF CleanKitComesBack
<1> QED
  BY <1>1, <1>2, <1>3, <1>5, <1>6, <1>7, <1>8 DEF KitInv

(* What is written is a configuration, whole or cut. *)
LEMMA WriteLemma ==
  ASSUME TypeOK, NEW c \in FullConfigs, NEW success \in BOOLEAN, NEW purpose,
         WriteDrumKitConfig(c, success, purpose)
  PROVE  /\ file' \in Configs
         /\ fileHolds' \in {"less", purpose}
         /\ fileHolds' # "less" => file' = c
<1>1. c \in Configs /\ Cut(c) \subseteq Configs /\ file \in Configs
  BY CutLemma DEF TypeOK
<1> QED
  BY <1>1 DEF WriteDrumKitConfig

(* An upload leaves the kit; the file then does not hold it. *)
LEMMA SetConfigKeepsKitInv ==
  ASSUME KitInv, NEW upload \in Uploads, NEW success \in BOOLEAN,
         HandleSetConfig(upload, success)
  PROVE  KitInv'
<1> DEFINE c == Merge(GetDrumKitConfigAsJson(Kit), upload)
<1>1. TypeOK /\ Kit \in Kits /\ (~wereRolesShared => Kit \in UnsharedKits)
  BY DEF KitInv
<1>2. c \in FullConfigs
  BY <1>1, WrittenLemma, MergedLemma, DrumKitConfigAssumption
<1>3. /\ WriteDrumKitConfig(c, success, "upload")
      /\ isConfigDirty' = FALSE /\ UNCHANGED <<pads, mappings, wereRolesShared>>
  BY DEF HandleSetConfig, kit
<1> HIDE DEF c
<1>4. file' \in Configs /\ fileHolds' \in {"less", "upload"}
  BY <1>1, <1>2, <1>3, WriteLemma
<1>5. Kit' = Kit
  BY <1>3 DEF Kit
<1>6. TypeOK'
  BY <1>1, <1>3, <1>4 DEF TypeOK
<1>7. CleanKitComesBack'
  BY <1>4 DEF CleanKitComesBack
<1> QED
  BY <1>1, <1>3, <1>5, <1>6, <1>7 DEF KitInv

(* What is saved comes back, unless less of it was written. *)
LEMMA SaveConfigKeepsKitInv ==
  ASSUME KitInv, NEW success \in BOOLEAN, HandleSaveConfig(success)
  PROVE  KitInv'
<1> DEFINE c == GetDrumKitConfigAsJson(Kit)
<1>1. TypeOK /\ Kit \in Kits /\ (~wereRolesShared => Kit \in UnsharedKits)
  BY DEF KitInv
<1>2. c \in FullConfigs
  BY <1>1, WrittenLemma
<1>3. /\ WriteDrumKitConfig(c, success, "kit")
      /\ isConfigDirty' = FALSE /\ UNCHANGED <<pads, mappings, wereRolesShared>>
  BY DEF HandleSaveConfig, kit
<1> HIDE DEF c
<1>4. /\ file' \in Configs /\ fileHolds' \in {"less", "kit"}
      /\ fileHolds' # "less" => file' = c
  BY <1>1, <1>2, <1>3, WriteLemma
<1>5. Kit' = Kit
  BY <1>3 DEF Kit
<1>6. TypeOK'
  BY <1>1, <1>3, <1>4 DEF TypeOK
<1>7. CleanKitComesBack'
  <2> SUFFICES ASSUME fileHolds' = "kit", ~wereRolesShared'
               PROVE  Audible(ApplyDrumKitConfig(file')) = Audible(Kit')
    BY DEF CleanKitComesBack
  <2>1. file' = c /\ Kit \in UnsharedKits
    BY <1>1, <1>3, <1>4
  <2> QED
    BY <1>5, <2>1, RoundTrip DEF c
<1> QED
  BY <1>1, <1>3, <1>5, <1>6, <1>7 DEF KitInv

(* After a restart the kit is the one of the file. *)
LEMMA RestartKeepsKitInv ==
  ASSUME KitInv, Restart
  PROVE  KitInv'
<1> DEFINE k == ApplyDrumKitConfig(file)
<1>1. TypeOK /\ file \in Configs
  BY DEF KitInv, TypeOK
<1>2. k \in Kits /\ (~AreRolesShared(k.pads) => k \in UnsharedKits)
  BY <1>1, ApplyConfigLemma
<1>3. /\ pads' = k.pads /\ mappings' = k.mappings
      /\ wereRolesShared' = AreRolesShared(pads')
      /\ isConfigDirty' = FALSE /\ fileHolds' = "kit" /\ file' = file
  BY DEF Restart, SetKit
<1>4. Kit' = k
  <2>1. Kit' = [pads |-> k.pads, mappings |-> k.mappings]
    BY <1>3 DEF Kit
  <2> HIDE DEF k
  <2>2. k = [pads |-> k.pads, mappings |-> k.mappings]
    BY <1>2 DEF Kits, KitRecords
  <2> QED
    BY <2>1, <2>2
<1>5. Audible(ApplyDrumKitConfig(file')) = Audible(Kit')
  BY <1>3, <1>4
<1>6. wereRolesShared' \in BOOLEAN
  BY <1>3 DEF AreRolesShared
<1> HIDE DEF k
<1>7. k.pads \in Seq(Pad) /\ k.mappings \in Seq(Mapping) /\ Len(k.mappings) <= MaxMappings
  BY <1>2 DEF Kits, KitRecords
<1>8. TypeOK'
  BY <1>1, <1>3, <1>6, <1>7 DEF TypeOK
<1> QED
  BY <1>2, <1>3, <1>4, <1>5, <1>8 DEF KitInv, CleanKitComesBack

(* Every step keeps the invariant. *)
LEMMA KitInvNext == KitInv /\ [Next]_vars => KitInv'
<1> SUFFICES ASSUME KitInv, [Next]_vars PROVE KitInv'
  OBVIOUS
<1>1. ASSUME NEW m \in PadMessages, HandleSetPadConfig(m.index, m.change)
      PROVE  KitInv'
  BY <1>1, SetPadKeepsKitInv
<1>2. ASSUME NEW entries \in MappingMessages, NEW replace \in BOOLEAN,
             HandleSetMappings(entries, replace)
      PROVE  KitInv'
  BY <1>2, SetMappingsKeepsKitInv
<1>3. ASSUME NEW upload \in Uploads, NEW success \in BOOLEAN, HandleSetConfig(upload, success)
      PROVE  KitInv'
  BY <1>3, SetConfigKeepsKitInv
<1>4. ASSUME NEW success \in BOOLEAN, HandleSaveConfig(success)
      PROVE  KitInv'
  BY <1>4, SaveConfigKeepsKitInv
<1>5. CASE Restart
  BY <1>5, RestartKeepsKitInv
<1>6. CASE UNCHANGED vars
  <2>1. /\ UNCHANGED <<pads, mappings, isConfigDirty, file, wereRolesShared, fileHolds>>
        /\ Kit' = Kit
    BY <1>6 DEF vars, kit, Kit
  <2>2. TypeOK' /\ CleanKitComesBack'
    BY <2>1 DEF KitInv, TypeOK, CleanKitComesBack
  <2> QED
    BY <2>1, <2>2 DEF KitInv
<1> QED
  BY <1>1, <1>2, <1>3, <1>4, <1>5, <1>6 DEF Next

LEMMA KitInvariance == Spec => []KitInv
BY KitInvInit, KitInvNext, PTL DEF Spec

(* The pads, the mappings and the file have their types: the array never   *)
(* holds more than MAX_MAPPINGS_COUNT mappings (drum_kit.h).               *)
THEOREM KitTypes == Spec => []TypeOK
<1>1. KitInv => TypeOK
  BY DEF KitInv
<1> QED
  BY KitInvariance, <1>1, PTL

(* No pad plays the mapping of another role or one that was deleted,       *)
(* whatever the order of commands, files and restarts                      *)
(* (drum_kit.h:113-121, webui.cpp:172-176).                                *)
THEOREM PadsAlwaysPointAtTheirRole == Spec => []PadsPointAtTheirRole
<1>1. KitInv => PadsPointAtTheirRole
  BY DEF KitInv, Kits, Kit, PadsPoint, PadsPointAtTheirRole
<1> QED
  BY KitInvariance, <1>1, PTL

(* While no two pads have had one role, every pad plays the mapping of its *)
(* role, in whichever order they came (config_drumkit.cpp:53-76).          *)
THEOREM UnsharedRoleAlwaysDecides == Spec => []UnsharedRoleDecidesTheMappings
<1>1. KitInv => UnsharedRoleDecidesTheMappings
  BY DEF KitInv, UnsharedKits, Kit, PadsFind, UnsharedRoleDecidesTheMappings,
         RoleDecidesTheMappings
<1> QED
  BY KitInvariance, <1>1, PTL

(* A kit that was saved comes back from its file with the same notes, and  *)
(* with pads that point at them (webui.cpp:308-320,                        *)
(* config_drumkit.cpp:80-108).                                             *)
THEOREM SavedKitComesBack == Spec => []CleanKitComesBack
<1>1. KitInv => CleanKitComesBack
  BY DEF KitInv
<1> QED
  BY KitInvariance, <1>1, PTL

-----------------------------------------------------------------------------
(* The multiplexers and connectors.                                        *)

(* The largest number of an initial section. *)
LEMMA LastOf ==
  ASSUME NEW i \in Nat \ {0}
  PROVE  KF!Max(1..i) = i /\ (1..i) \ {i} = 1..(i - 1)
<1>1. 1..i \in SUBSET (1..i) /\ 1..i # {} /\ i \in 1..i
  OBVIOUS
<1>2. Max(1..i) \in 1..i /\ i <= Max(1..i)
  BY <1>1, MaxLemma
<1>3. Max(1..i) = i
  BY <1>2
<1> QED
  BY <1>3 DEF Max, KF!Max

(* A fold over the sets of the first n positions, with a step that is      *)
(* given as a function.                                                    *)
StepFold(k, step, iter, s) ==
  IF s = {} THEN k ELSE step[<<iter[s \ {KF!Max(s)}], KF!Max(s)>>]

StepFunctions(A, n) == [A \X (1..n) -> A]
HasStepFold(A, k, n, step) ==
  \E iter \in [SUBSET (1..n) -> A] :
    \A s \in SUBSET (1..n) : iter[s] = StepFold(k, step, iter, s)

(* There is one, and it stays where its steps do. *)
LEMMA StepFoldExists ==
  ASSUME NEW A, NEW k \in A, NEW n \in Nat, NEW step \in StepFunctions(A, n)
  PROVE  HasStepFold(A, k, n, step)
<1> USE DEF StepFunctions, HasStepFold
<1> DEFINE Is(i, iter) == \A s \in SUBSET (1..i) : iter[s] = StepFold(k, step, iter, s)
           S == {i \in 0..n : \E iter \in [SUBSET (1..i) -> A] : Is(i, iter)}
<1>0. \A i \in 0..n : \A s \in SUBSET (1..i) : s # {} =>
        KF!Max(s) \in s /\ \A y \in s : y <= KF!Max(s)
  <2> SUFFICES ASSUME NEW i \in 0..n, NEW s \in SUBSET (1..i), s # {}
               PROVE  KF!Max(s) \in s /\ \A y \in s : y <= KF!Max(s)
    OBVIOUS
  <2>1. Max(s) \in s /\ \A y \in s : y <= Max(s)
    BY MaxLemma
  <2> QED
    BY <2>1 DEF Max, KF!Max
<1>1. 0 \in S
  <2> DEFINE iter == [s \in SUBSET (1..0) |-> k]
  <2>1. 1..0 = {}
    OBVIOUS
  <2>2. iter \in [SUBSET (1..0) -> A] /\ Is(0, iter)
    BY <2>1 DEF StepFold
  <2>3. \E f \in [SUBSET (1..0) -> A] : Is(0, f)
    <3> HIDE DEF iter, Is
    <3> QED
      BY <2>2
  <2>4. 0 \in 0..n
    OBVIOUS
  <2> HIDE DEF Is
  <2> QED
    BY <2>3, <2>4
<1>2. ASSUME NEW i \in 0..(n - 1), i \in S
      PROVE  i + 1 \in S
  <2>0. i \in 0..n /\ i + 1 \in 0..n
    OBVIOUS
  <2>1. PICK g \in [SUBSET (1..i) -> A] : Is(i, g)
    BY <1>2
  <2> DEFINE h == [s \in SUBSET (1..(i + 1)) |->
                     IF i + 1 \in s THEN step[<<g[s \ {i + 1}], i + 1>>] ELSE g[s]]
  <2>2. ASSUME NEW s \in SUBSET (1..(i + 1))
        PROVE  h[s] \in A /\ h[s] = StepFold(k, step, h, s)
    <3>1. CASE i + 1 \in s
      <4>1. KF!Max(s) \in s /\ i + 1 <= KF!Max(s)
        BY <1>0, <2>0, <3>1
      <4>2. KF!Max(s) = i + 1
        <5>1. s \subseteq 1..(i + 1) /\ i \in Nat
          OBVIOUS
        <5>2. KF!Max(s) \in 1..(i + 1)
          BY <4>1, <5>1
        <5> QED
          BY <4>1, <5>1, <5>2
      <4>3. /\ s \ {i + 1} \in SUBSET (1..(i + 1)) /\ i + 1 \notin s \ {i + 1}
            /\ s \ {i + 1} \in SUBSET (1..i)
        OBVIOUS
      <4>4. h[s \ {i + 1}] = g[s \ {i + 1}] /\ g[s \ {i + 1}] \in A
        BY <4>3
      <4>5. h[s] = step[<<g[s \ {i + 1}], i + 1>>]
        BY <3>1
      <4>6. h[s] \in A
        <5>1. <<g[s \ {i + 1}], i + 1>> \in A \X (1..n)
          BY <4>4
        <5> HIDE DEF h
        <5> QED
          BY <4>5, <5>1
      <4> HIDE DEF h
      <4> QED
        BY <3>1, <4>2, <4>4, <4>5, <4>6 DEF StepFold
    <3>2. CASE i + 1 \notin s
      <4>1. s \in SUBSET (1..i)
        BY <3>2
      <4>2. h[s] = g[s] /\ g[s] \in A
        BY <3>2, <4>1
      <4>3. g[s] = StepFold(k, step, g, s)
        BY <2>1, <4>1
      <4>4. CASE s = {}
        BY <4>2, <4>3, <4>4 DEF StepFold
      <4>5. CASE s # {}
        <5>1. s \ {KF!Max(s)} \in SUBSET (1..(i + 1)) /\ i + 1 \notin s \ {KF!Max(s)}
          BY <3>2
        <5>2. h[s \ {KF!Max(s)}] = g[s \ {KF!Max(s)}]
          BY <5>1
        <5> HIDE DEF h
        <5> QED
          BY <4>2, <4>3, <4>5, <5>2 DEF StepFold
      <4> QED
        BY <4>4, <4>5
    <3> QED
      BY <3>1, <3>2
  <2>3. h \in [SUBSET (1..(i + 1)) -> A]
    BY <2>2
  <2> HIDE DEF h
  <2>4. Is(i + 1, h)
    BY <2>2
  <2> QED
    BY <2>0, <2>3, <2>4
<1> HIDE DEF S
<1>3. 0..n \subseteq S
  BY <1>1, <1>2, InductionUpTo
<1>4. n \in S
  BY <1>3
<1>5. \E iter \in [SUBSET (1..n) -> A] : Is(n, iter)
  <2> HIDE DEF Is
  <2> QED
    BY <1>4 DEF S
<1> QED
  BY <1>5

(* What holds of the values of such a fold, one position after the other. *)
LEMMA FoldedValues ==
  ASSUME NEW n \in Nat, NEW iter, NEW Inv, iter[{}] \in Inv[0],
         \A i \in 1..n : iter[1..(i - 1)] \in Inv[i - 1] => iter[1..i] \in Inv[i]
  PROVE  iter[1..n] \in Inv[n]
<1> DEFINE S == {i \in 0..n : iter[1..i] \in Inv[i]}
<1>1. 0 \in S
  <2>1. 1..0 = {}
    OBVIOUS
  <2> QED
    BY <2>1
<1>2. ASSUME NEW i \in 0..(n - 1), i \in S
      PROVE  i + 1 \in S
  <2>1. i + 1 \in 1..n /\ (i + 1) - 1 = i /\ i + 1 \in 0..n
    OBVIOUS
  <2> QED
    BY <1>2, <2>1
<1> HIDE DEF S
<1>3. 0..n \subseteq S
  BY <1>1, <1>2, InductionUpTo
<1>4. n \in S
  BY <1>3
<1> QED
  BY <1>4 DEF S
-----------------------------------------------------------------------------
(* The multiplexers that a file describes: the nodes that are right.       *)

MadeNodes ==
  {nodes \in Seq(KF!MuxNode) :
     Len(nodes) <= MaxMux /\ \A m \in 1..Len(nodes) : KF!ApplyMuxConfig(nodes[m])}

LEMMA AddMuxLemma ==
  ASSUME NEW made \in MadeNodes, NEW node \in KF!MuxNode
  PROVE  KF!AddMux(made, node) \in MadeNodes
<1>1. made \in Seq(KF!MuxNode) /\ Len(made) \in Nat /\ Len(made) <= MaxMux
      /\ \A m \in 1..Len(made) : KF!ApplyMuxConfig(made[m])
  BY LenProperties DEF MadeNodes
<1>2. MaxMux \in Nat
  BY MultiplexersAssumption DEF KF!KitFileAssumption
<1>3. ASSUME Len(made) < MaxMux, KF!ApplyMuxConfig(node)
      PROVE  Append(made, node) \in MadeNodes
  <2> DEFINE r == Append(made, node)
  <2>1. /\ r \in Seq(KF!MuxNode) /\ Len(r) = Len(made) + 1
        /\ \A m \in 1..Len(made) : r[m] = made[m]
        /\ r[Len(made) + 1] = node
    BY <1>1, AppendProperties
  <2> HIDE DEF r
  <2>2. Len(r) <= MaxMux
    BY <1>1, <1>2, <1>3, <2>1
  <2>3. \A m \in 1..Len(r) : m \in 1..Len(made) \/ m = Len(made) + 1
    BY <1>1, <2>1
  <2>4. \A m \in 1..Len(r) : KF!ApplyMuxConfig(r[m])
    BY <1>1, <1>3, <2>1, <2>3
  <2>5. r \in MadeNodes
    BY <2>1, <2>2, <2>4 DEF MadeNodes
  <2> QED
    BY <2>5 DEF r
<1> QED
  BY <1>3 DEF KF!AddMux

(* The first elements of a sequence. *)
LEMMA PrefixLemma ==
  ASSUME NEW X, NEW seq \in Seq(X)
  PROVE  /\ SubSeq(seq, 1, 0) = <<>> /\ SubSeq(seq, 1, Len(seq)) = seq
         /\ \A i \in 1..Len(seq) :
              /\ SubSeq(seq, 1, i - 1) \in Seq(X) /\ Len(SubSeq(seq, 1, i - 1)) = i - 1
              /\ \A j \in 1..(i - 1) : SubSeq(seq, 1, i - 1)[j] = seq[j]
              /\ Append(SubSeq(seq, 1, i - 1), seq[i]) = SubSeq(seq, 1, i)
<1>1. Len(seq) \in Nat /\ DOMAIN seq = 1..Len(seq) /\ seq = [j \in 1..Len(seq) |-> seq[j]]
  BY LenProperties
<1>2. SubSeq(seq, 1, 0) = <<>>
  <2>1. SubSeq(seq, 1, 0) = [j \in 1..0 |-> seq[j + 1 - 1]]
    BY <1>1
  <2>2. 1..0 = {}
    OBVIOUS
  <2> QED
    BY <2>1, <2>2
<1>3. SubSeq(seq, 1, Len(seq)) = seq
  BY <1>1
<1>4. ASSUME NEW i \in 1..Len(seq)
      PROVE  /\ SubSeq(seq, 1, i - 1) \in Seq(X) /\ Len(SubSeq(seq, 1, i - 1)) = i - 1
             /\ \A j \in 1..(i - 1) : SubSeq(seq, 1, i - 1)[j] = seq[j]
             /\ Append(SubSeq(seq, 1, i - 1), seq[i]) = SubSeq(seq, 1, i)
  BY <1>1, <1>4, SubSeqProperties
<1> QED
  BY <1>2, <1>3, <1>4

LEMMA MuxNodesLemma ==
  ASSUME NEW nodes \in Seq(KF!MuxNode)
  PROVE  /\ KF!MuxNodes(nodes) \in MadeNodes
         /\ nodes \in MadeNodes => KF!MuxNodes(nodes) = nodes
<1> DEFINE n == Len(nodes)
           Is(iter) == iter = [s \in SUBSET (1..n) |->
             IF s = {} THEN <<>> ELSE KF!AddMux(iter[s \ {KF!Max(s)}], nodes[KF!Max(s)])]
           made == CHOOSE iter : Is(iter)
           step == [x \in MadeNodes \X (1..n) |-> KF!AddMux(x[1], nodes[x[2]])]
<1>1. /\ n \in Nat /\ DOMAIN nodes = 1..n /\ \A i \in 1..n : nodes[i] \in KF!MuxNode
  BY ElementOfSeq, LenProperties
<1>0. /\ SubSeq(nodes, 1, 0) = <<>> /\ SubSeq(nodes, 1, Len(nodes)) = nodes
      /\ \A i \in 1..Len(nodes) :
           /\ SubSeq(nodes, 1, i - 1) \in Seq(KF!MuxNode) /\ Len(SubSeq(nodes, 1, i - 1)) = i - 1
           /\ \A j \in 1..(i - 1) : SubSeq(nodes, 1, i - 1)[j] = nodes[j]
           /\ Append(SubSeq(nodes, 1, i - 1), nodes[i]) = SubSeq(nodes, 1, i)
  BY PrefixLemma, Zenon
<1>2. KF!MuxNodes(nodes) = made[1..n]
  BY <1>1 DEF KF!MuxNodes, KF!FoldLeft, KF!MapThenFoldSet
<1>3. <<>> \in MadeNodes
  BY MultiplexersAssumption DEF KF!KitFileAssumption, MadeNodes
<1>4. step \in StepFunctions(MadeNodes, n)
  BY <1>1, AddMuxLemma DEF StepFunctions
<1>5. \E iter : Is(iter)
  <2>1. PICK iter \in [SUBSET (1..n) -> MadeNodes] :
          \A s \in SUBSET (1..n) : iter[s] = StepFold(<<>>, step, iter, s)
    <3> HIDE DEF step, n
    <3>1. n \in Nat
      BY <1>1
    <3>2. HasStepFold(MadeNodes, <<>>, n, step)
      BY <1>3, <1>4, <3>1, StepFoldExists
    <3> QED
      BY <3>2 DEF HasStepFold
  <2>2. ASSUME NEW s \in SUBSET (1..n), s # {}
        PROVE  iter[s] = KF!AddMux(iter[s \ {KF!Max(s)}], nodes[KF!Max(s)])
    <3>1. KF!Max(s) \in 1..n
      <4>1. Max(s) \in s
        BY <1>1, <2>2, MaxLemma
      <4> QED
        BY <4>1 DEF Max, KF!Max
    <3>2. iter[s \ {KF!Max(s)}] \in MadeNodes
      OBVIOUS
    <3>3. iter[s] = step[<<iter[s \ {KF!Max(s)}], KF!Max(s)>>]
      BY <2>1, <2>2 DEF StepFold
    <3> QED
      BY <3>1, <3>2, <3>3
  <2>3. iter[{}] = <<>>
    BY <2>1 DEF StepFold
  <2>4. Is(iter)
    <3> HIDE DEF n
    <3> QED
      BY <2>2, <2>3
  <2> HIDE DEF Is
  <2> QED
    BY <2>4
<1>6. Is(made)
  <2> HIDE DEF Is
  <2> QED
    BY <1>5, Zenon
<1> HIDE DEF made, step
<1>7. made[{}] = <<>>
  BY <1>6
<1>8. ASSUME NEW i \in 1..n
      PROVE  made[1..i] = KF!AddMux(made[1..(i - 1)], nodes[i])
  <2>1. 1..i \in SUBSET (1..n) /\ 1..i # {}
    <3>1. i \in 1..i /\ \A j \in 1..i : j \in 1..n
      <4> HIDE DEF n
      <4> QED
        BY <1>1
    <3> QED
      BY <3>1
  <2>2. KF!Max(1..i) = i /\ (1..i) \ {i} = 1..(i - 1)
    BY <1>1, LastOf
  <2> HIDE DEF n
  <2> QED
    BY <1>6, <2>1, <2>2
<1>9. made[1..n] \in MadeNodes
  <2> DEFINE Inv == [i \in Nat |-> MadeNodes]
  <2>1. made[{}] \in Inv[0]
    BY <1>3, <1>7
  <2>2. \A i \in 1..n : made[1..(i - 1)] \in Inv[i - 1] => made[1..i] \in Inv[i]
    <3>1. \A i \in 1..n : Inv[i] = MadeNodes /\ Inv[i - 1] = MadeNodes
      BY <1>1
    <3> HIDE DEF Inv
    <3> QED
      BY <1>1, <1>8, <3>1, AddMuxLemma
  <2>3. made[1..n] \in Inv[n]
    <3> HIDE DEF Inv, n
    <3> QED
      BY <1>1, <2>1, <2>2, FoldedValues
  <2> QED
    BY <1>1, <2>3
<1>10. ASSUME nodes \in MadeNodes
       PROVE  made[1..n] = nodes
  <2> DEFINE Inv == [i \in 0..n |-> {SubSeq(nodes, 1, i)}]
  <2>1. made[{}] \in Inv[0]
    BY <1>0, <1>1, <1>7
  <2>2. ASSUME NEW i \in 1..n, made[1..(i - 1)] \in Inv[i - 1]
        PROVE  made[1..i] \in Inv[i]
    <3>1. made[1..(i - 1)] = SubSeq(nodes, 1, i - 1) /\ i \in 0..n /\ i - 1 \in Nat
      BY <1>1, <2>2
    <3>2. /\ Len(SubSeq(nodes, 1, i - 1)) = i - 1
          /\ Append(SubSeq(nodes, 1, i - 1), nodes[i]) = SubSeq(nodes, 1, i)
      BY <1>0
    <3>3. i - 1 < MaxMux /\ KF!ApplyMuxConfig(nodes[i])
      <4>1. n <= MaxMux /\ MaxMux \in Nat
        BY <1>10, MultiplexersAssumption DEF MadeNodes, KF!KitFileAssumption
      <4> QED
        BY <1>1, <1>10, <4>1 DEF MadeNodes
    <3>4. made[1..i] = SubSeq(nodes, 1, i)
      BY <1>8, <3>1, <3>2, <3>3 DEF KF!AddMux
    <3> QED
      BY <3>1, <3>4
  <2>3. made[1..n] \in Inv[n]
    <3> HIDE DEF Inv, n
    <3> QED
      BY <1>1, <2>1, <2>2, FoldedValues
  <2>4. Inv[n] = {nodes}
    BY <1>0, <1>1
  <2> QED
    BY <2>3, <2>4
<1> QED
  BY <1>2, <1>9, <1>10
-----------------------------------------------------------------------------
(* The connectors that a file describes, given the multiplexers: each has  *)
(* an id of its own, and pins that are there.                              *)

PinsOf(ms) ==
  {pins \in Seq(KF!Pin) :
     Len(pins) <= KF!MaxPins /\ \A p \in 1..Len(pins) : KF!IsPinValid(ms, pins[p])}

ConnectorOn(ms) == [id : STRING, pins : PinsOf(ms)]

MadeConnectors(ms) ==
  {cs \in Seq(ConnectorOn(ms)) :
     /\ Len(cs) <= MaxConnectors
     /\ \A c, d \in 1..Len(cs) : c # d => cs[c].id # cs[d].id}

LEMMA PinsLemma ==
  ASSUME NEW ms, NEW pins \in Seq(KF!Pin)
  PROVE  /\ KF!ApplyPinsConfig(ms, pins) \in PinsOf(ms)
         /\ pins \in PinsOf(ms) => KF!ApplyPinsConfig(ms, pins) = pins
<1> DEFINE n == IF Len(pins) < KF!MaxPins THEN Len(pins) ELSE KF!MaxPins
           used == SubSeq(pins, 1, n)
<1>1. Len(pins) \in Nat /\ n \in 0..Len(pins) /\ n <= KF!MaxPins /\ KF!MaxPins = 3
  BY LenProperties DEF KF!MaxPins
<1>2. used \in Seq(KF!Pin) /\ Len(used) = n /\ DOMAIN used = 1..n
  <2> HIDE DEF n
  <2>1. used \in Seq(KF!Pin) /\ Len(used) = n
    BY <1>1, SubSeqProperties
  <2> QED
    BY <2>1, LenProperties
<1>3. KF!ApplyPinsConfig(ms, pins)
        = IF \A p \in DOMAIN used : KF!IsPinValid(ms, used[p]) THEN used ELSE <<>>
  BY DEF KF!ApplyPinsConfig
<1>4. <<>> \in PinsOf(ms)
  BY DEF PinsOf, KF!MaxPins
<1>5. (\A p \in DOMAIN used : KF!IsPinValid(ms, used[p])) => used \in PinsOf(ms)
  <2> HIDE DEF used, n
  <2> QED
    BY <1>1, <1>2 DEF PinsOf
<1>6. ASSUME pins \in PinsOf(ms)
      PROVE  used = pins /\ \A p \in DOMAIN used : KF!IsPinValid(ms, used[p])
  <2>1. n = Len(pins)
    <3>1. Len(pins) <= KF!MaxPins
      BY <1>6 DEF PinsOf
    <3> QED
      BY <1>1, <3>1
  <2>2. used = pins
    <3>1. SubSeq(pins, 1, Len(pins)) = pins
      BY PrefixLemma
    <3> HIDE DEF n
    <3> QED
      BY <2>1, <3>1
  <2> HIDE DEF used, n
  <2> QED
    BY <1>2, <1>6, <2>1, <2>2 DEF PinsOf
<1> HIDE DEF used
<1> QED
  BY <1>3, <1>4, <1>5, <1>6

LEMMA AddConnectorLemma ==
  ASSUME NEW ms, NEW made \in MadeConnectors(ms), NEW node \in KF!ConnectorNode
  PROVE  KF!AddConnector(ms, made, node) \in MadeConnectors(ms)
<1> DEFINE new == [id |-> node.id, pins |-> KF!ApplyPinsConfig(ms, node.pins)]
           r == Append(made, new)
<1>1. /\ made \in Seq(ConnectorOn(ms)) /\ Len(made) \in Nat /\ DOMAIN made = 1..Len(made)
      /\ Len(made) <= MaxConnectors
      /\ \A c, d \in 1..Len(made) : c # d => made[c].id # made[d].id
  BY LenProperties DEF MadeConnectors
<1>2. MaxConnectors \in Nat
  BY MultiplexersAssumption DEF KF!KitFileAssumption
<1>3. new \in ConnectorOn(ms)
  BY PinsLemma DEF KF!ConnectorNode, ConnectorOn
<1>4. new.id = node.id
  OBVIOUS
<1> HIDE DEF new
<1>5. ASSUME Len(made) < MaxConnectors, \A c \in 1..Len(made) : made[c].id # node.id
      PROVE  r \in MadeConnectors(ms)
  <2>1. /\ r \in Seq(ConnectorOn(ms)) /\ Len(r) = Len(made) + 1
        /\ \A m \in 1..Len(made) : r[m] = made[m]
        /\ r[Len(made) + 1] = new
    BY <1>1, <1>3, AppendProperties
  <2> HIDE DEF r
  <2>2. Len(r) <= MaxConnectors
    BY <1>1, <1>2, <1>5, <2>1
  <2>3. \A c \in 1..Len(r) : c \in 1..Len(made) \/ c = Len(made) + 1
    BY <1>1, <2>1
  <2>4. ASSUME NEW c \in 1..Len(r), NEW d \in 1..Len(r), c # d
        PROVE  r[c].id # r[d].id
    <3>1. CASE c \in 1..Len(made) /\ d \in 1..Len(made)
      BY <1>1, <2>1, <2>4, <3>1
    <3>2. CASE c \in 1..Len(made) /\ d = Len(made) + 1
      BY <1>4, <1>5, <2>1, <3>2
    <3>3. CASE c = Len(made) + 1 /\ d \in 1..Len(made)
      BY <1>4, <1>5, <2>1, <3>3
    <3> QED
      BY <2>3, <2>4, <3>1, <3>2, <3>3
  <2> QED
    BY <2>1, <2>2, <2>4 DEF MadeConnectors
<1>6. CASE Len(made) >= MaxConnectors \/ \E c \in DOMAIN made : made[c].id = node.id
  BY <1>6 DEF KF!AddConnector
<1>7. CASE ~(Len(made) >= MaxConnectors \/ \E c \in DOMAIN made : made[c].id = node.id)
  <2>1. Len(made) < MaxConnectors /\ \A c \in 1..Len(made) : made[c].id # node.id
    BY <1>1, <1>2, <1>7
  <2>2. KF!AddConnector(ms, made, node) = r
    BY <1>7 DEF KF!AddConnector, new
  <2> HIDE DEF r
  <2> QED
    BY <1>5, <2>1, <2>2
<1> QED
  BY <1>6, <1>7

LEMMA AddConnectorsLemma ==
  ASSUME NEW ms, NEW nodes \in Seq(KF!ConnectorNode)
  PROVE  /\ KF!AddConnectors(ms, nodes) \in MadeConnectors(ms)
         /\ nodes \in MadeConnectors(ms) => KF!AddConnectors(ms, nodes) = nodes
<1> DEFINE n == Len(nodes)
           Is(iter) == iter = [s \in SUBSET (1..n) |->
             IF s = {} THEN <<>>
             ELSE KF!AddConnector(ms, iter[s \ {KF!Max(s)}], nodes[KF!Max(s)])]
           made == CHOOSE iter : Is(iter)
           step == [x \in MadeConnectors(ms) \X (1..n) |->
                      KF!AddConnector(ms, x[1], nodes[x[2]])]
<1>0. /\ SubSeq(nodes, 1, 0) = <<>> /\ SubSeq(nodes, 1, Len(nodes)) = nodes
      /\ \A i \in 1..Len(nodes) :
           /\ SubSeq(nodes, 1, i - 1) \in Seq(KF!ConnectorNode)
           /\ Len(SubSeq(nodes, 1, i - 1)) = i - 1
           /\ \A j \in 1..(i - 1) : SubSeq(nodes, 1, i - 1)[j] = nodes[j]
           /\ Append(SubSeq(nodes, 1, i - 1), nodes[i]) = SubSeq(nodes, 1, i)
  BY PrefixLemma, Zenon
<1>1. /\ n \in Nat /\ DOMAIN nodes = 1..n /\ \A i \in 1..n : nodes[i] \in KF!ConnectorNode
  BY ElementOfSeq, LenProperties
<1>2. KF!AddConnectors(ms, nodes) = made[1..n]
  BY <1>1 DEF KF!AddConnectors, KF!FoldLeft, KF!MapThenFoldSet
<1>3. <<>> \in MadeConnectors(ms)
  BY MultiplexersAssumption DEF KF!KitFileAssumption, MadeConnectors
<1>4. step \in StepFunctions(MadeConnectors(ms), n)
  BY <1>1, AddConnectorLemma DEF StepFunctions
<1>5. \E iter : Is(iter)
  <2>1. PICK iter \in [SUBSET (1..n) -> MadeConnectors(ms)] :
          \A s \in SUBSET (1..n) : iter[s] = StepFold(<<>>, step, iter, s)
    <3> HIDE DEF step, n
    <3>1. n \in Nat
      BY <1>1
    <3>2. HasStepFold(MadeConnectors(ms), <<>>, n, step)
      BY <1>3, <1>4, <3>1, StepFoldExists
    <3> QED
      BY <3>2 DEF HasStepFold
  <2>2. ASSUME NEW s \in SUBSET (1..n), s # {}
        PROVE  iter[s] = KF!AddConnector(ms, iter[s \ {KF!Max(s)}], nodes[KF!Max(s)])
    <3>1. KF!Max(s) \in 1..n
      <4>1. Max(s) \in s
        BY <1>1, <2>2, MaxLemma
      <4> QED
        BY <4>1 DEF Max, KF!Max
    <3>2. iter[s \ {KF!Max(s)}] \in MadeConnectors(ms)
      OBVIOUS
    <3>3. iter[s] = step[<<iter[s \ {KF!Max(s)}], KF!Max(s)>>]
      BY <2>1, <2>2 DEF StepFold
    <3> QED
      BY <3>1, <3>2, <3>3
  <2>3. iter[{}] = <<>>
    BY <2>1 DEF StepFold
  <2>4. Is(iter)
    <3> HIDE DEF n
    <3> QED
      BY <2>2, <2>3
  <2> HIDE DEF Is
  <2> QED
    BY <2>4
<1>6. Is(made)
  <2> HIDE DEF Is
  <2> QED
    BY <1>5, Zenon
<1> HIDE DEF made, step
<1>7. made[{}] = <<>>
  BY <1>6
<1>8. ASSUME NEW i \in 1..n
      PROVE  made[1..i] = KF!AddConnector(ms, made[1..(i - 1)], nodes[i])
  <2>1. 1..i \in SUBSET (1..n) /\ 1..i # {}
    <3>1. i \in 1..i /\ \A j \in 1..i : j \in 1..n
      <4> HIDE DEF n
      <4> QED
        BY <1>1
    <3> QED
      BY <3>1
  <2>2. KF!Max(1..i) = i /\ (1..i) \ {i} = 1..(i - 1)
    BY <1>1, LastOf
  <2> HIDE DEF n
  <2> QED
    BY <1>6, <2>1, <2>2
<1>9. made[1..n] \in MadeConnectors(ms)
  <2> DEFINE Inv == [i \in Nat |-> MadeConnectors(ms)]
  <2>1. made[{}] \in Inv[0]
    BY <1>3, <1>7
  <2>2. \A i \in 1..n : made[1..(i - 1)] \in Inv[i - 1] => made[1..i] \in Inv[i]
    <3>1. \A i \in 1..n : Inv[i] = MadeConnectors(ms) /\ Inv[i - 1] = MadeConnectors(ms)
      BY <1>1
    <3> HIDE DEF Inv
    <3> QED
      BY <1>1, <1>8, <3>1, AddConnectorLemma
  <2>3. made[1..n] \in Inv[n]
    <3> HIDE DEF Inv, n
    <3> QED
      BY <1>1, <2>1, <2>2, FoldedValues
  <2> QED
    BY <1>1, <2>3
<1>10. ASSUME nodes \in MadeConnectors(ms)
       PROVE  made[1..n] = nodes
  <2> DEFINE Inv == [i \in 0..n |-> {SubSeq(nodes, 1, i)}]
  <2>1. made[{}] \in Inv[0]
    BY <1>0, <1>1, <1>7
  <2>2. ASSUME NEW i \in 1..n, made[1..(i - 1)] \in Inv[i - 1]
        PROVE  made[1..i] \in Inv[i]
    <3> DEFINE before == SubSeq(nodes, 1, i - 1)
    <3>1. made[1..(i - 1)] = before /\ i \in 0..n /\ i - 1 \in Nat
      BY <1>1, <2>2
    <3>2. /\ Len(before) = i - 1 /\ DOMAIN before = 1..(i - 1)
          /\ \A j \in 1..(i - 1) : before[j] = nodes[j]
          /\ Append(before, nodes[i]) = SubSeq(nodes, 1, i)
      BY <1>0, LenProperties
    <3> HIDE DEF before
    <3>3. i - 1 < MaxConnectors
      <4>1. n <= MaxConnectors /\ MaxConnectors \in Nat
        BY <1>10, MultiplexersAssumption DEF MadeConnectors, KF!KitFileAssumption
      <4> QED
        BY <1>1, <4>1
    <3>4. \A c \in DOMAIN before : before[c].id # nodes[i].id
      <4>1. ASSUME NEW c \in 1..(i - 1)
            PROVE  nodes[c].id # nodes[i].id
        <5>1. c \in 1..n /\ c # i
          <6> HIDE DEF n
          <6> QED
            BY <1>1
        <5> QED
          BY <1>10, <5>1 DEF MadeConnectors
      <4> QED
        BY <3>2, <4>1
    <3>5. /\ nodes[i] = [id |-> nodes[i].id, pins |-> nodes[i].pins]
          /\ KF!ApplyPinsConfig(ms, nodes[i].pins) = nodes[i].pins
      <4>1. nodes[i] \in ConnectorOn(ms)
        BY <1>1, <1>10, ElementOfSeq DEF MadeConnectors
      <4>2. nodes[i].pins \in PinsOf(ms) /\ nodes[i].pins \in Seq(KF!Pin)
        BY <4>1 DEF ConnectorOn, PinsOf
      <4> QED
        BY <4>1, <4>2, PinsLemma DEF ConnectorOn
    <3>6. KF!AddConnector(ms, before, nodes[i]) = Append(before, nodes[i])
      <4>1. ~(Len(before) >= MaxConnectors)
        BY <1>1, <3>1, <3>2, <3>3, MultiplexersAssumption DEF KF!KitFileAssumption
      <4>2. KF!AddConnector(ms, before, nodes[i])
              = Append(before, [id |-> nodes[i].id, pins |-> nodes[i].pins])
        BY <3>4, <3>5, <4>1 DEF KF!AddConnector
      <4> QED
        BY <3>5, <4>2
    <3>7. made[1..i] = SubSeq(nodes, 1, i)
      BY <1>8, <3>1, <3>2, <3>6
    <3> QED
      BY <3>1, <3>7
  <2>3. made[1..n] \in Inv[n]
    <3> HIDE DEF Inv, n
    <3> QED
      BY <1>1, <2>1, <2>2, FoldedValues
  <2>4. Inv[n] = {nodes}
    BY <1>0, <1>1
  <2> QED
    BY <2>3, <2>4
<1> QED
  BY <1>2, <1>9, <1>10
-----------------------------------------------------------------------------
(* The kits that are made of a file.                                       *)

FileNodes == [muxes : Seq(KF!MuxNode), connectors : Seq(KF!ConnectorNode)]

MuxOfKit ==
  [type : DOMAIN KF!SelectPins, select : Seq(0..KF!Unused), analogIn : 0..KF!Unused,
   enable : 0..KF!Unused, initialized : BOOLEAN]

(* A multiplexer that was made: the fourth select line tells its type. *)
IsMade(mux) ==
  /\ mux \in MuxOfKit
  /\ Len(mux.select) \in {3, 4} /\ (Len(mux.select) = 4 => mux.type = "HC4067")
  /\ mux.analogIn # KF!Unused
  /\ mux.initialized <=> /\ mux.analogIn \in AnalogPins
                         /\ mux.enable \in DigitalPins \cup {KF!Unused}
                         /\ KF!Range(mux.select) \subseteq DigitalPins

MadeMuxes(ms) ==
  /\ ms \in Seq(MuxOfKit) /\ Len(ms) <= MaxMux
  /\ \A m \in 1..Len(ms) : IsMade(ms[m])

IsMadeKit(k) ==
  /\ k = [muxes |-> k.muxes, connectors |-> k.connectors]
  /\ MadeMuxes(k.muxes)
  /\ k.connectors \in MadeConnectors(k.muxes)

(* Whether a pin is there depends on the select lines only. *)
LEMMA SameConnectors ==
  ASSUME NEW a, NEW b, Len(a) = Len(b), Len(a) \in Nat,
         \A m \in 1..Len(a) : a[m].select = b[m].select
  PROVE  MadeConnectors(a) = MadeConnectors(b)
<1>1. ASSUME NEW pin \in KF!Pin
      PROVE  KF!IsPinValid(a, pin) <=> KF!IsPinValid(b, pin)
  <2>1. pin.mux \in Nat
    <3>1. pin.mux \in 0..255
      BY DEF KF!Pin, KF!Unused
    <3>2. \A x \in 0..255 : x \in Nat
      OBVIOUS
    <3> QED
      BY <3>1, <3>2, Zenon
  <2>2. CASE pin.mux = KF!Unused
    BY <2>2 DEF KF!IsPinValid
  <2>3. CASE pin.mux # KF!Unused
    <3>1. CASE pin.mux < Len(a)
      <4>1. pin.mux + 1 \in 1..Len(a)
        BY <2>1, <3>1
      <4>2. KF!ChannelCount(a[pin.mux + 1]) = KF!ChannelCount(b[pin.mux + 1])
        BY <4>1 DEF KF!ChannelCount
      <4> QED
        BY <2>3, <4>2 DEF KF!IsPinValid
    <3>2. CASE ~(pin.mux < Len(a))
      BY <2>3, <3>2 DEF KF!IsPinValid
    <3> QED
      BY <3>1, <3>2
  <2> QED
    BY <2>2, <2>3
<1>2. PinsOf(a) = PinsOf(b)
  <2>1. ASSUME NEW pins \in Seq(KF!Pin)
        PROVE  (\A p \in 1..Len(pins) : KF!IsPinValid(a, pins[p]))
                 <=> (\A p \in 1..Len(pins) : KF!IsPinValid(b, pins[p]))
    <3>1. \A p \in 1..Len(pins) : pins[p] \in KF!Pin
      BY ElementOfSeq
    <3> QED
      BY <1>1, <3>1
  <2> QED
    BY <2>1 DEF PinsOf
<1>3. ConnectorOn(a) = ConnectorOn(b)
  BY <1>2 DEF ConnectorOn
<1> QED
  BY <1>3 DEF MadeConnectors

LEMMA InitMuxLemma ==
  ASSUME NEW node \in KF!MuxNode, KF!ApplyMuxConfig(node),
         NEW type \in DOMAIN KF!SelectPins
  PROVE  /\ IsMade(KF!InitMux(node, type))
         /\ KF!InitMux(node, type).select = node.select
         /\ KF!InitMux(node, type).enable = node.enable
<1> DEFINE mux == KF!InitMux(node, type)
<1>1. /\ mux.type = IF node.type = "HC4051" THEN type ELSE node.type
      /\ mux.select = node.select /\ mux.analogIn = node.analogIn
      /\ mux.enable = node.enable /\ mux.initialized \in BOOLEAN
      /\ mux.initialized <=> /\ mux.analogIn \in AnalogPins
                             /\ mux.enable \in DigitalPins \cup {KF!Unused}
                             /\ KF!Range(mux.select) \subseteq DigitalPins
      /\ mux = [type |-> mux.type, select |-> mux.select, analogIn |-> mux.analogIn,
                enable |-> mux.enable, initialized |-> mux.initialized]
  BY DEF KF!InitMux
<1>2. /\ node.select \in Seq(0..KF!Unused) /\ node.analogIn \in 0..KF!Unused
      /\ node.enable \in 0..KF!Unused
  BY DEF KF!MuxNode
<1>3. DOMAIN KF!SelectPins = {"HC4051", "HC4067"}
      /\ KF!SelectPins["HC4051"] = 3 /\ KF!SelectPins["HC4067"] = 4
  BY DEF KF!SelectPins
<1>4. /\ node.type \in {"HC4051", "HC4067"} /\ node.analogIn # KF!Unused
      /\ node.type = "HC4051" => Len(node.select) = 3
      /\ node.type = "HC4067" => Len(node.select) = 4
  BY <1>3 DEF KF!ApplyMuxConfig
<1>5. /\ Len(mux.select) \in {3, 4} /\ (Len(mux.select) = 4 => mux.type = "HC4067")
      /\ mux.type \in {"HC4051", "HC4067"}
  BY <1>1, <1>3, <1>4
<1> HIDE DEF mux
<1>6. mux \in MuxOfKit
  BY <1>1, <1>2, <1>3, <1>5 DEF MuxOfKit
<1>7. IsMade(mux)
  BY <1>1, <1>4, <1>5, <1>6 DEF IsMade
<1> QED
  BY <1>1, <1>7 DEF mux

(* A kit of a file is made of the nodes that are right. *)
LEMMA KitOfFile ==
  ASSUME NEW f \in FileNodes, NEW k \in KF!KitsOf(f)
  PROVE  /\ IsMadeKit(k)
         /\ LET nodes == KF!MuxNodes(f.muxes)
            IN /\ nodes \in MadeNodes /\ Len(nodes) = Len(k.muxes)
               /\ \A m \in 1..Len(nodes) :
                    /\ k.muxes[m].select = nodes[m].select
                    /\ k.muxes[m].enable = nodes[m].enable
<1> DEFINE nodes == KF!MuxNodes(f.muxes)
           ms(types) == [m \in DOMAIN nodes |-> KF!InitMux(nodes[m], types[m])]
<1>1. PICK types \in [DOMAIN nodes -> DOMAIN KF!SelectPins] :
        k = [muxes |-> ms(types), connectors |-> KF!AddConnectors(nodes, f.connectors)]
  BY DEF KF!KitsOf
<1>2. nodes \in MadeNodes
  BY MuxNodesLemma DEF FileNodes
<1> HIDE DEF nodes
<1>3. /\ nodes \in Seq(KF!MuxNode) /\ Len(nodes) \in Nat /\ DOMAIN nodes = 1..Len(nodes)
      /\ Len(nodes) <= MaxMux
      /\ \A m \in 1..Len(nodes) : nodes[m] \in KF!MuxNode /\ KF!ApplyMuxConfig(nodes[m])
  BY <1>2, ElementOfSeq, LenProperties DEF MadeNodes
<1>4. ASSUME NEW m \in 1..Len(nodes)
      PROVE  /\ IsMade(KF!InitMux(nodes[m], types[m]))
             /\ KF!InitMux(nodes[m], types[m]).select = nodes[m].select
             /\ KF!InitMux(nodes[m], types[m]).enable = nodes[m].enable
  <2>1. types[m] \in DOMAIN KF!SelectPins
    BY <1>3
  <2> QED
    BY <1>3, <2>1, InitMuxLemma
<1>5. k.muxes = [m \in 1..Len(nodes) |-> KF!InitMux(nodes[m], types[m])]
  BY <1>1, <1>3
<1>6. \A m \in 1..Len(nodes) : KF!InitMux(nodes[m], types[m]) \in MuxOfKit
  BY <1>4 DEF IsMade
<1>7. k.muxes \in Seq(MuxOfKit) /\ Len(k.muxes) = Len(nodes)
  BY <1>3, <1>5, <1>6, IsASeq, LenProperties
<1>8. \A m \in 1..Len(nodes) : /\ IsMade(k.muxes[m]) /\ k.muxes[m].select = nodes[m].select
                               /\ k.muxes[m].enable = nodes[m].enable
  BY <1>4, <1>5
<1>9. k.connectors \in MadeConnectors(k.muxes)
  <2>1. k.connectors \in MadeConnectors(nodes)
    BY <1>1, AddConnectorsLemma DEF FileNodes
  <2>2. MadeConnectors(nodes) = MadeConnectors(k.muxes)
    BY <1>3, <1>7, <1>8, SameConnectors
  <2> QED
    BY <2>1, <2>2
<1>10. k = [muxes |-> k.muxes, connectors |-> k.connectors]
  BY <1>1
<1> QED
  BY <1>2, <1>3, <1>7, <1>8, <1>9, <1>10 DEF IsMadeKit, MadeMuxes, nodes
-----------------------------------------------------------------------------
(* Saving a kit and making one of the file.                                *)

Written(k) ==
  [muxes |-> [m \in DOMAIN k.muxes |-> KF!ConvertMux(k.muxes[m])],
   connectors |-> [c \in DOMAIN k.connectors |-> KF!ConvertConnector(k.connectors[c])]]

(* A connector is written as it is. *)
LEMMA WrittenConnectors ==
  ASSUME NEW ms, NEW cs \in MadeConnectors(ms)
  PROVE  /\ cs \in Seq(KF!ConnectorNode)
         /\ [c \in DOMAIN cs |-> KF!ConvertConnector(cs[c])] = cs
<1>1. /\ cs \in Seq(ConnectorOn(ms)) /\ Len(cs) \in Nat /\ DOMAIN cs = 1..Len(cs)
      /\ cs = [c \in 1..Len(cs) |-> cs[c]]
      /\ \A c \in 1..Len(cs) : cs[c] \in ConnectorOn(ms)
  BY ElementOfSeq, LenProperties DEF MadeConnectors
<1>2. ASSUME NEW c \in ConnectorOn(ms)
      PROVE  c \in KF!ConnectorNode /\ KF!ConvertConnector(c) = c
  <2>1. /\ c = [id |-> c.id, pins |-> c.pins] /\ c.id \in STRING
        /\ c.pins \in Seq(KF!Pin)
    BY DEF ConnectorOn, PinsOf
  <2>2. [p \in DOMAIN c.pins |-> KF!ConvertPin(c.pins[p])] = c.pins
    <3>1. c.pins = [p \in DOMAIN c.pins |-> c.pins[p]]
      BY <2>1, LenProperties
    <3> QED
      BY <3>1 DEF KF!ConvertPin
  <2> QED
    BY <2>1, <2>2 DEF KF!ConvertConnector, KF!ConnectorNode
<1>3. \A c \in 1..Len(cs) : cs[c] \in KF!ConnectorNode
  BY <1>1, <1>2
<1>4. cs \in Seq(KF!ConnectorNode)
  BY <1>1, <1>3, IsASeq
<1>5. [c \in 1..Len(cs) |-> KF!ConvertConnector(cs[c])] = [c \in 1..Len(cs) |-> cs[c]]
  BY <1>1, <1>2
<1> QED
  BY <1>1, <1>4, <1>5

LEMMA WrittenNodes ==
  ASSUME NEW k, IsMadeKit(k)
  PROVE  /\ Written(k) \in FileNodes /\ Written(k).connectors = k.connectors
         /\ Written(k).muxes = [m \in 1..Len(k.muxes) |-> KF!ConvertMux(k.muxes[m])]
         /\ Len(Written(k).muxes) = Len(k.muxes)
         /\ Len(k.muxes) \in Nat
<1>1. /\ k.muxes \in Seq(MuxOfKit) /\ Len(k.muxes) \in Nat /\ DOMAIN k.muxes = 1..Len(k.muxes)
      /\ \A m \in 1..Len(k.muxes) : k.muxes[m] \in MuxOfKit
  BY ElementOfSeq, LenProperties DEF IsMadeKit, MadeMuxes
<1>2. ASSUME NEW mux \in MuxOfKit
      PROVE  KF!ConvertMux(mux) \in KF!MuxNode
  BY DEF KF!ConvertMux, KF!MuxNode, MuxOfKit
<1> DEFINE ms == [m \in 1..Len(k.muxes) |-> KF!ConvertMux(k.muxes[m])]
<1>3. ms \in Seq(KF!MuxNode) /\ DOMAIN ms = 1..Len(k.muxes)
  BY <1>1, <1>2, IsASeq
<1>4. Len(ms) = Len(k.muxes)
  BY <1>1, <1>3, LenProperties
<1>5. Written(k) = [muxes |-> ms, connectors |-> k.connectors]
      /\ k.connectors \in Seq(KF!ConnectorNode)
  BY <1>1, WrittenConnectors DEF Written, IsMadeKit
<1> HIDE DEF ms
<1>6. Written(k) \in FileNodes
  BY <1>3, <1>5 DEF FileNodes
<1> QED
  BY <1>1, <1>4, <1>5, <1>6 DEF ms

(* What was written of a kit without an HC4051 makes that kit again, and   *)
(* no other.                                                               *)
LEMMA KitComesBack ==
  ASSUME NEW k, IsMadeKit(k), \A m \in DOMAIN k.muxes : Len(k.muxes[m].select) = 4
  PROVE  KF!KitsOf(Written(k)) = {k}
<1> DEFINE f == Written(k)
           n == Len(k.muxes)
<1>1. /\ f \in FileNodes /\ f.connectors = k.connectors /\ Len(f.muxes) = n /\ n \in Nat
      /\ f.muxes = [m \in 1..n |-> KF!ConvertMux(k.muxes[m])] /\ DOMAIN f.muxes = 1..n
  BY WrittenNodes
<1>2. /\ DOMAIN k.muxes = 1..n /\ k.muxes = [m \in 1..n |-> k.muxes[m]] /\ n <= MaxMux
      /\ \A m \in 1..n : IsMade(k.muxes[m]) /\ Len(k.muxes[m].select) = 4
      /\ k = [muxes |-> k.muxes, connectors |-> k.connectors]
  BY LenProperties DEF IsMadeKit, MadeMuxes
<1> HIDE DEF f, n
<1>3. ASSUME NEW m \in 1..n
      PROVE  /\ KF!ApplyMuxConfig(f.muxes[m]) /\ f.muxes[m].select = k.muxes[m].select
             /\ \A t : KF!InitMux(f.muxes[m], t) = k.muxes[m]
  <2> DEFINE mux == k.muxes[m]
             node == KF!ConvertMux(mux)
  <2>1. /\ mux \in MuxOfKit /\ mux.type = "HC4067" /\ Len(mux.select) = 4
        /\ mux.analogIn # KF!Unused
        /\ mux.initialized <=> /\ mux.analogIn \in AnalogPins
                               /\ mux.enable \in DigitalPins \cup {KF!Unused}
                               /\ KF!Range(mux.select) \subseteq DigitalPins
    BY <1>2 DEF IsMade
  <2>2. mux = [type |-> mux.type, select |-> mux.select, analogIn |-> mux.analogIn,
               enable |-> mux.enable, initialized |-> mux.initialized]
        /\ mux.initialized \in BOOLEAN
    BY <2>1 DEF MuxOfKit
  <2> HIDE DEF mux
  <2>3. /\ node.type = "HC4067" /\ node.select = mux.select /\ node.analogIn = mux.analogIn
        /\ node.enable = mux.enable
    BY <2>1 DEF KF!ConvertMux
  <2> HIDE DEF node
  <2>4. KF!ApplyMuxConfig(node)
    BY <2>1, <2>3 DEF KF!ApplyMuxConfig, KF!SelectPins
  <2>5. ASSUME NEW t
        PROVE  KF!InitMux(node, t) = mux
    <3> DEFINE b == /\ node.analogIn \in AnalogPins
                    /\ node.enable \in DigitalPins \cup {KF!Unused}
                    /\ KF!Range(node.select) \subseteq DigitalPins
    <3>1. KF!InitMux(node, t) = [type |-> mux.type, select |-> mux.select,
             analogIn |-> mux.analogIn, enable |-> mux.enable, initialized |-> b]
      <4>1. (IF node.type = "HC4051" THEN t ELSE node.type) = mux.type
        BY <2>1, <2>3
      <4> QED
        BY <2>3, <4>1 DEF KF!InitMux
    <3>2. b = mux.initialized
      <4>1. b <=> mux.initialized
        BY <2>1, <2>3
      <4>2. b \in BOOLEAN
        OBVIOUS
      <4> HIDE DEF b
      <4> QED
        BY <2>2, <4>1, <4>2
    <3> QED
      BY <2>2, <3>1, <3>2
  <2> QED
    BY <1>1, <2>3, <2>4, <2>5 DEF node, mux
<1>4. f.muxes \in MadeNodes
  BY <1>1, <1>2, <1>3 DEF MadeNodes, FileNodes
<1>5. KF!MuxNodes(f.muxes) = f.muxes
  BY <1>1, <1>4, MuxNodesLemma DEF FileNodes
<1>6. KF!AddConnectors(f.muxes, f.connectors) = k.connectors
  <2>1. k.connectors \in MadeConnectors(f.muxes)
    <3>1. MadeConnectors(k.muxes) = MadeConnectors(f.muxes)
      BY <1>1, <1>3, SameConnectors DEF n
    <3> QED
      BY <3>1 DEF IsMadeKit
  <2> QED
    BY <1>1, <2>1, AddConnectorsLemma DEF FileNodes
<1> DEFINE T == [DOMAIN f.muxes -> DOMAIN KF!SelectPins]
           made(t) == [muxes |-> [m \in DOMAIN f.muxes |-> KF!InitMux(f.muxes[m], t[m])],
                      connectors |-> KF!AddConnectors(f.muxes, f.connectors)]
<1>7. KF!KitsOf(f) = {made(t) : t \in T}
  BY <1>5 DEF KF!KitsOf
<1>8. ASSUME NEW t
      PROVE  made(t) = k
  <2>1. [m \in DOMAIN f.muxes |-> KF!InitMux(f.muxes[m], t[m])] = [m \in 1..n |-> k.muxes[m]]
    BY <1>1, <1>3
  <2> QED
    BY <1>2, <1>6, <2>1
<1>9. \E t : t \in T
  <2>1. [m \in DOMAIN f.muxes |-> "HC4067"] \in T
    BY DEF KF!SelectPins
  <2> QED
    BY <2>1
<1> HIDE DEF made, T
<1>10. KF!KitsOf(f) = {k}
  BY <1>7, <1>8, <1>9
<1> QED
  BY <1>10 DEF f
-----------------------------------------------------------------------------
(* Reading the multiplexers.                                               *)

(* A number below 16 is the sum of its bits. *)
LEMMA Bits ==
  ASSUME NEW c \in Nat, NEW bits \in {3, 4}, c < 2 ^ bits
  PROVE  c = (IF (c \div 2 ^ 0) % 2 = 1 THEN 2 ^ 0 ELSE 0)
           + (IF (c \div 2 ^ 1) % 2 = 1 THEN 2 ^ 1 ELSE 0)
           + (IF (c \div 2 ^ 2) % 2 = 1 THEN 2 ^ 2 ELSE 0)
           + (IF bits = 4 /\ (c \div 2 ^ 3) % 2 = 1 THEN 2 ^ 3 ELSE 0)
<1>1. 2 ^ 0 = 1 /\ 2 ^ 1 = 2 /\ 2 ^ 2 = 4 /\ 2 ^ 3 = 8 /\ 2 ^ 4 = 16
  BY SMT
<1>2. CASE bits = 3
  <2>1. c < 8
    BY <1>1, <1>2
  <2>2. c = (IF (c \div 1) % 2 = 1 THEN 1 ELSE 0) + (IF (c \div 2) % 2 = 1 THEN 2 ELSE 0)
           + (IF (c \div 4) % 2 = 1 THEN 4 ELSE 0)
    BY <2>1
  <2> QED
    BY <1>1, <1>2, <2>2
<1>3. CASE bits = 4
  <2>1. c < 16
    BY <1>1, <1>3
  <2>2. c = (IF (c \div 1) % 2 = 1 THEN 1 ELSE 0) + (IF (c \div 2) % 2 = 1 THEN 2 ELSE 0)
           + (IF (c \div 4) % 2 = 1 THEN 4 ELSE 0) + (IF (c \div 8) % 2 = 1 THEN 8 ELSE 0)
    BY <2>1
  <2> QED
    BY <1>1, <1>3, <2>2
<1> QED
  BY <1>2, <1>3

(* The select lines tell the channel, and the multiplexer is enabled, if   *)
(* its lines are different ones.                                           *)
LEMMA SelectedLemma ==
  ASSUME NEW mux, IsMade(mux), KF!IsInjective(mux.select),
         mux.enable \notin KF!Range(mux.select), NEW high,
         NEW c \in 0..(KF!ChannelCount(mux) - 1)
  PROVE  LET during == KF!SetMuxEnabled(mux, TRUE, KF!SelectChannel(mux, c, high))
         IN KF!Selected(mux, during) = c /\ KF!IsEnabled(mux, during)
<1> DEFINE during == KF!SetMuxEnabled(mux, TRUE, KF!SelectChannel(mux, c, high))
           n == Len(mux.select)
           on(i) == (c \div 2 ^ (i - 1)) % 2 = 1
<1>1. n \in {3, 4} /\ DOMAIN mux.select = 1..n
  BY LenProperties DEF IsMade, MuxOfKit
<1>2. c \in Nat /\ c < 2 ^ n
  <2>1. KF!ChannelCount(mux) = 2 ^ n
    BY DEF KF!ChannelCount
  <2>2. 2 ^ 3 \in Nat /\ 2 ^ 4 \in Nat
    BY SMT
  <2> HIDE DEF n
  <2> QED
    BY <1>1, <2>1, <2>2
<1> HIDE DEF n
<1>3. ASSUME NEW i \in 1..n
      PROVE  mux.select[i] \in during <=> on(i)
  <2>1. mux.select[i] \in KF!Range(mux.select)
    BY <1>1 DEF KF!Range
  <2>2. mux.select[i] # mux.enable
    BY <2>1
  <2>3. \A j \in 1..n : mux.select[j] = mux.select[i] => j = i
    BY <1>1 DEF KF!IsInjective
  <2>4. mux.select[i] \in KF!SelectChannel(mux, c, high) <=> on(i)
    <3> HIDE DEF on
    <3>1. KF!SelectChannel(mux, c, high)
            = (high \ KF!Range(mux.select)) \cup {mux.select[j] : j \in {k \in 1..n : on(k)}}
      BY <1>1 DEF KF!SelectChannel, on
    <3> QED
      BY <2>1, <2>3, <3>1
  <2> HIDE DEF on
  <2> QED
    BY <2>2, <2>4 DEF KF!SetMuxEnabled
<1>4. KF!IsEnabled(mux, during)
  BY DEF KF!IsEnabled, KF!SetMuxEnabled
<1> HIDE DEF during
<1> DEFINE weight(i) == 2 ^ (i - 1)
           bit(i) == IF i <= n /\ mux.select[i] \in during THEN weight(i) ELSE 0
<1>5. KF!Selected(mux, during) = bit(1) + bit(2) + bit(3) + bit(4)
  BY DEF KF!Selected, n
<1>6. /\ bit(1) = IF (c \div 2 ^ 0) % 2 = 1 THEN 2 ^ 0 ELSE 0
      /\ bit(2) = IF (c \div 2 ^ 1) % 2 = 1 THEN 2 ^ 1 ELSE 0
      /\ bit(3) = IF (c \div 2 ^ 2) % 2 = 1 THEN 2 ^ 2 ELSE 0
      /\ bit(4) = IF n = 4 /\ (c \div 2 ^ 3) % 2 = 1 THEN 2 ^ 3 ELSE 0
  <2>1. /\ 1 \in 1..n /\ 2 \in 1..n /\ 3 \in 1..n /\ (4 <= n <=> n = 4)
        /\ n = 4 => 4 \in 1..n
    BY <1>1
  <2>2. 1 - 1 = 0 /\ 2 - 1 = 1 /\ 3 - 1 = 2 /\ 4 - 1 = 3
    OBVIOUS
  <2>3. /\ on(1) <=> (c \div 2 ^ 0) % 2 = 1
        /\ on(2) <=> (c \div 2 ^ 1) % 2 = 1
        /\ on(3) <=> (c \div 2 ^ 2) % 2 = 1
        /\ on(4) <=> (c \div 2 ^ 3) % 2 = 1
    BY <2>2
  <2>4. weight(1) = 2 ^ 0 /\ weight(2) = 2 ^ 1 /\ weight(3) = 2 ^ 2 /\ weight(4) = 2 ^ 3
    BY <2>2
  <2>5. 1 <= n /\ 2 <= n /\ 3 <= n
    BY <1>1
  <2> HIDE DEF on, weight
  <2>6. /\ bit(1) = IF on(1) THEN weight(1) ELSE 0
        /\ bit(2) = IF on(2) THEN weight(2) ELSE 0
        /\ bit(3) = IF on(3) THEN weight(3) ELSE 0
        /\ bit(4) = IF n = 4 /\ on(4) THEN weight(4) ELSE 0
    BY <1>3, <2>1, <2>5
  <2> HIDE DEF bit
  <2> QED
    BY <2>3, <2>4, <2>6
<1>7. c = (IF (c \div 2 ^ 0) % 2 = 1 THEN 2 ^ 0 ELSE 0)
        + (IF (c \div 2 ^ 1) % 2 = 1 THEN 2 ^ 1 ELSE 0)
        + (IF (c \div 2 ^ 2) % 2 = 1 THEN 2 ^ 2 ELSE 0)
        + (IF n = 4 /\ (c \div 2 ^ 3) % 2 = 1 THEN 2 ^ 3 ELSE 0)
  BY <1>1, <1>2, Bits
<1> HIDE DEF bit
<1>8. KF!Selected(mux, during) = c
  BY <1>5, <1>6, <1>7
<1> QED
  BY <1>4, <1>8 DEF during
(* The enable lines are high while no channel is read, but for those that  *)
(* the multiplexer whose turn it is selects with, after its first channel. *)
AreOff(ms, at, high) ==
  \A n \in DOMAIN ms :
    /\ ms[n].enable \in DigitalPins
    /\ at[2] = 0 \/ ms[n].enable \notin KF!Range(ms[at[1]].select)
    => ms[n].enable \in high

(* There is a channel to be read next, if there is a multiplexer. *)
AtChannel(ms, at) ==
  ms # <<>> => /\ at[1] \in DOMAIN ms
               /\ at[2] \in 0..(KF!ChannelCount(ms[at[1]]) - 1)
               /\ ~ms[at[1]].initialized => at[2] = 0

IsBuffer(ms, buffer) == buffer = [m \in DOMAIN ms |-> buffer[m]]

(* The next channel is one of this or of the next multiplexer. *)
LEMMA NextPositionLemma ==
  ASSUME MadeMuxes(muxes), muxes # <<>>, AtChannel(muxes, position)
  PROVE  LET next == KF!NextPosition(position[1], position[2])
             mux == muxes[position[1]]
         IN /\ AtChannel(muxes, next)
            /\ next[2] # 0 => next[1] = position[1]
            /\ mux.initialized /\ next[2] = 0 => position[2] = KF!ChannelCount(mux) - 1
<1> DEFINE m == position[1]
           c == position[2]
           n == Len(muxes)
<1>1. /\ n \in Nat /\ DOMAIN muxes = 1..n /\ n # 0
      /\ \A i \in 1..n : IsMade(muxes[i])
  <2>1. n \in Nat /\ DOMAIN muxes = 1..n /\ (n = 0 => muxes = <<>>)
    BY LenProperties, EmptySeq DEF MadeMuxes
  <2> QED
    BY <2>1 DEF MadeMuxes
<1>2. \A i \in 1..n : KF!ChannelCount(muxes[i]) \in Nat \ {0}
  <2>1. \A i \in 1..n : Len(muxes[i].select) \in {3, 4}
    BY <1>1 DEF IsMade
  <2>2. 2 ^ 3 \in Nat \ {0} /\ 2 ^ 4 \in Nat \ {0}
    BY SMT
  <2>3. \A b \in {3, 4} : 2 ^ b \in Nat \ {0}
    BY <2>2, Zenon
  <2> QED
    BY <2>1, <2>3 DEF KF!ChannelCount
<1>3. m \in 1..n /\ c \in 0..(KF!ChannelCount(muxes[m]) - 1)
  BY <1>1 DEF AtChannel
<1> HIDE DEF m, c, n
<1>4. CASE muxes[m].initialized /\ c + 1 < KF!ChannelCount(muxes[m])
  <2>1. c + 1 \in 0..(KF!ChannelCount(muxes[m]) - 1)
    <3> DEFINE count == KF!ChannelCount(muxes[m])
    <3>1. count \in Nat /\ c \in 0..(count - 1) /\ c + 1 < count
      BY <1>2, <1>3, <1>4
    <3> HIDE DEF count
    <3>2. c + 1 \in 0..(count - 1)
      BY <3>1
    <3> QED
      BY <3>2 DEF count
  <2>2. KF!NextPosition(m, c) = <<m, c + 1>> /\ c + 1 # 0
    BY <1>3, <1>4 DEF KF!NextPosition
  <2> QED
    BY <1>1, <1>3, <1>4, <2>1, <2>2 DEF AtChannel, m, c
<1>5. CASE ~(muxes[m].initialized /\ c + 1 < KF!ChannelCount(muxes[m]))
  <2> DEFINE i == 1 + (m % n)
  <2>1. i \in 1..n
    BY <1>1, <1>3
  <2>2. KF!NextPosition(m, c) = <<i, 0>>
    BY <1>5 DEF KF!NextPosition, n
  <2> HIDE DEF i
  <2>3. 0 \in 0..(KF!ChannelCount(muxes[i]) - 1)
    <3> DEFINE count == KF!ChannelCount(muxes[i])
    <3>1. count \in Nat \ {0}
      BY <1>2, <2>1
    <3> HIDE DEF count
    <3>2. 0 \in 0..(count - 1)
      BY <3>1
    <3> QED
      BY <3>2 DEF count
  <2>4. muxes[m].initialized => c = KF!ChannelCount(muxes[m]) - 1
    <3> DEFINE count == KF!ChannelCount(muxes[m])
    <3>1. count \in Nat /\ c \in 0..(count - 1)
      BY <1>2, <1>3
    <3>2. muxes[m].initialized => ~(c + 1 < count)
      BY <1>5
    <3> HIDE DEF count
    <3>3. muxes[m].initialized => c = count - 1
      BY <3>1, <3>2
    <3> QED
      BY <3>3 DEF count
  <2> QED
    BY <1>1, <2>1, <2>2, <2>3, <2>4 DEF AtChannel, m, c
<1> QED
  BY <1>4, <1>5

(* All select lines are high on the last channel. *)
LEMMA LastChannel ==
  ASSUME NEW mux, IsMade(mux), NEW high
  PROVE  KF!Range(mux.select)
           \subseteq KF!SelectChannel(mux, KF!ChannelCount(mux) - 1, high)
<1> DEFINE n == Len(mux.select)
           c == KF!ChannelCount(mux) - 1
           on(i) == (c \div 2 ^ (i - 1)) % 2 = 1
<1>1. n \in {3, 4} /\ DOMAIN mux.select = 1..n
  BY LenProperties DEF IsMade, MuxOfKit
<1>2. c = 2 ^ n - 1
  BY DEF KF!ChannelCount
<1> HIDE DEF n, c
<1>3. ASSUME NEW i \in 1..n
      PROVE  on(i)
  <2>1. 2 ^ 0 = 1 /\ 2 ^ 1 = 2 /\ 2 ^ 2 = 4 /\ 2 ^ 3 = 8 /\ 2 ^ 4 = 16
    BY SMT
  <2>2. n = 3 => c = 7
    BY <1>2, <2>1
  <2>3. n = 4 => c = 15
    BY <1>2, <2>1
  <2>4. \A w \in {1, 2, 4} : (7 \div w) % 2 = 1 /\ (15 \div w) % 2 = 1
    OBVIOUS
  <2>5. (15 \div 8) % 2 = 1
    OBVIOUS
  <2>6. /\ i \in {1, 2, 3, 4} /\ (n = 3 => i \in {1, 2, 3})
        /\ i = 1 => i - 1 = 0
        /\ i = 2 => i - 1 = 1
        /\ i = 3 => i - 1 = 2
        /\ i = 4 => i - 1 = 3
    BY <1>1
  <2> DEFINE w == 2 ^ (i - 1)
  <2>7. /\ i = 1 => w = 1
        /\ i = 2 => w = 2
        /\ i = 3 => w = 4
        /\ i = 4 => w = 8
    BY <2>1, <2>6
  <2> HIDE DEF w
  <2>8. (c \div w) % 2 = 1
    <3>1. w \in {1, 2, 4, 8} /\ (n = 3 => w \in {1, 2, 4})
      BY <2>6, <2>7
    <3>2. CASE n = 3
      BY <2>2, <2>4, <3>1, <3>2
    <3>3. CASE n = 4
      BY <2>3, <2>4, <2>5, <3>1, <3>3
    <3> QED
      BY <1>1, <3>2, <3>3
  <2> QED
    BY <2>8 DEF w
<1> HIDE DEF on
<1>4. KF!SelectChannel(mux, c, high)
        = (high \ KF!Range(mux.select)) \cup {mux.select[j] : j \in {k \in 1..n : on(k)}}
  BY <1>1 DEF KF!SelectChannel, on
<1>5. KF!Range(mux.select) = {mux.select[j] : j \in 1..n}
  BY <1>1 DEF KF!Range
<1> QED
  BY <1>3, <1>4, <1>5 DEF c

(* Reading a channel of a multiplexer with lines of its own reads only it. *)
LEMMA ReadLemma ==
  ASSUME MadeMuxes(muxes), AreOff(muxes, position, level), NEW m \in DOMAIN muxes,
         m = position[1], KF!IsWired(m), NEW c \in 0..(KF!ChannelCount(muxes[m]) - 1)
  PROVE  LET mux == muxes[m]
             during == KF!SetMuxEnabled(mux, TRUE, KF!SelectChannel(mux, c, level))
         IN KF!ReadAnalogInPin(mux.analogIn, during) = {<<m, c>>}
<1> DEFINE mux == muxes[m]
           during == KF!SetMuxEnabled(mux, TRUE, KF!SelectChannel(mux, c, level))
           drives == {n \in DOMAIN muxes :
                        muxes[n].analogIn = mux.analogIn /\ KF!IsEnabled(muxes[n], during)}
<1>1. IsMade(mux)
  BY LenProperties DEF MadeMuxes
<1>2. KF!Selected(mux, during) = c /\ KF!IsEnabled(mux, during)
  BY <1>1, SelectedLemma DEF KF!IsWired
<1>3. ASSUME NEW n \in DOMAIN muxes, n # m, muxes[n].analogIn = mux.analogIn
      PROVE  ~KF!IsEnabled(muxes[n], during)
  <2>1. /\ muxes[n].enable \in DigitalPins \ {mux.enable}
        /\ muxes[n].enable \notin KF!Range(mux.select)
    BY <1>3 DEF KF!IsWired
  <2>2. muxes[n].enable \in level
    BY <1>3, <2>1 DEF AreOff
  <2>3. muxes[n].enable \in during
    BY <2>1, <2>2 DEF KF!SetMuxEnabled, KF!SelectChannel
  <2>4. muxes[n].enable # KF!Unused
    <3>1. KF!Unused \notin DigitalPins
      <4>1. DigitalPins \subseteq 0..254
        BY MultiplexersAssumption DEF KF!KitFileAssumption, KF!Unused
      <4> QED
        BY <4>1 DEF KF!Unused
    <3> QED
      BY <2>1, <3>1
  <2> QED
    BY <2>3, <2>4 DEF KF!IsEnabled
<1>4. drives = {m}
  <2> HIDE DEF during
  <2> QED
    BY <1>2, <1>3
<1> HIDE DEF during
<1>5. KF!ReadAnalogInPin(mux.analogIn, during)
        = {<<n, KF!Selected(muxes[n], during)>> : n \in drives}
  BY DEF KF!ReadAnalogInPin
<1> HIDE DEF drives
<1>6. KF!ReadAnalogInPin(mux.analogIn, during) = {<<m, c>>}
  BY <1>2, <1>4, <1>5
<1> QED
  BY <1>6 DEF during
-----------------------------------------------------------------------------
(* The invariant: the kit was made of a file, what is saved is what was    *)
(* written, and the multiplexers are off.  That one selects with the       *)
(* enable line of another does not matter after its last channel, which    *)
(* leaves its select lines high.                                           *)

KitFileInv ==
  /\ config \in FileNodes
  /\ IsMadeKit([muxes |-> muxes, connectors |-> connectors])
  /\ savedKit # KF!NoKit => IsMadeKit(savedKit) /\ config = Written(savedKit)
  /\ AreOff(muxes, position, level) /\ AtChannel(muxes, position)
  /\ IsBuffer(muxes, channelBuffer)
  /\ KF!ChannelsAreReadAlone

(* What a start leaves. *)
LEMMA LoadedLemma ==
  ASSUME NEW f \in FileNodes, NEW k \in KF!KitsOf(f), NEW ms, NEW cs, NEW high, NEW at,
         NEW buffer, KF!IsLoaded(f, k, ms, cs, high, at, buffer)
  PROVE  /\ IsMadeKit([muxes |-> ms, connectors |-> cs])
         /\ AreOff(ms, at, high) /\ AtChannel(ms, at) /\ IsBuffer(ms, buffer)
         /\ \A m \in DOMAIN ms : buffer[m] = <<>>
<1> DEFINE nodes == KF!MuxNodes(f.muxes)
<1>1. /\ ms = k.muxes /\ cs = k.connectors /\ at = <<1, 0>>
      /\ high = UNION {KF!InitLevels(node) : node \in KF!Range(nodes)}
      /\ buffer = [m \in DOMAIN ms |-> <<>>]
  BY DEF KF!IsLoaded
<1>2. /\ IsMadeKit(k) /\ nodes \in MadeNodes /\ Len(nodes) = Len(ms)
      /\ \A m \in 1..Len(nodes) :
           ms[m].select = nodes[m].select /\ ms[m].enable = nodes[m].enable
  BY <1>1, KitOfFile
<1> HIDE DEF nodes
<1>3. IsMadeKit([muxes |-> ms, connectors |-> cs]) /\ MadeMuxes(ms)
  BY <1>1, <1>2 DEF IsMadeKit
<1>4. /\ DOMAIN ms = 1..Len(ms) /\ DOMAIN nodes = 1..Len(ms) /\ Len(ms) \in Nat
      /\ Len(ms) = 0 => ms = <<>>
  BY <1>2, <1>3, LenProperties, EmptySeq DEF MadeMuxes, MadeNodes
<1>5. AreOff(ms, at, high)
  <2> SUFFICES ASSUME NEW m \in DOMAIN ms, ms[m].enable \in DigitalPins
               PROVE  ms[m].enable \in high
    BY DEF AreOff
  <2>1. nodes[m] \in KF!Range(nodes)
    BY <1>4 DEF KF!Range
  <2>2. ms[m].enable \in KF!InitLevels(nodes[m])
    BY <1>2, <1>4 DEF KF!InitLevels
  <2> QED
    BY <1>1, <2>1, <2>2
<1>6. AtChannel(ms, at)
  <2> SUFFICES ASSUME ms # <<>>
               PROVE  1 \in DOMAIN ms /\ 0 \in 0..(KF!ChannelCount(ms[1]) - 1)
    BY <1>1 DEF AtChannel
  <2>1. 1 \in DOMAIN ms
    BY <1>4
  <2>2. Len(ms[1].select) \in {3, 4}
    BY <1>3, <1>4, <2>1 DEF MadeMuxes, IsMade
  <2>3. \A b \in {3, 4} : 2 ^ b \in Nat \ {0}
    <3>1. 2 ^ 3 \in Nat \ {0} /\ 2 ^ 4 \in Nat \ {0}
      BY SMT
    <3> QED
      BY <3>1, Zenon
  <2>4. KF!ChannelCount(ms[1]) \in Nat \ {0}
    BY <2>2, <2>3 DEF KF!ChannelCount
  <2> QED
    BY <2>1, <2>4
<1>7. IsBuffer(ms, buffer) /\ \A m \in DOMAIN ms : buffer[m] = <<>>
  BY <1>1 DEF IsBuffer
<1> QED
  BY <1>3, <1>5, <1>6, <1>7

LEMMA FilesAreNodes == Files \subseteq FileNodes
  BY MultiplexersAssumption DEF KF!KitFileAssumption, FileNodes

LEMMA KitFileInvInit == KF!Init => KitFileInv
<1> SUFFICES ASSUME KF!Init PROVE KitFileInv
  OBVIOUS
<1>1. config \in FileNodes /\ savedKit = KF!NoKit
  BY FilesAreNodes DEF KF!Init
<1>2. PICK k \in KF!KitsOf(config) :
        KF!IsLoaded(config, k, muxes, connectors, level, position, channelBuffer)
  BY DEF KF!Init
<1>3. /\ IsMadeKit([muxes |-> muxes, connectors |-> connectors])
      /\ AreOff(muxes, position, level) /\ AtChannel(muxes, position)
      /\ IsBuffer(muxes, channelBuffer)
      /\ \A m \in DOMAIN muxes : channelBuffer[m] = <<>>
  BY <1>1, <1>2, LoadedLemma
<1>4. KF!ChannelsAreReadAlone
  <2>1. \A m \in DOMAIN muxes : DOMAIN channelBuffer[m] = {}
    BY <1>3
  <2> QED
    BY <2>1 DEF KF!ChannelsAreReadAlone
<1> QED
  BY <1>1, <1>3, <1>4 DEF KitFileInv

LEMMA RestartKeepsKitFileInv ==
  ASSUME KitFileInv, KF!Restart
  PROVE  KitFileInv'
<1>1. config \in FileNodes /\ config' = config /\ savedKit' = savedKit
  BY DEF KitFileInv, KF!Restart
<1>2. PICK k \in KF!KitsOf(config) :
        KF!IsLoaded(config, k, muxes', connectors', level', position', channelBuffer')
  BY DEF KF!Restart
<1>3. /\ IsMadeKit([muxes |-> muxes', connectors |-> connectors'])
      /\ AreOff(muxes', position', level') /\ AtChannel(muxes', position')
      /\ IsBuffer(muxes', channelBuffer')
      /\ \A m \in DOMAIN muxes' : channelBuffer'[m] = <<>>
  BY <1>1, <1>2, LoadedLemma
<1>4. KF!ChannelsAreReadAlone'
  <2>1. \A m \in DOMAIN muxes' : DOMAIN channelBuffer'[m] = {}
    BY <1>3
  <2> QED
    BY <2>1 DEF KF!ChannelsAreReadAlone
<1>5. savedKit # KF!NoKit => IsMadeKit(savedKit) /\ config = Written(savedKit)
  BY DEF KitFileInv
<1> QED
  BY <1>1, <1>3, <1>4, <1>5 DEF KitFileInv

LEMMA SaveKeepsKitFileInv ==
  ASSUME KitFileInv, KF!SaveDrumKitConfig \/ KF!Upload
  PROVE  KitFileInv'
<1>1. UNCHANGED <<muxes, connectors, level, position, channelBuffer>>
  BY DEF KF!SaveDrumKitConfig, KF!Upload, KF!kitVars
<1>2. KF!ChannelsAreReadAlone'
  BY <1>1 DEF KitFileInv, KF!ChannelsAreReadAlone, KF!IsWired
<1>3. /\ IsMadeKit([muxes |-> muxes, connectors |-> connectors])
      /\ AreOff(muxes, position, level) /\ AtChannel(muxes, position)
      /\ IsBuffer(muxes, channelBuffer)
  BY DEF KitFileInv
<1> DEFINE k == [muxes |-> muxes, connectors |-> connectors]
<1>4. CASE KF!SaveDrumKitConfig
  <2>1. config' = Written(k) /\ savedKit' = k
    BY <1>4 DEF KF!SaveDrumKitConfig, KF!GetConfig, Written
  <2>2. Written(k) \in FileNodes
    BY <1>3, WrittenNodes
  <2> HIDE DEF k
  <2>3. IsMadeKit(k)
    BY <1>3 DEF k
  <2> QED
    BY <1>1, <1>2, <1>3, <2>1, <2>2, <2>3 DEF KitFileInv
<1>5. CASE KF!Upload
  <2>1. config' \in FileNodes /\ savedKit' = KF!NoKit
    BY <1>5, FilesAreNodes DEF KF!Upload
  <2>2. KF!NoKit' = KF!NoKit
    BY DEF KF!NoKit
  <2> QED
    BY <1>1, <1>2, <1>3, <2>1, <2>2 DEF KitFileInv
<1> QED
  BY <1>4, <1>5
(* A channel is read, and the multiplexer is off again. *)
LEMMA ScanKeepsKitFileInv ==
  ASSUME KitFileInv, KF!ScanChannel
  PROVE  KitFileInv'
<1> DEFINE m == position[1]
           c == position[2]
           mux == muxes[m]
           during == KF!SetMuxEnabled(mux, TRUE, KF!SelectChannel(mux, c, level))
           read == KF!ReadAnalogInPin(mux.analogIn, during)
           after(b) == [d \in DOMAIN b \cup {c} |-> IF d = c THEN read ELSE b[d]]
<1>1. /\ muxes # <<>> /\ position' = KF!NextPosition(m, c)
      /\ UNCHANGED <<config, muxes, connectors, savedKit>>
      /\ \/ /\ mux.initialized
            /\ channelBuffer' = [channelBuffer EXCEPT ![m] = after(channelBuffer[m])]
            /\ level' = KF!AfterReading(mux, during)
         \/ ~mux.initialized /\ UNCHANGED <<channelBuffer, level>>
  BY DEF KF!ScanChannel, KF!kitVars
<1>2. /\ MadeMuxes(muxes) /\ AreOff(muxes, position, level) /\ AtChannel(muxes, position)
      /\ IsBuffer(muxes, channelBuffer) /\ KF!ChannelsAreReadAlone
  BY DEF KitFileInv, IsMadeKit
<1>3. m \in DOMAIN muxes /\ c \in 0..(KF!ChannelCount(mux) - 1)
  BY <1>1, <1>2 DEF AtChannel
<1>4. /\ AtChannel(muxes', position')
      /\ position'[2] # 0 => position'[1] = m
      /\ mux.initialized /\ position'[2] = 0 => c = KF!ChannelCount(mux) - 1
      /\ ~mux.initialized => c = 0
  BY <1>1, <1>2, NextPositionLemma DEF AtChannel
<1>5. KF!IsWired(m) => read = {<<m, c>>}
  BY <1>2, <1>3, ReadLemma
<1>6. \A n : KF!IsWired(n)' <=> KF!IsWired(n)
  BY <1>1 DEF KF!IsWired
<1>7. CASE ~mux.initialized
  <2>1. UNCHANGED <<channelBuffer, level>>
    BY <1>1, <1>7
  <2>2. KF!ChannelsAreReadAlone'
    BY <1>1, <1>2, <1>6, <2>1 DEF KF!ChannelsAreReadAlone
  <2>3. AreOff(muxes, position', level')
    BY <1>2, <1>4, <1>7, <2>1 DEF AreOff
  <2> QED
    BY <1>1, <1>2, <1>4, <2>1, <2>2, <2>3 DEF KitFileInv
<1>8. CASE mux.initialized
  <2>1. /\ channelBuffer' = [channelBuffer EXCEPT ![m] = after(channelBuffer[m])]
        /\ level' = KF!AfterReading(mux, during)
    BY <1>1, <1>8
  <2> HIDE DEF after
  <2>2. /\ IsBuffer(muxes', channelBuffer') /\ channelBuffer'[m] = after(channelBuffer[m])
        /\ \A n \in DOMAIN muxes : n # m => channelBuffer'[n] = channelBuffer[n]
    BY <1>1, <1>2, <1>3, <2>1 DEF IsBuffer
  <2>3. KF!ChannelsAreReadAlone'
    <3> SUFFICES ASSUME NEW n \in DOMAIN muxes, KF!IsWired(n),
                        NEW d \in DOMAIN channelBuffer'[n]
                 PROVE  channelBuffer'[n][d] = {<<n, d>>}
      BY <1>1, <1>6 DEF KF!ChannelsAreReadAlone
    <3>1. \A e \in DOMAIN channelBuffer[n] : channelBuffer[n][e] = {<<n, e>>}
      BY <1>2 DEF KF!ChannelsAreReadAlone
    <3>2. CASE n # m
      BY <2>2, <3>1, <3>2
    <3>3. CASE n = m
      <4> HIDE DEF m, c, read
      <4>1. d \in DOMAIN channelBuffer[m] \cup {c}
            /\ channelBuffer'[m][d] = IF d = c THEN read ELSE channelBuffer[m][d]
        BY <2>2, <3>3 DEF after
      <4> QED
        BY <1>5, <3>1, <3>3, <4>1
    <3> QED
      BY <3>2, <3>3
  <2>4. AreOff(muxes, position', level')
    <3> SUFFICES ASSUME NEW n \in DOMAIN muxes, muxes[n].enable \in DigitalPins,
                        \/ position'[2] = 0
                        \/ muxes[n].enable \notin KF!Range(muxes[position'[1]].select)
                 PROVE  muxes[n].enable \in level'
      BY DEF AreOff
    <3> DEFINE e == muxes[n].enable
    <3> HIDE DEF during, read, m, c
    <3>1. e \in KF!SelectChannel(mux, c, level)
      <4>1. CASE e \notin KF!Range(mux.select)
        <5>1. e \in level
          BY <1>2, <4>1 DEF AreOff, m
        <5> QED
          BY <4>1, <5>1 DEF KF!SelectChannel
      <4>2. CASE e \in KF!Range(mux.select)
        <5>1. position'[2] = 0
          BY <1>4, <4>2
        <5>2. c = KF!ChannelCount(mux) - 1
          BY <1>4, <1>8, <5>1
        <5>3. IsMade(mux)
          BY <1>2, <1>3, LenProperties DEF MadeMuxes
        <5> QED
          BY <4>2, <5>2, <5>3, LastChannel
      <4> QED
        BY <4>1, <4>2
    <3> QED
      BY <2>1, <3>1 DEF during, KF!AfterReading, KF!SetMuxEnabled
  <2> QED
    BY <1>1, <1>2, <1>4, <2>2, <2>3, <2>4 DEF KitFileInv
<1> QED
  BY <1>7, <1>8

LEMMA KitFileInvStuttering ==
  ASSUME KitFileInv, UNCHANGED KF!vars
  PROVE  KitFileInv'
<1>1. UNCHANGED <<config, muxes, connectors, level, position, channelBuffer, savedKit>>
  BY DEF KF!vars, KF!kitVars
<1>2. KF!ChannelsAreReadAlone'
  BY <1>1 DEF KitFileInv, KF!ChannelsAreReadAlone, KF!IsWired
<1> QED
  BY <1>1, <1>2 DEF KitFileInv, KF!NoKit

(* The multiplexers and connectors that were saved come back with their    *)
(* indexes (config_mux.cpp), and a channel of a multiplexer with lines of  *)
(* its own is read alone (drum_mux.cpp:81), for every file and board.      *)
THEOREM MultiplexersAreAlwaysKept == KF!Spec => []MultiplexersAreKept
<1>1. KF!Init => KitFileInv
  BY KitFileInvInit
<1>2. KitFileInv /\ [KF!Next]_(KF!vars) => KitFileInv'
  BY RestartKeepsKitFileInv, SaveKeepsKitFileInv, ScanKeepsKitFileInv,
     KitFileInvStuttering DEF KF!Next
<1>3. KitFileInv => MultiplexersAreKept
  <2> SUFFICES ASSUME KitFileInv PROVE KF!SavedKitComesBack /\ KF!ChannelsAreReadAlone
    BY DEF MultiplexersAreKept
  <2>1. KF!SavedKitComesBack
    BY KitComesBack DEF KitFileInv, KF!SavedKitComesBack
  <2> QED
    BY <2>1 DEF KitFileInv
<1> QED
  BY <1>1, <1>2, <1>3, PTL DEF KF!Spec
=============================================================================
