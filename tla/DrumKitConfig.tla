---------------------------- MODULE DrumKitConfig ----------------------------
(***************************************************************************)
(* The configuration of the kit and its file: the pads and the mappings    *)
(* that they point at (drum_kit.h, config/), the commands of the page that *)
(* change, save and restore them (webui.cpp), restarts and power failures. *)
(*                                                                         *)
(* A mapping gives the notes of a role.  A pad does not look its role up   *)
(* when it is played: it keeps a pointer into the array of mappings, which *)
(* is deleted, refilled and extended while the pads change their roles.    *)
(*                                                                         *)
(* A mapping has one note, and of a pad only the role, the connector and   *)
(* the enabled flag are kept: other settings are stored as they are.  The  *)
(* file system is LittleFS, which keeps the old file until the new one is  *)
(* closed, so that a power failure finds one of them.                      *)
(***************************************************************************)
EXTENDS Integers, Sequences, SequencesExt

CONSTANTS
  Roles,
  Notes,
  MaxMappings,     (* size of the array, MAX_MAPPINGS_COUNT                 *)
  InitialFiles,    (* the configurations that the board may come with       *)
  PadMessages,     (* changes of some fields of a pad                       *)
  MappingMessages, (* mappings of one or more roles, in an order            *)
  Uploads          (* configurations, perhaps without some sections         *)

PadConfig == [role : Roles, isConnected : BOOLEAN, isEnabled : BOOLEAN]
MappingConfig == [role : Roles, note : Notes \cup {"unassigned", "absent"}]

(* Either section may be missing. *)
Configs ==
  {<<>>} \cup [pads : Seq(PadConfig)] \cup [mappings : Seq(MappingConfig)]
    \cup [pads : Seq(PadConfig), mappings : Seq(MappingConfig)]

ASSUME DrumKitConfigAssumption ==
  /\ MaxMappings \in Nat \ {0}
  /\ {"unassigned", "absent"} \cap Notes = {}
  /\ InitialFiles \cup Uploads \subseteq Configs
  /\ MappingMessages \subseteq Seq(MappingConfig)
  /\ \A m \in PadMessages :
       /\ "role" \in DOMAIN m.change => m.change.role \in Roles
       /\ "isConnected" \in DOMAIN m.change => m.change.isConnected \in BOOLEAN
       /\ "isEnabled" \in DOMAIN m.change => m.change.isEnabled \in BOOLEAN
       /\ "mappings" \notin DOMAIN m.change

VARIABLES
  pads,
  mappings,
  isConfigDirty,
  file,
  wereRolesShared, (* two pads had one role at some time since the restart  *)
                   (* (history variable)                                    *)
  fileHolds        (* what was saved or loaded, an upload, or not what was  *)
                   (* to be written (history variable)                      *)

kit == <<pads, mappings>>
vars == <<kit, isConfigDirty, file, wereRolesShared, fileHolds>>

None == 0

Pad == [role : Roles, isConnected : BOOLEAN, isEnabled : BOOLEAN,
        mappings : 0..MaxMappings]
Mapping == [role : Roles, note : Notes \cup {"unassigned"}]

-----------------------------------------------------------------------------
(* Mappings.                                                               *)

IndexOfRole(seq, role) ==
  SelectInSeq(seq, LAMBDA element : element.role = role)

GetMappings(m, role) == IndexOfRole(m, role)
GetPadByRole(p, role) == IndexOfRole(p, role)

(* The note of a role: absent ones stay, a null makes it unassigned. *)
ApplyMappings(note, value) == IF value = "absent" THEN note ELSE value

(* As it was or new, if there is room; otherwise it is not there.          *)
GetOrCreateMappings(m, role) ==
  IF GetMappings(m, role) # None \/ Len(m) >= MaxMappings THEN m
  ELSE Append(m, [role |-> role, note |-> "unassigned"])

(* A plausible slip: the first pad is not looked for. *)
ApplyRoleToNoPad(k, entry, replace) ==
  LET m == GetOrCreateMappings(k.mappings, entry.role)
      slot == GetMappings(m, entry.role)
      old == IF replace THEN "unassigned" ELSE m[slot].note
  IN IF slot = None THEN k
     ELSE [k EXCEPT !.mappings = [m EXCEPT ![slot].note = ApplyMappings(old, entry.note)]]

ApplyRole(k, entry, replace) ==
  LET m == GetOrCreateMappings(k.mappings, entry.role)
      slot == GetMappings(m, entry.role)
      old == IF replace THEN "unassigned" ELSE m[slot].note
      pad == GetPadByRole(k.pads, entry.role)
  IN IF slot = None THEN k
     ELSE [pads |-> IF pad = None THEN k.pads
                    ELSE [k.pads EXCEPT ![pad].mappings = slot],
           mappings |-> [m EXCEPT ![slot].note = ApplyMappings(old, entry.note)]]

ApplyDrumKitMappings(k, entries, replace) ==
  FoldLeft(LAMBDA so_far, entry : ApplyRole(so_far, entry, replace), k, entries)

(* A plausible slip: the pads still point into the array. *)
DeleteMappingsOnly(k) == [k EXCEPT !.mappings = <<>>]

DeleteAllMappings(k) ==
  [pads |-> [i \in DOMAIN k.pads |-> [k.pads[i] EXCEPT !.mappings = None]],
   mappings |-> <<>>]

-----------------------------------------------------------------------------
(* The file.                                                               *)

PadConfigs(k) ==
  [i \in DOMAIN k.pads |->
     [role |-> k.pads[i].role, isConnected |-> k.pads[i].isConnected,
      isEnabled |-> k.pads[i].isEnabled]]

MappingConfigs(m) ==
  [i \in DOMAIN m |->
     [role |-> m[i].role,
      note |-> IF m[i].note = "unassigned" THEN "absent" ELSE m[i].note]]

(* A plausible slip: only the mappings that some pad plays are written. *)
GetUsedConfigAsJson(k) ==
  [pads |-> PadConfigs(k),
   mappings |-> MappingConfigs(
     SelectSeq(k.mappings, LAMBDA entry : GetPadByRole(k.pads, entry.role) # None))]

(* What is written of the kit: an unassigned note is left out.             *)
GetDrumKitConfigAsJson(k) ==
  [pads |-> PadConfigs(k), mappings |-> MappingConfigs(k.mappings)]

(* A pad without a connector is disabled.                                  *)
ApplyPadConfig(config) ==
  [role |-> config.role, isConnected |-> config.isConnected,
   isEnabled |-> config.isEnabled /\ config.isConnected, mappings |-> None]

(* A section may be missing. *)
ApplyDrumKitConfig(config) ==
  LET added == [pads |-> IF "pads" \in DOMAIN config
                         THEN [i \in DOMAIN config.pads |-> ApplyPadConfig(config.pads[i])]
                         ELSE <<>>,
                mappings |-> <<>>]
  IN IF "mappings" \in DOMAIN config
     THEN ApplyDrumKitMappings(added, config.mappings, FALSE)
     ELSE added

(* The sections of the upload replace those of the kit. *)
Merge(config, upload) ==
  [section \in DOMAIN config |->
     IF section \in DOMAIN upload THEN upload[section] ELSE config[section]]

(* What fits into a full file system: the sections that come first.        *)
Cut(config) == {<<>>} \cup {[pads |-> config.pads]}

(* The file cannot be opened, is written, or is written in part, which is  *)
(* not noticed.                                                            *)
WriteDrumKitConfig(config, success, purpose) ==
  \/ ~success /\ fileHolds' = "less" /\ UNCHANGED file
  \/ success /\ fileHolds' = purpose /\ file' = config
  \/ success /\ fileHolds' = "less" /\ file' \in Cut(config)

-----------------------------------------------------------------------------

Kit == [pads |-> pads, mappings |-> mappings]

SetKit(k) ==
  /\ pads' = k.pads
  /\ mappings' = k.mappings

AreRolesShared(p) == \E i, j \in DOMAIN p : i # j /\ p[i].role = p[j].role

Init ==
  /\ file \in InitialFiles
  /\ pads = ApplyDrumKitConfig(file).pads
  /\ mappings = ApplyDrumKitConfig(file).mappings
  /\ wereRolesShared = AreRolesShared(pads)
  /\ isConfigDirty = FALSE
  /\ fileHolds = "kit"

(* At any time: for a restore, for an upload (a second after it, if the    *)
(* time of the reset does not wrap around to 0), or when the power was off. *)
Restart ==
  /\ SetKit(ApplyDrumKitConfig(file))
  /\ wereRolesShared' = AreRolesShared(pads')
  /\ isConfigDirty' = FALSE
  /\ fileHolds' = "kit"
  /\ UNCHANGED file

-----------------------------------------------------------------------------
(* The commands of the page.                                               *)

Change(pad, change) ==
  [field \in DOMAIN pad |->
     CASE field \in DOMAIN change -> change[field]
       [] field = "mappings" /\ "role" \in DOMAIN change -> GetMappings(mappings, change.role)
       [] OTHER -> pad[field]]

(* A message for an unknown pad is only logged. *)
HandleSetPadConfig(index, change) ==
  /\ index \in DOMAIN pads
  /\ pads' = [pads EXCEPT ![index] = Change(pads[index], change)]
  /\ isConfigDirty' = TRUE
  /\ wereRolesShared' = (wereRolesShared \/ AreRolesShared(pads'))
  /\ UNCHANGED <<mappings, file, fileHolds>>

(* size() - 1 is unsigned: a message without any role replaces all.        *)
ReplacesAll(entries, replace) == replace /\ Len(entries) \notin {1, 2}

HandleSetMappings(entries, replace) ==
  LET replaceAll == ReplacesAll(entries, replace)
      rest == IF replaceAll THEN DeleteAllMappings(Kit) ELSE Kit
  IN /\ SetKit(ApplyDrumKitMappings(rest, entries, replace /\ ~replaceAll))
     /\ isConfigDirty' = TRUE
     /\ UNCHANGED <<file, wereRolesShared, fileHolds>>

(* The kit stays what it was until the reset, and may be changed and saved. *)
HandleSetConfig(upload, success) ==
  /\ WriteDrumKitConfig(Merge(GetDrumKitConfigAsJson(Kit), upload), success, "upload")
  /\ isConfigDirty' = FALSE
  /\ UNCHANGED <<kit, wereRolesShared>>

HandleSaveConfig(success) ==
  /\ WriteDrumKitConfig(GetDrumKitConfigAsJson(Kit), success, "kit")
  /\ isConfigDirty' = FALSE
  /\ UNCHANGED <<kit, wereRolesShared>>

Next ==
  \/ \E m \in PadMessages : HandleSetPadConfig(m.index, m.change)
  \/ \E entries \in MappingMessages, replace \in BOOLEAN : HandleSetMappings(entries, replace)
  \/ \E upload \in Uploads, success \in BOOLEAN : HandleSetConfig(upload, success)
  \/ \E success \in BOOLEAN : HandleSaveConfig(success)
  \/ Restart

Spec == Init /\ [][Next]_vars

-----------------------------------------------------------------------------
(* Properties.                                                             *)

TypeOK ==
  /\ pads \in Seq(Pad)
  /\ mappings \in Seq(Mapping) /\ Len(mappings) <= MaxMappings
  /\ file \in Configs
  /\ {isConfigDirty, wereRolesShared} \subseteq BOOLEAN
  /\ fileHolds \in {"kit", "upload", "less"}

(* No pad plays the mapping of another role, or one that was deleted,      *)
(* although the array is deleted and refilled under its pointer and the    *)
(* pad changes its role (drum_kit.h:113-121, webui.cpp:172-176).           *)
PadsPointAtTheirRole ==
  \A i \in DOMAIN pads :
    pads[i].mappings # None =>
      /\ pads[i].mappings <= Len(mappings)
      /\ mappings[pads[i].mappings].role = pads[i].role

(* A pad plays the mapping of its role, as the README says: in whichever   *)
(* order roles are changed and mappings come (config_drumkit.cpp:53-76).   *)
RoleDecidesTheMappings ==
  \A i \in DOMAIN pads : pads[i].mappings = GetMappings(mappings, pads[i].role)

(* So it is as long as no two pads have had the same role.                 *)
UnsharedRoleDecidesTheMappings == ~wereRolesShared => RoleDecidesTheMappings

(* "If there is more than one mapping we assume that the user wants to      *)
(* replace all mappings": a message that replaces the mappings of several  *)
(* roles leaves no others (webui.cpp:248-254).                             *)
SeveralReplaceAll ==
  [][\A entries \in MappingMessages :
       Len(entries) > 1 /\ HandleSetMappings(entries, TRUE) =>
         \A i \in DOMAIN mappings' : IndexOfRole(entries, mappings'[i].role) # None]_vars

(* A pad without a connector is silent, enabled or not.                    *)
Audible(k) ==
  [k EXCEPT !.pads = [i \in DOMAIN k.pads |->
     [k.pads[i] EXCEPT !.isEnabled = k.pads[i].isEnabled /\ k.pads[i].isConnected]]]

(* If nothing is to be saved, restoring changes nothing: the kit that      *)
(* comes back from the file, with its mappings built up anew, plays as     *)
(* the one that was saved (webui.cpp:308-320, config_drumkit.cpp:80-108).  *)
(* Not so when a write failed, an upload waits for its reset, or roles     *)
(* were shared.                                                            *)
CleanKitComesBack ==
  ~isConfigDirty /\ fileHolds = "kit" /\ ~wereRolesShared =>
    Audible(ApplyDrumKitConfig(file)) = Audible(Kit)
=============================================================================
