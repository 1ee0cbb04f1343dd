-------------------------- MODULE MCDrumKitConfig --------------------------
(* A kit of two pads, with three roles and room for two mappings.          *)
EXTENDS DrumKitConfig

PadOf(role) == [role |-> role, isConnected |-> TRUE, isEnabled |-> TRUE]
Entry(role, note) == [role |-> role, note |-> note]

MCInitialFiles ==
  {[pads |-> <<PadOf("Snare"), PadOf("Tom")>>,
    mappings |-> <<Entry("Snare", "low"), Entry("Tom", "low")>>]}

MCPadMessages ==
  [index : 1..2, change : [role : Roles]]
    \cup [index : {2}, change : [isConnected : {FALSE}]]

MCMappingMessages ==
  {<<>>,
   <<Entry("Snare", "absent")>>,
   <<Entry("Tom", "unassigned"), Entry("Snare", "low")>>,
   <<Entry("Kick", "low"), Entry("Tom", "absent"), Entry("Snare", "low")>>}

MCUploads ==
  {[pads |-> <<PadOf("Kick"), PadOf("Kick")>>],
   [mappings |-> <<Entry("Tom", "unassigned"), Entry("Kick", "low")>>],
   [pads |-> <<PadOf("Tom")>>, mappings |-> <<>>]}
=============================================================================
