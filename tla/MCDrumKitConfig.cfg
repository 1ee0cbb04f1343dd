CONSTANTS
  Roles = {"Snare", "Tom", "Kick"}
  Notes = {"low"}
  MaxMappings = 2
  InitialFiles <- MCInitialFiles
  PadMessages <- MCPadMessages
  MappingMessages <- MCMappingMessages
  Uploads <- MCUploads
SPECIFICATION Spec
INVARIANTS
  PadsPointAtTheirRole
  UnsharedRoleDecidesTheMappings
  CleanKitComesBack
