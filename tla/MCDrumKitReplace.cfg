CONSTANTS
  Roles = {"Snare", "Tom", "Kick"}
  Notes = {"low"}
  MaxMappings = 3
  InitialFiles <- MCInitialFiles
  PadMessages <- MCPadMessages
  MappingMessages <- MCMappingMessages
  Uploads <- MCUploads
SPECIFICATION Spec
PROPERTY SeveralReplaceAll
