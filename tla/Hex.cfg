\* Two readings of files of up to three lines, two part sizes.
SPECIFICATION HexSpec
CONSTANTS
  MaxMemory = 8
  Paragraph = 2
  Parts <- MCParts
  DataRecords <- MCDataRecords
  Bases = {0, 1, 2}
  MaxLines = 3
INVARIANTS
  ImageIsFile
  ProgramsFile
CHECK_DEADLOCK FALSE
