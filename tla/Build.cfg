\* Task files: graphs, member orders, shapes, broken texts.
SPECIFICATION BuilderSpec
CONSTANTS
  MaxDepth = 6
  MaxChildren = 5
  MaxCalls = 4
  Faults = {"load", "fork", "chdir"}
  Docs <- MCDocs
INVARIANTS
  ReadsFile
  RunsAsWritten
  TargetMade
PROPERTIES
  RunsGraph
  BuildEnds
