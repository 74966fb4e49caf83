\* Every dependency graph over three tasks.
SPECIFICATION BuilderSpec
CONSTANTS
  MaxDepth = 6
  MaxChildren = 5
  MaxCalls = 6
  Faults = {}
  Docs <- GraphDocs
INVARIANT NoEndlessRecursion
