\* Every short text, and every list of up to five of six namespaces.  Entering
\* and sorting both come to an end.
SPECIFICATION Spec
CONSTANTS
  Char <- MCChar
  MaxKeyBytes = 6
  Prefixes <- MCPrefixes
  MaxItems = 5
INVARIANTS
  KeysAreExact
  SortIsCanonical
  ScansAreExact
CHECK_DEADLOCK FALSE
