\* Two handlers making three whitelist lookups against a server with two
\* connections and one transient failure.
CONSTANTS
  Lookups = {l1, l2}
  MaxConns = 2
  MaxFaults = 1
  MaxLookups = 3

SPECIFICATION Spec
INVARIANTS
  SessionsReleased
