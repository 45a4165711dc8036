\* An asset the server refuses, a large one, a retry, and one outage, kill,
\* sign-out or change of the server's secret at any moment.
SPECIFICATION UserSpec
CONSTANTS
  c1 = c1
  c2 = c2
  None = None
  Assets <- Two
  ContentOf <- OwnContent
  Initial = {2}
  Large = {2}
  Unreadable = {}
  Refused = {1}
  Threshold = 2
  MaxRetries = 1
  Mishaps = {"outage", "kill", "signOut", "expiry"}
  MaxMishaps = 1
INVARIANTS EngineInv SyncedIsHeld RetriesBounded
PROPERTIES PassEnds EventuallyBackedUp
