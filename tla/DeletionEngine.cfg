\* Two photos verified one by one, the first of them edited, one mishap of any
\* kind, a file taken from the media root among them.
SPECIFICATION DSpec
CONSTANTS
  c1 = c1
  c2 = c2
  None = None
  Assets <- Two
  ContentOf <- OwnContent
  Initial = {1, 2}
  Large = {}
  Unreadable = {}
  Refused = {}
  Threshold = 1
  MaxRetries = 0
  Mishaps = {"outage", "kill", "signOut", "expiry", "taken"}
  MaxMishaps = 1
  MaxBatch = 1
  MayEdit = {1}
INVARIANTS DInv
PROPERTIES DeletesOnlyConfirmed
