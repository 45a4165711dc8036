CONSTANTS
  a1 = a1  a2 = a2  c1 = c1  c2 = c2  n1 = n1
  Assets = {a1, a2}
  Contents = {c1}
  Names = {n1}
  MaxStamps = 2
  Photos <- OnePhoto
  SizeOf <- MCSizeOf
  NumChunks = 2
  Threads = {t1, t2}
  Serve = {"upload", "chunk", "complete", "verify"}
  Faults = {"persist", "stage", "sweep"}
  MaxCrashes = 0
  MaxCopies = 2
  Garbled = Garbled
  None = None
SPECIFICATION FairSpec
INVARIANTS ConfirmedStaysHeld
PROPERTIES RequestsAnswered
