CONSTANTS
  a1 = a1  a2 = a2  c1 = c1  c2 = c2  n1 = n1
  Assets = {a1, a2}
  Contents = {c1, c2}
  Names = {n1}
  MaxStamps = 2
  Photos <- TwoPhotos
  SizeOf <- SameSize
  NumChunks = 1
  Threads = {t1, t2}
  Serve = {"upload"}
  Faults = {}
  MaxCrashes = 3
  MaxCopies = 4
  Garbled = Garbled
  None = None
  MaxRemovals = 1
SPECIFICATION SharedSpec
SYMMETRY ThreadSymmetry
PROPERTIES ServerNeverOverwrites
\* With every copy the bounds allow written, nothing more arrives.
CHECK_DEADLOCK FALSE
