CONSTANTS
  a1 = a1  a2 = a2  c1 = c1  c2 = c2  n1 = n1
  Assets = {a1, a2}
  Contents = {c1, c2}
  Names = {n1}
  MaxStamps = 2
  Photos <- SharedName
  SizeOf <- MCSizeOf
  NumChunks = 1
  Threads = {t1, t2}
  Serve = {"upload", "manifest"}
  Faults = {"media", "persist"}
  MaxCrashes = 1
  MaxCopies = 2
  Garbled = Garbled
  None = None
SPECIFICATION Spec
SYMMETRY ThreadSymmetry
INVARIANTS AckedSurvives SameContentOneFile StoreInv
PROPERTIES LibraryOnlyGrows ImplementsLibrary
