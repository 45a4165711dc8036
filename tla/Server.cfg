\* One item, synced by two devices, that the backfill, two clients and a second
\* process are after, and files of up to four bytes.
SPECIFICATION TFairSpec
CONSTANTS
  None = None
  Attempts = 2
  MaxHold = 2
  MaxStarts = 2
  MaxLapses = 1
  Records = {1, 2}
  ItemOf <- OneItem
  i1 = i1
  Workers = {w1, w2}
  Clients = {k1, k2}
  Totals = {0, 1, 2, 3, 4}
  Numbers = {0, 1, 2, 3, 4, 5, 7}
  MaxU64 = 6
  Blank = Blank
  Garbage = Garbage
  NoHeader = NoHeader
CHECK_DEADLOCK FALSE
INVARIANTS TokensSurvive MemoTruthful BytesStable BackfillCounts RangesServed
PROPERTIES StopEnds
