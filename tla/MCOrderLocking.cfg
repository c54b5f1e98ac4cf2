SPECIFICATION LiveSpec
CONSTANTS
  Sessions = {s1, s2}
  Lines <- MCLines
  Goods = {"item"}
  Ordered <- MCOrdered
  First <- MCFirst
  Requests <- MCRequests
  MaxDocuments = 3
  None = None
INVARIANTS TypeOK CountersAreCommitted LimitsHold
PROPERTIES OrderLockRefreshes EveryRequestEnds
