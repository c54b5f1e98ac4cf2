SPECIFICATION LiveSpec
CONSTANTS
  Sessions = {s1, s2}
  BatchIds = {1, 2, 3}
  Keys = {k1, k2}
  Periods = {p1}
  Accounts = {"cash", "sales", "tax"}
  RawVouchers <- MCRawVouchers
  Scale = 2
  None = None
PROPERTY NoPostingIntoLockedPeriod
