SPECIFICATION PagesSpec
CONSTANTS
  u1 = u1  u2 = u2  u3 = u3
  Uploads = {u1, u2, u3}
  RowsOf <- MCRowsOf
  Limits = {1, 2}
  LastTime = 3
INVARIANTS
  PagesTypeOK
  NextPageIsThere
  NothingIsSkipped
CHECK_DEADLOCK FALSE
