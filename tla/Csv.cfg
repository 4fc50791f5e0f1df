SPECIFICATION CsvSpec
CONSTANTS
  Uploads <- MCUploads
  MaxRows = 3
  PaiseFloor = 15000
  Today = 9
  Method = {"upi", "credit_card"}
  Reason = {"bank_down", "network_timeout"}
  Status = {"failed", "charged"}
  Blank = Blank
  Unreadable = Unreadable
INVARIANTS
  RowsKept
  PastOnly
CHECK_DEADLOCK FALSE
