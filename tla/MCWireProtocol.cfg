SPECIFICATION WireSpec
CONSTANTS
  DeviceId = 258
  Requests <- MCRequests
  ForeignBytes = {0, 16, 49}
  MaxDatagrams = 2
INVARIANTS
  WhatIsSentIsRead
  PayloadIsReadOnce
CHECK_DEADLOCK FALSE
