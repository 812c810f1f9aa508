SPECIFICATION ProfileSpec
CONSTANTS
  Descriptors <- NoDescriptors
  ReportIds <- MCReportIds
  Reports <- MCReports
  Descriptions <- NarrowAxis
  InputStates <- AnyAxisValue
  ByteBits = 4
  MaxButtons = 6
  MaxHats = 2
  MaxAxes = 3
  MaxFieldBits = 15
  AxisBits = 3
  Word = 65536
INVARIANT
  AxesReachReader
