SPECIFICATION ProfileSpec
CONSTANTS
  Descriptors <- MCDescriptors
  ReportIds <- MCReportIds
  Reports <- MCReports
  Descriptions <- MCDescriptions
  InputStates <- MCInputStates
  ByteBits = 4
  MaxButtons = 6
  MaxHats = 2
  MaxAxes = 3
  MaxFieldBits = 15
  AxisBits = 3
  Word = 65536
INVARIANTS
  FieldsAreDisjoint
  StateIsLatest
  StateIsDeclared
  DescriptorIsComplete
  ReportShowsState
