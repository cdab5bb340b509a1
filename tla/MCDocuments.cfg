SPECIFICATION Spec
CONSTANTS
  r1 = r1
  r2 = r2
  test = test
  NoType = NoType
  Discussion = Discussion
  Requests = {r1, r2}
  Operations = {"CREATE", "UPLOAD", "DELETE", "COMMENT", "DROP_TYPE"}
  MaxFaults = 2
  Types = {test}
  Settings <- EverySetting
  MaxBookings = 1
  MaxFiles = 3
  MaxUpload = 1
SYMMETRY Interchangeable
INVARIANTS
  RowsHaveFiles
  FilesAreAccountedFor
PROPERTIES
  EvidenceStays
  BookedWithItsDocuments
