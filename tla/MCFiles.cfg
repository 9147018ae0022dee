CONSTANTS
  MaxCount = 3
  Lengths = {1, 17, 33}
  Modulus = 256
  Junk = {0, 1, 2, 3, 16, 17, 33, 255}
  None = None
  Others = {0, 40}
  Sizes = {95, 96, 97, 98, 99, 101}
  MaxRounds = 10
  FileCount = 2
  Counts = {3, 5}
  Widths <- MCWidths
  Packages <- MCPackages
  HdfNames <- MCHdfNames
  Lower <- MCLower
  Aliases <- MCAliases
  HdfFiles <- MCHdfFiles
  Snapshots <- MCSnapshots
  MostFiles = 3
  Limits = {0, 1, 2}
  Keys = {"npart", "rank"}
  Torn = Torn
SPECIFICATION Spec
INVARIANTS
  EntriesInStream
  DecodedAsFramed
  SizesAreTrue
  SummaryIsTrue
  FieldsFound
  SnapshotsJoined
