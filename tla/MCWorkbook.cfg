\* Every workbook of a few small sheets: two required profiles, an unknown
\* sheet, a secret, an extra and a profile-dependent header.
CONSTANTS
    Cell <- MCCell
    Blank = ""
    TooLong = {"long"}
    NormalizeLabel <- MCNormalizeLabel
    SheetName <- MCSheetName
    NoProfile = "none"
    ProfileForSheet <- MCProfileForSheet
    FieldForHeader <- MCFieldForHeader
    RequiredFields <- MCRequiredFields
    SheetLists <- MCSheetLists
    SecretCell = {"moodle password"}
    MaxSheets = 3
    MaxRows = 4
    MaxCells = 7
    MaxHeaderRows = 2
    MaxUncompressedBytes = 2
    ByteBits = 2
    MaxZIPEntries = 3
    MaxColumns = 2
    MaxSheetRows = 3
SPECIFICATION Spec
CHECK_DEADLOCK FALSE
INVARIANTS
    ArchiveIsBounded
    StoredPlansSuffice
    SecretsStayInTheFile
    RowsFollowTheFile
