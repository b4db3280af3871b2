SPECIFICATION DeploymentSpec
CONSTANTS
    None = None
    Workbooks <- MCWorkbooks
    Sheets <- MCSheets
    ProjectCode <- MCProject
    Today = 60
    DaysPerMonth = 30
    Links <- MCLinks
    Folded <- MCFolded
    Segments <- MCSegments
    _norm_text <- MCNormText
    Length <- MCLength
    AmountMax = 100000
    IntegerMax = 1000
INVARIANTS
    ImportedOverdueIsReported
