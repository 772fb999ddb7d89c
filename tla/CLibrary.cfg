SPECIFICATION Spec
CONSTANTS
    Handles = {h1, h2}
    Streams = {f1, f2}
    Names = {"a"}
    Dirs <- MCDirs
    Places <- MCPlaces
    Bits = 2
    Jet3Size = 6
    NoStream = NoStream
    MaxEdits = 2
    Faulty <- MCFaulty
    PgSize = 16
    Rco = 2
    Rows = {"a", "b"}
    Sizes = {1, 3, 5}
    Damaged = "damaged"
    MaxAdded = 4
    FilePages <- MCFilePages
    Tables <- MCTables
    Threads = {t1, t2, t3}
    Environments <- MCEnvironments
    RowCases <- MCRowCases
    TableCases <- MCTableCases
    PropCases <- MCPropCases
    TreeCases <- MCTreeCases
    ChoiceCases <- MCChoiceCases
    CatalogCases <- MCCatalogCases
    NumberCases <- MCNumberCases
    MoneyCases <- MCMoneyCases
    NumericCases <- MCNumericCases
    TextCases <- MCTextCases
    LongCases <- MCLongCases
    DateCases <- MCDateCases
    MemoCases <- MCMemoCases
SYMMETRY Sym
INVARIANTS
    HandlesCounted
    ReadsFresh
    TempSound
    RowsKept
    OptionsAsked
    DefinitionRead
    IndexFindsAll
    ValuesShown
    DriversAgree
CHECK_DEADLOCK FALSE
