SPECIFICATION Spec
CONSTANTS
    None = None
    LeadingGap = 6
    EspSectors = 4
    TrailingGap = 6
    EntrySectors = 2
    BlockSectors = 2
    MaxExtent = 4
    BootSectors = 2
    MaxField = 10
    EspFiles <- MCEspFiles
    RootFiles <- MCRootFiles
    Releases = {1, 2}
    Slack = 1
    Alignment = 2
    OtherTables <- MCOtherTables
    TargetSectors = 28
    Changes = 1
    Decays = 1
CHECK_DEADLOCK FALSE
INVARIANTS
    TypeOK
    TheGraphIsTheImage
    AcceptedCoversTheTarget
    WrittenIsTheImage
