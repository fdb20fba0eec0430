SPECIFICATION FairSpec
CONSTANTS
    None = None
    Blank = Blank
    Foreign = Foreign
    a = a
    b = b
    Screens <- MCScreens
    Drivers <- MCDrivers
    Machines <- MCMachines
    Glyphs <- MCGlyphs
    Band = 34
    StartupFullRedraws = 1
    FullRedrawInterval = 2
    Budget = 2
INVARIANTS
    TypeOK
    DrawsForTheRealGrid
    DifferencesAreFromWhatIsShown
    NoSectionIsCut
PROPERTIES
    FramesKeepComing
    Heals
