SPECIFICATION FairSpec
CONSTANTS
    None = None
    Blank = Blank
    Foreign = Foreign
    a = a
    b = b
    Screens <- MCSmallScreen
    Drivers <- MCOneDriver
    Machines <- MCTwoDisks
    Glyphs <- MCGlyphs
    Band = 30
    StartupFullRedraws = 1
    FullRedrawInterval = 2
    Budget = 0
PROPERTIES
    FramesKeepComing
