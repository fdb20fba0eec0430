-------------------------- MODULE DashboardProofs --------------------------
(***************************************************************************)
(* The dashboard's console, for screens and machines of any size, bands of *)
(* any height and any number of disturbances: every variable keeps its     *)
(* type, the session draws for the grid that is there, differences are     *)
(* taken from what is shown, and no section of the layout is cut.          *)
(***************************************************************************)
EXTENDS Dashboard, TLAPS

-----------------------------------------------------------------------------
(* The inductive invariant.                                                *)

\* Until the negotiation selects, every profile has been tried or will be, and
\* what it applies again is one of them.
EveryProfileIsTried ==
    /\ pc \in {"font", "observe"} =>
        \A p \in Profiles :
            \/ \E i \in DOMAIN todo : todo[i] = p
            \/ \E i \in DOMAIN observations : observations[i].profile = p
    /\ pc = "observe" => todo # <<>>
    /\ pc = "again" => display.profile \in Profiles

\* A display has at least the rows of the envelope.
DisplayIsEligible == display # None => display.grid.rows >= envelope.rows

\* From the preparation on, the session draws for the grid the console has.
SettledOnTheGrid ==
    pc \in Running \cup {"prepare"} /\ ~moved /\ Supported(Observation, display.profile)
        => display.grid = Grid

\* A frame is there to be drawn, and a difference has a frame to differ from.
FrameIsThere ==
    /\ pc \in {"draw", "write"} => frame # None
    /\ pc = "write" /\ ~full => previous_frame # None /\ previous_frame.grid = frame.grid

\* Before the cursor the console shows the frame, after it the previous one.
WrittenSoFar ==
    pc = "write" /\ ~disturbed /\ Fits(frame) =>
        \A c \in DOMAIN frame.cells :
            /\ c < cursor => tty[c] = frame.cells[c]
            /\ c >= cursor /\ ~full => tty[c] = previous_frame.cells[c]

\* The rows beyond those every section has are given or still to be given.
EveryRowIsCounted ==
    layout # None =>
        /\ layout.extra.storage + layout.extra.network + layout.extra.compute
              + layout.remaining = Body(display.grid) - 21
        /\ layout.extra.storage % 2 = 0 /\ layout.extra.network % 2 = 0

DInv == /\ TypeOK /\ EveryProfileIsTried /\ DisplayIsEligible /\ SettledOnTheGrid
        /\ FrameIsThere /\ DifferencesAreFromWhatIsShown /\ WrittenSoFar
        /\ EveryRowIsCounted

-----------------------------------------------------------------------------
(* The console.                                                            *)

\* The number of a grid's cells.
Bands(grid) == (grid.rows + Band - 1) \div Band

\* Division rounds down.
LEMMA Division ==
    ASSUME NEW a \in Nat, NEW b \in Nat \ {0}
    PROVE  a \div b \in Nat /\ b * (a \div b) <= a /\ a < b * (a \div b) + b
OBVIOUS

\* The console of a screen has a grid.
LEMMA GridIsGrid ==
    ASSUME NEW size \in Screens, NEW name PROVE GridOf(size, name) \in Grids
<1>1. size.width \in Nat /\ size.height \in Nat
    BY DashboardLimits
<1>2. CellOf(name).width \in {8, 10, 12} /\ CellOf(name).height \in {16, 20, 24}
    BY DEF CellOf
<1>3. size.width \div CellOf(name).width \in Nat /\ size.height \div CellOf(name).height \in Nat
    BY <1>1, <1>2
<1> QED
    BY <1>3 DEF GridOf, Grids

\* A grid's cells are numbered from one, and a lower grid has no more of them.
LEMMA CellsAre ==
    ASSUME NEW g \in Grids
    PROVE  /\ Bands(g) \in Nat /\ CellsOf(g) = 1 .. Bands(g)
           /\ \A h \in Grids : g.rows <= h.rows => Bands(g) <= Bands(h)
<1>1. Band \in Nat \ {0}
    BY DashboardLimits
<1>2. ASSUME NEW h \in Grids
      PROVE  /\ h.rows + Band - 1 \in Nat /\ Bands(h) \in Nat
             /\ Band * Bands(h) <= h.rows + Band - 1
             /\ h.rows + Band - 1 < Band * Bands(h) + Band
    <2>1. h.rows \in Nat
        BY DEF Grids
    <2>2. h.rows + Band - 1 \in Nat
        BY <1>1, <2>1
    <2> QED
        BY <1>1, <2>2, Division DEF Bands
<1>3. ASSUME NEW h \in Grids, g.rows <= h.rows, Bands(g) > Bands(h) PROVE FALSE
    <2>1. /\ Bands(g) \in Nat /\ Bands(h) \in Nat /\ g.rows \in Nat /\ h.rows \in Nat
          /\ Bands(g) >= Bands(h) + 1
        BY <1>2, <1>3 DEF Grids
    <2>2. Band * Bands(g) >= Band * (Bands(h) + 1)
        BY <1>1, <2>1
    <2>3. Band * (Bands(h) + 1) = Band * Bands(h) + Band
        BY <1>1, <2>1
    <2> QED
        BY <1>1, <1>2, <1>3, <2>1, <2>2, <2>3
<1> QED
    BY <1>2, <1>3 DEF CellsOf, Bands

\* What is drawn on a cell the console has lands there.
LEMMA LandsWhereItIs ==
    ASSUME screen \in Screens, NEW c \in CellsOf(Grid) PROVE Landing(c) = c
<1>1. Grid \in Grids
    BY GridIsGrid DEF Grid
<1> DEFINE n == Bands(Grid)
<1>2. n \in Nat /\ CellsOf(Grid) = 1 .. n /\ c \in 1 .. n
    BY <1>1, CellsAre
<1> HIDE DEF n
<1>3. \E m \in 1 .. n : \A y \in 1 .. n : m >= y
    BY <1>2
<1>4. Max(1 .. n) \in 1 .. n /\ \A y \in 1 .. n : Max(1 .. n) >= y
    BY <1>3 DEF Max
<1>5. Max(1 .. n) >= c
    BY <1>2, <1>4
<1> QED
    BY <1>2, <1>4, <1>5 DEF Landing, Least

-----------------------------------------------------------------------------
(* The negotiation.                                                        *)

\* There are two profiles.
LEMMA ProfilesAre ==
    /\ CONSOLE_FONT_PROFILES = <<"Terminus10x20", "Terminus12x24">>
    /\ Profiles = {"Terminus10x20", "Terminus12x24"}
BY DEF CONSOLE_FONT_PROFILES, Profiles, ToSet

\* Whatever the height, both are tried.
LEMMA CandidatesAre ==
    ASSUME NEW size
    PROVE  /\ candidate_profiles(size) \in Seq(Profiles)
           /\ DOMAIN candidate_profiles(size) = 1 .. 2
           /\ Profiles = {candidate_profiles(size)[1], candidate_profiles(size)[2]}
<1>1. /\ CONSOLE_FONT_PROFILES \in Seq(Profiles) /\ DOMAIN CONSOLE_FONT_PROFILES = 1 .. 2
      /\ CONSOLE_FONT_PROFILES[1] = "Terminus10x20"
      /\ CONSOLE_FONT_PROFILES[2] = "Terminus12x24" /\ Len(CONSOLE_FONT_PROFILES) = 2
    BY ProfilesAre
<1>2. Reverse(CONSOLE_FONT_PROFILES) =
          [i \in 1 .. 2 |-> CONSOLE_FONT_PROFILES[(2 - i) + 1]]
    BY <1>1 DEF Reverse
<1>3. /\ Reverse(CONSOLE_FONT_PROFILES) \in Seq(Profiles)
      /\ DOMAIN Reverse(CONSOLE_FONT_PROFILES) = 1 .. 2
      /\ Reverse(CONSOLE_FONT_PROFILES)[1] = "Terminus12x24"
      /\ Reverse(CONSOLE_FONT_PROFILES)[2] = "Terminus10x20"
    BY <1>1, <1>2, ProfilesAre
<1>4. candidate_profiles(size) \in {CONSOLE_FONT_PROFILES, Reverse(CONSOLE_FONT_PROFILES)}
    BY DEF candidate_profiles
<1> QED
    BY <1>1, <1>3, <1>4, ProfilesAre

\* What is seen of a console, and the display that is made of it.
LEMMA SeenIsSeen ==
    ASSUME screen \in Screens PROVE Observation \in Seen
BY GridIsGrid DEF Observation, Grid, Seen

LEMMA DisplayIsDisplay ==
    ASSUME NEW seen \in Seen, NEW profile \in Profiles \cup {CURRENT_CONSOLE}
    PROVE  /\ NegotiatedDisplay(seen, profile) \in Displays
           /\ NegotiatedDisplay(seen, profile).grid = seen.grid
           /\ NegotiatedDisplay(seen, profile).profile = profile
           /\ Supported(seen, profile)
                => NegotiatedDisplay(seen, profile).grid.rows >= envelope.rows
<1>1. seen.grid \in Grids /\ seen.framebuffer \in Screens \cup {None}
    BY DEF Seen
<1>2. EffectiveSize(seen, profile) \in [width : Nat, height : Nat]
    <2>1. CASE seen.framebuffer # None
        BY <1>1, <2>1, DashboardLimits DEF EffectiveSize
    <2>2. CASE seen.framebuffer = None
        <3>1. CellOf(profile).width \in Nat /\ CellOf(profile).height \in Nat
            BY DEF CellOf
        <3>2. seen.grid.columns \in Nat /\ seen.grid.rows \in Nat
            BY <1>1 DEF Grids
        <3>3. /\ seen.grid.columns * CellOf(profile).width \in Nat
              /\ seen.grid.rows * CellOf(profile).height \in Nat
            BY <3>1, <3>2
        <3> QED
            BY <2>2, <3>3 DEF EffectiveSize
    <2> QED
        BY <2>1, <2>2
<1> QED
    BY <1>1, <1>2 DEF NegotiatedDisplay, Displays, Supported

\* The profile that is selected was observed to give an eligible grid.
LEMMA SelectedIsEligible ==
    ASSUME TypeOK, EveryProfileIsTried, pc = "font", todo = <<>>, Eligible # {}
    PROVE  LET profile == SelectionOrder[Min(Eligible)]
           IN  /\ profile \in Profiles
               /\ ObservationOf(profile) \in Seen
               /\ Supported(ObservationOf(profile), profile)
<1> DEFINE profile == SelectionOrder[Min(Eligible)]
<1>1. /\ DOMAIN SelectionOrder = 1 .. 2
      /\ \A i \in 1 .. 2 : SelectionOrder[i] \in Profiles
    <2>1. \E size : SelectionOrder = candidate_profiles(size)
        BY Zenon DEF SelectionOrder
    <2>2. PICK size : SelectionOrder = candidate_profiles(size)
        BY <2>1
    <2>3. candidate_profiles(size) \in Seq(Profiles) /\ DOMAIN candidate_profiles(size) = 1 .. 2
        BY CandidatesAre
    <2> QED
        BY <2>2, <2>3
<1>2. Min(Eligible) \in Eligible
    <2>1. Eligible \subseteq {1, 2}
        BY <1>1 DEF Eligible
    <2>2. \E x \in Eligible : \A y \in Eligible : x =< y
        <3>1. CASE 1 \in Eligible
            BY <2>1, <3>1
        <3>2. CASE Eligible = {2}
            BY <3>2
        <3> QED
            BY <2>1, <3>1, <3>2
    <2> QED
        BY <2>2 DEF Min
<1>3. /\ profile \in Profiles /\ ObservationOf(profile) # None
      /\ Supported(ObservationOf(profile), profile)
    BY <1>1, <1>2 DEF Eligible
<1>4. \E i \in DOMAIN observations : observations[i].profile = profile
    <2>1. DOMAIN todo = {}
        OBVIOUS
    <2> QED
        BY <1>3, <2>1 DEF EveryProfileIsTried
<1>5. \E o \in ToSet(observations) : o.profile = profile
    BY <1>4 DEF ToSet
<1>6. \A o \in ToSet(observations) : o.seen \in Seen \cup {None}
    <2>1. \A i \in DOMAIN observations :
              observations[i] \in [profile : Profiles, seen : Seen \cup {None}]
        <3> DEFINE S == [profile : Profiles, seen : Seen \cup {None}]
        <3>1. observations \in Seq(S)
            BY DEF TypeOK
        <3> HIDE DEF S
        <3>2. \A i \in DOMAIN observations : observations[i] \in S
            BY <3>1
        <3> QED
            BY <3>2 DEF S
    <2> QED
        BY <2>1 DEF ToSet
<1>7. ObservationOf(profile) \in Seen \cup {None}
    BY <1>5, <1>6 DEF ObservationOf
<1> QED
    BY <1>3, <1>7

-----------------------------------------------------------------------------
(* Types.                                                                  *)

\* A console that changes its size has the cells of its new grid.
LEMMA ResizedIs ==
    ASSUME TypeOK, NEW g \in Grids
    PROVE  Resized(g) \in [CellsOf(g) -> Glyphs \cup {Blank, Foreign}]
<1>1. tty \in [CellsOf(Grid) -> Glyphs \cup {Blank, Foreign}]
    BY DEF TypeOK
<1> QED
    BY <1>1 DEF Resized

\* What applying a font does to the console.
LEMMA ApplyDoes ==
    ASSUME TypeOK, NEW profile \in Profiles, NEW then, NEW otherwise,
           Apply(profile, then, otherwise)
    PROVE  /\ font' \in Profiles \cup {KERNEL_FONT}
           /\ tty' \in [CellsOf(Grid') -> Glyphs \cup {Blank, Foreign}]
           /\ moved' \in BOOLEAN /\ pc' \in {then, otherwise}
           /\ UNCHANGED <<screen, driver, layout, drawing, pace, machine, disturbed, events,
                          session>>
<1>1. font' \in Profiles \cup {KERNEL_FONT} /\ tty' = Resized(GridOf(screen, font'))
    BY DEF Apply, TypeOK
<1>2. screen' = screen /\ screen \in Screens
    BY DEF Apply, TypeOK
<1>3. GridOf(screen, font') \in Grids /\ Grid' = GridOf(screen, font')
    BY <1>2, GridIsGrid DEF Grid
<1>4. tty' \in [CellsOf(Grid') -> Glyphs \cup {Blank, Foreign}]
    BY <1>1, <1>3, ResizedIs
<1>5. moved' \in BOOLEAN /\ pc' \in {then, otherwise}
    BY DEF Apply, TypeOK
<1> QED
    BY <1>1, <1>4, <1>5 DEF Apply

\* What a look at the size gives.
LEMMA LookGives ==
    ASSUME TypeOK, NEW seen \in {Observation, None}, ReadObservation(seen)
    PROVE  /\ seen \in Seen \cup {None} /\ moved' \in BOOLEAN /\ events' \in 0 .. Budget
           /\ seen = Observation \/ moved' = moved
<1>1. Observation \in Seen /\ Observation # None
    BY SeenIsSeen, NoneIsNothing DEF TypeOK
<1>2. events \in 0 .. Budget /\ moved \in BOOLEAN /\ Budget \in Nat
    BY DashboardLimits DEF TypeOK
<1>3. moved' \in BOOLEAN
    BY <1>2 DEF ReadObservation
<1>4. events' \in 0 .. Budget
    BY <1>2 DEF ReadObservation, Spend
<1>5. seen = Observation \/ moved' = moved
    BY DEF ReadObservation
<1> QED
    BY <1>1, <1>3, <1>4, <1>5

\* At first every variable has its type.
LEMMA TypeInit == Init => TypeOK
<1> SUFFICES ASSUME Init PROVE TypeOK
    OBVIOUS
<1>1. screen \in Screens /\ driver \in Drivers /\ font = KERNEL_FONT
    BY DEF Init
<1>2. tty \in [CellsOf(Grid) -> Glyphs \cup {Blank, Foreign}]
    BY DEF Init, Grid
<1>3. startup_full_redraws \in 0 .. StartupFullRedraws /\ since_full \in 0 .. FullRedrawInterval
      /\ events \in 0 .. Budget /\ cursor \in Nat \ {0}
    BY DashboardLimits DEF Init
<1>4. todo \in Seq(Profiles) /\ observations \in Seq([profile : Profiles, seen : Seen \cup {None}])
    BY DEF Init
<1>5. full \in BOOLEAN /\ moved \in BOOLEAN /\ disturbed \in BOOLEAN
    BY DEF Init
<1>6. pc = "start" /\ display = None /\ layout = None /\ frame = None /\ previous_frame = None
      /\ machine \in Machines
    BY DEF Init
<1>7. layout # None <=> pc = "layout"
    BY <1>6
<1> QED
    BY <1>1, <1>2, <1>3, <1>4, <1>5, <1>6, <1>7 DEF TypeOK

\* Others change the console.
LEMMA OthersTypeOK == TypeOK /\ (ChangeScreen \/ KernelPrints \/ UNCHANGED vars) => TypeOK'
<1> SUFFICES ASSUME TypeOK, ChangeScreen \/ KernelPrints \/ UNCHANGED vars PROVE TypeOK'
    OBVIOUS
<1> USE DEF console, negotiation, session, drawing, pace, vars
<1>1. CASE ChangeScreen
    <2>1. PICK s \in Screens, f \in {font, KERNEL_FONT} :
            screen' = s /\ font' = f /\ tty' = Resized(GridOf(s, f))
        BY <1>1 DEF ChangeScreen
    <2>2. screen' \in Screens /\ font' \in Profiles \cup {KERNEL_FONT}
        BY <2>1 DEF TypeOK
    <2>3. tty' \in [CellsOf(Grid') -> Glyphs \cup {Blank, Foreign}]
        BY <2>1, ResizedIs, GridIsGrid DEF Grid
    <2>4. events' \in 0 .. Budget
        BY <1>1, DashboardLimits DEF ChangeScreen, Spend, TypeOK
    <2>5. moved' \in BOOLEAN /\ disturbed' \in BOOLEAN
        BY <1>1 DEF ChangeScreen
    <2>6. UNCHANGED <<pc, driver, negotiation, session, machine, layout, drawing, pace>>
        BY <1>1 DEF ChangeScreen
    <2>7. layout' # None <=> pc' = "layout"
        BY <2>6 DEF TypeOK
    <2> QED
        BY <2>2, <2>3, <2>4, <2>5, <2>6, <2>7 DEF TypeOK, IsFrame
<1>2. CASE KernelPrints
    <2>1. UNCHANGED <<pc, console, negotiation, session, machine, layout, drawing, pace, moved>>
        BY <1>2 DEF KernelPrints
    <2>2. tty' \in [CellsOf(Grid) -> Glyphs \cup {Blank, Foreign}]
        BY <1>2 DEF KernelPrints, TypeOK
    <2>3. events' \in 0 .. Budget
        BY <1>2, DashboardLimits DEF KernelPrints, Spend, TypeOK
    <2>4. disturbed' \in BOOLEAN /\ moved' \in BOOLEAN
        BY <1>2, <2>1 DEF KernelPrints, TypeOK
    <2>5. layout' # None <=> pc' = "layout"
        BY <2>1 DEF TypeOK
    <2> QED
        BY <2>1, <2>2, <2>3, <2>4, <2>5 DEF TypeOK, IsFrame, Grid
<1>3. CASE UNCHANGED vars
    <2>1. moved' \in BOOLEAN /\ disturbed' \in BOOLEAN /\ full' \in BOOLEAN
        BY <1>3 DEF TypeOK
    <2> QED
        BY <1>3, <2>1 DEF TypeOK, IsFrame, Grid
<1> QED
    BY <1>1, <1>2, <1>3

\* The profile at hand goes from those to try to those tried.
LEMMA TriedTypeOK ==
    ASSUME TypeOK, NEW seen \in Seen \cup {None}, todo # <<>>, Tried(seen)
    PROVE  /\ todo' \in Seq(Profiles)
           /\ observations' \in Seq([profile : Profiles, seen : Seen \cup {None}])
           /\ Head(todo) \in Profiles
<1> DEFINE S == [profile : Profiles, seen : Seen \cup {None}]
           o == [profile |-> Head(todo), seen |-> seen]
<1>1. todo \in Seq(Profiles) /\ observations \in Seq(S)
    BY DEF TypeOK
<1>2. Head(todo) \in Profiles /\ Tail(todo) \in Seq(Profiles)
    BY <1>1
<1>3. o \in S
    BY <1>2
<1>4. todo' = Tail(todo) /\ observations' = Append(observations, o)
    BY DEF Tried
<1> HIDE DEF S, o
<1>5. observations' \in Seq(S)
    BY <1>1, <1>3, <1>4
<1> QED
    BY <1>2, <1>4, <1>5 DEF S

\* The steps of the negotiation keep the types.
LEMMA NegotiationTypeOK ==
    /\ TypeOK /\ EveryProfileIsTried
    /\ EnterTty \/ SetFont \/ Observe \/ Select \/ SelectCurrent \/ Reapply \/ Reobserve
        \/ Prepare \/ PrepareFails \/ Unsupported
    => TypeOK'
<1> SUFFICES ASSUME TypeOK, EveryProfileIsTried,
                    EnterTty \/ SetFont \/ Observe \/ Select \/ SelectCurrent \/ Reapply
                        \/ Reobserve \/ Prepare \/ PrepareFails \/ Unsupported
             PROVE  TypeOK'
    OBVIOUS
<1> USE DEF console, negotiation, session, drawing, pace
<1>b. moved \in BOOLEAN /\ disturbed \in BOOLEAN /\ full \in BOOLEAN
    BY DEF TypeOK
<1>1. CASE EnterTty
    <2>1. /\ pc = "start" /\ pc' = "font" /\ observations' = <<>>
          /\ UNCHANGED <<console, tty, session, machine, layout, drawing, pace, moved,
                         disturbed, events>>
        BY <1>1 DEF EnterTty
    <2>2. todo' \in Seq(Profiles)
        BY <1>1, CandidatesAre DEF EnterTty
    <2>3. observations' \in Seq([profile : Profiles, seen : Seen \cup {None}])
        BY <2>1
    <2>4. layout' = None
        BY <2>1 DEF TypeOK
    <2> QED
        BY <2>1, <2>2, <2>3, <2>4 DEF TypeOK, IsFrame, Grid
<1>2. CASE SetFont
    <2>1. /\ pc = "font" /\ todo # <<>> /\ Apply(Head(todo), "observe", "font")
          /\ Tried(None) \/ UNCHANGED negotiation
        BY <1>2 DEF SetFont
    <2>2. Head(todo) \in Profiles
        BY <2>1 DEF TypeOK
    <2>3. /\ todo' \in Seq(Profiles)
          /\ observations' \in Seq([profile : Profiles, seen : Seen \cup {None}])
        BY <2>1, TriedTypeOK DEF TypeOK
    <2>4. layout = None
        BY <2>1 DEF TypeOK
    <2> QED
        BY <2>1, <2>2, <2>3, <2>4, ApplyDoes DEF TypeOK, IsFrame
<1>3. CASE Observe
    <2>1. /\ pc = "observe" /\ pc' = "font"
          /\ UNCHANGED <<console, tty, session, machine, layout, drawing, pace, disturbed>>
        BY <1>3 DEF Observe
    <2>2. PICK seen \in {Observation, None} : ReadObservation(seen) /\ Tried(seen)
        BY <1>3 DEF Observe
    <2>3. seen \in Seen \cup {None} /\ moved' \in BOOLEAN /\ events' \in 0 .. Budget
        BY <2>2, LookGives
    <2>4. /\ todo' \in Seq(Profiles)
          /\ observations' \in Seq([profile : Profiles, seen : Seen \cup {None}])
        BY <2>1, <2>2, <2>3, TriedTypeOK DEF EveryProfileIsTried
    <2>5. layout' = None
        BY <2>1 DEF TypeOK
    <2> QED
        BY <2>1, <2>3, <2>4, <2>5 DEF TypeOK, IsFrame, Grid
<1>4. CASE Select
    <2>1. /\ pc = "font" /\ todo = <<>> /\ Eligible # {} /\ observations' = <<>> /\ pc' = "again"
          /\ UNCHANGED <<console, tty, todo, previous_frame, machine, layout, drawing, pace,
                         moved, disturbed, events>>
        BY <1>4 DEF Select, SelectInto
    <2> DEFINE profile == SelectionOrder[Min(Eligible)]
    <2>2. profile \in Profiles /\ ObservationOf(profile) \in Seen
        BY <2>1, SelectedIsEligible
    <2>3. display' = NegotiatedDisplay(ObservationOf(profile), profile)
        BY <1>4 DEF Select, SelectInto
    <2> HIDE DEF profile
    <2>4. display' \in Displays /\ display' # None
        BY <2>2, <2>3, DisplayIsDisplay, NoneIsNothing
    <2>5. layout' = None
        BY <2>1 DEF TypeOK
    <2>6. observations' \in Seq([profile : Profiles, seen : Seen \cup {None}])
        BY <2>1
    <2> QED
        BY <2>1, <2>4, <2>5, <2>6 DEF TypeOK, IsFrame, Grid
<1>5. CASE SelectCurrent
    <2>1. /\ pc = "font" /\ observations' = <<>>
          /\ UNCHANGED <<console, tty, todo, previous_frame, machine, layout, drawing, pace,
                         disturbed>>
        BY <1>5 DEF SelectCurrent
    <2>2. PICK seen \in {Observation, None} :
            /\ ReadObservation(seen)
            /\ IF seen # None /\ Supported(seen, CURRENT_CONSOLE)
               THEN display' = NegotiatedDisplay(seen, CURRENT_CONSOLE) /\ pc' = "prepare"
               ELSE UNCHANGED display /\ pc' = "unsupported"
        BY <1>5 DEF SelectCurrent
    <2>3. seen \in Seen \cup {None} /\ moved' \in BOOLEAN /\ events' \in 0 .. Budget
        BY <2>2, LookGives
    <2>4. /\ display' \in Displays \cup {None} /\ pc' \in {"prepare", "unsupported"}
          /\ pc' = "prepare" => display' # None
        <3>1. CASE seen # None /\ Supported(seen, CURRENT_CONSOLE)
            BY <2>2, <2>3, <3>1, DisplayIsDisplay, NoneIsNothing
        <3>2. CASE ~(seen # None /\ Supported(seen, CURRENT_CONSOLE))
            BY <2>2, <3>2 DEF TypeOK
        <3> QED
            BY <3>1, <3>2
    <2>5. layout' = None
        BY <2>1 DEF TypeOK
    <2>6. observations' \in Seq([profile : Profiles, seen : Seen \cup {None}])
        BY <2>1
    <2> QED
        BY <2>1, <2>3, <2>4, <2>5, <2>6 DEF TypeOK, IsFrame, Grid
<1>6. CASE Reapply
    <2>1. /\ pc = "again" /\ Apply(display.profile, "look", "unsupported")
          /\ UNCHANGED negotiation
        BY <1>6 DEF Reapply
    <2>2. display.profile \in Profiles /\ display # None
        BY <2>1 DEF TypeOK, EveryProfileIsTried
    <2>3. layout = None
        BY <2>1 DEF TypeOK
    <2> QED
        BY <2>1, <2>2, <2>3, ApplyDoes DEF TypeOK, IsFrame
<1>7. CASE Reobserve
    <2>1. /\ pc = "look"
          /\ UNCHANGED <<console, tty, negotiation, previous_frame, machine, layout, drawing,
                         pace, disturbed>>
        BY <1>7 DEF Reobserve
    <2>2. PICK seen \in {Observation, None} :
            /\ ReadObservation(seen)
            /\ IF seen # None /\ Supported(seen, display.profile)
               THEN display' = NegotiatedDisplay(seen, display.profile) /\ pc' = "prepare"
               ELSE UNCHANGED display /\ pc' = "unsupported"
        BY <1>7 DEF Reobserve
    <2>3. seen \in Seen \cup {None} /\ moved' \in BOOLEAN /\ events' \in 0 .. Budget
        BY <2>2, LookGives
    <2>p. display.profile \in Profiles \cup {CURRENT_CONSOLE} /\ display \in Displays \cup {None}
        BY <2>1 DEF TypeOK, Displays
    <2>4. /\ display' \in Displays \cup {None} /\ pc' \in {"prepare", "unsupported"}
          /\ pc' = "prepare" => display' # None
        <3>1. CASE seen # None /\ Supported(seen, display.profile)
            BY <2>2, <2>3, <2>p, <3>1, DisplayIsDisplay, NoneIsNothing
        <3>2. CASE ~(seen # None /\ Supported(seen, display.profile))
            BY <2>2, <2>p, <3>2
        <3> QED
            BY <3>1, <3>2
    <2>5. layout' = None
        BY <2>1 DEF TypeOK
    <2> QED
        BY <2>1, <2>3, <2>4, <2>5 DEF TypeOK, IsFrame, Grid
<1>8. CASE Prepare
    <2>1. /\ pc = "prepare" /\ pc' = "sample" /\ tty' = Cleared /\ disturbed' = FALSE
          /\ previous_frame' = None
          /\ startup_full_redraws' = StartupFullRedraws /\ since_full' = 0
          /\ UNCHANGED <<console, negotiation, display, machine, layout, drawing, moved, events>>
        BY <1>8 DEF Prepare
    <2>2. /\ tty' \in [CellsOf(Grid) -> Glyphs \cup {Blank, Foreign}]
          /\ startup_full_redraws' \in 0 .. StartupFullRedraws
          /\ since_full' \in 0 .. FullRedrawInterval
        BY <2>1, DashboardLimits DEF Cleared
    <2>3. layout' = None /\ display # None
        BY <2>1 DEF TypeOK
    <2> QED
        BY <2>1, <2>2, <2>3 DEF TypeOK, IsFrame, Grid
<1>9. CASE PrepareFails
    <2>1. /\ pc = "prepare" /\ pc' = "unsupported" /\ Spend
          /\ UNCHANGED <<console, tty, negotiation, session, machine, layout, drawing, pace,
                         moved, disturbed>>
        BY <1>9 DEF PrepareFails
    <2>2. layout' = None
        BY <2>1 DEF TypeOK
    <2>3. events' \in 0 .. Budget
        BY <2>1, DashboardLimits DEF Spend, TypeOK
    <2> QED
        BY <2>1, <2>2, <2>3 DEF TypeOK, IsFrame, Grid
<1>10. CASE Unsupported
    <2>1. /\ pc = "unsupported" /\ pc' = "start" /\ tty' = [c \in CellsOf(Grid) |-> Foreign]
          /\ display' = None /\ previous_frame' = None
          /\ UNCHANGED <<console, negotiation, machine, layout, drawing, pace, moved, disturbed,
                         events>>
        BY <1>10 DEF Unsupported
    <2>2. layout' = None /\ tty' \in [CellsOf(Grid) -> Glyphs \cup {Blank, Foreign}]
        BY <2>1 DEF TypeOK
    <2> QED
        BY <2>1, <2>2 DEF TypeOK, IsFrame, Grid
<1> QED
    BY <1>1, <1>2, <1>3, <1>4, <1>5, <1>6, <1>7, <1>8, <1>9, <1>10

-----------------------------------------------------------------------------
(* The loop.                                                               *)

\* What a pass gives to a section.
LEMMA GiveIs ==
    ASSUME NEW l \in Layouts, NEW section \in {"storage", "network", "compute"},
           NEW rows \in 1 .. 2, NEW atLeast \in Nat, atLeast >= rows,
           rows = 2 => l.extra[section] % 2 = 0
    PROVE  /\ Give(l, section, rows, atLeast) \in Layouts
           /\ Give(l, section, rows, atLeast).demand = l.demand
           /\ \A other \in {"storage", "network", "compute"} \ {section} :
                Give(l, section, rows, atLeast).extra[other] = l.extra[other]
           /\ rows = 2 => Give(l, section, rows, atLeast).extra[section] % 2 = 0
           /\ Give(l, section, rows, atLeast).extra[section]
                + Give(l, section, rows, atLeast).remaining
                = l.extra[section] + l.remaining
<1> DEFINE g == Give(l, section, rows, atLeast)
           k == {"storage", "network", "compute"}
<1>1. /\ l.remaining \in Nat /\ l.demand \in Extras /\ l.extra \in Extras
      /\ l = [demand |-> l.demand, extra |-> l.extra, remaining |-> l.remaining]
    BY DEF Layouts
<1>2. \A s \in k : l.extra[s] \in 0 .. 12 /\ l.demand[s] \in 0 .. 12
    BY <1>1 DEF Extras, Rows, DetailLimit
<1>3. CASE l.remaining >= atLeast /\ l.extra[section] < l.demand[section]
    <2>1. g = [l EXCEPT !.extra[section] = @ + rows, !.remaining = @ - rows]
        BY <1>3 DEF Give
    <2>2. /\ g.demand = l.demand /\ g.remaining = l.remaining - rows
          /\ g.extra = [l.extra EXCEPT ![section] = @ + rows]
          /\ g = [demand |-> g.demand, extra |-> g.extra, remaining |-> g.remaining]
        BY <1>1, <2>1
    <2>3. g.extra[section] = l.extra[section] + rows /\ g.extra[section] \in 0 .. 12
        <3>1. g.extra[section] = l.extra[section] + rows
            BY <1>1, <2>2 DEF Extras
        <3>2. l.extra[section] \in 0 .. 11
            BY <1>2, <1>3
        <3>3. rows = 2 => l.extra[section] # 11
            OBVIOUS
        <3> QED
            BY <3>1, <3>2, <3>3
    <2>4. \A s \in k \ {section} : g.extra[s] = l.extra[s]
        BY <1>1, <2>2 DEF Extras
    <2>5. g.extra \in Extras
        BY <1>1, <1>2, <2>2, <2>3, <2>4 DEF Extras, Rows, DetailLimit
    <2>6. g.remaining \in Nat
        BY <1>1, <1>3, <2>2
    <2>7. rows = 2 => g.extra[section] % 2 = 0
        BY <1>2, <2>3
    <2>8. g.extra[section] + g.remaining = l.extra[section] + l.remaining
        BY <1>1, <1>2, <2>2, <2>3
    <2> HIDE DEF g
    <2>9. g \in Layouts
        BY <1>1, <2>2, <2>5, <2>6 DEF Layouts
    <2> QED
        BY <2>2, <2>4, <2>7, <2>8, <2>9 DEF g
<1>4. CASE ~(l.remaining >= atLeast /\ l.extra[section] < l.demand[section])
    <2>1. g = l
        BY <1>4 DEF Give
    <2> QED
        BY <2>1
<1> QED
    BY <1>3, <1>4

\* A pass takes the rows it gives from those that remain.
LEMMA PassIs ==
    ASSUME TypeOK, EveryRowIsCounted, AllocatePass
    PROVE  /\ layout # None /\ layout' \in Layouts
           /\ layout'.extra.storage + layout'.extra.network + layout'.extra.compute
                + layout'.remaining = Body(display.grid) - 21
           /\ layout'.extra.storage % 2 = 0 /\ layout'.extra.network % 2 = 0
           /\ UNCHANGED <<pc, display>>
<1> DEFINE l1 == Give(layout, "storage", 2, 2)
           l2 == Give(l1, "network", 2, 2)
           l3 == Give(l2, "compute", 1, 1)
<1>1. /\ pc = "layout" /\ layout' = l3 /\ UNCHANGED <<pc, display>>
    BY DEF AllocatePass, PassWith, session
<1>2. layout \in Layouts /\ layout # None
    BY <1>1 DEF TypeOK
<1>3. /\ layout.extra.storage + layout.extra.network + layout.extra.compute
              + layout.remaining = Body(display.grid) - 21
      /\ layout.extra["storage"] % 2 = 0 /\ layout.extra["network"] % 2 = 0
    BY <1>2 DEF EveryRowIsCounted
<1>4. /\ l1 \in Layouts /\ l1.extra["network"] = layout.extra["network"]
      /\ l1.extra["compute"] = layout.extra["compute"] /\ l1.extra["storage"] % 2 = 0
      /\ l1.extra["storage"] + l1.remaining = layout.extra["storage"] + layout.remaining
    BY <1>2, <1>3, GiveIs
<1> HIDE DEF l1
<1>5. /\ l2 \in Layouts /\ l2.extra["storage"] = l1.extra["storage"]
      /\ l2.extra["compute"] = l1.extra["compute"] /\ l2.extra["network"] % 2 = 0
      /\ l2.extra["network"] + l2.remaining = l1.extra["network"] + l1.remaining
    BY <1>3, <1>4, GiveIs
<1> HIDE DEF l2
<1>6. /\ l3 \in Layouts /\ l3.extra["storage"] = l2.extra["storage"]
      /\ l3.extra["network"] = l2.extra["network"]
      /\ l3.extra["compute"] + l3.remaining = l2.extra["compute"] + l2.remaining
    <2>1. 1 \in 1 .. 2 /\ 1 \in Nat /\ 1 >= 1 /\ 1 # 2
        OBVIOUS
    <2>2. l2 \in Layouts
        BY <1>5
    <2> QED
        BY ONLY <2>1, <2>2, GiveIs DEF l3
<1> HIDE DEF l3
<1>7. \A l \in {layout, l1, l2, l3} :
          /\ l.extra.storage \in Nat /\ l.extra.network \in Nat /\ l.extra.compute \in Nat
          /\ l.remaining \in Nat
    BY <1>2, <1>4, <1>5, <1>6 DEF Layouts, Extras, Rows
<1>8. l3.extra.storage + l3.extra.network + l3.extra.compute + l3.remaining
        = layout.extra.storage + layout.extra.network + layout.extra.compute + layout.remaining
    <2> DEFINE sum(l) == l.extra.storage + l.extra.network + l.extra.compute + l.remaining
    <2>1. sum(l1) = sum(layout)
        BY <1>4, <1>7
    <2>2. sum(l2) = sum(l1)
        BY <1>5, <1>7
    <2>3. sum(l3) = sum(l2)
        BY <1>6, <1>7
    <2> QED
        BY <2>1, <2>2, <2>3
<1>9. l3.extra.storage % 2 = 0 /\ l3.extra.network % 2 = 0
    BY <1>4, <1>5, <1>6
<1> QED
    BY <1>1, <1>2, <1>3, <1>6, <1>8, <1>9

\* The body of an eligible display has the rows every section has.
LEMMA BodyIs ==
    ASSUME TypeOK, DisplayIsEligible, display # None
    PROVE  Body(display.grid) \in Nat /\ Body(display.grid) >= 21
<1>1. display.grid.rows \in Nat /\ display.grid.rows >= 24
    BY DEF TypeOK, Displays, Grids, DisplayIsEligible, envelope
<1> QED
    BY <1>1 DEF Body, Least, saturating_sub, envelope

\* The frame that is composed has the cells of its grid.
LEMMA ComposedIsFrame ==
    ASSUME NEW g \in Grids, NEW content \in [CellsOf(g) -> Glyphs]
    PROVE  IsFrame([grid |-> g, cells |-> content]) /\ [grid |-> g, cells |-> content] # None
<1>1. Bands(g) \in Nat /\ CellsOf(g) = 1 .. Bands(g)
    BY CellsAre
<1>2. content \in Seq(Glyphs)
    BY <1>1
<1>3. [grid |-> g, cells |-> content] \in Drawn
    BY <1>2 DEF Drawn
<1> QED
    BY <1>3, NoneIsNothing DEF IsFrame

\* The steps of the loop keep the types.
LEMMA LoopTypeOK ==
    /\ TypeOK /\ DisplayIsEligible /\ FrameIsThere /\ EveryRowIsCounted
    /\ Sample \/ AllocatePass \/ Compose \/ Draw \/ WriteCell \/ Presented \/ RenderFails
        \/ RefreshDisplay
    => TypeOK'
<1> SUFFICES ASSUME TypeOK, DisplayIsEligible, FrameIsThere, EveryRowIsCounted,
                    Sample \/ AllocatePass \/ Compose \/ Draw \/ WriteCell \/ Presented
                        \/ RenderFails \/ RefreshDisplay
             PROVE  TypeOK'
    OBVIOUS
<1> USE DEF console, negotiation, session, drawing, pace
<1>b. moved \in BOOLEAN /\ disturbed \in BOOLEAN /\ full \in BOOLEAN
    BY DEF TypeOK
<1>1. CASE Sample
    <2>1. /\ pc = "sample" /\ pc' = "layout"
          /\ UNCHANGED <<console, tty, negotiation, session, machine, drawing, pace, moved,
                         disturbed, events>>
        BY <1>1 DEF Sample
    <2>2. PICK top \in BOOLEAN :
            layout' = [demand |-> Demand(machine, top), extra |-> NoRows,
                       remaining |-> saturating_sub(Body(display.grid), 21)]
        BY <1>1 DEF Sample
    <2>3. display # None /\ {machine.disks, machine.nics, machine.cores} \subseteq Nat
        BY <2>1, DashboardLimits DEF TypeOK
    <2>4. Demand(machine, top) \in Extras
        BY <2>3 DEF Demand, Extras, Rows, DetailLimit, Least
    <2>5. NoRows \in Extras
        BY DEF NoRows, Extras, Rows, DetailLimit
    <2>6. saturating_sub(Body(display.grid), 21) \in Nat
        BY <2>3, BodyIs DEF saturating_sub
    <2>7. layout' \in Layouts /\ layout' # None
        BY <2>2, <2>4, <2>5, <2>6, NoneIsNothing DEF Layouts
    <2> QED
        BY <1>b, <2>1, <2>3, <2>7 DEF TypeOK, IsFrame, Grid
<1>2. CASE AllocatePass
    <2>1. /\ pc = "layout" /\ layout' \in Layouts /\ layout' # None
          /\ UNCHANGED <<pc, console, tty, negotiation, session, machine, drawing, pace, moved,
                         disturbed, events>>
        BY <1>2, PassIs, NoneIsNothing DEF AllocatePass, PassWith
    <2> QED
        BY <1>b, <2>1 DEF TypeOK, IsFrame, Grid
<1>3. CASE Compose
    <2>1. /\ pc = "layout" /\ pc' = "draw" /\ layout' = None
          /\ UNCHANGED <<console, tty, negotiation, display, machine, cursor, full, moved,
                         disturbed, events>>
        BY <1>3 DEF Compose, ComposeWhen
    <2>2. PICK content \in [CellsOf(display.grid) -> Glyphs] :
            frame' = [grid |-> display.grid, cells |-> content]
        BY <1>3 DEF Compose, ComposeWhen
    <2>3. display # None /\ display.grid \in Grids
        BY <2>1 DEF TypeOK, Displays
    <2>4. IsFrame(frame')
        BY <2>2, <2>3, ComposedIsFrame
    <2>5. /\ previous_frame' = None \/ IsFrame(previous_frame')
          /\ startup_full_redraws' \in 0 .. StartupFullRedraws
          /\ since_full' \in 0 .. FullRedrawInterval
        <3>1. startup_full_redraws \in 0 .. StartupFullRedraws /\ since_full \in 0 .. FullRedrawInterval
              /\ FullRedrawInterval \in Nat /\ StartupFullRedraws \in Nat
            BY DashboardLimits DEF TypeOK
        <3>2. CASE FullRedrawIsDue
            BY <1>3, <3>1, <3>2 DEF Compose, ComposeWhen, saturating_sub
        <3>3. CASE ~FullRedrawIsDue
            BY <1>3, <3>1, <3>3 DEF Compose, ComposeWhen, TypeOK, IsFrame
        <3> QED
            BY <3>2, <3>3
    <2> QED
        BY <1>b, <2>1, <2>3, <2>4, <2>5 DEF TypeOK, IsFrame, Grid
<1>4. CASE Draw
    <2>1. /\ pc = "draw" /\ pc' = "write" /\ cursor' = 1
          /\ UNCHANGED <<console, negotiation, session, machine, layout, frame, pace, moved,
                         events>>
        BY <1>4 DEF Draw
    <2>2. full' \in BOOLEAN
        BY <1>4 DEF Draw
    <2>3. /\ tty' \in [CellsOf(Grid) -> Glyphs \cup {Blank, Foreign}]
          /\ disturbed' \in BOOLEAN
        <3>1. CASE full'
            BY <1>4, <3>1 DEF Draw, Cleared
        <3>2. CASE ~full'
            BY <1>b, <1>4, <3>2 DEF Draw, TypeOK
        <3> QED
            BY <3>1, <3>2
    <2>4. layout' = None /\ display # None
        BY <2>1 DEF TypeOK
    <2> QED
        BY <1>b, <2>1, <2>2, <2>3, <2>4 DEF TypeOK, IsFrame, Grid
<1>5. CASE WriteCell
    <2>1. /\ pc = "write" /\ cursor \in DOMAIN frame.cells /\ cursor' = cursor + 1
          /\ tty' = IF ToWrite(cursor) THEN [tty EXCEPT ![Landing(cursor)] = frame.cells[cursor]]
                                       ELSE tty
          /\ UNCHANGED <<pc, console, negotiation, session, machine, layout, frame, full, pace,
                         moved, disturbed, events>>
        BY <1>5 DEF WriteCell
    <2>2. IsFrame(frame) /\ frame.cells \in Seq(Glyphs)
        BY <2>1 DEF FrameIsThere, TypeOK, IsFrame, Drawn
    <2>3. frame.cells[cursor] \in Glyphs
        BY <2>1, <2>2
    <2>4. tty' \in [CellsOf(Grid) -> Glyphs \cup {Blank, Foreign}]
        BY <2>1, <2>3 DEF TypeOK
    <2>5. cursor' \in Nat \ {0} /\ layout' = None
        BY <2>1 DEF TypeOK
    <2> QED
        BY <1>b, <2>1, <2>4, <2>5 DEF TypeOK, IsFrame, Grid
<1>6. CASE Presented \/ RenderFails
    <2>1. /\ pc = "write" /\ pc' = "sleep" /\ cursor' = 1 /\ full' = FALSE
          /\ previous_frame' \in {frame, None}
          /\ UNCHANGED <<console, tty, negotiation, display, machine, layout, frame, pace, moved,
                         disturbed>>
        BY <1>6 DEF Presented, RenderFails, EndFrame
    <2>2. events' \in 0 .. Budget
        BY <1>6, DashboardLimits DEF Presented, RenderFails, Spend, TypeOK
    <2>3. previous_frame' = None \/ IsFrame(previous_frame')
        BY <2>1 DEF TypeOK, IsFrame
    <2>4. layout' = None /\ display # None
        BY <2>1 DEF TypeOK
    <2>5. full' \in BOOLEAN /\ moved' \in BOOLEAN /\ disturbed' \in BOOLEAN
        BY <1>b, <2>1
    <2>6. frame' = None \/ IsFrame(frame')
        BY <2>1 DEF TypeOK
    <2> QED
        BY <2>1, <2>2, <2>3, <2>4, <2>5, <2>6 DEF TypeOK, Grid
<1>7. CASE RefreshDisplay
    <2>1. /\ pc = "sleep" /\ pc' = "sample"
          /\ since_full' = Least(since_full + 1, FullRedrawInterval)
          /\ UNCHANGED <<console, tty, negotiation, machine, layout, drawing,
                         startup_full_redraws, disturbed>>
        BY <1>7 DEF RefreshDisplay
    <2>2. PICK seen \in {Observation, None} :
            /\ ReadObservation(seen)
            /\ IF /\ seen # None
                  /\ Supported(seen, display.profile)
                  /\ NegotiatedDisplay(seen, display.profile) # display
               THEN display' = NegotiatedDisplay(seen, display.profile) /\ previous_frame' = None
               ELSE UNCHANGED session
        BY <1>7 DEF RefreshDisplay
    <2>3. seen \in Seen \cup {None} /\ moved' \in BOOLEAN /\ events' \in 0 .. Budget
        BY <2>2, LookGives
    <2>4. display \in Displays /\ display.profile \in Profiles \cup {CURRENT_CONSOLE}
        BY <2>1 DEF TypeOK, Displays
    <2>5. /\ display' \in Displays /\ display' # None
          /\ previous_frame' = None \/ IsFrame(previous_frame')
        <3>1. CASE /\ seen # None
                   /\ Supported(seen, display.profile)
                   /\ NegotiatedDisplay(seen, display.profile) # display
            BY <2>2, <2>3, <2>4, <3>1, DisplayIsDisplay, NoneIsNothing
        <3>2. CASE UNCHANGED session
            BY <2>4, <3>2, NoneIsNothing DEF TypeOK, IsFrame
        <3> QED
            BY <2>2, <3>1, <3>2
    <2>6. since_full' \in 0 .. FullRedrawInterval
        BY <2>1, DashboardLimits DEF TypeOK, Least
    <2>7. layout' = None
        BY <2>1 DEF TypeOK
    <2> QED
        BY <1>b, <2>1, <2>3, <2>5, <2>6, <2>7 DEF TypeOK, IsFrame, Grid
<1> QED
    BY <1>1, <1>2, <1>3, <1>4, <1>5, <1>6, <1>7

-----------------------------------------------------------------------------
(* The rest of the invariant.                                              *)

\* A profile that was to try is tried, the others are still to try.
LEMMA TriedIsTried ==
    ASSUME TypeOK, EveryProfileIsTried, pc \in {"font", "observe"}, todo # <<>>,
           NEW seen \in Seen \cup {None}, Tried(seen), NEW p \in Profiles
    PROVE  \/ \E i \in DOMAIN todo' : todo'[i] = p
           \/ \E i \in DOMAIN observations' : observations'[i].profile = p
<1> DEFINE S == [profile : Profiles, seen : Seen \cup {None}]
           o == [profile |-> Head(todo), seen |-> seen]
<1>1. todo \in Seq(Profiles) /\ observations \in Seq(S)
    BY DEF TypeOK
<1>2. todo' = Tail(todo) /\ observations' = Append(observations, o)
    BY DEF Tried
<1>3. o.profile = Head(todo) /\ o \in S
    BY <1>1
<1> HIDE DEF o, S
<1>4. CASE \E i \in DOMAIN observations : observations[i].profile = p
    <2>1. PICK i \in DOMAIN observations : observations[i].profile = p
        BY <1>4
    <2>2. i \in DOMAIN observations' /\ observations'[i] = observations[i]
        BY <1>1, <1>2, <1>3
    <2> QED
        BY <2>1, <2>2
<1>5. CASE \E i \in DOMAIN todo : todo[i] = p
    <2>1. PICK i \in DOMAIN todo : todo[i] = p
        BY <1>5
    <2>2. CASE i = 1
        <3>1. Head(todo) = p
            BY <1>1, <2>1, <2>2
        <3>2. /\ Len(observations) + 1 \in DOMAIN observations'
              /\ observations'[Len(observations) + 1] = o
            BY <1>1, <1>2, <1>3
        <3> QED
            BY <1>3, <3>1, <3>2
    <2>3. CASE i # 1
        <3>1. i - 1 \in DOMAIN todo' /\ todo'[i - 1] = todo[i]
            BY <1>1, <1>2, <2>1, <2>3
        <3> QED
            BY <2>1, <3>1
    <2> QED
        BY <2>2, <2>3
<1> QED
    BY <1>4, <1>5 DEF EveryProfileIsTried

\* The negotiation tries every profile before it selects one.
LEMMA EveryProfileIsTriedStep ==
    TypeOK /\ EveryProfileIsTried /\ [Next]_vars => EveryProfileIsTried'
<1> SUFFICES ASSUME TypeOK, EveryProfileIsTried, [Next]_vars PROVE EveryProfileIsTried'
    OBVIOUS
<1> USE DEF console, negotiation, session, drawing, pace
<1>1. CASE ChangeScreen \/ KernelPrints \/ UNCHANGED vars
    BY <1>1 DEF ChangeScreen, KernelPrints, vars, EveryProfileIsTried
<1>2. CASE EnterTty
    <2>1. pc' = "font" /\ todo' = candidate_profiles(framebuffer_virtual_size)
        BY <1>2 DEF EnterTty
    <2>2. 1 \in DOMAIN todo' /\ 2 \in DOMAIN todo' /\ Profiles = {todo'[1], todo'[2]}
        BY <2>1, CandidatesAre
    <2> QED
        BY <2>1, <2>2 DEF EveryProfileIsTried
<1>3. CASE SetFont
    <2>1. /\ pc = "font" /\ todo # <<>>
          /\ IF driver.font = "fails" THEN pc' = "font" /\ Tried(None)
             ELSE pc' = "observe" /\ UNCHANGED <<todo, observations>>
        BY <1>3 DEF SetFont, Apply
    <2>2. CASE driver.font = "fails"
        <3>1. \A p \in Profiles : \/ \E i \in DOMAIN todo' : todo'[i] = p
                                  \/ \E i \in DOMAIN observations' : observations'[i].profile = p
            BY <2>1, <2>2, TriedIsTried
        <3> QED
            BY <2>1, <2>2, <3>1 DEF EveryProfileIsTried
    <2>3. CASE driver.font # "fails"
        BY <2>1, <2>3 DEF EveryProfileIsTried
    <2> QED
        BY <2>2, <2>3
<1>4. CASE Observe
    <2>1. PICK seen \in {Observation, None} : ReadObservation(seen) /\ Tried(seen)
        BY <1>4 DEF Observe
    <2>2. pc = "observe" /\ pc' = "font" /\ todo # <<>> /\ seen \in Seen \cup {None}
        BY <1>4, <2>1, LookGives DEF Observe, EveryProfileIsTried
    <2>3. \A p \in Profiles : \/ \E i \in DOMAIN todo' : todo'[i] = p
                              \/ \E i \in DOMAIN observations' : observations'[i].profile = p
        BY <2>1, <2>2, TriedIsTried
    <2> QED
        BY <2>2, <2>3 DEF EveryProfileIsTried
<1>5. CASE Select
    <2> DEFINE profile == SelectionOrder[Min(Eligible)]
    <2>1. /\ pc' = "again" /\ pc = "font" /\ todo = <<>> /\ Eligible # {}
          /\ display' = NegotiatedDisplay(ObservationOf(profile), profile)
        BY <1>5 DEF Select, SelectInto
    <2>2. profile \in Profiles
        BY <2>1, SelectedIsEligible
    <2>3. display'.profile = profile
        BY <2>1 DEF NegotiatedDisplay
    <2> QED
        BY <2>1, <2>2, <2>3 DEF EveryProfileIsTried
<1>6. CASE SelectCurrent \/ Reapply \/ Reobserve \/ Prepare \/ PrepareFails \/ Unsupported
    <2>1. pc' \notin {"font", "observe", "again"}
        BY <1>6 DEF SelectCurrent, Reapply, Reobserve, Prepare, PrepareFails, Unsupported, Apply
    <2> QED
        BY <2>1 DEF EveryProfileIsTried
<1>7. CASE Sample \/ AllocatePass \/ Compose \/ Draw \/ WriteCell \/ Presented \/ RenderFails
              \/ RefreshDisplay
    <2>1. pc' \notin {"font", "observe", "again"}
        BY <1>7 DEF Sample, AllocatePass, PassWith, Compose, ComposeWhen, Draw, WriteCell,
                    Presented, RenderFails, EndFrame, RefreshDisplay
    <2> QED
        BY <2>1 DEF EveryProfileIsTried
<1> QED
    BY <1>1, <1>2, <1>3, <1>4, <1>5, <1>6, <1>7 DEF Next, Dashboard

\* Only eligible displays are taken.
LEMMA DisplayIsEligibleStep ==
    TypeOK /\ EveryProfileIsTried /\ DisplayIsEligible /\ [Next]_vars => DisplayIsEligible'
<1> SUFFICES ASSUME TypeOK, EveryProfileIsTried, DisplayIsEligible, [Next]_vars
             PROVE  DisplayIsEligible'
    OBVIOUS
<1> USE DEF console, negotiation, session, drawing, pace
<1>1. CASE UNCHANGED display
    BY <1>1 DEF DisplayIsEligible
<1>2. CASE display' = None
    BY <1>2 DEF DisplayIsEligible
<1>3. ASSUME NEW seen \in {Observation, None}, seen # None, ReadObservation(seen),
             NEW profile \in Profiles \cup {CURRENT_CONSOLE}, Supported(seen, profile),
             display' = NegotiatedDisplay(seen, profile)
      PROVE  DisplayIsEligible'
    <2>1. seen \in Seen
        BY <1>3, LookGives
    <2> QED
        BY <1>3, <2>1, DisplayIsDisplay DEF DisplayIsEligible
<1>4. CASE Select
    <2> DEFINE profile == SelectionOrder[Min(Eligible)]
    <2>1. /\ pc = "font" /\ todo = <<>> /\ Eligible # {}
          /\ display' = NegotiatedDisplay(ObservationOf(profile), profile)
        BY <1>4 DEF Select, SelectInto
    <2>2. /\ profile \in Profiles /\ ObservationOf(profile) \in Seen
          /\ Supported(ObservationOf(profile), profile)
        BY <2>1, SelectedIsEligible
    <2> HIDE DEF profile
    <2> QED
        BY <2>1, <2>2, DisplayIsDisplay DEF DisplayIsEligible
<1>5. CASE SelectCurrent
    BY <1>1, <1>3, <1>5 DEF SelectCurrent
<1>6. CASE Reobserve
    <2>1. display.profile \in Profiles \cup {CURRENT_CONSOLE}
        BY <1>6 DEF Reobserve, TypeOK, Displays
    <2> QED
        BY <1>1, <1>3, <1>6, <2>1 DEF Reobserve
<1>7. CASE RefreshDisplay
    <2>1. display.profile \in Profiles \cup {CURRENT_CONSOLE}
        BY <1>7 DEF RefreshDisplay, TypeOK, Displays
    <2> QED
        BY <1>1, <1>3, <1>7, <2>1 DEF RefreshDisplay
<1>8. CASE Unsupported
    BY <1>2, <1>8 DEF Unsupported
<1>9. CASE ChangeScreen \/ KernelPrints \/ EnterTty \/ SetFont \/ Observe \/ Reapply \/ Prepare
              \/ PrepareFails \/ Sample \/ AllocatePass \/ Compose \/ Draw \/ WriteCell
              \/ Presented \/ RenderFails \/ UNCHANGED vars
    <2>1. UNCHANGED display
        BY <1>9 DEF ChangeScreen, KernelPrints, EnterTty, SetFont, Observe, Reapply, Prepare,
                    PrepareFails, Sample, AllocatePass, PassWith, Compose, ComposeWhen, Draw,
                    WriteCell, Presented, RenderFails, EndFrame, Apply, vars
    <2> QED
        BY <1>1, <2>1
<1> QED
    BY <1>4, <1>5, <1>6, <1>7, <1>8, <1>9 DEF Next, Dashboard

\* The session draws for the grid it last saw.
LEMMA SettledOnTheGridStep ==
    TypeOK /\ SettledOnTheGrid /\ [Next]_vars => SettledOnTheGrid'
<1> SUFFICES ASSUME TypeOK, SettledOnTheGrid, [Next]_vars PROVE SettledOnTheGrid'
    OBVIOUS
<1> USE DEF console, negotiation, session, drawing, pace
<1> DEFINE Settled == Running \cup {"prepare"}
<1>1. ASSUME UNCHANGED <<console, display>>, pc' \in Settled => pc \in Settled /\ moved' = moved
      PROVE  SettledOnTheGrid'
    <2>1. Observation' = Observation /\ Grid' = Grid
        BY <1>1 DEF Observation, Grid
    <2>2. Supported(Observation, display.profile)'
            => Supported(Observation, display.profile)
        BY <1>1, <2>1
    <2> QED
        BY <1>1, <2>1, <2>2 DEF SettledOnTheGrid
<1>2. ASSUME pc' \notin Settled PROVE SettledOnTheGrid'
    BY <1>2 DEF SettledOnTheGrid
<1>3. ASSUME moved' = TRUE PROVE SettledOnTheGrid'
    BY <1>3 DEF SettledOnTheGrid
<1>4. ASSUME UNCHANGED console, display'.grid = Observation.grid PROVE SettledOnTheGrid'
    <2>1. display'.grid = Grid /\ Grid' = Grid
        BY <1>4 DEF Observation, Grid
    <2> QED
        BY <2>1 DEF SettledOnTheGrid
<1>5. ASSUME NEW seen \in {Observation, None}, seen # None, NEW profile,
             UNCHANGED console, display' = NegotiatedDisplay(seen, profile)
      PROVE  SettledOnTheGrid'
    <2>1. display'.grid = Observation.grid
        BY <1>5 DEF NegotiatedDisplay
    <2> QED
        BY <1>4, <1>5, <2>1
<1>6. CASE ChangeScreen
    BY <1>3, <1>6 DEF ChangeScreen
<1>7. CASE SelectCurrent
    BY <1>2, <1>5, <1>7 DEF SelectCurrent, Running
<1>8. CASE Reobserve
    BY <1>2, <1>5, <1>8 DEF Reobserve, Running
<1>9. CASE RefreshDisplay
    <2>1. /\ pc = "sleep" /\ UNCHANGED console
        BY <1>9 DEF RefreshDisplay
    <2>2. PICK seen \in {Observation, None} :
            /\ ReadObservation(seen)
            /\ IF /\ seen # None
                  /\ Supported(seen, display.profile)
                  /\ NegotiatedDisplay(seen, display.profile) # display
               THEN display' = NegotiatedDisplay(seen, display.profile) /\ previous_frame' = None
               ELSE UNCHANGED session
        BY <1>9 DEF RefreshDisplay
    <2>3. CASE /\ seen # None
               /\ Supported(seen, display.profile)
               /\ NegotiatedDisplay(seen, display.profile) # display
        BY <1>5, <2>1, <2>2, <2>3
    <2>4. CASE seen # Observation
        <3>1. moved' = moved /\ seen = None
            BY <2>2, <2>4, LookGives
        <3> QED
            BY <1>1, <2>1, <2>2, <3>1 DEF Running
    <2>5. CASE seen = Observation /\ ~(Supported(seen, display.profile)
                    /\ NegotiatedDisplay(seen, display.profile) # display)
        <3>1. seen # None
            BY <2>5, SeenIsSeen, NoneIsNothing DEF TypeOK
        <3>2. UNCHANGED display
            BY <2>2, <2>5
        <3>3. Observation' = Observation /\ Grid' = Grid
            BY <2>1 DEF Observation, Grid
        <3>4. CASE ~Supported(Observation, display.profile)
            BY <3>2, <3>3, <3>4 DEF SettledOnTheGrid
        <3>5. CASE NegotiatedDisplay(Observation, display.profile) = display
            <4>1. display.grid = Observation.grid
                BY <3>5 DEF NegotiatedDisplay
            <4> QED
                BY <1>4, <2>1, <3>2, <4>1
        <3> QED
            BY <2>5, <3>4, <3>5
    <2>6. Observation # None
        BY SeenIsSeen, NoneIsNothing DEF TypeOK
    <2>7. CASE seen = Observation /\ Supported(seen, display.profile)
                    /\ NegotiatedDisplay(seen, display.profile) # display
        BY <2>3, <2>6, <2>7
    <2> QED
        BY <2>4, <2>5, <2>7
<1>10. CASE \/ EnterTty \/ SetFont \/ Observe \/ Select \/ Reapply \/ PrepareFails \/ Unsupported
    <2>1. pc' \notin Settled
        BY <1>10 DEF EnterTty, SetFont, Observe, Select, SelectInto, Reapply, PrepareFails,
                     Unsupported, Apply, Running
    <2> QED
        BY <1>2, <2>1
<1>11. CASE \/ KernelPrints \/ Prepare \/ Sample \/ AllocatePass \/ Compose \/ Draw \/ WriteCell
            \/ Presented \/ RenderFails \/ UNCHANGED vars
    <2>1. UNCHANGED <<console, display>> /\ moved' = moved
        BY <1>11 DEF KernelPrints, Prepare, Sample, AllocatePass, PassWith, Compose, ComposeWhen,
                     Draw, WriteCell, Presented, RenderFails, EndFrame, vars
    <2>2. pc' \in Settled => pc \in Settled
        BY <1>11 DEF KernelPrints, Prepare, Sample, AllocatePass, PassWith, Compose, ComposeWhen,
                     Draw, WriteCell, Presented, RenderFails, EndFrame, vars, Running
    <2> HIDE DEF Settled
    <2> QED
        BY <1>1, <2>1, <2>2
<1> QED
    BY <1>6, <1>7, <1>8, <1>9, <1>10, <1>11 DEF Next, Dashboard

\* No row is lost or given twice.
LEMMA EveryRowIsCountedStep ==
    TypeOK /\ DisplayIsEligible /\ EveryRowIsCounted /\ [Next]_vars => EveryRowIsCounted'
<1> SUFFICES ASSUME TypeOK, DisplayIsEligible, EveryRowIsCounted, [Next]_vars
             PROVE  EveryRowIsCounted'
    OBVIOUS
<1> USE DEF console, negotiation, session, drawing, pace
<1>1. CASE AllocatePass
    BY <1>1, PassIs DEF EveryRowIsCounted
<1>2. CASE Sample
    <2>1. /\ layout'.extra = NoRows
          /\ layout'.remaining = saturating_sub(Body(display.grid), 21)
          /\ pc = "sample" /\ UNCHANGED display
        BY <1>2 DEF Sample
    <2>2. Body(display.grid) \in Nat /\ Body(display.grid) >= 21
        BY <2>1, BodyIs DEF TypeOK
    <2>3. saturating_sub(Body(display.grid), 21) = Body(display.grid) - 21
        BY <2>2 DEF saturating_sub
    <2> QED
        BY <2>1, <2>2, <2>3 DEF EveryRowIsCounted, NoRows
<1>3. CASE Compose
    BY <1>3 DEF Compose, ComposeWhen, EveryRowIsCounted
<1>4. CASE ChangeScreen \/ KernelPrints \/ UNCHANGED vars
    BY <1>4 DEF ChangeScreen, KernelPrints, vars, EveryRowIsCounted
<1>5. CASE \/ EnterTty \/ SetFont \/ Observe \/ Select \/ SelectCurrent \/ Reapply \/ Reobserve
           \/ Prepare \/ PrepareFails \/ Unsupported \/ Draw \/ WriteCell \/ Presented
           \/ RenderFails \/ RefreshDisplay
    <2>1. UNCHANGED layout /\ pc # "layout"
        BY <1>5 DEF EnterTty, SetFont, Observe, Select, SelectInto, SelectCurrent, Reapply,
                    Reobserve, Prepare, PrepareFails, Unsupported, Draw, WriteCell, Presented,
                    RenderFails, EndFrame, RefreshDisplay, Apply
    <2>2. layout' = None
        BY <2>1 DEF TypeOK
    <2> QED
        BY <2>2 DEF EveryRowIsCounted
<1> QED
    BY <1>1, <1>2, <1>3, <1>4, <1>5 DEF Next, Dashboard

\* The steps of a frame: each cell is written or was right.
LEMMA WritingStep ==
    ASSUME TypeOK, FrameIsThere, WrittenSoFar, WriteCell
    PROVE  FrameIsThere' /\ WrittenSoFar' /\ DifferencesAreFromWhatIsShown'
<1> USE DEF console, negotiation, session, drawing, pace
<1>1. /\ pc = "write" /\ cursor \in DOMAIN frame.cells /\ cursor' = cursor + 1
      /\ tty' = IF ToWrite(cursor) THEN [tty EXCEPT ![Landing(cursor)] = frame.cells[cursor]]
                                   ELSE tty
      /\ UNCHANGED <<pc, console, negotiation, session, machine, layout, frame, full, pace,
                     moved, disturbed, events>>
    BY DEF WriteCell
<1>2. FrameIsThere'
    BY <1>1 DEF FrameIsThere
<1>3. DifferencesAreFromWhatIsShown'
    BY <1>1 DEF DifferencesAreFromWhatIsShown
<1>4. ASSUME ~disturbed, Fits(frame), NEW c \in DOMAIN frame.cells
      PROVE  /\ c < cursor' => tty'[c] = frame.cells[c]
             /\ c >= cursor' /\ ~full => tty'[c] = previous_frame.cells[c]
    <2>1. /\ frame # None /\ frame.grid \in Grids /\ DOMAIN frame.cells = CellsOf(frame.grid)
          /\ screen \in Screens /\ tty \in [CellsOf(Grid) -> Glyphs \cup {Blank, Foreign}]
        BY <1>1 DEF FrameIsThere, TypeOK, IsFrame, Drawn
    <2>2. Grid \in Grids /\ frame.grid.rows <= Grid.rows
        BY <1>4, <2>1, GridIsGrid DEF Fits, Grid
    <2>3. /\ Bands(frame.grid) \in Nat /\ Bands(Grid) \in Nat
          /\ CellsOf(frame.grid) = 1 .. Bands(frame.grid) /\ CellsOf(Grid) = 1 .. Bands(Grid)
          /\ Bands(frame.grid) <= Bands(Grid)
        BY <2>1, <2>2, CellsAre
    <2>4. /\ cursor \in CellsOf(Grid) /\ c \in CellsOf(Grid) /\ c \in Nat /\ cursor \in Nat
        BY <1>1, <1>4, <2>1, <2>3
    <2>5. Landing(cursor) = cursor
        BY <2>1, <2>4, LandsWhereItIs
    <2>6. /\ c < cursor => tty[c] = frame.cells[c]
          /\ c >= cursor /\ ~full => tty[c] = previous_frame.cells[c]
        BY <1>1, <1>4 DEF WrittenSoFar
    <2>7. c # cursor => tty'[c] = tty[c]
        BY <1>1, <2>1, <2>4, <2>5
    <2>8. tty'[cursor] = frame.cells[cursor]
        <3>1. CASE ToWrite(cursor)
            BY <1>1, <2>1, <2>4, <2>5, <3>1
        <3>2. CASE ~ToWrite(cursor)
            <4>1. ~full /\ frame.cells[cursor] = previous_frame.cells[cursor]
                BY <3>2 DEF ToWrite
            <4>2. tty[cursor] = previous_frame.cells[cursor]
                BY <1>1, <1>4, <2>4, <4>1 DEF WrittenSoFar
            <4> QED
                BY <1>1, <3>2, <4>1, <4>2
        <3> QED
            BY <3>1, <3>2
    <2>9. CASE c = cursor
        BY <1>1, <2>4, <2>8, <2>9
    <2>10. CASE c # cursor
        BY <1>1, <2>4, <2>6, <2>7, <2>10
    <2> QED
        BY <2>9, <2>10
<1>5. WrittenSoFar'
    <2>1. Fits(frame)' => Fits(frame)
        BY <1>1 DEF Fits, Grid
    <2> QED
        BY <1>1, <1>4, <2>1 DEF WrittenSoFar
<1> QED
    BY <1>2, <1>3, <1>5

\* The console shows what the differences are taken from.
LEMMA DrawingStep ==
    /\ TypeOK /\ FrameIsThere /\ DifferencesAreFromWhatIsShown /\ WrittenSoFar /\ [Next]_vars
    => FrameIsThere' /\ DifferencesAreFromWhatIsShown' /\ WrittenSoFar'
<1> SUFFICES ASSUME TypeOK, FrameIsThere, DifferencesAreFromWhatIsShown, WrittenSoFar, [Next]_vars
             PROVE  FrameIsThere' /\ DifferencesAreFromWhatIsShown' /\ WrittenSoFar'
    OBVIOUS
<1> USE DEF console, negotiation, session, drawing, pace
<1>1. CASE WriteCell
    BY <1>1, WritingStep
<1>2. CASE UNCHANGED vars
    <2>1. UNCHANGED <<pc, screen, font, tty, frame, previous_frame, cursor>>
            /\ (full' <=> full) /\ (disturbed' <=> disturbed)
        BY <1>2 DEF vars
    <2> QED
        BY <2>1 DEF FrameIsThere, DifferencesAreFromWhatIsShown, WrittenSoFar, Fits, Shows, Grid
<1>3. CASE ChangeScreen \/ KernelPrints
    <2>1. disturbed' = TRUE /\ UNCHANGED <<pc, frame, previous_frame>> /\ (full' <=> full)
        BY <1>3 DEF ChangeScreen, KernelPrints
    <2> QED
        BY <2>1 DEF FrameIsThere, DifferencesAreFromWhatIsShown, WrittenSoFar
<1>4. CASE \/ EnterTty \/ SetFont \/ Observe \/ Select \/ SelectCurrent \/ Reapply \/ Reobserve
           \/ PrepareFails \/ Unsupported
    <2>1. pc' \notin Running
        BY <1>4 DEF EnterTty, SetFont, Observe, Select, SelectInto, SelectCurrent, Reapply,
                    Reobserve, PrepareFails, Unsupported, Apply, Running
    <2> QED
        BY <2>1 DEF Running, FrameIsThere, DifferencesAreFromWhatIsShown, WrittenSoFar
<1>5. CASE Prepare \/ RenderFails
    <2>1. pc' \in {"sample", "sleep"} /\ previous_frame' = None
        BY <1>5 DEF Prepare, RenderFails, EndFrame
    <2> QED
        BY <2>1 DEF FrameIsThere, DifferencesAreFromWhatIsShown, WrittenSoFar
<1>6. CASE Sample \/ AllocatePass \/ RefreshDisplay
    <2>1. /\ pc \in {"sample", "layout", "sleep"} /\ pc' \in {"sample", "layout"}
          /\ UNCHANGED <<screen, font, tty>> /\ (disturbed' <=> disturbed)
          /\ previous_frame' \in {None, previous_frame}
        BY <1>6 DEF Sample, AllocatePass, PassWith, RefreshDisplay
    <2> QED
        BY <2>1 DEF FrameIsThere, DifferencesAreFromWhatIsShown, WrittenSoFar, Running, Fits,
                    Shows, Grid
<1>7. CASE Compose
    <2>1. /\ pc = "layout" /\ pc' = "draw"
          /\ UNCHANGED <<screen, font, tty>> /\ (disturbed' <=> disturbed)
          /\ previous_frame' \in {None, previous_frame}
        BY <1>7 DEF Compose, ComposeWhen
    <2>2. frame' # None
        <3>1. PICK content \in [CellsOf(display.grid) -> Glyphs] :
                frame' = [grid |-> display.grid, cells |-> content]
            BY <1>7 DEF Compose, ComposeWhen
        <3>2. display.grid \in Grids
            BY <2>1 DEF TypeOK, Displays
        <3> QED
            BY <3>1, <3>2, ComposedIsFrame
    <2> QED
        BY <2>1, <2>2 DEF FrameIsThere, DifferencesAreFromWhatIsShown, WrittenSoFar, Running, Fits,
                    Shows, Grid
<1>8. CASE Draw
    <2>1. /\ pc = "draw" /\ pc' = "write" /\ cursor' = 1
          /\ UNCHANGED <<screen, font, frame, previous_frame>>
        BY <1>8 DEF Draw
    <2>2. full' <=> (previous_frame = None \/ previous_frame.grid # frame.grid)
        BY <1>8 DEF Draw
    <2>3. FrameIsThere'
        BY <2>1, <2>2 DEF FrameIsThere
    <2>4. DifferencesAreFromWhatIsShown'
        BY <2>1 DEF DifferencesAreFromWhatIsShown
    <2>5. ASSUME ~(disturbed'), Fits(frame)', NEW c \in DOMAIN frame.cells
          PROVE  /\ ~(c < cursor')
                 /\ ~(full') => tty'[c] = previous_frame.cells[c]
        <3>1. /\ frame # None /\ frame.grid \in Grids /\ DOMAIN frame.cells = CellsOf(frame.grid)
            BY <2>1 DEF FrameIsThere, TypeOK, IsFrame, Drawn
        <3>2. c \in Nat /\ c >= 1
            BY <3>1, CellsAre
        <3>3. ASSUME ~(full') PROVE tty'[c] = previous_frame.cells[c]
            <4>1. /\ tty' = tty /\ ~disturbed
                  /\ previous_frame # None /\ previous_frame.grid = frame.grid
                BY <1>8, <2>2, <2>5, <3>3 DEF Draw
            <4>2. Fits(previous_frame)
                BY <2>1, <2>5, <4>1 DEF Fits, Grid
            <4>3. Shows(previous_frame)
                BY <2>1, <4>1, <4>2 DEF DifferencesAreFromWhatIsShown, Running
            <4>4. c \in DOMAIN previous_frame.cells
                BY <3>1, <4>1 DEF TypeOK, IsFrame
            <4> QED
                BY <4>1, <4>3, <4>4 DEF Shows
        <3> QED
            BY <2>1, <3>2, <3>3
    <2>6. WrittenSoFar'
        BY <2>1, <2>5 DEF WrittenSoFar
    <2> QED
        BY <2>3, <2>4, <2>6
<1>9. CASE Presented
    <2>1. /\ pc = "write" /\ cursor \notin DOMAIN frame.cells /\ pc' = "sleep"
          /\ previous_frame' = frame /\ UNCHANGED <<screen, font, tty>>
          /\ (disturbed' <=> disturbed)
        BY <1>9 DEF Presented, EndFrame
    <2>2. ASSUME ~disturbed, Fits(frame) PROVE Shows(frame)
        <3>1. /\ frame # None /\ frame.grid \in Grids /\ DOMAIN frame.cells = CellsOf(frame.grid)
              /\ cursor \in Nat \ {0}
            BY <2>1 DEF FrameIsThere, TypeOK, IsFrame, Drawn
        <3>2. DOMAIN frame.cells = 1 .. Bands(frame.grid) /\ Bands(frame.grid) \in Nat
            BY <3>1, CellsAre
        <3>3. \A c \in DOMAIN frame.cells : c < cursor
            BY <2>1, <3>1, <3>2
        <3>4. \A c \in DOMAIN frame.cells : tty[c] = frame.cells[c]
            BY <2>1, <2>2, <3>3 DEF WrittenSoFar
        <3> QED
            BY <2>2, <3>4 DEF Shows
    <2> QED
        BY <2>1, <2>2 DEF FrameIsThere, DifferencesAreFromWhatIsShown, WrittenSoFar, Fits, Shows,
                          Grid
<1> QED
    BY <1>1, <1>2, <1>3, <1>4, <1>5, <1>6, <1>7, <1>8, <1>9 DEF Next, Dashboard

-----------------------------------------------------------------------------
(* The theorems.                                                           *)

\* The inductive invariant holds in every state.
THEOREM DashboardInvariant == Spec => []DInv
<1>1. Init => DInv
    <2> SUFFICES ASSUME Init PROVE DInv
        OBVIOUS
    <2>1. pc = "start" /\ display = None /\ layout = None
        BY DEF Init
    <2> QED
        BY <2>1, TypeInit
        DEF DInv, EveryProfileIsTried, DisplayIsEligible, SettledOnTheGrid, FrameIsThere,
            DifferencesAreFromWhatIsShown, WrittenSoFar, EveryRowIsCounted, Running
<1>2. DInv /\ [Next]_vars => DInv'
    <2> SUFFICES ASSUME DInv, [Next]_vars PROVE DInv'
        OBVIOUS
    <2>1. TypeOK'
        BY OthersTypeOK, NegotiationTypeOK, LoopTypeOK DEF DInv, Next, Dashboard
    <2>2. EveryProfileIsTried' /\ DisplayIsEligible' /\ SettledOnTheGrid' /\ EveryRowIsCounted'
        BY EveryProfileIsTriedStep, DisplayIsEligibleStep, SettledOnTheGridStep,
           EveryRowIsCountedStep DEF DInv
    <2>3. FrameIsThere' /\ DifferencesAreFromWhatIsShown' /\ WrittenSoFar'
        BY DrawingStep DEF DInv
    <2> QED
        BY <2>1, <2>2, <2>3 DEF DInv
<1> QED
    BY <1>1, <1>2, PTL DEF Spec

\* Every variable of the dashboard has its type, whoever else writes to the
\* console and resizes it.
THEOREM DashboardTypeCorrect == Spec => []TypeOK
<1>1. DInv => TypeOK
    BY DEF DInv
<1> QED
    BY DashboardInvariant, <1>1, PTL

\* The session draws for the grid the console has, unless that has changed
\* since it was last looked at.  (negotiate_display_for_tty, refresh_display.)
THEOREM DashboardDrawsForTheRealGrid == Spec => []DrawsForTheRealGrid
<1>1. DInv => DrawsForTheRealGrid
    BY DEF DInv, SettledOnTheGrid, DrawsForTheRealGrid
<1> QED
    BY DashboardInvariant, <1>1, PTL

\* The next difference is taken from what the console shows, unless somebody
\* else has touched it.  (render_frame, force_full_redraw.)
THEOREM DashboardDifferencesAreFromWhatIsShown == Spec => []DifferencesAreFromWhatIsShown
<1>1. DInv => DifferencesAreFromWhatIsShown
    BY DEF DInv
<1> QED
    BY DashboardInvariant, <1>1, PTL

\* However the extra rows are allotted, every section is drawn whole.
\* (allocate_dashboard_extra_rows, dashboard_regions.)
THEOREM DashboardCutsNoSection == Spec => []NoSectionIsCut
<1>1. DInv => NoSectionIsCut
    <2> SUFFICES ASSUME DInv, layout # None
                 PROVE  LET rows == SectionRows(Body(display.grid), layout.extra)
                        IN  \A section \in DOMAIN SectionBase :
                                rows[section] = SectionBase[section] +
                                    (IF section \in DOMAIN NoRows THEN layout.extra[section]
                                                                  ELSE 0)
        BY DEF NoSectionIsCut
    <2> DEFINE body == Body(display.grid)
               s == layout.extra.storage
               n == layout.extra.network
               c == layout.extra.compute
               rows == SectionRows(body, layout.extra)
    <2>1. /\ s \in Nat /\ n \in Nat /\ c \in Nat /\ layout.remaining \in Nat
          /\ s + n + c + layout.remaining = body - 21
        <3>1. layout \in Layouts
            BY DEF DInv, TypeOK
        <3>2. s \in Nat /\ n \in Nat /\ c \in Nat /\ layout.remaining \in Nat
            BY <3>1 DEF Layouts, Extras, Rows
        <3>3. s + n + c + layout.remaining = body - 21
            BY DEF DInv, EveryRowIsCounted
        <3> QED
            BY <3>2, <3>3
    <2>2. body \in Nat
        BY BodyIs DEF DInv, TypeOK
    <2>3. s + n + c <= body - 21
        BY <2>1, <2>2
    <2> HIDE DEF body, s, n, c
    <2>4. rows = [system |-> 5, compute |-> 3 + c, memory |-> 4, storage |-> 4 + s,
                  network |-> 5 + n]
        <3>1. /\ Least(5, body) = 5 /\ Least(3 + c, saturating_sub(body, 5)) = 3 + c
              /\ Least(4, saturating_sub(body, 5 + (3 + c))) = 4
              /\ Least(4 + s, saturating_sub(body, 5 + (3 + c) + 4)) = 4 + s
              /\ Least(5 + n, saturating_sub(body, 5 + (3 + c) + 4 + (4 + s))) = 5 + n
            BY <2>1, <2>2, <2>3 DEF Least, saturating_sub
        <3>2. /\ SectionBase.system = 5 /\ SectionBase.compute = 3 /\ SectionBase.memory = 4
              /\ SectionBase.storage = 4 /\ SectionBase.network = 5
            BY DEF SectionBase
        <3> QED
            BY <3>1, <3>2 DEF SectionRows, s, n, c
    <2> QED
        BY <2>4 DEF SectionBase, NoRows, s, n, c, body
<1> QED
    BY DashboardInvariant, <1>1, PTL

==============================================================================
