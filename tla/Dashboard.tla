------------------------------ MODULE Dashboard ------------------------------
(***************************************************************************)
(* The dashboard on the console: the negotiation of a font and a grid, the *)
(* layout of the sections, and the loop that draws a frame a second as the *)
(* difference from the last one (yaoshi-dashboard/src/main.rs,             *)
(* yaoshi-screen/src/render/{terminal,display,dashboard}.rs).              *)
(*                                                                         *)
(* The console is not the dashboard's alone.  The kernel prints on it, a   *)
(* graphics driver that takes over changes its size and puts its own font  *)
(* back, and a write or a look at the size may fail.  Each happens between *)
(* any two steps, Budget times in all.                                     *)
(*                                                                         *)
(* A cell stands for a band of Band rows; what is drawn beyond the last    *)
(* row of the console lands on its last row.                               *)
(***************************************************************************)
EXTENDS Naturals, Sequences, FiniteSetsExt, SequencesExt

CONSTANTS
    Screens,       \* pixel sizes, [width, height]
    Drivers,       \* what the console driver does: [font |-> "works", "fails" or
                   \* "ignored", framebuffer |-> "device", "pixels" or "none"]
    Machines,      \* rows there are to show: [disks, nics, cores]
    Glyphs,        \* what a band of a frame can hold
    Blank, Foreign,  \* a cleared band; a band something else wrote
    Band,          \* rows a cell stands for
    StartupFullRedraws,  \* frames drawn in full after the start (5)
    FullRedrawInterval,  \* frames between two full redraws after that (30 s)
    Budget,        \* bound: disturbances and failures in a behaviour
    None           \* no display, no frame, no observation

ASSUME DashboardLimits ==
    /\ Screens \subseteq [width : Nat \ {0}, height : Nat \ {0}]
    /\ {Band, FullRedrawInterval} \subseteq Nat \ {0}
    /\ {StartupFullRedraws, Budget} \subseteq Nat
    /\ {Blank, Foreign} \cap Glyphs = {}
    /\ \A m \in Machines : {m.disks, m.nics, m.cores} \subseteq Nat

VARIABLES
    pc,
    screen, font, driver,  \* the console: pixels, font in effect, its driver
    tty,                   \* the cells on it
    todo, observations,    \* profiles to try, and what trying the others showed
    display, previous_frame,  \* the session's
    machine,               \* the rows there are to show
    layout,                \* the allocation of extra rows under way
    frame, cursor, full,   \* the frame being drawn, the next cell, and how
    startup_full_redraws, since_full,
    moved,                 \* the console changed since it was last looked at
    disturbed,             \* it was written to, or changed, since it was cleared
    events                 \* events left

console == <<screen, font, driver>>
session == <<display, previous_frame>>
negotiation == <<todo, observations>>
pace == <<startup_full_redraws, since_full>>
drawing == <<frame, cursor, full>>
vars == <<pc, screen, font, driver, tty, todo, observations, display, previous_frame,
          machine, layout, frame, cursor, full, startup_full_redraws, since_full,
          moved, disturbed, events>>

Least(a, b) == IF a < b THEN a ELSE b
saturating_sub(a, b) == IF a > b THEN a - b ELSE 0

-----------------------------------------------------------------------------
(* The console.                                                            *)

CONSOLE_FONT_PROFILES == <<"Terminus10x20", "Terminus12x24">>
CURRENT_CONSOLE == "CurrentConsole"
KERNEL_FONT == "kernel"
CellOf(name) ==
    CASE name = "Terminus10x20" -> [width |-> 10, height |-> 20]
      [] name = "Terminus12x24" -> [width |-> 12, height |-> 24]
      [] OTHER -> [width |-> 8, height |-> 16]
envelope == [columns |-> 80, rows |-> 24, maximum_rows |-> 44]

GridOf(size, name) == [columns |-> size.width \div CellOf(name).width,
                       rows |-> size.height \div CellOf(name).height]
Grid == GridOf(screen, font)
CellsOf(grid) == 1 .. (grid.rows + Band - 1) \div Band

(* A change of size keeps the rows that are still there.                   *)
Resized(grid) == [c \in CellsOf(grid) |-> IF c \in DOMAIN tty THEN tty[c] ELSE Foreign]
Landing(c) == Least(c, Max(CellsOf(Grid)))

Spend == events > 0 /\ events' = events - 1

ChangeScreen ==
    /\ Spend
    /\ \E s \in Screens, f \in {font, KERNEL_FONT} :
        /\ <<s, f>> # <<screen, font>>
        /\ screen' = s /\ font' = f
        /\ tty' = Resized(GridOf(s, f))
    /\ moved' = TRUE /\ disturbed' = TRUE
    /\ UNCHANGED <<pc, driver, negotiation, session, machine, layout, drawing, pace>>

KernelPrints ==
    /\ Spend
    /\ \E c \in DOMAIN tty : tty' = [tty EXCEPT ![c] = Foreign]
    /\ disturbed' = TRUE
    /\ UNCHANGED <<pc, console, negotiation, session, machine, layout, drawing, pace, moved>>

-----------------------------------------------------------------------------
(* negotiate_display_for_tty: try every profile, take the first that gives *)
(* an eligible grid, apply it again.                                       *)

framebuffer_virtual_size == IF driver.framebuffer = "device" THEN screen ELSE None
Observation == [grid |-> Grid,
                framebuffer |-> IF driver.framebuffer = "none" THEN None ELSE screen]

EffectiveSize(observed, profile) ==
    IF observed.framebuffer # None THEN observed.framebuffer
    ELSE [width |-> observed.grid.columns * CellOf(profile).width,
          height |-> observed.grid.rows * CellOf(profile).height]

FontInEffect(observed, profile) ==
    \/ profile = CURRENT_CONSOLE
    \/ LET size == EffectiveSize(observed, profile)
       IN  /\ size.width \div observed.grid.columns >= CellOf(profile).width
           /\ size.height \div observed.grid.rows >= CellOf(profile).height

Supported(observed, profile) ==
    /\ FontInEffect(observed, profile)
    /\ observed.grid.columns >= envelope.columns
    /\ observed.grid.rows >= envelope.rows

NegotiatedDisplay(observed, profile) ==
    [profile |-> profile, grid |-> observed.grid, size |-> EffectiveSize(observed, profile)]

candidate_profiles(size) ==
    IF size # None /\ size.height >= 1440 THEN Reverse(CONSOLE_FONT_PROFILES)
                                          ELSE CONSOLE_FONT_PROFILES

EnterTty ==
    /\ pc = "start" /\ pc' = "font"
    /\ todo' = candidate_profiles(framebuffer_virtual_size)
    /\ observations' = <<>>
    /\ UNCHANGED <<console, tty, session, machine, layout, drawing, pace, moved,
                   disturbed, events>>

(* KDFONTOP: the driver may refuse it, or accept it to no effect.          *)
Apply(profile, then, otherwise) ==
    LET next == IF driver.font = "works" THEN profile ELSE font
    IN  /\ font' = next
        /\ tty' = Resized(GridOf(screen, next))
        /\ moved' = (moved \/ next # font)
        /\ pc' = IF driver.font = "fails" THEN otherwise ELSE then
        /\ UNCHANGED <<screen, driver, layout, drawing, pace, machine, disturbed, events,
                       session>>

Tried(seen) ==
    /\ observations' = Append(observations, [profile |-> Head(todo), seen |-> seen])
    /\ todo' = Tail(todo)
SetFont ==
    /\ pc = "font" /\ todo # <<>>
    /\ Apply(Head(todo), "observe", "font")
    /\ IF driver.font = "fails" THEN Tried(None) ELSE UNCHANGED negotiation

(* Looking at the size may fail.                                           *)
ReadObservation(seen) ==
    \/ seen = Observation /\ moved' = FALSE /\ UNCHANGED events
    \/ seen = None /\ Spend /\ UNCHANGED moved
Observe ==
    /\ pc = "observe" /\ pc' = "font"
    /\ \E seen \in {Observation, None} : ReadObservation(seen) /\ Tried(seen)
    /\ UNCHANGED <<console, tty, session, machine, layout, drawing, pace, disturbed>>

(* The candidates are ordered again, by the first height that was seen;    *)
(* Eligible are the places in that order of those that will do.            *)
SelectionOrder ==
    LET sized == {i \in DOMAIN observations :
                    /\ observations[i].seen # None
                    /\ observations[i].seen.framebuffer # None}
    IN  candidate_profiles(IF sized = {} THEN None
                           ELSE observations[Min(sized)].seen.framebuffer)
ObservationOf(profile) ==
    (CHOOSE o \in ToSet(observations) : o.profile = profile).seen
Eligible ==
    {i \in DOMAIN SelectionOrder :
        LET profile == SelectionOrder[i]
        IN  ObservationOf(profile) # None /\ Supported(ObservationOf(profile), profile)}
SelectInto(next) ==
    /\ pc = "font" /\ todo = <<>> /\ Eligible # {}
    /\ LET profile == SelectionOrder[Min(Eligible)]
       IN  display' = NegotiatedDisplay(ObservationOf(profile), profile)
    /\ observations' = <<>>
    /\ pc' = next
    /\ UNCHANGED <<console, tty, todo, previous_frame, machine, layout, drawing, pace,
                   moved, disturbed, events>>

(* The same when the grid of the first eligible profile is taken at its    *)
(* word, though a later profile has been applied since.                    *)
Select_NoReapply == SelectInto("prepare")

Select == SelectInto("again")

(* No candidate: the console as the attempts left it.                      *)
SelectCurrent ==
    /\ pc = "font" /\ todo = <<>> /\ Eligible = {}
    /\ observations' = <<>>
    /\ \E seen \in {Observation, None} :
        /\ ReadObservation(seen)
        /\ IF seen # None /\ Supported(seen, CURRENT_CONSOLE)
           THEN display' = NegotiatedDisplay(seen, CURRENT_CONSOLE) /\ pc' = "prepare"
           ELSE UNCHANGED display /\ pc' = "unsupported"
    /\ UNCHANGED <<console, tty, todo, previous_frame, machine, layout, drawing, pace,
                   disturbed>>

Reapply ==
    /\ pc = "again"
    /\ Apply(display.profile, "look", "unsupported")
    /\ UNCHANGED negotiation

Reobserve ==
    /\ pc = "look"
    /\ \E seen \in {Observation, None} :
        /\ ReadObservation(seen)
        /\ IF seen # None /\ Supported(seen, display.profile)
           THEN display' = NegotiatedDisplay(seen, display.profile) /\ pc' = "prepare"
           ELSE UNCHANGED display /\ pc' = "unsupported"
    /\ UNCHANGED <<console, tty, negotiation, previous_frame, machine, layout, drawing,
                   pace, disturbed>>

Cleared == [c \in CellsOf(Grid) |-> Blank]

(* prepare_tty, and the loop's own start.                                  *)
Prepare ==
    /\ pc = "prepare" /\ pc' = "sample"
    /\ tty' = Cleared /\ disturbed' = FALSE
    /\ previous_frame' = None
    /\ startup_full_redraws' = StartupFullRedraws /\ since_full' = 0
    /\ UNCHANGED <<console, negotiation, display, machine, layout, drawing, moved, events>>

(* The console refuses a write: the process ends as when it is unsupported. *)
PrepareFails ==
    /\ pc = "prepare" /\ pc' = "unsupported"
    /\ Spend
    /\ UNCHANGED <<console, tty, negotiation, session, machine, layout, drawing, pace,
                   moved, disturbed>>

(* The page that says so, exit status 1, and systemd's Restart=always.     *)
Unsupported ==
    /\ pc = "unsupported" /\ pc' = "start"
    /\ tty' = [c \in CellsOf(Grid) |-> Foreign]
    /\ display' = None /\ previous_frame' = None
    /\ UNCHANGED <<console, negotiation, machine, layout, drawing, pace, moved, disturbed,
                   events>>

-----------------------------------------------------------------------------
(* dashboard_regions: the five sections and the rows left over.            *)

SectionBase == [system |-> 5, compute |-> 3, memory |-> 4, storage |-> 4, network |-> 5]
Body(grid) == saturating_sub(Least(grid.rows, envelope.maximum_rows), 3)

DetailLimit == 6
(* A disk and an interface take two rows each; the top process, when there *)
(* is one to name, and a core take one.                                    *)
Demand(m, top) ==
    [storage |-> 2 * Least(m.disks, DetailLimit),
     network |-> 2 * Least(m.nics, DetailLimit),
     compute |-> Least(m.cores + (IF top THEN 1 ELSE 0), DetailLimit)]
NoRows == [storage |-> 0, network |-> 0, compute |-> 0]

(* One second's sample, for the size and display of this moment.           *)
Sample ==
    /\ pc = "sample" /\ pc' = "layout"
    /\ \E top \in BOOLEAN :
        layout' = [demand |-> Demand(machine, top), extra |-> NoRows,
                   remaining |-> saturating_sub(Body(display.grid), 21)]
    /\ UNCHANGED <<console, tty, negotiation, session, machine, drawing, pace, moved,
                   disturbed, events>>

Unmet(section, extra) == extra[section] < layout.demand[section]
Give(l, section, rows, atLeast) ==
    IF l.remaining >= atLeast /\ l.extra[section] < l.demand[section]
    THEN [l EXCEPT !.extra[section] = @ + rows, !.remaining = @ - rows]
    ELSE l
LayoutGoesOn ==
    layout.remaining > 0 /\ \E section \in DOMAIN NoRows : Unmet(section, layout.extra)
PassWith(atLeast) ==
    /\ pc = "layout" /\ LayoutGoesOn
    /\ layout' = Give(Give(Give(layout, "storage", 2, atLeast), "network", 2, atLeast),
                      "compute", 1, 1)
    /\ UNCHANGED <<pc, console, tty, negotiation, session, machine, drawing, pace, moved,
                   disturbed, events>>

(* The same when a unit is given as soon as there is one row left, and when *)
(* it is not given the last two.                                           *)
AllocatePass_HalfUnit == PassWith(1)
AllocatePass_NotTheLast == PassWith(3)

AllocatePass == PassWith(2)

(* The rows each section is drawn with, the later ones cut to what is left. *)
SectionRows(body, extra) ==
    LET system == Least(SectionBase.system, body)
        compute == Least(SectionBase.compute + extra.compute, saturating_sub(body, system))
        memory == Least(SectionBase.memory, saturating_sub(body, system + compute))
        storage == Least(SectionBase.storage + extra.storage,
                         saturating_sub(body, system + compute + memory))
        network == Least(SectionBase.network + extra.network,
                         saturating_sub(body, system + compute + memory + storage))
    IN  [system |-> system, compute |-> compute, memory |-> memory, storage |-> storage,
         network |-> network]

-----------------------------------------------------------------------------
(* The loop: compose, draw, sleep, look at the display again.              *)

FullRedrawIsDue == startup_full_redraws > 0 \/ since_full >= FullRedrawInterval

ComposeWhen(due, left) ==
    /\ pc = "layout" /\ ~LayoutGoesOn /\ pc' = "draw"
    /\ layout' = None
    /\ \E content \in [CellsOf(display.grid) -> Glyphs] :
        frame' = [grid |-> display.grid, cells |-> content]
    /\ IF due
       THEN /\ previous_frame' = None
            /\ startup_full_redraws' = left
            /\ since_full' = 0
       ELSE UNCHANGED <<previous_frame, pace>>
    /\ UNCHANGED <<console, tty, negotiation, display, machine, cursor, full, moved,
                   disturbed, events>>

(* The same when only the first frames are drawn in full, and when their   *)
(* number wraps at zero.                                                   *)
Compose_StartupOnly ==
    ComposeWhen(startup_full_redraws > 0, saturating_sub(startup_full_redraws, 1))
Compose_Wraps == ComposeWhen(FullRedrawIsDue, (startup_full_redraws + 255) % 256)

Compose == ComposeWhen(FullRedrawIsDue, saturating_sub(startup_full_redraws, 1))

Draw ==
    /\ pc = "draw" /\ pc' = "write"
    /\ full' = (previous_frame = None \/ previous_frame.grid # frame.grid)
    /\ cursor' = 1
    /\ IF full' THEN tty' = Cleared /\ disturbed' = FALSE
                ELSE UNCHANGED <<tty, disturbed>>
    /\ UNCHANGED <<console, negotiation, session, machine, layout, frame, pace, moved, events>>

ToWrite(c) == full \/ frame.cells[c] # previous_frame.cells[c]

WriteCell ==
    /\ pc = "write" /\ cursor \in DOMAIN frame.cells
    /\ tty' = IF ToWrite(cursor) THEN [tty EXCEPT ![Landing(cursor)] = frame.cells[cursor]]
                                 ELSE tty
    /\ cursor' = cursor + 1
    /\ UNCHANGED <<pc, console, negotiation, session, machine, layout, frame, full, pace,
                   moved, disturbed, events>>

EndFrame(kept) ==
    /\ pc' = "sleep"
    /\ previous_frame' = kept
    /\ cursor' = 1 /\ full' = FALSE
    /\ UNCHANGED <<console, tty, negotiation, display, machine, layout, frame, pace, moved,
                   disturbed>>

Presented ==
    /\ pc = "write" /\ cursor \notin DOMAIN frame.cells
    /\ EndFrame(frame)
    /\ UNCHANGED events

(* The same when a frame that was cut short counts as drawn until the next *)
(* full redraw.                                                            *)
RenderFails_KeepsPrevious ==
    /\ pc = "write" /\ Spend /\ EndFrame(previous_frame)

(* A write fails, whatever has been written by then.                       *)
RenderFails ==
    /\ pc = "write" /\ Spend /\ EndFrame(None)

(* A second passes.  The size is looked at again, for the same profile; a  *)
(* size that is not eligible, or cannot be read, changes nothing.          *)
RefreshDisplay ==
    /\ pc = "sleep" /\ pc' = "sample"
    /\ since_full' = Least(since_full + 1, FullRedrawInterval)
    /\ \E seen \in {Observation, None} :
        /\ ReadObservation(seen)
        /\ IF /\ seen # None
              /\ Supported(seen, display.profile)
              /\ NegotiatedDisplay(seen, display.profile) # display
           THEN display' = NegotiatedDisplay(seen, display.profile) /\ previous_frame' = None
           ELSE UNCHANGED session
    /\ UNCHANGED <<console, tty, negotiation, machine, layout, drawing,
                   startup_full_redraws, disturbed>>

-----------------------------------------------------------------------------
Init ==
    /\ pc = "start"
    /\ screen \in Screens /\ driver \in Drivers /\ font = KERNEL_FONT
    /\ tty = [c \in CellsOf(GridOf(screen, font)) |-> Foreign]
    /\ todo = <<>> /\ observations = <<>>
    /\ display = None /\ previous_frame = None
    /\ machine \in Machines
    /\ layout = None /\ frame = None /\ cursor = 1 /\ full = FALSE
    /\ startup_full_redraws = StartupFullRedraws /\ since_full = 0
    /\ moved = TRUE /\ disturbed = TRUE /\ events = Budget

Dashboard ==
    \/ EnterTty \/ SetFont \/ Observe \/ Select \/ SelectCurrent \/ Reapply \/ Reobserve
    \/ Prepare \/ PrepareFails \/ Unsupported
    \/ Sample \/ AllocatePass \/ Compose \/ Draw \/ WriteCell \/ Presented \/ RenderFails
    \/ RefreshDisplay

Next == Dashboard \/ ChangeScreen \/ KernelPrints

Spec == Init /\ [][Next]_vars
FairSpec == Spec /\ WF_vars(Dashboard)

-----------------------------------------------------------------------------
Rows == 0 .. 2 * DetailLimit
Extras == [storage : Rows, network : Rows, compute : Rows]
Layouts == [demand : Extras, extra : Extras, remaining : Nat]
Grids == [columns : Nat, rows : Nat]
Profiles == ToSet(CONSOLE_FONT_PROFILES)
Displays == [profile : Profiles \cup {CURRENT_CONSOLE},
             grid : Grids, size : [width : Nat, height : Nat]]
Seen == [grid : Grids, framebuffer : Screens \cup {None}]
Drawn == [grid : Grids, cells : Seq(Glyphs)]
IsFrame(f) == f \in Drawn /\ DOMAIN f.cells = CellsOf(f.grid)

ASSUME NoneIsNothing ==
    /\ None \notin Screens /\ None \notin Seen /\ None \notin Displays
    /\ None \notin Layouts /\ None \notin Drawn

(* Every variable holds a value of its kind: the cells of the console are  *)
(* those of its grid, a session has a display, and the frame kept for the  *)
(* next difference has the cells of its own grid.                          *)
TypeOK ==
    /\ pc \in {"start", "font", "observe", "again", "look", "prepare", "unsupported",
               "sample", "layout", "draw", "write", "sleep"}
    /\ screen \in Screens /\ driver \in Drivers
    /\ font \in Profiles \cup {KERNEL_FONT}
    /\ tty \in [CellsOf(Grid) -> Glyphs \cup {Blank, Foreign}]
    /\ todo \in Seq(Profiles)
    /\ observations \in Seq([profile : Profiles, seen : Seen \cup {None}])
    /\ display \in Displays \cup {None}
    /\ pc \in {"sample", "layout", "draw", "write", "sleep", "again", "look", "prepare"}
          => display # None
    /\ machine \in Machines
    /\ layout \in Layouts \cup {None}
    /\ layout # None <=> pc = "layout"
    /\ frame = None \/ IsFrame(frame)
    /\ previous_frame = None \/ IsFrame(previous_frame)
    /\ cursor \in Nat \ {0}
    /\ startup_full_redraws \in 0 .. StartupFullRedraws
    /\ since_full \in 0 .. FullRedrawInterval
    /\ full \in BOOLEAN /\ moved \in BOOLEAN /\ disturbed \in BOOLEAN
    /\ events \in 0 .. Budget

Running == {"sample", "layout", "draw", "write", "sleep"}
Fits(f) == f.grid.rows <= Grid.rows
Shows(f) == Fits(f) /\ \A c \in DOMAIN f.cells : tty[c] = f.cells[c]

(* The session draws for the grid the console has, unless the console has  *)
(* moved since it was last looked at or is not eligible for the font that  *)
(* was chosen: the negotiation leaves the font of the grid it reports, and *)
(* not the one it tried last (negotiate_display_for_tty, refresh_display). *)
DrawsForTheRealGrid ==
    pc \in Running /\ ~moved /\ Supported(Observation, display.profile)
        => display.grid = Grid

(* While nobody else has touched the console since it was last cleared, it *)
(* shows the frame the next difference will be taken from, whatever writes *)
(* failed and whatever was drawn in between (render_frame,                 *)
(* force_full_redraw).                                                     *)
DifferencesAreFromWhatIsShown ==
    pc \in Running \ {"write"} /\ previous_frame # None /\ ~disturbed /\ Fits(previous_frame)
        => Shows(previous_frame)

(* Whatever is allotted, every section is drawn with the rows it was given *)
(* and the rows it always has: the last one is not cut at the end of the   *)
(* body (allocate_dashboard_extra_rows, dashboard_regions).                *)
NoSectionIsCut ==
    layout # None =>
        LET rows == SectionRows(Body(display.grid), layout.extra)
        IN  \A section \in DOMAIN SectionBase :
                rows[section] = SectionBase[section] +
                    (IF section \in DOMAIN NoRows THEN layout.extra[section] ELSE 0)

(* Frames keep coming, or the process ends for systemd to start it again:  *)
(* the loop never stays in one frame (main, allocate_dashboard_extra_rows). *)
FramesKeepComing == []<>(pc \in {"sleep", "unsupported"})

(* Once the console stays large enough for what is drawn on it, every frame *)
(* is in the end shown whole, although nothing tells the program that the  *)
(* console was written to (FULL_REDRAW_INTERVAL).                          *)
Heals == <>[](pc \in Running /\ display.grid.rows <= Grid.rows)
             => <>[](pc = "sleep" => Shows(frame))
=============================================================================
