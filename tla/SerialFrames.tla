---------------------------- MODULE SerialFrames ----------------------------
(***************************************************************************)
(* Markers and screen frames on the serial port: the two programs that     *)
(* write them, line by line and each within a deadline (yaoshi-installer   *)
(* runtime/serial.rs, yaoshi-dashboard main.rs), and the reader that takes *)
(* frames out of the log (yaoshi-test/tests/conformance.rs).               *)
(*                                                                         *)
(* The port does not block: a line that finds no room by its deadline is   *)
(* left where it was cut, and whatever is written next goes on from there. *)
(* A line is its prefix, its fields and its text; `upto' says how much of  *)
(* it reached the port: 1 a part of the prefix, 2 the prefix, 3 all of it. *)
(***************************************************************************)
EXTENDS Naturals, Sequences

CONSTANTS
    Rows,       \* rows of a frame; the size of the screen does not change
    MaxFrames,  \* bound: frames emitted
    MaxMarks,   \* bound: markers emitted
    Failures,   \* bound: lines that are cut
    None        \* no frame

ASSUME SerialLimits ==
    Rows \in Nat \ {0} /\ {MaxFrames, MaxMarks, Failures} \subseteq Nat

Lines == [kind : {"begin", "row", "style", "end", "mark"}, frame : Nat, row : 0 .. Rows]
Pieces == [line : Lines, upto : 1 .. 3]
Cells == [line : Lines, intact : BOOLEAN]
Frames == [known : BOOLEAN, cells : Seq(Cells), styles : Nat]

ASSUME NoneIsNoFrame == None \notin Frames

VARIABLES
    writer,   \* the program that writes: "installer" or "dashboard"
    serial,   \* it has the port
    script,   \* lines of the frame under way
    pending,  \* the line of the log that has no end yet
    current, latest, blind,  \* the reader; blind: it has given up on the log
    seen,     \* markers found in the log
    marks, frames,  \* markers and frames emitted
    aligned,  \* the last frame was begun at the start of a line
    whole,    \* and all of it was written
    failures  \* cuts left

reader == <<current, latest, blind>>
vars == <<writer, serial, script, pending, current, latest, blind, seen, marks, frames,
          aligned, whole, failures>>

-----------------------------------------------------------------------------
(* The lines of a frame.  The installer writes a style for every row, the  *)
(* dashboard a single one.                                                 *)

Line(kind, frame, row) == [kind |-> kind, frame |-> frame, row |-> row]
Styles == IF writer = "installer" THEN Rows ELSE 1
LinesWith(f, rows) ==
    <<Line("begin", f, 0)>> \o [r \in 1 .. rows |-> Line("row", f, r)]
        \o [r \in 1 .. Styles |-> Line("style", f, r)] \o <<Line("end", f, 0)>>

(* The same with a row beyond the last.                                    *)
FrameLines_OneTooMany(f) == LinesWith(f, Rows + 1)

FrameLines(f) == LinesWith(f, Rows)

Piece(line, upto) == [line |-> line, upto |-> upto]

-----------------------------------------------------------------------------
(* latest_screen_frame, a line at a time.                                  *)

(* screen_frame_matches, and the same when every row must have its style.  *)
Matches_StyleForEveryRow(frame) ==
    frame.known /\ Len(frame.cells) = Rows /\ frame.styles = Rows

Matches(frame) == frame.known /\ Len(frame.cells) = Rows /\ frame.styles > 0

Started(known) == [known |-> known, cells |-> <<>>, styles |-> 0]
Taken(was) == IF current # None /\ Matches(current) THEN current ELSE was
Continues(pieces, kind) ==
    \E i \in 2 .. Len(pieces) : pieces[i].line.kind = kind /\ pieces[i].upto = 3

(* A line that says BEGIN ends the frame before it, END or not.  One whose *)
(* fields were cut off makes the reader give up on the whole log, unless a *)
(* line written after it supplied them or the cut left a number short.     *)
ReadBegin(pieces) ==
    /\ latest' = Taken(latest)
    /\ IF Head(pieces).upto = 3
       THEN current' = Started(TRUE) /\ UNCHANGED blind
       ELSE \/ Continues(pieces, "begin") /\ current' = Started(TRUE) /\ UNCHANGED blind
            \/ current' = Started(FALSE) /\ UNCHANGED blind
            \/ ~Continues(pieces, "begin") /\ blind' = TRUE /\ UNCHANGED current

Cell(pieces) == [line |-> Head(pieces).line, intact |-> pieces = <<Piece(Head(pieces).line, 3)>>]
ReadRow(pieces) ==
    /\ current' = IF current # None /\ current.known
                  THEN [current EXCEPT !.cells = Append(@, Cell(pieces))] ELSE current
    /\ UNCHANGED <<latest, blind>>

ReadStyle ==
    /\ current' = IF current # None /\ current.known
                  THEN [current EXCEPT !.styles = @ + 1] ELSE current
    /\ UNCHANGED <<latest, blind>>

(* An END takes the frame, and drops it when its own field was cut off.    *)
ReadEnd(pieces) ==
    /\ current' = None
    /\ latest' = IF Head(pieces).upto = 3 \/ Continues(pieces, "begin") THEN Taken(latest)
                                                                      ELSE latest
    /\ UNCHANGED blind

(* A line is known by its prefix, when all of it is there.                 *)
ReadLine(pieces) ==
    IF blind \/ pieces = <<>> \/ Head(pieces).upto = 1 THEN UNCHANGED reader
    ELSE CASE Head(pieces).line.kind = "begin" -> ReadBegin(pieces)
           [] Head(pieces).line.kind = "row" -> ReadRow(pieces)
           [] Head(pieces).line.kind = "style" -> ReadStyle
           [] Head(pieces).line.kind = "end" -> ReadEnd(pieces)
           [] OTHER -> UNCHANGED reader

(* What the log shows when it is read now: at its end a frame counts that  *)
(* has no END yet.                                                         *)
Latest == IF blind THEN None ELSE Taken(latest)

-----------------------------------------------------------------------------
(* The writers.                                                            *)

Written(line) ==
    /\ pending' = <<>>
    /\ ReadLine(Append(pending, Piece(line, 3)))

(* Cut by the deadline: after some of the line, or before its newline.     *)
Cut(line, upto) ==
    /\ failures > 0 /\ failures' = failures - 1
    /\ pending' = IF upto = 0 THEN pending ELSE Append(pending, Piece(line, upto))
    /\ UNCHANGED reader

Idle == serial /\ script = <<>>

(* mark, mark_display: a marker that is not written costs the port.  The   *)
(* dashboard marks its display once, before the first frame.               *)
MarkWith(kept) ==
    /\ Idle /\ marks < MaxMarks
    /\ writer = "dashboard" => frames = 0 /\ marks = 0
    /\ marks' = marks + 1
    /\ \/ /\ Written(Line("mark", marks', 0))
          /\ seen' = Append(seen, marks')
          /\ UNCHANGED <<serial, failures>>
       \/ \E upto \in 0 .. 3 :
            /\ Cut(Line("mark", marks', 0), upto)
            /\ seen' = IF upto = 3 THEN Append(seen, marks') ELSE seen
            /\ serial' = kept
    /\ UNCHANGED <<writer, script, frames, aligned, whole>>

(* The same when the port is kept whatever became of the marker.           *)
Mark_KeepsPort == MarkWith(TRUE)

Mark == MarkWith(FALSE)

(* emit_screen_frame.                                                      *)
BeginFrame ==
    /\ Idle /\ frames < MaxFrames
    /\ frames' = frames + 1
    /\ script' = FrameLines(frames')
    /\ aligned' = (pending = <<>>) /\ whole' = FALSE
    /\ UNCHANGED <<writer, serial, pending, reader, seen, marks, failures>>

WriteLine ==
    /\ script # <<>>
    /\ Written(Head(script))
    /\ script' = Tail(script)
    /\ whole' = (Tail(script) = <<>>)
    /\ UNCHANGED <<writer, serial, seen, marks, frames, aligned, failures>>

(* The rest of the frame is given up.  The dashboard then ends the line,   *)
(* if there is room, except after its END; the installer does not.         *)
WriteFailsThen(rest) ==
    /\ script # <<>>
    /\ script' = rest
    /\ \E upto \in 0 .. 3 :
        \/ Cut(Head(script), upto)
        \/ /\ writer = "dashboard" /\ Head(script).kind # "end"
           /\ failures > 0 /\ failures' = failures - 1
           /\ pending' = <<>>
           /\ ReadLine(IF upto = 0 THEN pending ELSE Append(pending, Piece(Head(script), upto)))
    /\ UNCHANGED <<writer, serial, seen, marks, frames, aligned, whole>>

(* The same when the line that was cut is all that is given up.            *)
WriteFails_GoesOn == WriteFailsThen(Tail(script))

WriteFails == WriteFailsThen(<<>>)

Init ==
    /\ writer \in {"installer", "dashboard"}
    /\ serial = TRUE
    /\ script = <<>> /\ pending = <<>> /\ seen = <<>>
    /\ current = None /\ latest = None /\ blind = FALSE
    /\ marks = 0 /\ frames = 0 /\ aligned = TRUE /\ whole = FALSE
    /\ failures = Failures

Next == Mark \/ BeginFrame \/ WriteLine \/ WriteFails

Spec == Init /\ [][Next]_vars

-----------------------------------------------------------------------------
(* Every variable holds a value of its kind; a line that has not ended was *)
(* cut, and the port is given up only between frames.                      *)
TypeOK ==
    /\ writer \in {"installer", "dashboard"}
    /\ serial \in BOOLEAN /\ blind \in BOOLEAN
    /\ aligned \in BOOLEAN /\ whole \in BOOLEAN
    /\ script \in Seq(Lines)
    /\ pending \in Seq(Pieces)
    /\ current \in Frames \cup {None} /\ latest \in Frames \cup {None}
    /\ seen \in Seq(1 .. MaxMarks)
    /\ marks \in 0 .. MaxMarks /\ frames \in 0 .. MaxFrames /\ failures \in 0 .. Failures
    /\ ~serial => script = <<>>

(* A frame taken from the log is one frame: its rows are those of a single *)
(* emission, in their order, and none of them was cut, wherever writing    *)
(* was given up before and after it (latest_screen_frame against           *)
(* emit_screen_frame).                                                     *)
FramesAreNeverMixed ==
    Latest # None =>
        \E f \in 1 .. frames :
            Latest.cells = [r \in 1 .. Rows |-> [line |-> Line("row", f, r), intact |-> TRUE]]

(* A frame that was begun at the start of a line and written to its end is *)
(* the one the log shows, whatever was cut before it, as long as no cut    *)
(* BEGIN line has stopped the reader (emit_screen_frame,                   *)
(* latest_screen_frame).                                                   *)
WholeFramesAreSeen ==
    whole /\ aligned /\ ~blind => Latest # None /\ Latest.cells[1].line.frame = frames

(* The markers found in the log are the first ones emitted: one that is    *)
(* there proves that all before it are (mark, flow_markers_complete).      *)
MarkersHaveNoGaps == seen = [i \in 1 .. Len(seen) |-> i]
=============================================================================
