------------------------ MODULE SerialFramesProofs -------------------------
(***************************************************************************)
(* What the log of the serial port shows, for frames and screens of any    *)
(* size, any number of markers and any cuts: the markers found are the     *)
(* first ones, a frame found is one emission whole, and one written whole  *)
(* is found.                                                               *)
(***************************************************************************)
EXTENDS SerialFrames, SequenceTheorems, TLAPS

-----------------------------------------------------------------------------
(* The inductive invariant.                                                *)

\* The lines of a frame, and the place among them of the line that is next.
Length == Rows + Styles + 2
Place == Length - Len(script) + 1

\* What is left of the frame under way is its last lines.
ScriptIsRest ==
    /\ Len(script) <= Length /\ (script # <<>> => frames > 0)
    /\ \A i \in 1 .. Len(script) : script[i] = FrameLines(frames)[Place + i - 1]

\* Only the first line of a frame can meet a line that was cut before it.
OnlyBeginMeetsCut == script # <<>> /\ Place > 1 => pending = <<>>

\* As long as the port is kept the log has every marker.
MarkersKept ==
    /\ MarkersHaveNoGaps
    /\ Len(seen) <= marks
    /\ serial => Len(seen) = marks

\* The reader takes cells in for the frame at hand.
Taking == ~blind /\ current # None /\ current.known

\* Row r of frame f as it is read when nothing was cut, and a whole frame.
Intact(f, r) == [line |-> Line("row", f, r), intact |-> TRUE]
Full(f) == [r \in 1 .. Rows |-> Intact(f, r)]

\* The rows written so far of the frame under way.
RowsWritten == IF Place <= Rows + 1 THEN Place - 2 ELSE Rows

\* They are the last ones the reader took.
RowsComeLast ==
    (Taking /\ script # <<>> /\ Place > 1) =>
        /\ Len(current.cells) >= RowsWritten
        /\ \A r \in 1 .. RowsWritten :
            current.cells[Len(current.cells) - RowsWritten + r] = Intact(frames, r)

\* The reader has the rows of a whole frame at least, and no others if it has
\* no more.
HasAllRows(frame, n) ==
    /\ Len(frame.cells) >= Rows
    /\ Len(frame.cells) = Rows => \E f \in 1 .. n : frame.cells = Full(f)

\* A style is read after all rows.
StyledHasRows ==
    (current # None /\ current.known /\ current.styles > 0) => HasAllRows(current, frames)

\* That holds of one in a line that was cut and is still to be read.
CutStyleHasRows ==
    (Taking /\ pending # <<>> /\ pending[1].line.kind = "style")
        => HasAllRows(current, frames)

\* The frame taken last is whole.
LatestIsWhole == latest # None => \E f \in 1 .. frames : latest.cells = Full(f)

\* A frame begun at the start of a line is read as it is written.
AlignedIsRead ==
    (aligned /\ ~blind /\ script # <<>>) =>
        /\ Place = 1 => pending = <<>>
        /\ Place > 1 =>
            /\ current # None /\ current.known
            /\ Len(current.cells) = RowsWritten
            /\ Place > Rows + 2 => current.styles > 0

\* One written to its end is the latest, and only markers have come since.
WholeIsLatest ==
    whole =>
        /\ script = <<>>
        /\ pending # <<>> => pending[1].line.kind = "mark"
        /\ aligned /\ ~blind =>
            current = None /\ latest # None /\ latest.cells = Full(frames)

FInv == /\ TypeOK /\ ScriptIsRest /\ OnlyBeginMeetsCut /\ MarkersKept /\ RowsComeLast
        /\ StyledHasRows /\ CutStyleHasRows /\ LatestIsWhole /\ AlignedIsRead
        /\ WholeIsLatest

-----------------------------------------------------------------------------
(* The lines of a frame.                                                   *)

\* There are as many styles as rows, or one.
LEMMA Sizes == Rows \in Nat /\ Rows > 0 /\ Styles \in 1 .. Rows /\ Length \in Nat /\ Length > 3
BY SerialLimits DEF Styles, Length

\* A frame begins, has its rows in order, its styles, and ends.
LEMMA FrameIs ==
    ASSUME NEW f \in Nat
    PROVE  /\ FrameLines(f) \in Seq(Lines) /\ Len(FrameLines(f)) = Length
           /\ FrameLines(f)[1] = Line("begin", f, 0)
           /\ \A r \in 1 .. Rows : FrameLines(f)[1 + r] = Line("row", f, r)
           /\ \A r \in 1 .. Styles : FrameLines(f)[1 + Rows + r] = Line("style", f, r)
           /\ FrameLines(f)[Length] = Line("end", f, 0)
<1> DEFINE a == <<Line("begin", f, 0)>>
           b == [r \in 1 .. Rows |-> Line("row", f, r)]
           c == [r \in 1 .. Styles |-> Line("style", f, r)]
           d == <<Line("end", f, 0)>>
<1>1. \A r \in 0 .. Rows : \A k \in {"begin", "row", "style", "end", "mark"} :
          Line(k, f, r) \in Lines
    BY DEF Line, Lines
<1>2. a \in Seq(Lines) /\ Len(a) = 1 /\ a[1] = Line("begin", f, 0)
    BY <1>1, Sizes
<1>3. b \in Seq(Lines) /\ Len(b) = Rows /\ \A r \in 1 .. Rows : b[r] = Line("row", f, r)
    BY <1>1, Sizes
<1>4. c \in Seq(Lines) /\ Len(c) = Styles /\ \A r \in 1 .. Styles : c[r] = Line("style", f, r)
    BY <1>1, Sizes
<1>5. d \in Seq(Lines) /\ Len(d) = 1 /\ d[1] = Line("end", f, 0)
    BY <1>1, Sizes
<1>6. FrameLines(f) = ((a \o b) \o c) \o d
    BY DEF FrameLines, LinesWith
<1> HIDE DEF a, b, c, d
<1> DEFINE ab == a \o b
           abc == ab \o c
<1>7. /\ ab \in Seq(Lines) /\ Len(ab) = 1 + Rows
      /\ \A i \in 1 .. 1 + Rows : ab[i] = IF i <= 1 THEN a[i] ELSE b[i - 1]
    <2>1. a \in Seq(Lines) /\ b \in Seq(Lines)
        BY <1>2, <1>3
    <2>2. /\ ab \in Seq(Lines) /\ Len(ab) = Len(a) + Len(b)
          /\ \A i \in 1 .. Len(a) + Len(b) : ab[i] = IF i <= Len(a) THEN a[i] ELSE b[i - Len(a)]
        BY ONLY <2>1, ConcatProperties
    <2> HIDE DEF ab
    <2> QED
        BY <1>2, <1>3, <2>2
<1>8. ab[1] = Line("begin", f, 0) /\ \A r \in 1 .. Rows : ab[1 + r] = Line("row", f, r)
    BY <1>2, <1>3, <1>7, Sizes
<1> HIDE DEF ab
<1>9. /\ abc \in Seq(Lines) /\ Len(abc) = Len(ab) + Len(c)
      /\ \A i \in 1 .. Len(ab) + Len(c) : abc[i] = IF i <= Len(ab) THEN ab[i] ELSE c[i - Len(ab)]
    BY <1>4, <1>7, ConcatProperties
<1> HIDE DEF abc
<1>n. Rows \in Nat /\ Styles \in Nat /\ Rows > 0 /\ Styles > 0
    BY Sizes
<1>10. /\ abc[1] = Line("begin", f, 0)
       /\ \A r \in 1 .. Rows : abc[1 + r] = Line("row", f, r)
       /\ \A r \in 1 .. Styles : abc[1 + Rows + r] = Line("style", f, r)
    <2>1. abc[1] = Line("begin", f, 0)
        BY <1>n, <1>4, <1>7, <1>8, <1>9
    <2>2. ASSUME NEW r \in 1 .. Rows PROVE abc[1 + r] = Line("row", f, r)
        <3>1. 1 + r \in 1 .. Len(ab) + Len(c) /\ 1 + r <= Len(ab)
            BY <1>n, <1>4, <1>7
        <3> QED
            BY <1>8, <1>9, <3>1
    <2>3. ASSUME NEW r \in 1 .. Styles PROVE abc[1 + Rows + r] = Line("style", f, r)
        <3> DEFINE k == 1 + Rows + r
        <3>1. k \in 1 .. Len(ab) + Len(c) /\ ~(k <= Len(ab)) /\ k - Len(ab) = r
            BY <1>n, <1>4, <1>7
        <3> HIDE DEF k
        <3>2. abc[k] = c[k - Len(ab)]
            BY <1>9, <3>1
        <3>3. abc[k] = Line("style", f, r)
            BY <1>4, <3>1, <3>2
        <3> QED
            BY <3>3 DEF k
    <2> QED
        BY <2>1, <2>2, <2>3
<1>11. Len(abc) = Length - 1 /\ Length \in Nat /\ Length = Rows + Styles + 2
    BY <1>n, <1>4, <1>7, <1>9 DEF Length
<1>12. /\ abc \o d \in Seq(Lines) /\ Len(abc \o d) = Len(abc) + Len(d)
       /\ \A i \in 1 .. Len(abc) + Len(d) : (abc \o d)[i] = IF i <= Len(abc) THEN abc[i] ELSE d[i - Len(abc)]
    <2>1. abc \in Seq(Lines) /\ d \in Seq(Lines)
        BY <1>5, <1>9
    <2> QED
        BY ONLY <2>1, ConcatProperties
<1>13. FrameLines(f) = abc \o d
    BY <1>6 DEF ab, abc
<1>14. \A i \in 1 .. Rows + Styles + 1 : FrameLines(f)[i] = abc[i]
    BY <1>n, <1>5, <1>11, <1>12, <1>13
<1>15. FrameLines(f)[Length] = Line("end", f, 0)
    <2>1. Length \in 1 .. Len(abc) + Len(d) /\ ~(Length <= Len(abc)) /\ Length - Len(abc) = 1
        BY <1>5, <1>11
    <2>2. (abc \o d)[Length] = d[1]
        BY <1>12, <2>1
    <2> QED
        BY <1>5, <1>13, <2>2
<1>16. \A r \in 1 .. Rows : FrameLines(f)[1 + r] = Line("row", f, r)
    <2> TAKE r \in 1 .. Rows
    <2>1. 1 + r \in 1 .. Rows + Styles + 1
        BY <1>n
    <2> QED
        BY <1>10, <1>14, <2>1
<1>17. \A r \in 1 .. Styles : FrameLines(f)[1 + Rows + r] = Line("style", f, r)
    <2> TAKE r \in 1 .. Styles
    <2>1. 1 + Rows + r \in 1 .. Rows + Styles + 1
        BY <1>n
    <2> QED
        BY <1>10, <1>14, <2>1
<1>18. FrameLines(f)[1] = Line("begin", f, 0)
    BY <1>n, <1>10, <1>14
<1>19. FrameLines(f) \in Seq(Lines) /\ Len(FrameLines(f)) = Length
    BY <1>5, <1>11, <1>12, <1>13
<1> QED
    BY <1>15, <1>16, <1>17, <1>18, <1>19

-----------------------------------------------------------------------------
(* Types.                                                                  *)

\* What the reader keeps is a frame or nothing, whatever line it reads.
LEMMA ReadKeepsTypes ==
    ASSUME TypeOK, NEW pieces \in Seq(Pieces), ReadLine(pieces)
    PROVE  /\ current' \in Frames \cup {None} /\ latest' \in Frames \cup {None}
           /\ blind' \in BOOLEAN
<1>1. current \in Frames \cup {None} /\ latest \in Frames \cup {None} /\ blind \in BOOLEAN
    BY DEF TypeOK
<1>2. Started(TRUE) \in Frames /\ Started(FALSE) \in Frames
    BY DEF Started, Frames
<1>3. Taken(latest) \in Frames \cup {None}
    BY <1>1 DEF Taken
<1>4. CASE UNCHANGED reader
    BY <1>1, <1>4 DEF reader
<1>5. CASE ReadBegin(pieces)
    BY <1>1, <1>2, <1>3, <1>5 DEF ReadBegin
<1>6. ASSUME ReadRow(pieces), pieces # <<>>
      PROVE  current' \in Frames \cup {None} /\ latest' = latest /\ blind' = blind
    <2>1. Head(pieces) \in Pieces
        BY <1>6
    <2>2. Cell(pieces) \in Cells
        BY <2>1 DEF Cell, Cells, Pieces
    <2>3. ASSUME current # None
          PROVE  [current EXCEPT !.cells = Append(@, Cell(pieces))] \in Frames
        <3>1. current \in Frames /\ current.cells \in Seq(Cells)
            BY <1>1, <2>3 DEF Frames
        <3>2. Append(current.cells, Cell(pieces)) \in Seq(Cells)
            BY <2>2, <3>1
        <3> DEFINE more == Append(current.cells, Cell(pieces))
        <3>3. more \in Seq(Cells)
            BY <3>2
        <3> HIDE DEF more
        <3>4. [current EXCEPT !.cells = more] \in Frames
            BY <3>1, <3>3 DEF Frames
        <3> QED
            BY <3>4 DEF more
    <2> QED
        BY <1>1, <1>6, <2>3 DEF ReadRow
<1>7. ASSUME ReadStyle
      PROVE  current' \in Frames \cup {None} /\ latest' = latest /\ blind' = blind
    <2>1. ASSUME current # None
          PROVE  [current EXCEPT !.styles = @ + 1] \in Frames
        BY <1>1, <2>1 DEF Frames
    <2> QED
        BY <1>1, <1>7, <2>1 DEF ReadStyle
<1>8. CASE ReadEnd(pieces)
    BY <1>1, <1>3, <1>8 DEF ReadEnd
<1> QED
    BY <1>1, <1>4, <1>5, <1>6, <1>7, <1>8 DEF ReadLine

\* The counters and their bounds are numbers.
LEMMA Counts ==
    TypeOK => /\ MaxFrames \in Nat /\ MaxMarks \in Nat /\ Failures \in Nat
              /\ marks \in 0 .. MaxMarks /\ frames \in 0 .. MaxFrames
              /\ failures \in 0 .. Failures
BY SerialLimits DEF TypeOK

\* The line of the log when more is written after what was cut: it is known by
\* the piece it begins with.
Longer(line, upto) == Append(pending, Piece(line, upto))

\* It is made of pieces, and begins with what was cut, if anything was.
LEMMA LongerIs ==
    ASSUME TypeOK, NEW line \in Lines, NEW upto \in 1 .. 3
    PROVE  /\ Longer(line, upto) \in Seq(Pieces) /\ Longer(line, upto) # <<>>
           /\ Head(Longer(line, upto)) = Longer(line, upto)[1]
           /\ pending = <<>> => Longer(line, upto) = <<Piece(line, upto)>>
           /\ pending # <<>> => Longer(line, upto)[1] = pending[1]
           /\ Longer(line, upto)[1] \in Pieces
<1>1. pending \in Seq(Pieces) /\ Piece(line, upto) \in Pieces
    BY DEF TypeOK, Piece, Pieces
<1>2. Longer(line, upto) \in Seq(Pieces) /\ Longer(line, upto) # <<>>
    BY <1>1, AppendProperties DEF Longer
<1>3. pending = <<>> => Longer(line, upto) = <<Piece(line, upto)>>
    BY <1>1 DEF Longer
<1>4. pending # <<>> => Longer(line, upto)[1] = pending[1]
    <2>1. pending # <<>> => Len(pending) \in Nat \ {0}
        BY <1>1, EmptySeq
    <2> QED
        BY <1>1, <2>1, AppendProperties DEF Longer
<1>5. Longer(line, upto)[1] \in Pieces
    <2>1. Len(Longer(line, upto)) \in Nat \ {0}
        BY <1>2, EmptySeq
    <2> QED
        BY <1>2, <2>1, ElementOfSeq
<1> QED
    BY <1>2, <1>3, <1>4, <1>5

\* A line written ends the line of the log, and the reader takes it.
LEMMA WrittenIs ==
    ASSUME NEW line, Written(line)
    PROVE  pending' = <<>> /\ ReadLine(Longer(line, 3))
BY DEF Written, Longer

\* A line cut lengthens the line of the log; nothing is read.
LEMMA CutIs ==
    ASSUME TypeOK, NEW line \in Lines, NEW upto \in 0 .. 3, Cut(line, upto)
    PROVE  /\ failures' = failures - 1 /\ failures' \in 0 .. Failures
           /\ pending' \in Seq(Pieces)
           /\ upto = 0 => pending' = pending
           /\ upto # 0 => pending' = Longer(line, upto)
           /\ UNCHANGED <<current, latest, blind>>
<1>1. failures' = failures - 1 /\ failures' \in 0 .. Failures
    BY Counts DEF Cut
<1>2. (upto = 0 => pending' = pending) /\ (upto # 0 => pending' = Longer(line, upto))
    BY DEF Cut, Longer
<1>3. upto # 0 => upto \in 1 .. 3
    OBVIOUS
<1> QED
    BY <1>1, <1>2, <1>3, LongerIs DEF Cut, reader, TypeOK

\* The first line of what is left of a frame, and what is left after it.
LEMMA NextLine ==
    ASSUME TypeOK, script # <<>>
    PROVE  /\ Head(script) \in Lines /\ Head(script) = script[1]
           /\ Tail(script) \in Seq(Lines) /\ Len(Tail(script)) = Len(script) - 1
           /\ Len(script) \in Nat \ {0}
           /\ \A i \in 1 .. Len(Tail(script)) : Tail(script)[i] = script[i + 1]
           /\ Tail(script) = <<>> <=> Len(script) = 1
<1>1. script \in Seq(Lines)
    BY DEF TypeOK
<1>2. /\ Head(script) \in Lines /\ Tail(script) \in Seq(Lines)
      /\ Len(Tail(script)) = Len(script) - 1
      /\ \A i \in 1 .. Len(Tail(script)) : Tail(script)[i] = script[i + 1]
    BY <1>1, HeadTailProperties
<1>3. Len(script) \in Nat \ {0}
    BY <1>1, EmptySeq
<1>4. Tail(script) = <<>> <=> Len(Tail(script)) = 0
    BY <1>2, EmptySeq
<1>5. Head(script) = script[1]
    BY <1>1
<1> QED
    BY <1>2, <1>3, <1>4, <1>5

\* Every variable has its type at first.
LEMMA TypeInit == Init => TypeOK
<1> SUFFICES ASSUME Init PROVE TypeOK
    OBVIOUS
<1>1. script \in Seq(Lines) /\ pending \in Seq(Pieces) /\ seen \in Seq(1 .. MaxMarks)
    BY EmptySeq DEF Init
<1>2. marks \in 0 .. MaxMarks /\ frames \in 0 .. MaxFrames /\ failures \in 0 .. Failures
    BY SerialLimits DEF Init
<1> QED
    BY <1>1, <1>2 DEF Init, TypeOK

\* A marker is a line of its own.
LEMMA MarkIsLine == \A n \in Nat : Line("mark", n, 0) \in Lines
BY SerialLimits DEF Line, Lines

\* A step keeps the types.
LEMMA TypeStep == TypeOK /\ [Next]_vars => TypeOK'
<1> SUFFICES ASSUME TypeOK, [Next]_vars PROVE TypeOK'
    OBVIOUS
<1>1. CASE UNCHANGED vars
    BY <1>1 DEF vars, reader, TypeOK
<1>2. CASE Mark
    <2> DEFINE line == Line("mark", marks', 0)
    <2>1. /\ serial /\ script = <<>> /\ marks' = marks + 1 /\ marks' \in 1 .. MaxMarks
          /\ UNCHANGED <<writer, script, frames, aligned, whole>>
        BY <1>2, Counts DEF Mark, MarkWith, Idle
    <2>2. line \in Lines
        BY <2>1, MarkIsLine, SerialLimits DEF TypeOK
    <2>3. Append(seen, marks') \in Seq(1 .. MaxMarks)
        BY <2>1, AppendProperties DEF TypeOK
    <2>4. CASE Written(line) /\ seen' = Append(seen, marks') /\ UNCHANGED <<serial, failures>>
        <3>1. /\ current' \in Frames \cup {None} /\ latest' \in Frames \cup {None}
              /\ blind' \in BOOLEAN /\ pending' = <<>>
            BY <2>2, <2>4, WrittenIs, LongerIs, ReadKeepsTypes
        <3> QED
            BY <2>1, <2>3, <2>4, <3>1, EmptySeq DEF TypeOK
    <2>5. ASSUME NEW upto \in 0 .. 3, Cut(line, upto), serial' = FALSE,
                 seen' = IF upto = 3 THEN Append(seen, marks') ELSE seen
          PROVE  TypeOK'
        <3>1. /\ failures' \in 0 .. Failures /\ pending' \in Seq(Pieces)
              /\ UNCHANGED <<current, latest, blind>>
            BY <2>2, <2>5, CutIs
        <3>2. seen' \in Seq(1 .. MaxMarks)
            BY <2>3, <2>5 DEF TypeOK
        <3>3. serial' \in BOOLEAN /\ script' = <<>>
            BY <2>1, <2>5
        <3>4. marks' \in 0 .. MaxMarks
            BY <2>1, Counts
        <3> QED
            BY <2>1, <3>1, <3>2, <3>3, <3>4 DEF TypeOK
    <2> QED
        BY <1>2, <2>4, <2>5 DEF Mark, MarkWith
<1>3. CASE BeginFrame
    <2>1. frames' \in 1 .. MaxFrames /\ frames' \in Nat
        BY <1>3, Counts DEF BeginFrame
    <2>2. script' \in Seq(Lines)
        BY <1>3, <2>1, FrameIs DEF BeginFrame
    <2>3. aligned' \in BOOLEAN /\ whole' \in BOOLEAN /\ serial'
        BY <1>3 DEF BeginFrame, Idle
    <2>4. UNCHANGED <<writer, serial, pending, current, latest, blind, seen, marks, failures>>
        BY <1>3 DEF BeginFrame, reader
    <2> QED
        BY <2>1, <2>2, <2>3, <2>4 DEF TypeOK
<1>4. CASE WriteLine
    <2>1. /\ script # <<>> /\ Written(Head(script)) /\ script' = Tail(script)
          /\ whole' = (Tail(script) = <<>>)
          /\ UNCHANGED <<writer, serial, seen, marks, frames, aligned, failures>>
        BY <1>4 DEF WriteLine
    <2>2. /\ current' \in Frames \cup {None} /\ latest' \in Frames \cup {None}
          /\ blind' \in BOOLEAN /\ pending' = <<>>
        BY <2>1, NextLine, WrittenIs, LongerIs, ReadKeepsTypes
    <2>3. script' \in Seq(Lines) /\ whole' \in BOOLEAN /\ serial'
        BY <2>1, NextLine DEF TypeOK
    <2> QED
        BY <2>1, <2>2, <2>3, EmptySeq DEF TypeOK
<1>5. CASE WriteFails
    <2>1. /\ script # <<>> /\ script' = <<>>
          /\ UNCHANGED <<writer, serial, seen, marks, frames, aligned, whole>>
        BY <1>5 DEF WriteFails, WriteFailsThen
    <2>2. ASSUME NEW upto \in 0 .. 3, Cut(Head(script), upto) PROVE TypeOK'
        <3>1. /\ failures' \in 0 .. Failures /\ pending' \in Seq(Pieces)
              /\ UNCHANGED <<current, latest, blind>>
            BY <2>1, <2>2, CutIs, NextLine
        <3> QED
            BY <2>1, <3>1, EmptySeq DEF TypeOK
    <2>3. ASSUME NEW upto \in 0 .. 3, failures > 0, failures' = failures - 1, pending' = <<>>,
                 ReadLine(IF upto = 0 THEN pending ELSE Append(pending, Piece(Head(script), upto)))
          PROVE  TypeOK'
        <3> DEFINE p == IF upto = 0 THEN pending ELSE Append(pending, Piece(Head(script), upto))
        <3>1. p \in Seq(Pieces)
            BY <2>1, NextLine, LongerIs DEF Longer, TypeOK
        <3>2. /\ current' \in Frames \cup {None} /\ latest' \in Frames \cup {None}
              /\ blind' \in BOOLEAN
            BY <2>3, <3>1, ReadKeepsTypes
        <3>3. failures' \in 0 .. Failures
            BY <2>3, Counts
        <3> QED
            BY <2>1, <2>3, <3>2, <3>3, EmptySeq DEF TypeOK
    <2> QED
        BY <1>5, <2>2, <2>3 DEF WriteFails, WriteFailsThen
<1> QED
    BY <1>1, <1>2, <1>3, <1>4, <1>5 DEF Next

-----------------------------------------------------------------------------
(* Markers.                                                                *)

\* A log without gaps counts from one.
LEMMA NoGaps ==
    ASSUME NEW s \in Seq(1 .. MaxMarks)
    PROVE  s = [i \in 1 .. Len(s) |-> i] <=> \A i \in 1 .. Len(s) : s[i] = i
BY LenProperties

\* A marker that is not written costs the port, so no later one is found
\* without it.
LEMMA MarkersKeptStep == TypeOK /\ MarkersKept /\ [Next]_vars => MarkersKept'
<1> SUFFICES ASSUME TypeOK, MarkersKept, [Next]_vars PROVE MarkersKept'
    OBVIOUS
<1>1. CASE Mark
    <2>1. serial /\ marks' = marks + 1 /\ Len(seen) = marks
        BY <1>1 DEF Mark, MarkWith, Idle, MarkersKept
    <2>2. marks' \in 1 .. MaxMarks /\ marks \in Nat
        BY <1>1, <2>1, Counts DEF Mark, MarkWith
    <2>3. seen \in Seq(1 .. MaxMarks) /\ Len(seen) \in Nat
        BY LenProperties DEF TypeOK
    <2>4. /\ Append(seen, marks') \in Seq(1 .. MaxMarks)
          /\ Len(Append(seen, marks')) = Len(seen) + 1
          /\ \A i \in 1 .. Len(seen) : Append(seen, marks')[i] = seen[i]
          /\ Append(seen, marks')[Len(seen) + 1] = marks'
        BY <2>2, <2>3, AppendProperties
    <2>5. \A i \in 1 .. Len(seen) : seen[i] = i
        BY <2>3, NoGaps DEF MarkersKept, MarkersHaveNoGaps
    <2>6. \A i \in 1 .. Len(Append(seen, marks')) : Append(seen, marks')[i] = i
        BY <2>1, <2>2, <2>3, <2>4, <2>5
    <2>7. \/ seen' = Append(seen, marks')
          \/ seen' = seen /\ serial' = FALSE
        BY <1>1 DEF Mark, MarkWith
    <2>8. CASE seen' = Append(seen, marks')
        <3>1. Append(seen, marks') = [i \in 1 .. Len(Append(seen, marks')) |-> i]
            BY <2>4, <2>6, NoGaps
        <3>2. Len(seen') = marks'
            BY <2>1, <2>4, <2>8
        <3>3. MarkersHaveNoGaps'
            BY <2>8, <3>1 DEF MarkersHaveNoGaps
        <3> QED
            BY <2>2, <3>2, <3>3 DEF MarkersKept
    <2>9. CASE seen' = seen /\ serial' = FALSE
        BY <2>1, <2>2, <2>9 DEF MarkersKept, MarkersHaveNoGaps
    <2> QED
        BY <2>7, <2>8, <2>9
<1>2. CASE ~Mark
    <2>1. UNCHANGED <<seen, marks, serial>>
        BY <1>2 DEF Next, vars, BeginFrame, WriteLine, WriteFails, WriteFailsThen
    <2> QED
        BY <2>1 DEF MarkersKept, MarkersHaveNoGaps
<1> QED
    BY <1>1, <1>2

-----------------------------------------------------------------------------
(* The frame under way.                                                    *)

\* The writer is the same from the start, and so is the number of lines.
LEMMA SameLength == [Next]_vars => writer' = writer /\ Length' = Length /\ Styles' = Styles
BY DEF Next, vars, Mark, MarkWith, BeginFrame, WriteLine, WriteFails, WriteFailsThen,
   Length, Styles

\* The line that is next is the one at its place.
LEMMA HeadIs ==
    ASSUME TypeOK, ScriptIsRest, script # <<>>
    PROVE  /\ Place \in 1 .. Length /\ Head(script) = FrameLines(frames)[Place]
           /\ Head(script) \in Lines /\ frames \in Nat /\ frames > 0
           /\ Place = 1 => Head(script).kind = "begin"
           /\ Place \in 2 .. Rows + 1 => Head(script) = Line("row", frames, Place - 1)
           /\ Place \in Rows + 2 .. Length - 1 => Head(script).kind = "style"
           /\ Place = Length => Head(script).kind = "end"
           /\ Tail(script) = <<>> <=> Place = Length
<1>1. Len(script) \in Nat \ {0} /\ Head(script) = script[1] /\ Head(script) \in Lines
    BY NextLine
<1>2. Len(script) <= Length /\ frames > 0 /\ frames \in Nat
    BY Counts DEF ScriptIsRest
<1>3. Length \in Nat /\ Place \in 1 .. Length /\ Place \in Nat
    BY <1>1, <1>2, Sizes DEF Place
<1>4. Head(script) = FrameLines(frames)[Place + 1 - 1]
    BY <1>1 DEF ScriptIsRest
<1>5. Head(script) = FrameLines(frames)[Place]
    BY <1>3, <1>4
<1>k. /\ FrameLines(frames)[1] = Line("begin", frames, 0)
      /\ FrameLines(frames)[Length] = Line("end", frames, 0)
    BY <1>2, FrameIs
<1>6. Place = 1 => Head(script).kind = "begin"
    BY <1>5, <1>k DEF Line
<1>7. Place = Length => Head(script).kind = "end"
    BY <1>5, <1>k DEF Line
<1>8. ASSUME Place \in 2 .. Rows + 1 PROVE Head(script) = Line("row", frames, Place - 1)
    <2>1. Place - 1 \in 1 .. Rows /\ Place = 1 + (Place - 1)
        BY <1>8, Sizes
    <2> QED
        BY <1>2, <1>5, <2>1, FrameIs
<1>9. ASSUME Place \in Rows + 2 .. Length - 1 PROVE Head(script).kind = "style"
    <2>1. Place - 1 - Rows \in 1 .. Styles /\ Place = 1 + Rows + (Place - 1 - Rows)
        BY <1>9, Sizes DEF Length
    <2>2. FrameLines(frames)[Place] = Line("style", frames, Place - 1 - Rows)
        BY <1>2, <2>1, FrameIs
    <2> QED
        BY <1>5, <2>2 DEF Line
<1>10. Tail(script) = <<>> <=> Place = Length
    BY <1>1, <1>3, NextLine, Sizes DEF Place
<1> QED
    BY <1>1, <1>2, <1>3, <1>5, <1>6, <1>7, <1>8, <1>9, <1>10

\* A frame begins with all its lines to be written and goes on line by line.
LEMMA ScriptStep ==
    TypeOK /\ ScriptIsRest /\ [Next]_vars =>
        /\ ScriptIsRest'
        /\ BeginFrame => Place' = 1
        /\ WriteLine => Place' = Place + 1
<1> SUFFICES ASSUME TypeOK, ScriptIsRest, [Next]_vars
             PROVE  /\ ScriptIsRest'
                    /\ BeginFrame => Place' = 1
                    /\ WriteLine => Place' = Place + 1
    OBVIOUS
<1>l. Length' = Length /\ \A f : FrameLines(f)' = FrameLines(f)
    BY SameLength DEF FrameLines, LinesWith, Styles
<1>n. Length \in Nat
    BY Sizes
<1>1. ASSUME BeginFrame PROVE ScriptIsRest' /\ Place' = 1 /\ ~WriteLine
    <2>1. frames' = frames + 1 /\ frames' \in Nat /\ script' = FrameLines(frames')
        BY <1>1, Counts DEF BeginFrame
    <2>2. Len(script') = Length
        BY <2>1, FrameIs
    <2>3. Place' = 1
        BY <1>l, <1>n, <2>2 DEF Place
    <2>4. \A i \in 1 .. Length : script'[i] = FrameLines(frames')[1 + i - 1]
        BY <1>n, <2>1
    <2>5. ~WriteLine
        BY <1>1 DEF BeginFrame, Idle, WriteLine
    <2> QED
        BY <1>l, <1>n, <2>1, <2>2, <2>3, <2>4, <2>5, Counts DEF ScriptIsRest
<1>2. ASSUME WriteLine PROVE ScriptIsRest' /\ Place' = Place + 1
    <2>1. script # <<>> /\ script' = Tail(script) /\ frames' = frames
        BY <1>2 DEF WriteLine
    <2>2. /\ Len(script) \in Nat \ {0} /\ Len(script') = Len(script) - 1
          /\ \A i \in 1 .. Len(script') : script'[i] = script[i + 1]
        BY <2>1, NextLine
    <2>3. Place' = Place + 1 /\ Place \in Int
        BY <1>l, <1>n, <2>2 DEF Place
    <2>4. ASSUME NEW i \in 1 .. Len(script')
          PROVE  script'[i] = FrameLines(frames)[Place' + i - 1]
        <3>0. i \in Nat
            OBVIOUS
        <3>1. i + 1 \in 1 .. Len(script)
            BY <2>2
        <3>4. Place + (i + 1) - 1 = Place' + i - 1
            BY <2>3, <3>0
        <3>2. script'[i] = script[i + 1]
            BY <2>2
        <3>3. script[i + 1] = FrameLines(frames)[Place + (i + 1) - 1]
            BY <3>1 DEF ScriptIsRest
        <3> QED
            BY <3>2, <3>3, <3>4
    <2>5. Len(script') <= Length' /\ frames' > 0
        BY <1>l, <1>n, <2>1, <2>2 DEF ScriptIsRest
    <2>6. ScriptIsRest'
        BY <1>l, <2>1, <2>4, <2>5 DEF ScriptIsRest
    <2> QED
        BY <2>3, <2>6
<1>3. CASE ~BeginFrame /\ ~WriteLine
    <2>1. \/ script' = script /\ frames' = frames
          \/ script' = <<>>
        BY <1>3 DEF Next, vars, Mark, MarkWith, WriteFails, WriteFailsThen
    <2>2. CASE script' = script /\ frames' = frames
        BY <1>3, <1>l, <2>2 DEF ScriptIsRest, Place
    <2>3. CASE script' = <<>>
        BY <1>3, <1>l, <1>n, <2>3 DEF ScriptIsRest
    <2> QED
        BY <1>3, <2>1, <2>2, <2>3
<1> QED
    BY <1>1, <1>2, <1>3

-----------------------------------------------------------------------------
(* The reader.                                                             *)

\* What a line does to the reader, by the piece it begins with.
LEMMA ReadIs ==
    ASSUME NEW pieces \in Seq(Pieces), pieces # <<>>, ReadLine(pieces)
    PROVE  \/ UNCHANGED <<current, latest, blind>>
           \/ ~blind /\ pieces[1].line.kind = "begin" /\ ReadBegin(pieces)
           \/ ~blind /\ pieces[1].line.kind = "row" /\ ReadRow(pieces)
           \/ ~blind /\ pieces[1].line.kind = "style" /\ ReadStyle
           \/ ~blind /\ pieces[1].line.kind = "end" /\ ReadEnd(pieces)
<1>1. Head(pieces) = pieces[1]
    OBVIOUS
<1> QED
    BY <1>1 DEF ReadLine, reader

\* A row makes a cell at the end of the frame at hand, and a style counts.
LEMMA RowIsTaken ==
    ASSUME TypeOK, ~blind, NEW pieces \in Seq(Pieces), pieces # <<>>, ReadRow(pieces)
    PROVE  /\ latest' = latest /\ blind' = blind
           /\ ~Taking => current' = current
           /\ Taking =>
               /\ current' # None /\ current'.known /\ current'.styles = current.styles
               /\ Len(current.cells) \in Nat
               /\ Len(current'.cells) = Len(current.cells) + 1
               /\ \A i \in 1 .. Len(current.cells) : current'.cells[i] = current.cells[i]
               /\ current'.cells[Len(current.cells) + 1] = Cell(pieces)
<1>1. latest' = latest /\ blind' = blind /\ (~Taking => current' = current)
    BY DEF ReadRow, Taking
<1>2. ASSUME Taking
      PROVE  /\ current' # None /\ current'.known /\ current'.styles = current.styles
             /\ Len(current.cells) \in Nat
             /\ Len(current'.cells) = Len(current.cells) + 1
             /\ \A i \in 1 .. Len(current.cells) : current'.cells[i] = current.cells[i]
             /\ current'.cells[Len(current.cells) + 1] = Cell(pieces)
    <2>1. current \in Frames /\ current.known /\ current.cells \in Seq(Cells)
        BY <1>2 DEF Taking, TypeOK, Frames
    <2>2. Cell(pieces) \in Cells
        <3>1. Head(pieces) \in Pieces
            OBVIOUS
        <3> QED
            BY <3>1 DEF Cell, Cells, Pieces
    <2>3. current' = [current EXCEPT !.cells = Append(@, Cell(pieces))]
        BY <1>2 DEF Taking, ReadRow
    <2>4. current'.cells = Append(current.cells, Cell(pieces)) /\ current'.styles = current.styles
        BY <2>1, <2>3 DEF Frames
    <2>5. current'.known = current.known
        BY <2>1, <2>3 DEF Frames
    <2>6. current' \in Frames
        BY <2>1, <2>2, <2>3, AppendProperties DEF Frames
    <2>7. /\ Len(current.cells) \in Nat
          /\ Len(current'.cells) = Len(current.cells) + 1
          /\ \A i \in 1 .. Len(current.cells) : current'.cells[i] = current.cells[i]
          /\ current'.cells[Len(current.cells) + 1] = Cell(pieces)
        BY <2>1, <2>2, <2>4, AppendProperties, LenProperties
    <2> QED
        BY <2>1, <2>4, <2>5, <2>6, <2>7, NoneIsNoFrame
<1> QED
    BY <1>1, <1>2

\* The same of a style.
LEMMA StyleIsTaken ==
    ASSUME TypeOK, ~blind, ReadStyle
    PROVE  /\ latest' = latest /\ blind' = blind
           /\ ~Taking => current' = current
           /\ Taking =>
               /\ current' # None /\ current'.known /\ current'.cells = current.cells
               /\ current.styles \in Nat /\ current'.styles = current.styles + 1
<1>1. latest' = latest /\ blind' = blind /\ (~Taking => current' = current)
    BY DEF ReadStyle, Taking
<1>2. ASSUME Taking
      PROVE  /\ current' # None /\ current'.known /\ current'.cells = current.cells
             /\ current.styles \in Nat /\ current'.styles = current.styles + 1
    <2>1. current \in Frames /\ current.known /\ current.styles \in Nat
        BY <1>2 DEF Taking, TypeOK, Frames
    <2>2. current' = [current EXCEPT !.styles = @ + 1]
        BY <1>2 DEF Taking, ReadStyle
    <2>3. current'.cells = current.cells /\ current'.styles = current.styles + 1
        BY <2>1, <2>2 DEF Frames
    <2>4. current'.known = current.known
        BY <2>1, <2>2 DEF Frames
    <2>5. current' \in Frames
        BY <2>1, <2>2 DEF Frames
    <2> QED
        BY <2>1, <2>3, <2>4, <2>5, NoneIsNoFrame
<1> QED
    BY <1>1, <1>2

\* A frame that is begun has no cells and no styles.
LEMMA StartedIs ==
    ASSUME NEW k \in BOOLEAN
    PROVE  /\ Started(k) # None /\ Started(k).styles = 0 /\ Started(k).cells = <<>>
           /\ Started(k).known = k /\ Len(Started(k).cells) = 0
<1>1. Started(k) \in Frames
    BY EmptySeq DEF Started, Frames
<1> QED
    BY <1>1, NoneIsNoFrame DEF Started

\* A frame that matches is whole, if its styles came after all rows.
LEMMA TakenIsWhole ==
    ASSUME TypeOK, StyledHasRows, LatestIsWhole, NEW x, x \in {latest, Taken(latest)}
    PROVE  x # None => \E f \in 1 .. frames : x.cells = Full(f)
<1>1. CASE current # None /\ Matches(current)
    <2>1. HasAllRows(current, frames) /\ Len(current.cells) = Rows
        BY <1>1 DEF Matches, StyledHasRows
    <2> QED
        BY <1>1, <2>1 DEF Taken, HasAllRows, LatestIsWhole
<1>2. CASE ~(current # None /\ Matches(current))
    BY <1>2 DEF Taken, LatestIsWhole
<1> QED
    BY <1>1, <1>2

\* Reading a line keeps what is known of the frame at hand and of the last.
LEMMA ReadKeepsWhole ==
    ASSUME TypeOK, StyledHasRows, LatestIsWhole, frames' = frames,
           NEW pieces \in Seq(Pieces), ReadLine(pieces),
           (Taking /\ pieces # <<>> /\ pieces[1].line.kind = "style")
             => HasAllRows(current, frames)
    PROVE  StyledHasRows' /\ LatestIsWhole'
<1>0. ASSUME UNCHANGED <<current, latest, blind>> PROVE StyledHasRows' /\ LatestIsWhole'
    BY <1>0 DEF StyledHasRows, LatestIsWhole, HasAllRows, Full, Intact
<1>1. CASE pieces = <<>>
    BY <1>0, <1>1 DEF ReadLine, reader
<1>2. CASE pieces # <<>> /\ ReadBegin(pieces)
    <2>1. latest' = Taken(latest)
        BY <1>2 DEF ReadBegin
    <2>2. LatestIsWhole'
        BY <2>1, TakenIsWhole DEF LatestIsWhole, Full, Intact
    <2>3. current' = current \/ current' = Started(TRUE) \/ current' = Started(FALSE)
        BY <1>2 DEF ReadBegin
    <2>4. CASE current' = current
        <3>1. StyledHasRows'
            BY <2>4 DEF StyledHasRows, HasAllRows, Full, Intact
        <3> QED
            BY <2>2, <3>1
    <2>5. CASE current' = Started(TRUE) \/ current' = Started(FALSE)
        <3>1. current'.styles = 0
            BY <2>5, StartedIs
        <3> QED
            BY <2>2, <3>1 DEF StyledHasRows
    <2> QED
        BY <2>3, <2>4, <2>5
<1>3. CASE pieces # <<>> /\ ~blind /\ ReadRow(pieces)
    <2>1. latest' = latest
        BY <1>3, RowIsTaken
    <2>2. CASE ~Taking
        BY <1>0, <1>3, <2>2, RowIsTaken
    <2>3. CASE Taking
        <3>1. /\ current'.styles = current.styles /\ Len(current.cells) \in Nat
              /\ Len(current'.cells) = Len(current.cells) + 1
            BY <1>3, <2>3, RowIsTaken
        <3>2. ASSUME current'.styles > 0 PROVE HasAllRows(current', frames)
            <4>1. HasAllRows(current, frames)
                BY <2>3, <3>1, <3>2 DEF Taking, StyledHasRows
            <4> QED
                BY <3>1, <4>1, Sizes DEF HasAllRows
        <3>3. HasAllRows(current, frames)' <=> HasAllRows(current', frames)
            BY DEF HasAllRows, Full, Intact
        <3> QED
            BY <2>1, <3>2, <3>3 DEF StyledHasRows, LatestIsWhole, Full, Intact
    <2> QED
        BY <2>2, <2>3
<1>4. CASE pieces # <<>> /\ ~blind /\ pieces[1].line.kind = "style" /\ ReadStyle
    <2>1. latest' = latest
        BY <1>4, StyleIsTaken
    <2>2. CASE ~Taking
        BY <1>0, <1>4, <2>2, StyleIsTaken
    <2>3. CASE Taking
        <3>1. current'.cells = current.cells /\ HasAllRows(current, frames)
            BY <1>4, <2>3, StyleIsTaken
        <3> QED
            BY <2>1, <3>1 DEF StyledHasRows, LatestIsWhole, HasAllRows, Full, Intact
    <2> QED
        BY <2>2, <2>3
<1>5. CASE pieces # <<>> /\ ReadEnd(pieces)
    <2>1. current' = None /\ latest' \in {latest, Taken(latest)}
        BY <1>5 DEF ReadEnd
    <2>2. LatestIsWhole'
        BY <2>1, TakenIsWhole DEF LatestIsWhole, Full, Intact
    <2> QED
        BY <2>1, <2>2 DEF StyledHasRows
<1> QED
    BY <1>0, <1>1, <1>2, <1>3, <1>4, <1>5, ReadIs

-----------------------------------------------------------------------------
(* Frames found are whole.                                                 *)

\* Past its rows, a frame under way has them all.
LEMMA RowsAllThere ==
    ASSUME TypeOK, ScriptIsRest, RowsComeLast, Taking, script # <<>>, Place > Rows + 1
    PROVE  HasAllRows(current, frames)
<1>1. RowsWritten = Rows /\ Place > 1 /\ frames \in Nat /\ frames > 0 /\ Rows \in Nat
    BY HeadIs, Sizes DEF RowsWritten
<1>2. /\ Len(current.cells) >= Rows
      /\ \A r \in 1 .. Rows : current.cells[Len(current.cells) - Rows + r] = Intact(frames, r)
    BY <1>1 DEF RowsComeLast
<1>3. current.cells \in Seq(Cells)
    BY DEF Taking, TypeOK, Frames
<1>4. ASSUME Len(current.cells) = Rows PROVE current.cells = Full(frames)
    <2>1. \A r \in 1 .. Rows : Len(current.cells) - Rows + r = r
        BY <1>1, <1>4
    <2>2. \A r \in 1 .. Rows : current.cells[r] = Intact(frames, r)
        BY <1>2, <2>1
    <2>3. current.cells = [r \in 1 .. Rows |-> current.cells[r]]
        BY <1>3, <1>4, LenProperties
    <2> QED
        BY <2>2, <2>3 DEF Full
<1> QED
    BY <1>1, <1>2, <1>4 DEF HasAllRows

\* A style at the head of the line of the log, cut or whole, comes after all
\* rows.
LEMMA StyleHeadHasRows ==
    ASSUME TypeOK, ScriptIsRest, RowsComeLast, CutStyleHasRows,
           NEW line \in Lines, NEW upto \in 1 .. 3,
           line.kind = "style" => (script # <<>> /\ line = Head(script)),
           Taking, Longer(line, upto)[1].line.kind = "style"
    PROVE  HasAllRows(current, frames)
<1>1. CASE pending # <<>>
    BY <1>1, LongerIs DEF CutStyleHasRows
<1>2. CASE pending = <<>>
    <2>1. script # <<>> /\ Head(script).kind = "style"
        BY <1>2, LongerIs DEF Piece
    <2>2. Place > Rows + 1
        <3>1. /\ Place \in 1 .. Length /\ Length \in Nat /\ Rows \in Nat
              /\ Place # 1 /\ Place \notin 2 .. Rows + 1
            BY <2>1, HeadIs, Sizes DEF Line
        <3> QED
            BY <3>1
    <2> QED
        BY <2>1, <2>2, RowsAllThere
<1> QED
    BY <1>1, <1>2

\* What a marker does: its line is read, or it lengthens the line of the log.
LEMMA MarkDoes ==
    ASSUME TypeOK, Mark
    PROVE  /\ script = <<>> /\ UNCHANGED <<script, frames, aligned, whole>>
           /\ \E line \in Lines :
               /\ line.kind = "mark"
               /\ \/ pending' = <<>> /\ ReadLine(Longer(line, 3))
                  \/ /\ UNCHANGED <<current, latest, blind>>
                     /\ \/ pending' = pending
                        \/ \E upto \in 1 .. 3 : pending' = Longer(line, upto)
<1> DEFINE line == Line("mark", marks', 0)
<1>1. line \in Lines /\ line.kind = "mark"
    <2>1. marks' \in Nat
        BY Counts DEF Mark, MarkWith
    <2> QED
        BY <2>1, MarkIsLine DEF Line
<1>2. Written(line) \/ \E upto \in 0 .. 3 : Cut(line, upto)
    BY DEF Mark, MarkWith
<1>3. CASE Written(line)
    BY <1>1, <1>3, WrittenIs DEF Mark, MarkWith, Idle
<1>4. ASSUME NEW upto \in 0 .. 3, Cut(line, upto)
      PROVE  /\ UNCHANGED <<current, latest, blind>>
             /\ \/ pending' = pending
                \/ \E u \in 1 .. 3 : pending' = Longer(line, u)
    <2>1. upto = 0 \/ upto \in 1 .. 3
        OBVIOUS
    <2> QED
        BY <1>1, <1>4, <2>1, CutIs
<1>5. script = <<>> /\ UNCHANGED <<script, frames, aligned, whole>>
    BY DEF Mark, MarkWith, Idle
<1> QED
    BY <1>1, <1>2, <1>3, <1>4, <1>5

\* What a line that fails does: the line of the log is longer, or ended and
\* read.
LEMMA FailureDoes ==
    ASSUME TypeOK, WriteFails
    PROVE  /\ script # <<>> /\ script' = <<>> /\ UNCHANGED <<frames, aligned, whole>>
           /\ \/ /\ UNCHANGED <<current, latest, blind>>
                 /\ \/ pending' = pending
                    \/ \E upto \in 1 .. 3 : pending' = Longer(Head(script), upto)
              \/ /\ pending' = <<>>
                 /\ \/ ReadLine(pending)
                    \/ \E upto \in 1 .. 3 : ReadLine(Longer(Head(script), upto))
<1>1. script # <<>> /\ script' = <<>> /\ UNCHANGED <<frames, aligned, whole>>
    BY DEF WriteFails, WriteFailsThen
<1>2. PICK upto \in 0 .. 3 :
        \/ Cut(Head(script), upto)
        \/ /\ pending' = <<>>
           /\ ReadLine(IF upto = 0 THEN pending
                                   ELSE Append(pending, Piece(Head(script), upto)))
    BY DEF WriteFails, WriteFailsThen
<1>3. upto = 0 \/ upto \in 1 .. 3
    OBVIOUS
<1>4. CASE Cut(Head(script), upto)
    BY <1>1, <1>3, <1>4, CutIs, NextLine
<1>5. CASE /\ pending' = <<>>
           /\ ReadLine(IF upto = 0 THEN pending
                                   ELSE Append(pending, Piece(Head(script), upto)))
    BY <1>1, <1>3, <1>5 DEF Longer
<1> QED
    BY <1>2, <1>4, <1>5

\* What is known of the frame at hand and of the last is kept.
LEMMA WholeFramesStep ==
    /\ TypeOK /\ ScriptIsRest /\ RowsComeLast /\ CutStyleHasRows
    /\ StyledHasRows /\ LatestIsWhole /\ [Next]_vars
    => StyledHasRows' /\ LatestIsWhole'
<1> SUFFICES ASSUME TypeOK, ScriptIsRest, RowsComeLast, CutStyleHasRows, StyledHasRows,
                    LatestIsWhole, [Next]_vars
             PROVE  StyledHasRows' /\ LatestIsWhole'
    OBVIOUS
<1>0. ASSUME UNCHANGED <<current, latest, blind>>, frames' = frames
      PROVE  StyledHasRows' /\ LatestIsWhole'
    BY <1>0 DEF StyledHasRows, LatestIsWhole, HasAllRows, Full, Intact
<1>p. pending \in Seq(Pieces)
    BY DEF TypeOK
<1>1. CASE UNCHANGED vars
    BY <1>0, <1>1 DEF vars, reader
<1>2. CASE Mark
    <2>1. PICK line \in Lines :
            /\ line.kind = "mark"
            /\ \/ ReadLine(Longer(line, 3))
               \/ UNCHANGED <<current, latest, blind>>
        BY <1>2, MarkDoes
    <2>2. frames' = frames
        BY <1>2, MarkDoes
    <2>3. CASE ReadLine(Longer(line, 3))
        BY <2>1, <2>2, <2>3, LongerIs, StyleHeadHasRows, ReadKeepsWhole
    <2> QED
        BY <1>0, <2>1, <2>2, <2>3
<1>3. CASE BeginFrame
    <2>1. UNCHANGED <<current, latest, blind>> /\ frames' = frames + 1 /\ frames \in Nat
        BY <1>3, Counts DEF BeginFrame, reader
    <2>2. \A f \in 1 .. frames : f \in 1 .. frames'
        BY <2>1
    <2> QED
        BY <2>1, <2>2 DEF StyledHasRows, LatestIsWhole, HasAllRows, Full, Intact
<1>4. CASE WriteLine
    <2>1. script # <<>> /\ frames' = frames /\ ReadLine(Longer(Head(script), 3))
        BY <1>4, WrittenIs DEF WriteLine
    <2>2. Head(script) \in Lines
        BY <2>1, NextLine
    <2> QED
        BY <2>1, <2>2, LongerIs, StyleHeadHasRows, ReadKeepsWhole
<1>5. CASE WriteFails
    <2>1. script # <<>> /\ frames' = frames /\ Head(script) \in Lines
        BY <1>5, FailureDoes, NextLine
    <2>2. CASE ReadLine(pending)
        BY <1>p, <2>1, <2>2, ReadKeepsWhole DEF CutStyleHasRows
    <2>3. ASSUME NEW upto \in 1 .. 3, ReadLine(Longer(Head(script), upto))
          PROVE  StyledHasRows' /\ LatestIsWhole'
        BY <2>1, <2>3, LongerIs, StyleHeadHasRows, ReadKeepsWhole
    <2> QED
        BY <1>0, <1>5, <2>1, <2>2, <2>3, FailureDoes
<1> QED
    BY <1>1, <1>2, <1>3, <1>4, <1>5 DEF Next

\* How the reader takes the line that is written next.
LEMMA LineIsRead ==
    ASSUME TypeOK, ScriptIsRest, OnlyBeginMeetsCut, WriteLine
    PROVE  /\ script # <<>> /\ script' = Tail(script) /\ pending' = <<>>
           /\ frames' = frames /\ aligned' = aligned
           /\ whole' <=> Place = Length
           /\ blind => UNCHANGED <<current, latest, blind>>
           /\ (~blind /\ Place = 1 /\ pending = <<>>)
                => current' = Started(TRUE) /\ latest' = Taken(latest) /\ blind' = blind
           /\ (~blind /\ Place \in 2 .. Rows + 1)
                => /\ ReadRow(Longer(Head(script), 3))
                   /\ Cell(Longer(Head(script), 3)) = Intact(frames, Place - 1)
           /\ (~blind /\ Place \in Rows + 2 .. Length - 1) => ReadStyle
           /\ (~blind /\ Place = Length)
                => current' = None /\ latest' = Taken(latest) /\ blind' = blind
<1> DEFINE p == Longer(Head(script), 3)
<1>1. /\ script # <<>> /\ script' = Tail(script) /\ frames' = frames /\ aligned' = aligned
      /\ Written(Head(script)) /\ (whole' <=> Tail(script) = <<>>)
    BY DEF WriteLine
<1>2. pending' = <<>> /\ ReadLine(p)
    BY <1>1, WrittenIs
<1>3. /\ Head(script) \in Lines /\ Place \in 1 .. Length /\ Length \in Nat /\ Length > 3
      /\ whole' <=> Place = Length
    BY <1>1, HeadIs, Sizes
<1>4. p # <<>> /\ (pending = <<>> => p = <<Piece(Head(script), 3)>>)
    BY <1>3, LongerIs
<1> HIDE DEF p
<1>5. blind => UNCHANGED <<current, latest, blind>>
    BY <1>2 DEF ReadLine, reader
<1>6. Place > 1 => pending = <<>>
    BY <1>1 DEF OnlyBeginMeetsCut
<1>7. ASSUME ~blind, pending = <<>>
      PROVE  /\ Head(p).line = Head(script) /\ Head(p).upto = 3
             /\ Head(script).kind = "begin" => ReadBegin(p)
             /\ Head(script).kind = "row" => ReadRow(p)
             /\ Head(script).kind = "style" => ReadStyle
             /\ Head(script).kind = "end" => ReadEnd(p)
    <2>1. Head(p) = Piece(Head(script), 3)
        BY <1>4, <1>7
    <2>2. Head(p).line = Head(script) /\ Head(p).upto = 3
        BY <2>1 DEF Piece
    <2> QED
        BY <1>2, <1>4, <1>7, <2>2 DEF ReadLine
<1>8. ASSUME ~blind, Place = 1, pending = <<>>
      PROVE  current' = Started(TRUE) /\ latest' = Taken(latest) /\ blind' = blind
    <2>1. Head(script).kind = "begin"
        BY <1>1, <1>8, HeadIs
    <2> QED
        BY <1>7, <1>8, <2>1 DEF ReadBegin
<1>9. ASSUME ~blind, Place \in 2 .. Rows + 1
      PROVE  ReadRow(p) /\ Cell(p) = Intact(frames, Place - 1)
    <2>1. Head(script) = Line("row", frames, Place - 1)
        BY <1>1, <1>9, HeadIs
    <2>2. pending = <<>>
        BY <1>6, <1>9, Sizes
    <2>3. p = <<Piece(Head(script), 3)>> /\ Head(p).line = Head(script)
        BY <1>4, <1>7, <1>9, <2>2
    <2>4. Head(script).kind = "row"
        BY <2>1 DEF Line
    <2>5. Cell(p) = Intact(frames, Place - 1)
        BY <2>1, <2>3 DEF Cell, Intact
    <2> QED
        BY <1>7, <1>9, <2>2, <2>4, <2>5
<1>10. ASSUME ~blind, Place \in Rows + 2 .. Length - 1 PROVE ReadStyle
    <2>1. Head(script).kind = "style" /\ pending = <<>>
        BY <1>1, <1>6, <1>10, HeadIs, Sizes
    <2> QED
        BY <1>7, <1>10, <2>1
<1>11. ASSUME ~blind, Place = Length
       PROVE  current' = None /\ latest' = Taken(latest) /\ blind' = blind
    <2>1. Head(script).kind = "end" /\ pending = <<>>
        BY <1>1, <1>3, <1>6, <1>11, HeadIs
    <2> QED
        BY <1>7, <1>11, <2>1 DEF ReadEnd
<1> QED
    BY <1>1, <1>2, <1>3, <1>5, <1>8, <1>9, <1>10, <1>11 DEF p

\* Once a frame is begun each of its lines starts a line of the log.
LEMMA OnlyBeginMeetsCutStep ==
    TypeOK /\ ScriptIsRest /\ OnlyBeginMeetsCut /\ [Next]_vars => OnlyBeginMeetsCut'
<1> SUFFICES ASSUME TypeOK, ScriptIsRest, OnlyBeginMeetsCut, [Next]_vars
             PROVE  OnlyBeginMeetsCut'
    OBVIOUS
<1>1. CASE UNCHANGED vars
    BY <1>1, SameLength DEF vars, OnlyBeginMeetsCut, Place
<1>2. CASE Mark
    BY <1>2, MarkDoes DEF OnlyBeginMeetsCut
<1>3. CASE BeginFrame
    BY <1>3, ScriptStep DEF OnlyBeginMeetsCut
<1>4. CASE WriteLine
    BY <1>4, LineIsRead DEF OnlyBeginMeetsCut
<1>5. CASE WriteFails
    BY <1>5, FailureDoes DEF OnlyBeginMeetsCut
<1> QED
    BY <1>1, <1>2, <1>3, <1>4, <1>5 DEF Next

\* The rows of the frame under way are the last ones taken.
LEMMA RowsComeLastStep ==
    /\ TypeOK /\ ScriptIsRest /\ OnlyBeginMeetsCut /\ RowsComeLast /\ [Next]_vars
    => RowsComeLast'
<1> SUFFICES ASSUME TypeOK, ScriptIsRest, OnlyBeginMeetsCut, RowsComeLast, [Next]_vars
             PROVE  RowsComeLast'
    OBVIOUS
<1>1. CASE UNCHANGED vars
    <2>1. UNCHANGED <<Place, Taking, script, current, frames>>
        BY <1>1, SameLength DEF vars, reader, Place, Taking
    <2> QED
        BY <2>1 DEF RowsComeLast, RowsWritten, Intact
<1>2. CASE Mark
    BY <1>2, MarkDoes DEF RowsComeLast
<1>3. CASE BeginFrame
    BY <1>3, ScriptStep DEF RowsComeLast
<1>5. CASE WriteFails
    BY <1>5, FailureDoes DEF RowsComeLast
<1>4. CASE WriteLine
    <2>1. /\ Place' = Place + 1 /\ Place \in 1 .. Length /\ Length \in Nat /\ Rows \in Nat
          /\ frames' = frames /\ script # <<>>
        BY <1>4, ScriptStep, LineIsRead, HeadIs, Sizes
    <2> SUFFICES ASSUME Taking', Place' > 1, script' # <<>>
                 PROVE  /\ Len(current'.cells) >= RowsWritten'
                        /\ \A r \in 1 .. RowsWritten' :
                             current'.cells[Len(current'.cells) - RowsWritten' + r]
                               = Intact(frames, r)
        BY <2>1 DEF RowsComeLast, Intact
    <2>2. current'.cells \in Seq(Cells) /\ Len(current'.cells) \in Nat
        BY TypeStep, LenProperties DEF TypeOK, Taking, Frames
    <2>3. CASE Place = 1
        <3>1. RowsWritten' = 0
            BY <2>1, <2>3, Sizes DEF RowsWritten
        <3> QED
            BY <2>2, <3>1
    <2>4. CASE blind
        <3>1. blind'
            BY <1>4, <2>4, LineIsRead
        <3> QED
            BY <3>1 DEF Taking
    <2>5. CASE ~blind /\ Place \in 2 .. Rows + 1
        <3>1. ReadRow(Longer(Head(script), 3))
            BY <1>4, <2>5, LineIsRead
        <3>2. Cell(Longer(Head(script), 3)) = Intact(frames, Place - 1)
            BY <1>4, <2>5, LineIsRead
        <3>3. Longer(Head(script), 3) \in Seq(Pieces) /\ Longer(Head(script), 3) # <<>>
            <4>1. Head(script) \in Lines
                BY <2>1, NextLine
            <4> QED
                BY <4>1, LongerIs
        <3>4. CASE ~Taking
            <4>1. current' = current /\ blind' = blind
                BY <2>5, <3>1, <3>3, <3>4, RowIsTaken
            <4> QED
                BY <3>4, <4>1 DEF Taking
        <3>5. CASE Taking
            <4> DEFINE n == Len(current.cells)
                       k == RowsWritten
            <4>1. /\ n \in Nat /\ Len(current'.cells) = n + 1
                  /\ \A i \in 1 .. n : current'.cells[i] = current.cells[i]
                  /\ current'.cells[n + 1] = Intact(frames, Place - 1)
                BY <2>5, <3>1, <3>2, <3>3, <3>5, RowIsTaken
            <4>2. k = Place - 2 /\ RowsWritten' = k + 1 /\ k \in Nat
                BY <2>1, <2>5, Sizes DEF RowsWritten
            <4>3. n >= k /\ \A r \in 1 .. k : current.cells[n - k + r] = Intact(frames, r)
                BY <2>1, <2>5, <3>5 DEF RowsComeLast
            <4> HIDE DEF n, k
            <4>4. ASSUME NEW r \in 1 .. k + 1
                  PROVE  current'.cells[(n + 1) - (k + 1) + r] = Intact(frames, r)
                <5>1. CASE r = k + 1
                    <6>1. (n + 1) - (k + 1) + r = n + 1 /\ r = Place - 1
                        BY <2>1, <4>1, <4>2, <5>1
                    <6> QED
                        BY <4>1, <6>1
                <5>2. CASE r # k + 1
                    <6>0. n \in Nat /\ k \in Nat /\ n >= k
                        BY <4>1, <4>2, <4>3
                    <6>1. r \in 1 .. k
                        BY <5>2, <6>0
                    <6>2. (n + 1) - (k + 1) + r = n - k + r /\ n - k + r \in 1 .. n
                        BY <6>0, <6>1
                    <6> QED
                        BY <4>1, <4>3, <6>1, <6>2
                <5> QED
                    BY <5>1, <5>2
            <4> QED
                BY <4>1, <4>2, <4>3, <4>4
        <3> QED
            BY <3>4, <3>5
    <2>6. CASE ~blind /\ Place \in Rows + 2 .. Length - 1
        <3>1. ReadStyle
            BY <1>4, <2>6, LineIsRead
        <3>2. Taking /\ current'.cells = current.cells
            BY <2>6, <3>1, StyleIsTaken DEF Taking
        <3>3. RowsWritten = Rows /\ RowsWritten' = Rows /\ Place > 1
            BY <2>1, <2>6 DEF RowsWritten
        <3> QED
            BY <2>1, <3>2, <3>3 DEF RowsComeLast
    <2>7. CASE ~blind /\ Place = Length
        <3>1. current' = None
            BY <1>4, <2>7, LineIsRead
        <3> QED
            BY <3>1 DEF Taking
    <2> QED
        BY <2>1, <2>3, <2>4, <2>5, <2>6, <2>7
<1> QED
    BY <1>1, <1>2, <1>3, <1>4, <1>5 DEF Next

\* A style in a line that was cut is one of a frame with all its rows.
LEMMA CutStyleStep ==
    /\ TypeOK /\ ScriptIsRest /\ RowsComeLast /\ CutStyleHasRows /\ [Next]_vars
    => CutStyleHasRows'
<1> SUFFICES ASSUME TypeOK, ScriptIsRest, RowsComeLast, CutStyleHasRows, [Next]_vars,
                    Taking', pending' # <<>>, pending'[1].line.kind = "style"
             PROVE  HasAllRows(current, frames)'
    BY DEF CutStyleHasRows
<1>0. ASSUME UNCHANGED <<current, blind, frames>>, HasAllRows(current, frames)
      PROVE  HasAllRows(current, frames)'
    BY <1>0 DEF HasAllRows, Full, Intact
<1>t. ASSUME UNCHANGED <<current, latest, blind>> PROVE Taking
    BY <1>t DEF Taking
<1>1. CASE UNCHANGED vars
    BY <1>0, <1>1, <1>t DEF vars, reader, CutStyleHasRows
<1>2. CASE Mark
    <2>1. PICK line \in Lines :
            /\ line.kind = "mark" /\ UNCHANGED <<current, latest, blind>>
            /\ pending' = pending \/ \E upto \in 1 .. 3 : pending' = Longer(line, upto)
        BY <1>2, MarkDoes
    <2>2. frames' = frames
        BY <1>2, MarkDoes
    <2>3. HasAllRows(current, frames)
        BY <1>t, <2>1, StyleHeadHasRows DEF CutStyleHasRows
    <2> QED
        BY <1>0, <2>1, <2>2, <2>3
<1>3. CASE BeginFrame
    <2>1. UNCHANGED <<current, latest, blind, pending>> /\ frames' = frames + 1 /\ frames \in Nat
        BY <1>3, Counts DEF BeginFrame, reader
    <2>2. HasAllRows(current, frames)
        BY <1>t, <2>1 DEF CutStyleHasRows
    <2>3. \A f \in 1 .. frames : f \in 1 .. frames'
        BY <2>1
    <2> QED
        BY <2>1, <2>2, <2>3 DEF HasAllRows, Full, Intact
<1>4. CASE WriteLine
    BY <1>4 DEF WriteLine, Written
<1>5. CASE WriteFails
    <2>1. script # <<>> /\ frames' = frames /\ Head(script) \in Lines
        BY <1>5, FailureDoes, NextLine
    <2>2. /\ UNCHANGED <<current, latest, blind>>
          /\ pending' = pending \/ \E upto \in 1 .. 3 : pending' = Longer(Head(script), upto)
        BY <1>5, FailureDoes
    <2>3. HasAllRows(current, frames)
        BY <1>t, <2>1, <2>2, StyleHeadHasRows DEF CutStyleHasRows
    <2> QED
        BY <1>0, <2>1, <2>2, <2>3
<1> QED
    BY <1>1, <1>2, <1>3, <1>4, <1>5 DEF Next

\* A frame begun at the start of a line is taken line by line.
LEMMA AlignedIsReadStep ==
    /\ TypeOK /\ ScriptIsRest /\ OnlyBeginMeetsCut /\ AlignedIsRead /\ [Next]_vars
    => AlignedIsRead'
<1> SUFFICES ASSUME TypeOK, ScriptIsRest, OnlyBeginMeetsCut, AlignedIsRead, [Next]_vars
             PROVE  AlignedIsRead'
    OBVIOUS
<1>1. CASE UNCHANGED vars
    <2>1. UNCHANGED <<Place, script, current, blind, pending>> /\ (aligned' <=> aligned)
        BY <1>1, SameLength DEF vars, reader, Place
    <2> QED
        BY <2>1 DEF AlignedIsRead, RowsWritten
<1>2. CASE Mark
    BY <1>2, MarkDoes DEF AlignedIsRead
<1>3. CASE BeginFrame
    <2>1. Place' = 1 /\ pending' = pending /\ (aligned' => pending = <<>>)
        BY <1>3, ScriptStep DEF BeginFrame
    <2> QED
        BY <2>1 DEF AlignedIsRead
<1>5. CASE WriteFails
    BY <1>5, FailureDoes DEF AlignedIsRead
<1>4. CASE WriteLine
    <2>1. /\ Place' = Place + 1 /\ Place \in 1 .. Length /\ Length \in Nat /\ Rows \in Nat
          /\ Rows > 0 /\ script # <<>> /\ aligned' = aligned
        BY <1>4, ScriptStep, LineIsRead, HeadIs, Sizes
    <2>b. blind => blind'
        BY <1>4, LineIsRead
    <2> SUFFICES ASSUME aligned, ~blind, ~(blind'), script' # <<>>
                 PROVE  /\ current' # None /\ current'.known
                        /\ Len(current'.cells) = RowsWritten'
                        /\ Place' > Rows + 2 => current'.styles > 0
        BY <2>1, <2>b DEF AlignedIsRead
    <2>2. Place # Length
        <3>1. Tail(script) # <<>>
            BY <1>4, LineIsRead
        <3> QED
            BY <2>1, <3>1, HeadIs
    <2>3. CASE Place = 1
        <3>1. pending = <<>>
            BY <2>1, <2>3 DEF AlignedIsRead
        <3>2. current' = Started(TRUE)
            BY <1>4, <2>3, <3>1, LineIsRead
        <3>3. RowsWritten' = 0 /\ ~(Place' > Rows + 2)
            BY <2>1, <2>3 DEF RowsWritten
        <3> QED
            BY <3>2, <3>3, StartedIs
    <2>4. ASSUME Place > 1 PROVE Taking /\ Len(current.cells) = RowsWritten
        BY <2>1, <2>4 DEF AlignedIsRead, Taking
    <2>5. CASE Place \in 2 .. Rows + 1
        <3>1. ReadRow(Longer(Head(script), 3))
            BY <1>4, <2>5, LineIsRead
        <3>2. Longer(Head(script), 3) \in Seq(Pieces) /\ Longer(Head(script), 3) # <<>>
            <4>1. Head(script) \in Lines
                BY <2>1, NextLine
            <4> QED
                BY <4>1, LongerIs
        <3>3. Taking /\ Len(current.cells) = RowsWritten
            BY <2>1, <2>4, <2>5
        <3>4. /\ current' # None /\ current'.known
              /\ Len(current'.cells) = Len(current.cells) + 1
            BY <3>1, <3>2, <3>3, RowIsTaken
        <3>5. RowsWritten' = RowsWritten + 1 /\ ~(Place' > Rows + 2)
            BY <2>1, <2>5 DEF RowsWritten
        <3> QED
            BY <3>3, <3>4, <3>5
    <2>6. CASE Place \in Rows + 2 .. Length - 1
        <3>1. ReadStyle
            BY <1>4, <2>6, LineIsRead
        <3>2. Taking /\ Len(current.cells) = RowsWritten
            BY <2>1, <2>4, <2>6
        <3>3. /\ current' # None /\ current'.known /\ current'.cells = current.cells
              /\ current.styles \in Nat /\ current'.styles = current.styles + 1
            BY <3>1, <3>2, StyleIsTaken
        <3>4. RowsWritten' = RowsWritten
            BY <2>1, <2>6 DEF RowsWritten
        <3>5. current'.styles > 0
            BY <3>3
        <3> QED
            BY <3>2, <3>3, <3>4, <3>5
    <2> QED
        BY <2>1, <2>2, <2>3, <2>5, <2>6
<1> QED
    BY <1>1, <1>2, <1>3, <1>4, <1>5 DEF Next

\* A frame read as it was written is the latest once its END is.
LEMMA WholeIsLatestStep ==
    /\ TypeOK /\ ScriptIsRest /\ OnlyBeginMeetsCut /\ RowsComeLast /\ AlignedIsRead
    /\ WholeIsLatest /\ [Next]_vars
    => WholeIsLatest'
<1> SUFFICES ASSUME TypeOK, ScriptIsRest, OnlyBeginMeetsCut, RowsComeLast, AlignedIsRead,
                    WholeIsLatest, [Next]_vars, whole'
             PROVE  WholeIsLatest'
    BY DEF WholeIsLatest
<1>1. CASE UNCHANGED vars
    BY <1>1 DEF vars, reader, WholeIsLatest, Full, Intact
<1>2. CASE Mark
    <2>u. script = <<>> /\ UNCHANGED <<script, frames, aligned, whole>>
        BY <1>2, MarkDoes
    <2>w. whole
        BY <2>u
    <2>1. /\ whole /\ script' = <<>> /\ frames' = frames /\ (aligned' <=> aligned)
        BY <2>u, <2>w
    <2>2. pending # <<>> => pending[1].line.kind = "mark"
        BY <2>1 DEF WholeIsLatest
    <2>3. PICK line \in Lines :
            /\ line.kind = "mark"
            /\ \/ pending' = <<>> /\ ReadLine(Longer(line, 3))
               \/ /\ UNCHANGED <<current, latest, blind>>
                  /\ pending' = pending \/ \E upto \in 1 .. 3 : pending' = Longer(line, upto)
        BY <1>2, MarkDoes
    <2>4. \A upto \in 1 .. 3 : Longer(line, upto)[1].line.kind = "mark"
        BY <2>2, <2>3, LongerIs DEF Piece
    <2>5. pending' # <<>> => pending'[1].line.kind = "mark"
        BY <2>2, <2>3, <2>4
    <2>6. UNCHANGED <<current, latest, blind>>
        <3>1. CASE ReadLine(Longer(line, 3))
            BY <2>4, <3>1, LongerIs, ReadIs
        <3> QED
            BY <2>3, <3>1
    <2> QED
        BY <2>1, <2>5, <2>6 DEF WholeIsLatest, Full, Intact
<1>3. CASE BeginFrame
    BY <1>3 DEF BeginFrame
<1>4. CASE WriteLine
    <2>l. /\ script # <<>> /\ script' = Tail(script) /\ pending' = <<>>
          /\ frames' = frames /\ aligned' = aligned
        BY <1>4, LineIsRead
    <2>p. Place = Length
        BY <1>4, LineIsRead
    <2>b. blind => blind'
        BY <1>4, LineIsRead
    <2>s. script' = <<>>
        BY <2>l, <2>p, HeadIs
    <2>1. /\ Place = Length /\ script # <<>> /\ script' = <<>> /\ pending' = <<>>
          /\ frames' = frames /\ (aligned' <=> aligned) /\ (blind => blind')
        BY <2>l, <2>p, <2>b, <2>s
    <2>2. ASSUME aligned, ~blind
          PROVE  current' = None /\ latest' # None /\ latest'.cells = Full(frames)
        <3>1. current' = None /\ latest' = Taken(latest)
            BY <1>4, <2>1, <2>2, LineIsRead
        <3>n. Rows \in Nat /\ Styles \in Nat /\ Styles > 0 /\ Length \in Nat /\ Rows > 0
            BY Sizes
        <3>m. Length = Rows + Styles + 2
            BY DEF Length
        <3>2. Place > Rows + 2 /\ Place > 1 /\ Rows \in Nat /\ Place > Rows + 1
            BY <2>p, <3>n, <3>m
        <3>w. RowsWritten = Rows
            BY <2>p, <3>2, <3>n, <3>m DEF RowsWritten
        <3>3. /\ current # None /\ current.known /\ current.styles > 0
              /\ Len(current.cells) = Rows
            BY <2>1, <2>2, <3>2, <3>w DEF AlignedIsRead
        <3>4. HasAllRows(current, frames)
            BY <2>1, <2>2, <3>2, <3>3, RowsAllThere DEF Taking
        <3>5. current.cells = Full(frames)
            <4>2. \A r \in 1 .. Rows : current.cells[Len(current.cells) - Rows + r] = Intact(frames, r)
                BY <2>1, <2>2, <3>2, <3>3, <3>w DEF RowsComeLast, Taking
            <4>3. \A r \in 1 .. Rows : current.cells[r] = Intact(frames, r)
                BY <3>2, <3>3, <4>2
            <4>4. current.cells \in Seq(Cells)
                BY <3>3 DEF TypeOK, Frames
            <4>5. current.cells = [r \in 1 .. Rows |-> current.cells[r]]
                BY <3>3, <4>4, LenProperties
            <4> QED
                BY <4>3, <4>5 DEF Full
        <3>6. Taken(latest) = current
            BY <3>3 DEF Taken, Matches
        <3> QED
            BY <3>1, <3>3, <3>5, <3>6
    <2> QED
        BY <2>1, <2>2 DEF WholeIsLatest, Full, Intact
<1>5. CASE WriteFails
    BY <1>5, FailureDoes DEF WholeIsLatest
<1> QED
    BY <1>1, <1>2, <1>3, <1>4, <1>5 DEF Next

-----------------------------------------------------------------------------
(* The theorems.                                                           *)

\* The inductive invariant holds in every state.
THEOREM SerialInvariant == Spec => []FInv
<1>1. Init => FInv
    <2> SUFFICES ASSUME Init PROVE FInv
        OBVIOUS
    <2>1. /\ script = <<>> /\ pending = <<>> /\ seen = <<>> /\ marks = 0
          /\ current = None /\ latest = None /\ ~whole
        BY DEF Init
    <2>2. ScriptIsRest
        BY <2>1, Sizes DEF ScriptIsRest
    <2>3. MarkersKept
        BY <2>1, EmptySeq DEF MarkersKept, MarkersHaveNoGaps
    <2> QED
        BY <2>1, <2>2, <2>3, TypeInit
        DEF FInv, OnlyBeginMeetsCut, RowsComeLast, StyledHasRows, CutStyleHasRows,
            LatestIsWhole, AlignedIsRead, WholeIsLatest
<1>2. FInv /\ [Next]_vars => FInv'
    <2> SUFFICES ASSUME FInv, [Next]_vars PROVE FInv'
        OBVIOUS
    <2>1. TypeOK' /\ ScriptIsRest' /\ OnlyBeginMeetsCut' /\ MarkersKept'
        BY TypeStep, ScriptStep, OnlyBeginMeetsCutStep, MarkersKeptStep DEF FInv
    <2>2. RowsComeLast' /\ StyledHasRows' /\ LatestIsWhole' /\ CutStyleHasRows'
        BY RowsComeLastStep, WholeFramesStep, CutStyleStep DEF FInv
    <2>3. AlignedIsRead' /\ WholeIsLatest'
        BY AlignedIsReadStep, WholeIsLatestStep DEF FInv
    <2> QED
        BY <2>1, <2>2, <2>3 DEF FInv
<1> QED
    BY <1>1, <1>2, PTL DEF Spec

\* Every variable of the console has its type, and the port is given up only
\* between frames.
THEOREM SerialTypeCorrect == Spec => []TypeOK
<1>1. FInv => TypeOK
    BY DEF FInv
<1> QED
    BY SerialInvariant, <1>1, PTL

\* A marker in the log proves that all before it are there.  (mark,
\* flow_markers_complete.)
THEOREM SerialMarkersHaveNoGaps == Spec => []MarkersHaveNoGaps
<1>1. FInv => MarkersHaveNoGaps
    BY DEF FInv, MarkersKept
<1> QED
    BY SerialInvariant, <1>1, PTL

\* A frame taken from the log is one emission, whole and in order, whatever was
\* cut around it.  (latest_screen_frame against emit_screen_frame.)
THEOREM SerialFramesAreNeverMixed == Spec => []FramesAreNeverMixed
<1>1. FInv => FramesAreNeverMixed
    <2> SUFFICES ASSUME FInv, Latest # None
                 PROVE  \E f \in 1 .. frames : Latest.cells = Full(f)
        BY DEF FramesAreNeverMixed, Full, Intact
    <2>1. Latest = Taken(latest) \/ Latest = None
        BY DEF Latest
    <2> QED
        BY <2>1, TakenIsWhole DEF FInv
<1> QED
    BY SerialInvariant, <1>1, PTL

\* A frame begun at the start of a line and written to its end is the one the
\* log shows, as long as the reader has not given up.  (emit_screen_frame,
\* latest_screen_frame.)
THEOREM SerialWholeFramesAreSeen == Spec => []WholeFramesAreSeen
<1>1. FInv => WholeFramesAreSeen
    <2> SUFFICES ASSUME FInv, whole, aligned, ~blind
                 PROVE  Latest # None /\ Latest.cells[1].line.frame = frames
        BY DEF WholeFramesAreSeen
    <2>1. current = None /\ latest # None /\ latest.cells = Full(frames)
        BY DEF FInv, WholeIsLatest
    <2>2. Latest = latest
        BY <2>1 DEF Latest, Taken
    <2>3. Full(frames)[1] = Intact(frames, 1)
        BY Sizes DEF Full
    <2> QED
        BY <2>1, <2>2, <2>3 DEF Intact, Line
<1> QED
    BY SerialInvariant, <1>1, PTL

==============================================================================
