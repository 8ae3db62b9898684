--------------------------------- MODULE View ---------------------------------
(***************************************************************************)
(* What the screen shows (ui.rs): views, scrolling, following, wrapping    *)
(* and the keys that change them, in the loop of main.rs that draws a      *)
(* frame, handles at most one key, and drains the channel before the next. *)
(*                                                                         *)
(* Rows are counted from 0 as in the code, lines from 1.  A line's text is *)
(* the sequence of its grapheme clusters, each given by its width in       *)
(* cells; Tab is the one whose width depends on its column.                *)
(*                                                                         *)
(* The all-view is ordered by the lines' numbers.  A reader thread takes a *)
(* number and sends its line in two steps, so that a line may come to      *)
(* stand above lines that were shown before it.  Marker blocks, whose      *)
(* numbers the main thread takes, are left out.                            *)
(***************************************************************************)
EXTENDS BufferSet, Integers, SequencesExt

CONSTANTS
  N,         \* slots
  Outputs,   \* what the lines of each slot may be: [err, text]
  Sizes,     \* inner sizes of the body: [width, height]
  MaxLines,  \* bound: lines that are numbered
  NoAnchor

Proc == 1 .. N
All  == 0     \* View::All; View::Single(p) is p

ASSUME ViewAssumption ==
  /\ N \in Nat \ {0} /\ Cap \in Nat /\ MaxLines \in Nat
  /\ \A s \in Sizes : s.width \in Nat /\ s.height \in Nat
  /\ \A p \in Proc : \A o \in Outputs[p] : o.err \in BOOLEAN /\ o.text \in Seq(Nat)
  /\ NoAnchor \notin Nat

\* A thread per stream of a slot.
Reader == {r \in [proc : Proc, err : BOOLEAN] : \E o \in Outputs[r.proc] : o.err = r.err}

VARIABLES
  buffers,    \* BufferSet: the lines of each slot as they were pushed
  nextSeq,    \* the next number
  stamped,    \* the number of the line a reader has not sent yet, or NoLine
  size,       \* the terminal
  pc,         \* event_loop: "draw", "key", "drain"
  view, offset, height, contentLen, starts, anchor, wrap, time,  \* UiState
  shown,      \* history: the last frame, see Frame
  up,         \* history: the last key was an upward scroll
  toggled,    \* history: the last key was `w` while scrolled up
  evicted,    \* history: the view has lost a line since the last frame
  late        \* history: see Arrive

uiVars  == <<view, offset, height, contentLen, starts, anchor, wrap, time>>
history == <<shown, up, toggled, evicted, late>>
lines   == <<buffers, nextSeq, stamped>>
vars    == <<lines, size, pc, uiVars, history>>

NoLine == 0  \* numbers start at one here

Smaller(a, b) == IF a < b THEN a ELSE b
Larger(a, b)  == IF a > b THEN a ELSE b
Less(a, b)    == Larger(a - b, 0)       \* saturating_sub

------------------------------------------------------------------------------
(* wrap_line *)

Tab == 99
TAB_STOP == 8

\* Mistake: a tab has no width.
TabIsNothing(g, col) == IF g = Tab THEN 0 ELSE g

\* grapheme_width.
GraphemeWidth(g, col) == IF g = Tab THEN TAB_STOP - (col % TAB_STOP) ELSE g

\* An indent wider than half the viewport is dropped.
Indent(prefix, width) == IF width = 0 \/ 2 * prefix > width THEN 0 ELSE prefix

Limit(prefix, width) == Larger(width, Indent(prefix, width) + 1)

\* A row: the column its content begins at, the one after it, what it holds.
NewRow(start) == [start |-> start, col |-> start, cells |-> <<>>]

Put(row, g) == [row EXCEPT !.cells = Append(@, g), !.col = @ + GraphemeWidth(g, @)]

\* The break comes before the grapheme that would overflow, unless it is the first
\* of its row.
Breaks(row, g, prefix, width) ==
  row.col > row.start /\ row.col + GraphemeWidth(g, row.col) > Limit(prefix, width)

AddGrapheme(rows, g, prefix, width) ==
  IF Breaks(Last(rows), g, prefix, width)
  THEN Append(rows, Put(NewRow(Indent(prefix, width)), g))
  ELSE [rows EXCEPT ![Len(rows)] = Put(@, g)]

\* The rows after each grapheme of a line, ...
RowsUpTo(line, prefix, width) ==
  LET rows[i \in 0 .. Len(line)] ==
        IF i = 0 THEN <<NewRow(0)>> ELSE AddGrapheme(rows[i - 1], line[i], prefix, width)
  IN  rows

\* ... and after the last.
WrapLine(line, prefix, width) == RowsUpTo(line, prefix, width)[Len(line)]

\* tagged_line: the stamp (`Ago` while ages have one digit), the slot's tag in the
\* all-view, the mark of stderr, all of single cells.
StampWidth == [Off |-> 0, Iso |-> 20, TimeOnly |-> 9, Ago |-> 7]

PrefixWidth(out, v, t) ==
  StampWidth[t] + (IF v = All THEN 3 ELSE 0) + (IF out.err THEN 2 ELSE 0)

TaggedLine(out, prefix) == [i \in 1 .. prefix |-> 1] \o out.text

\* The rows of everything that may be shown, worked out once.
Texts    == UNION {Outputs[p] : p \in Proc}
Indents  == {PrefixWidth(o, v, t) : o \in Texts, v \in {All, 1}, t \in DOMAIN StampWidth}
Widths   == {s.width : s \in Sizes}
Wrapped  == [o \in Texts |-> [prefix \in Indents |-> [width \in Widths |->
              WrapLine(TaggedLine(o, prefix), prefix, width)]]]

------------------------------------------------------------------------------
(* Layout *)

\* content_lines.
Content(v) == IF v = All THEN Interleaved(buffers) ELSE buffers[v]

\* The sum of the first numbers of a sequence.
SumUpTo(counts) ==
  LET sum[i \in 0 .. Len(counts)] == IF i = 0 THEN 0 ELSE sum[i - 1] + counts[i]
  IN  sum

\* The rows that a line takes.
RowsOf(out) ==
  IF ~wrap THEN 1 ELSE Len(Wrapped[out][PrefixWidth(out, view, time)][size.width])

\* max_offset.
MaxOffset(len, h) == Less(len, h)

\* bottom_logical_line: the last line that starts at or above the bottom row.
BottomLine ==
  LET row   == contentLen - (1 + offset)
      above == {i \in DOMAIN starts : starts[i] <= row}
  IN  IF row < 0 \/ above = {} THEN NoAnchor
      ELSE CHOOSE i \in above : \A j \in above : j <= i

\* Mistake: the first row after the line is put at the bottom.
OffsetPuttingNext(i, s, len, h) ==
  LET lastRow == IF i + 1 \in DOMAIN s THEN s[i + 1] ELSE Less(len, 1)
  IN  Smaller(Less(Less(len, 1), lastRow), MaxOffset(len, h))

\* offset_putting_line_at_bottom, for the layout s of len rows.
OffsetPutting(i, s, len, h) ==
  LET lastRow == IF i + 1 \in DOMAIN s THEN Less(s[i + 1], 1) ELSE Less(len, 1)
  IN  Smaller(Less(Less(len, 1), lastRow), MaxOffset(len, h))

\* What the user has seen: the view, whether it followed the tail, the line at the
\* bottom, and in the all-view the lines up to it, all by their numbers.
Frame(content, bottom, off) ==
  [view |-> view, following |-> off = 0,
   bottom |-> IF bottom = NoAnchor THEN NoLine ELSE content[bottom].seq,
   above |-> IF bottom = NoAnchor \/ view # All THEN {}
             ELSE {content[i].seq : i \in 1 .. bottom}]

\* render_body.
Draw ==
  /\ pc = "draw"
  /\ LET content == Content(view)
         upTo   == SumUpTo([i \in DOMAIN content |-> RowsOf(content[i].out)])
         len    == upTo[Len(content)]
         layout == [i \in DOMAIN content |-> upTo[i - 1]]
         place  == IF anchor = NoAnchor THEN offset
                   ELSE OffsetPutting(anchor, layout, len, size.height)
     IN  /\ starts' = layout
         /\ contentLen' = len
         /\ offset' = Smaller(place, MaxOffset(len, size.height))
         /\ shown' = Frame(content, BottomLine', offset')
  /\ height' = size.height
  /\ anchor' = NoAnchor
  /\ evicted' = FALSE /\ late' = FALSE
  /\ pc' = "key"
  /\ UNCHANGED <<lines, size, view, wrap, time, up, toggled>>

------------------------------------------------------------------------------
(* Keys: map_key and handle_key.  Every one ends the poll. *)

\* Mistake: a second key is taken before the next frame.
KeyAgain == pc = "key" /\ pc' \in {"key", "drain"}

Key == pc = "key" /\ pc' = "drain"

Poll == Key /\ UNCHANGED <<lines, size, height, contentLen, starts, shown, evicted, late>>

\* cycle_pane: the all-view, pane 1 to N, and the all-view again.
CyclePane(v, forward) ==
  IF v = All THEN (IF forward THEN 1 ELSE N)
  ELSE IF forward THEN (IF v >= N THEN All ELSE v + 1)
  ELSE (IF v = 1 THEN All ELSE v - 1)

\* switch_view follows the tail of another view.
SwitchView(v) ==
  /\ view' = v
  /\ offset' = IF view # v THEN 0 ELSE offset
  /\ up' = FALSE /\ toggled' = FALSE
  /\ UNCHANGED <<anchor, wrap, time>>

\* Tab and Shift-Tab; a digit past the last pane does nothing (OtherKey); `0`, `a`.
NextPane    == Poll /\ SwitchView(CyclePane(view, TRUE))
PrevPane    == Poll /\ SwitchView(CyclePane(view, FALSE))
JumpPane(p) == Poll /\ SwitchView(p)
AllView     == Poll /\ SwitchView(All)

\* apply_scroll.
ApplyScroll(off, delta, max) == Larger(0, Smaller(off + delta, max))

ScrollBy(delta) ==
  /\ offset' = ApplyScroll(offset, delta, MaxOffset(contentLen, height))
  /\ up' = (delta > 0) /\ toggled' = FALSE
  /\ UNCHANGED <<view, anchor, wrap, time>>

Page == Larger(height, 1)

LineUp   == Poll /\ ScrollBy(1)
LineDown == Poll /\ ScrollBy(-1)
PageUp   == Poll /\ ScrollBy(Page)
PageDown == Poll /\ ScrollBy(-Page)

NextTime == [Off |-> "Iso", Iso |-> "TimeOnly", TimeOnly |-> "Ago", Ago |-> "Off"]

CycleTimeDisplay ==
  /\ Poll
  /\ time' = NextTime[time]
  /\ up' = FALSE /\ toggled' = FALSE
  /\ UNCHANGED <<view, offset, anchor, wrap>>

\* Mistake: the bottom line is held on to even when following.
AnchorAlways == BottomLine

\* Scrolled up, the bottom line is found again once the new layout is known.
Anchor == IF offset # 0 THEN BottomLine ELSE anchor

ToggleWrap ==
  /\ Poll
  /\ wrap' = ~wrap
  /\ anchor' = Anchor
  /\ up' = FALSE /\ toggled' = (offset # 0)
  /\ UNCHANGED <<view, offset, time>>

\* `r` and `k` (in the all-view they do nothing): the slot is EventLoop's to act on.
ActOn(p) ==
  /\ Poll
  /\ view = p
  /\ up' = FALSE /\ toggled' = FALSE
  /\ UNCHANGED <<view, offset, anchor, wrap, time>>

\* No key, or one that changes nothing.
OtherKey ==
  /\ Poll
  /\ up' = FALSE /\ toggled' = FALSE
  /\ UNCHANGED <<view, offset, anchor, wrap, time>>

------------------------------------------------------------------------------
(* The channel, and the terminal *)

\* emit(): a reader takes a number, whatever the main thread is doing, ...
Stamp(r) ==
  /\ stamped[r] = NoLine /\ nextSeq <= MaxLines
  /\ stamped' = [stamped EXCEPT ![r] = nextSeq]
  /\ nextSeq' = nextSeq + 1
  /\ UNCHANGED <<buffers, size, pc, uiVars, history>>

\* ... sends the line, and drain_events pushes it.  (What is sent while the main
\* thread is elsewhere waits on the channel, and might as well be numbered and sent
\* when it drains.)  The line is late unless every line that the all-view showed at the
\* bottom or above has a smaller number.
Arrive(p, o) ==
  LET r == [proc |-> p, err |-> o.err]
      line == [out |-> o, seq |-> stamped[r]]
  IN  /\ pc = "drain" /\ stamped[r] # NoLine
      /\ buffers' = [buffers EXCEPT ![p] = Push(@, line)]
      /\ stamped' = [stamped EXCEPT ![r] = NoLine]
      /\ evicted' = (evicted \/ (view \in {All, p} /\ Len(buffers[p]) = Capacity))
      /\ late' = (late \/ ~ \A n \in shown.above : n < line.seq)
      /\ UNCHANGED <<nextSeq, size, pc, uiVars, shown, up, toggled>>

Drained ==
  /\ pc = "drain" /\ pc' = "draw"
  /\ UNCHANGED <<lines, size, uiVars, history>>

\* The user resizes the terminal; the next frame has the new size.
Resize(s) ==
  /\ pc = "drain"
  /\ size' = s
  /\ UNCHANGED <<lines, pc, uiVars, history>>

Init ==
  /\ buffers = [p \in Proc |-> <<>>]
  /\ nextSeq = 1 /\ stamped = [r \in Reader |-> NoLine]
  /\ size \in Sizes
  /\ pc = "draw"
  /\ view = All /\ offset = 0 /\ height = 0 /\ contentLen = 0 /\ starts = <<>>
  /\ anchor = NoAnchor /\ wrap = FALSE /\ time = "Off"
  /\ shown = [view |-> All, following |-> TRUE, bottom |-> NoLine, above |-> {}]
  /\ up = FALSE /\ toggled = FALSE /\ evicted = FALSE /\ late = FALSE

Next ==
  \/ Draw
  \/ NextPane \/ PrevPane \/ AllView \/ (\E p \in Proc : JumpPane(p))
  \/ LineUp \/ LineDown \/ PageUp \/ PageDown
  \/ CycleTimeDisplay \/ ToggleWrap
  \/ (\E p \in Proc : ActOn(p)) \/ OtherKey
  \/ (\E r \in Reader : Stamp(r))
  \/ (\E p \in Proc : \E o \in Outputs[p] : Arrive(p, o)) \/ Drained
  \/ (\E s \in Sizes : Resize(s))

Spec == Init /\ [][Next]_vars

------------------------------------------------------------------------------
(* Properties *)

\* A frame that followed the tail is followed by one that does, unless the user
\* scrolled up in between: output, evictions, a resize, a switch of the view or
\* of the layout never lose the tail (ui.rs:319-322, 336-343, 371-379, 594-604).
FollowIsKept ==
  [][Draw /\ shown.following /\ ~up => shown'.following]_vars

\* `w` keeps the line that was read: the line at the bottom of the frame before, if
\* there was room for one, is at the bottom of the next, whatever arrived meanwhile
\* and whatever the terminal's new size.  It may go if the page is the first one of
\* the view, if the view lost a line, or if in the all-view a late line came to stand
\* above it: the anchor is an index, and counts lines from the top
\* (README.md:166-167, ui.rs:371-379, 403-424, 594-598).
WrapKeepsPlace ==
  [][Draw /\ toggled /\ ~evicted /\ ~late /\ shown.bottom # NoLine =>
       \/ shown'.bottom = shown.bottom
       \/ offset' = MaxOffset(contentLen', height')]_vars

\* Where a terminal's cursor is after each grapheme of a row.
Cursor(row) ==
  LET col[i \in 0 .. Len(row.cells)] ==
        IF i = 0 THEN row.start
        ELSE IF row.cells[i] = Tab THEN ((col[i - 1] \div 8) + 1) * 8
        ELSE col[i - 1] + row.cells[i]
  IN  col

\* Wrapping loses nothing and overflows nothing: the rows of every line on the
\* screen, put end to end, are the line; none is empty but that of an empty line;
\* and none but one that holds a single grapheme with a width reaches past the edge
\* (ui.rs:790-852).
WrapLosesNothing ==
  \A p \in Proc : \A i \in DOMAIN buffers[p] :
    LET out    == buffers[p][i].out
        prefix == PrefixWidth(out, view, time)
        line   == TaggedLine(out, prefix)
        rows   == Wrapped[out][prefix][size.width]
        before == SumUpTo([k \in DOMAIN rows |-> Len(rows[k].cells)])
    IN  /\ before[Len(rows)] = Len(line)
        /\ \A k \in DOMAIN rows :
             LET cells == rows[k].cells
             IN  /\ \A j \in DOMAIN cells : cells[j] = line[before[k - 1] + j]
                 /\ cells = <<>> => line = <<>>
                 /\ \/ Cursor(rows[k])[Len(cells)] <= Limit(prefix, size.width)
                    \/ Cardinality({j \in DOMAIN cells : cells[j] # 0}) = 1

\* `r` and `k` act on the pane that the last frame before they are read showed
\* (main.rs:322-349, ui.rs:380-392).
ActsOnWhatIsShown ==
  [][\A p \in Proc : ActOn(p) => shown.view = p]_vars
==============================================================================
