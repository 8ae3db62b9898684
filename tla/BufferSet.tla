------------------------------- MODULE BufferSet -------------------------------
(***************************************************************************)
(* buffer.rs: a ring buffer of lines per slot, and the all-view, which     *)
(* merges them by the lines' sequence numbers.  A buffer holds its lines   *)
(* in the order they were pushed; that is not always the order of numbers, *)
(* so the merge is that of the heads, not a sort.                          *)
(***************************************************************************)
EXTENDS Naturals, Sequences, FiniteSets

CONSTANT Cap  \* lines a ring buffer holds (Config::buffer_cap)

Capacity == IF Cap = 0 THEN 1 ELSE Cap

\* Mutant: a full buffer keeps what it has.
PushFull(buffer, line) ==
  IF Len(buffer) = Capacity THEN buffer ELSE Append(buffer, line)

\* ProcBuffer::push
Push(buffer, line) ==
  Append(IF Len(buffer) = Capacity THEN Tail(buffer) ELSE buffer, line)

\* The slots whose buffer is not used up.
Open(buffers, cursor) == {s \in DOMAIN buffers : cursor[s] < Len(buffers[s])}

\* Mutant: the buffers one after the other.
BestSlot(buffers, cursor) ==
  CHOOSE s \in Open(buffers, cursor) : \A t \in Open(buffers, cursor) : s <= t

\* The one whose next line has the smallest number; the first of equals.
Best(buffers, cursor) ==
  LET next(s) == buffers[s][cursor[s] + 1].seq
  IN  CHOOSE s \in Open(buffers, cursor) :
        \A t \in Open(buffers, cursor) : next(s) < next(t) \/ (next(s) = next(t) /\ s <= t)

\* One line more, if there is one.
Merged(buffers, before) ==
  LET s == Best(buffers, before.cursor)
  IN  IF Open(buffers, before.cursor) = {} THEN before
      ELSE [cursor |-> [before.cursor EXCEPT ![s] = @ + 1],
            out |-> Append(before.out, buffers[s][before.cursor[s] + 1])]

\* The lines that are held, as slots and positions.
Held(buffers) == UNION {{s} \X DOMAIN buffers[s] : s \in DOMAIN buffers}

Total(buffers) == Cardinality(Held(buffers))

\* BufferSet::interleaved, k lines into it.
MergeOf(buffers) ==
  LET merge[k \in 0 .. Total(buffers)] ==
        IF k = 0 THEN [cursor |-> [s \in DOMAIN buffers |-> 0], out |-> <<>>]
        ELSE Merged(buffers, merge[k - 1])
  IN  merge

Interleaved(buffers) == MergeOf(buffers)[Total(buffers)].out
================================================================================
