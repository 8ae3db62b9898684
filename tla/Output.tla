------------------------------- MODULE Output --------------------------------
(***************************************************************************)
(* The way of a line (proc.rs spawn_reader and emit, main.rs drain_events, *)
(* buffer.rs): a reader thread per generation and stream takes it from the *)
(* pipe, gives it the next global sequence number and sends it; the main   *)
(* thread drops it if the generation was replaced, and puts it in the ring *)
(* buffer of its slot otherwise.  A restart or a stop writes its marker    *)
(* block into the buffer directly.                                         *)
(*                                                                         *)
(* Bytes are left out: a stream is a number of lines, the last of which    *)
(* may lack its newline.  When a restart or a stop may complete is         *)
(* ProcManager's matter; here it may at any tick, whoever still holds the  *)
(* old pipes.                                                              *)
(***************************************************************************)
EXTENDS BufferSet

CONSTANTS
  N,         \* number of slots
  Block,     \* lines of a marker block
  MaxGen,    \* bound: restarts of a slot
  MaxStops,  \* bound: stops, of all slots
  Restarts,  \* bound: the slots that are restarted
  Talks,     \* bound: the streams that have a reader, as <<slot, stream>>
  MaxWrites  \* bound: lines the processes write

ASSUME OutputAssumption ==
  /\ N \in Nat /\ Cap \in Nat /\ Block \in Nat \ {0}
  /\ MaxGen \in Nat /\ MaxStops \in Nat /\ MaxWrites \in Nat

Slot == 1 .. N
Gen == 0 .. MaxGen
Stream == {"stdout", "stderr"}
Reader == {r \in [slot : Slot, gen : Gen, stream : Stream] :
             /\ <<r.slot, r.stream>> \in Talks
             /\ r.gen > 0 => r.slot \in Restarts}

\* What a marker block records.
Marker == {"restart", "stop"}

\* n numbers the lines of a stream, or of a marker block.
Line == [slot : Slot, gen : Gen, stream : Stream \cup Marker, n : Nat, seq : Nat]

VARIABLES
  wrote,    \* complete lines the holders of a pipe have written
  ended,    \* pipes closed after the begin of one more line
  writes,   \* lines written in all
  reader,   \* reader threads: lines taken, and the number of the one not sent
  nextSeq,  \* the shared counter of emit() and next_seq()
  chan,     \* Line events on the channel
  gen,      \* current generation of every slot
  pc,       \* where the main thread is
  left,     \* marker lines still to write, for which slot, of what
  stops,    \* stops in all
  buffers,  \* BufferSet
  pushed    \* history: lines of a stream that ever reached a buffer

pipes == <<wrote, ended, writes>>
main == <<gen, pc, left, stops, buffers, pushed>>
vars == <<pipes, reader, nextSeq, chan, main>>

None == 0  \* no sequence number: the counter starts at one here

(* --- the processes ------------------------------------------------------ *)

Writes(r) == /\ r.gen <= gen[r.slot] /\ r \notin ended
             /\ writes < MaxWrites
             /\ writes' = writes + 1
             /\ UNCHANGED <<reader, nextSeq, chan, main>>

\* A process (or whoever inherited its pipes) ends a line, ...
WriteLine(r) == /\ Writes(r)
                /\ wrote' = [wrote EXCEPT ![r] = @ + 1]
                /\ UNCHANGED ended

\* ... or begins one and is gone.
WriteRest(r) == /\ Writes(r)
                /\ ended' = ended \cup {r}
                /\ UNCHANGED wrote

(* --- the reader threads ------------------------------------------------- *)

\* Mutant: end of file drops what has no newline.
FlushedNever(r) == FALSE

\* EOF flushes a line without a newline.
Flushed(r) == r \in ended
Lines(r) == wrote[r] + (IF Flushed(r) THEN 1 ELSE 0)

\* emit(): the number first, ...
Stamp(r) == /\ reader[r].seq = None /\ reader[r].taken < Lines(r)
            /\ reader' = [reader EXCEPT ![r] = [taken |-> @.taken + 1, seq |-> nextSeq]]
            /\ nextSeq' = nextSeq + 1
            /\ UNCHANGED <<pipes, chan, main>>

\* ... then the event.
Send(r) == /\ reader[r].seq # None
           /\ chan' = Append(chan, [slot |-> r.slot, gen |-> r.gen, stream |-> r.stream,
                                    n |-> reader[r].taken, seq |-> reader[r].seq])
           /\ reader' = [reader EXCEPT ![r].seq = None]
           /\ UNCHANGED <<pipes, nextSeq, main>>

(* --- the main thread ---------------------------------------------------- *)

\* Mutant: lines of any generation are kept.
IsOfSlot(line) == line.slot \in Slot

IsCurrent(line) == gen[line.slot] = line.gen

ReaderOf(line) == [slot |-> line.slot, gen |-> line.gen, stream |-> line.stream]

DrainLine ==
  /\ pc = "drain" /\ chan # <<>>
  /\ chan' = Tail(chan)
  /\ LET line == Head(chan)
         kept == IsCurrent(line)
     IN  /\ buffers' = IF kept THEN [buffers EXCEPT ![line.slot] = Push(@, line)] ELSE buffers
         /\ pushed' = IF kept THEN [pushed EXCEPT ![ReaderOf(line)] = @ + 1] ELSE pushed
  /\ UNCHANGED <<pipes, reader, nextSeq, gen, pc, left, stops>>

DrainDone == /\ pc = "drain" /\ chan = <<>>
             /\ pc' = "tick"
             /\ UNCHANGED <<pipes, reader, nextSeq, chan, gen, left, stops, buffers, pushed>>

\* tick() ends a restart: the next generation and its readers run from here.
Respawn(s) == /\ pc = "tick" /\ s \in Restarts /\ gen[s] < MaxGen
              /\ gen' = [gen EXCEPT ![s] = @ + 1]
              /\ left' = [slot |-> s, lines |-> Block, of |-> "restart"]
              /\ pc' = "mark"
              /\ UNCHANGED <<pipes, reader, nextSeq, chan, stops, buffers, pushed>>

\* It ends a stop: nothing is spawned, and the generation that ended stays the
\* current one.
Stop(s) == /\ pc = "tick" /\ stops < MaxStops
           /\ stops' = stops + 1
           /\ left' = [slot |-> s, lines |-> Block, of |-> "stop"]
           /\ pc' = "mark"
           /\ UNCHANGED <<pipes, reader, nextSeq, chan, gen, buffers, pushed>>

NothingDue == /\ pc = "tick"
              /\ pc' = "drain"
              /\ UNCHANGED <<pipes, reader, nextSeq, chan, gen, left, stops, buffers, pushed>>

\* apply_transition: the block, line by line, numbered after the spawn and
\* stamped with the generation that is current now.
Mark ==
  /\ pc = "mark"
  /\ LET s == left.slot
         line == [slot |-> s, gen |-> gen[s], stream |-> left.of,
                  n |-> Block - left.lines + 1, seq |-> nextSeq]
     IN  buffers' = [buffers EXCEPT ![s] = Push(@, line)]
  /\ nextSeq' = nextSeq + 1
  /\ left' = [left EXCEPT !.lines = @ - 1]
  /\ pc' = IF left.lines = 1 THEN "drain" ELSE "mark"
  /\ UNCHANGED <<pipes, reader, chan, gen, stops, pushed>>

(* --- the whole ---------------------------------------------------------- *)

Init ==
  /\ wrote = [r \in Reader |-> 0] /\ ended = {} /\ writes = 0
  /\ reader = [r \in Reader |-> [taken |-> 0, seq |-> None]]
  /\ nextSeq = 1 /\ chan = <<>>
  /\ gen = [s \in Slot |-> 0] /\ pc = "drain" /\ left = [slot |-> 0, lines |-> 0, of |-> "stop"]
  /\ stops = 0
  /\ buffers = [s \in Slot |-> <<>>]
  /\ pushed = [r \in Reader |-> 0]

Processes == \E r \in Reader : WriteLine(r) \/ WriteRest(r)
Reading(r) == Stamp(r) \/ Send(r)
Main == DrainLine \/ DrainDone \/ (\E s \in Slot : Respawn(s) \/ Stop(s)) \/ NothingDue \/ Mark

Next == Processes \/ (\E r \in Reader : Reading(r)) \/ Main

Spec == Init /\ [][Next]_vars

\* No reader thread and not the main thread is stopped for good.
FairSpec == Spec /\ WF_vars(Main) /\ \A r \in Reader : WF_vars(Reading(r))

(* --- what should hold --------------------------------------------------- *)

\* Late output of a replaced generation never shows up behind the marker of
\* its successor, and that marker stands before all its generation's lines.  Of
\* the marker of a stop neither is claimed: the generation stays the current one,
\* and what its pipes still hold is shown behind the block.
NoStaleLine ==
  \A s \in Slot : \A i, j \in DOMAIN buffers[s] : i < j =>
    LET x == buffers[s][i]  y == buffers[s][j]
    IN  /\ x.gen <= y.gen
        /\ x.gen = y.gen /\ y.stream = "restart" => x.stream = "restart"

Of(r, lines) == {i \in DOMAIN lines : ReaderOf(lines[i]) = r}

\* A buffer forgets old lines and nothing else: behind a line it holds stand,
\* in their order, all later ones of the same stream that ever came.
StreamIsUnbroken ==
  \A r \in Reader :
    LET b == buffers[r.slot]  mine == Of(r, b)
    IN  \A i \in mine :
          /\ b[i].n <= pushed[r]
          /\ \A j \in mine : i < j => b[i].n < b[j].n
          /\ \A n \in b[i].n + 1 .. pushed[r] : \E j \in mine : i < j /\ b[j].n = n

Ascending(lines) == \A i \in 2 .. Len(lines) : lines[i - 1].seq < lines[i].seq

\* How many lines of the same slot a view has up to its i-th line.
Rank(view, i) == Cardinality({j \in 1 .. i : view[j].slot = view[i].slot})

\* The all-view shows every line that is held once, leaves the lines of a slot
\* in their order, and is in arrival order whenever the buffers are.
ViewIsComplete ==
  LET view == Interleaved(buffers)
  IN  /\ \A i \in DOMAIN view : view[i] = buffers[view[i].slot][Rank(view, i)]
      /\ \A s \in Slot :
           Cardinality({i \in DOMAIN view : view[i].slot = s}) = Len(buffers[s])
      /\ (\A s \in Slot : Ascending(buffers[s])) => Ascending(view)

\* Every line written, also one without a newline at the end of the output,
\* reaches the buffer, unless its generation is replaced first.
Owed(r) == wrote[r] + (IF r \in ended THEN 1 ELSE 0)

LinesAreShown ==
  \A r \in Reader : pushed[r] < Owed(r) ~> pushed[r] = Owed(r) \/ gen[r.slot] > r.gen
==============================================================================
