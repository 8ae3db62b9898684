----------------------------- MODULE OutputProofs -----------------------------
(***************************************************************************)
(* The way of a line, for any number of slots, streams and restarts and    *)
(* any buffer capacity: no stale line, no gap in what a buffer holds, and  *)
(* an all-view that loses nothing and keeps the order of arrival.          *)
(***************************************************************************)
EXTENDS Output, SequenceTheorems, FiniteSetTheorems, WellFoundedInduction, TLAPS

USE OutputAssumption

Sent(r) == reader[r].taken - (IF reader[r].seq = None THEN 0 ELSE 1)

OutputType ==
  /\ wrote \in [Reader -> Nat] /\ ended \in SUBSET Reader
  /\ reader \in [Reader -> [taken : Nat, seq : Nat]]
  /\ \A r \in Reader : reader[r].seq # None => reader[r].taken # 0
  /\ nextSeq \in Nat \ {0}
  /\ chan \in Seq(Line) /\ \A i \in DOMAIN chan : ReaderOf(chan[i]) \in Reader
  /\ gen \in [Slot -> Gen]
  /\ pc \in {"drain", "tick", "mark"}
  /\ pc = "mark" => left \in [slot : Slot, lines : 1 .. Block, of : Marker]
  /\ buffers \in [Slot -> Seq(Line)]
  /\ pushed \in [Reader -> Nat]

\* A buffer holds lines of its slot, as many as it may.
BuffersAreSound ==
  \A s \in Slot : /\ Len(buffers[s]) <= Capacity
                  /\ \A i \in DOMAIN buffers[s] : buffers[s][i].slot = s

\* No generation has output before it is spawned.
UnbornIsSilent ==
  /\ \A s \in Slot : \A i \in DOMAIN buffers[s] : buffers[s][i].gen <= gen[s]
  /\ \A i \in DOMAIN chan : chan[i].gen <= gen[chan[i].slot]
  /\ \A r \in Reader : r.gen > gen[r.slot] =>
       wrote[r] = 0 /\ r \notin ended /\ reader[r].taken = 0 /\ pushed[r] = 0

\* While the marker block of a restart is written the new generation has no other
\* line.
MarkerComesFirst ==
  pc = "mark" /\ left.of = "restart" =>
    \A i \in DOMAIN buffers[left.slot] :
      buffers[left.slot][i].gen = gen[left.slot] => buffers[left.slot][i].stream = "restart"

\* What a reader has sent and the main thread has not seen is on the channel,
\* in order; of the generations that are still current nothing is missing.
ChannelIsUnbroken ==
  \A r \in Reader :
    /\ \A i, j \in Of(r, chan) : i < j => chan[i].n < chan[j].n
    /\ \A i \in Of(r, chan) : chan[i].n <= Sent(r)
    /\ r.gen = gen[r.slot] =>
         /\ pushed[r] <= Sent(r)
         /\ \A i \in Of(r, chan) : chan[i].n > pushed[r]
         /\ \A n \in pushed[r] + 1 .. Sent(r) : \E i \in Of(r, chan) : chan[i].n = n

\* The inductive invariant.
OutputInv ==
  /\ OutputType
  /\ BuffersAreSound
  /\ UnbornIsSilent
  /\ MarkerComesFirst
  /\ ChannelIsUnbroken
  /\ NoStaleLine
  /\ StreamIsUnbroken

\* Every number is given once.
NumbersAreOwn ==
  /\ \A r \in Reader : reader[r].seq < nextSeq
  /\ \A r, q \in Reader : r # q /\ reader[r].seq # None => reader[r].seq # reader[q].seq
  /\ \A i \in DOMAIN chan :
       /\ chan[i].seq \in 1 .. nextSeq - 1
       /\ \A j \in DOMAIN chan : i # j => chan[i].seq # chan[j].seq
       /\ \A r \in Reader : chan[i].seq # reader[r].seq
  /\ \A s \in Slot : \A i \in DOMAIN buffers[s] :
       /\ buffers[s][i].seq \in 1 .. nextSeq - 1
       /\ \A t \in Slot : \A j \in DOMAIN buffers[t] :
            buffers[s][i].seq = buffers[t][j].seq => s = t /\ i = j
       /\ \A j \in DOMAIN chan : buffers[s][i].seq # chan[j].seq
       /\ \A r \in Reader : buffers[s][i].seq # reader[r].seq

------------------------------------------------------------------------------
(* Lines and buffers *)

\* push() appends a line and drops at most the oldest one.
LEMMA PushIs ==
  ASSUME NEW b \in Seq(Line), Len(b) <= Capacity, NEW x \in Line,
         NEW c, c = Push(b, x)
  PROVE  \E d \in {0, 1} :
           /\ c \in Seq(Line) /\ Len(c) = Len(b) + 1 - d /\ Len(c) <= Capacity
           /\ d <= Len(b)
           /\ \A i \in 1 .. Len(b) - d : c[i] = b[i + d]
           /\ c[Len(c)] = x
  <1>1. Capacity \in Nat \ {0}
    BY DEF Capacity
  <1>2. CASE Len(b) = Capacity
    <2>1. b # <<>>
      BY <1>1, <1>2, EmptySeq
    <2>2. /\ Tail(b) \in Seq(Line) /\ Len(Tail(b)) = Len(b) - 1
          /\ \A i \in 1 .. Len(b) - 1 : Tail(b)[i] = b[i + 1]
      BY <2>1, HeadTailProperties
    <2>3. c = Append(Tail(b), x)
      BY <1>2 DEF Push
    <2>4. /\ c \in Seq(Line) /\ Len(c) = Len(b)
          /\ \A i \in 1 .. Len(b) - 1 : c[i] = b[i + 1]
          /\ c[Len(b)] = x
      BY <1>1, <1>2, <2>2, <2>3, AppendProperties
    <2> WITNESS 1 \in {0, 1}
    <2> QED
      BY <1>1, <1>2, <2>4
  <1>3. CASE Len(b) # Capacity
    <2>1. c = Append(b, x) /\ Len(b) \in Nat
      BY <1>3 DEF Push
    <2>2. /\ c \in Seq(Line) /\ Len(c) = Len(b) + 1
          /\ \A i \in 1 .. Len(b) : c[i] = b[i]
          /\ c[Len(b) + 1] = x
      BY <2>1, AppendProperties
    <2> WITNESS 0 \in {0, 1}
    <2> QED
      BY <1>1, <1>3, <2>1, <2>2
  <1> QED
    BY <1>2, <1>3

\* What the types say of one line and its reader.
LEMMA LineIs ==
  ASSUME NEW x \in Line
  PROVE  /\ x.slot \in Slot /\ x.gen \in Gen /\ x.gen \in Nat
         /\ x.n \in Nat /\ x.seq \in Nat
         /\ ReaderOf(x).slot = x.slot /\ ReaderOf(x).gen = x.gen
         /\ ReaderOf(x).stream = x.stream
  BY DEF Line, ReaderOf, Gen, Slot

LEMMA ReaderIs ==
  ASSUME NEW r \in Reader
  PROVE  r.slot \in Slot /\ r.gen \in Gen /\ r.gen \in Nat /\ r.stream \in Stream
  BY DEF Reader, Gen, Slot

\* A reader's line on the channel is not a marker.
LEMMA SentIsNoMarker ==
  ASSUME NEW x \in Line, ReaderOf(x) \in Reader
  PROVE  x.stream \notin Marker
  BY ReaderIs, LineIs DEF Stream, Marker

LEMMA OutputInit == Init => OutputInv /\ NumbersAreOwn
  <1> SUFFICES ASSUME Init PROVE OutputInv /\ NumbersAreOwn
    OBVIOUS
  <1> USE DEF Init
  <1>1. <<>> \in Seq(Line) /\ Len(<<>>) = 0 /\ DOMAIN <<>> = {}
    OBVIOUS
  <1>2. Capacity \in Nat /\ 0 \in Gen
    BY DEF Capacity, Gen
  <1>3. OutputType
    BY <1>1, <1>2 DEF OutputType, None
  <1>4. BuffersAreSound /\ UnbornIsSilent /\ MarkerComesFirst /\ NoStaleLine
    BY <1>1, <1>2 DEF BuffersAreSound, UnbornIsSilent, MarkerComesFirst, NoStaleLine
  <1>5. ChannelIsUnbroken /\ StreamIsUnbroken
    <2>1. \A r \in Reader : Sent(r) = 0 /\ pushed[r] = 0 /\ Of(r, chan) = {}
      BY <1>1 DEF Sent, Of
    <2>2. \A r \in Reader : Of(r, buffers[r.slot]) = {}
      BY <1>1, ReaderIs DEF Of
    <2> HIDE DEF Init
    <2>3. ChannelIsUnbroken
      <3>1. \A n \in 0 + 1 .. 0 : FALSE
        OBVIOUS
      <3> QED
        BY <2>1, <3>1 DEF ChannelIsUnbroken
    <2> QED
      BY <2>2, <2>3 DEF StreamIsUnbroken
  <1>6. NumbersAreOwn
    BY <1>1 DEF NumbersAreOwn, None
  <1> QED
    BY <1>3, <1>4, <1>5, <1>6 DEF OutputInv

------------------------------------------------------------------------------
(* The processes and the readers *)

\* Who leaves the buffers and the generations alone leaves these alone.
LEMMA BuffersStay ==
  ASSUME OutputInv, UNCHANGED <<gen, pc, left, buffers, pushed>>
  PROVE  BuffersAreSound' /\ MarkerComesFirst' /\ NoStaleLine' /\ StreamIsUnbroken'
  <1>1. BuffersAreSound' /\ MarkerComesFirst' /\ NoStaleLine'
    BY DEF OutputInv, BuffersAreSound, MarkerComesFirst, NoStaleLine, Capacity
  <1>2. StreamIsUnbroken'
    BY DEF OutputInv, StreamIsUnbroken, Of
  <1> QED
    BY <1>1, <1>2

\* Writing concerns the reader of that pipe only, and of a generation spawned.
LEMMA ProcessKeeps ==
  ASSUME OutputInv, NumbersAreOwn, NEW r \in Reader, WriteLine(r) \/ WriteRest(r)
  PROVE  OutputInv' /\ NumbersAreOwn'
  <1>1. /\ UNCHANGED <<reader, nextSeq, chan, gen, pc, left, buffers, pushed>>
        /\ r.gen <= gen[r.slot]
    BY DEF WriteLine, WriteRest, Writes, main
  <1>2. /\ wrote' \in [Reader -> Nat] /\ ended' \in SUBSET Reader
        /\ \A q \in Reader \ {r} : wrote'[q] = wrote[q] /\ (q \in ended' <=> q \in ended)
    <2>1. wrote \in [Reader -> Nat] /\ ended \in SUBSET Reader
      BY DEF OutputInv, OutputType
    <2>2. CASE WriteLine(r)
      BY <2>1, <2>2 DEF WriteLine
    <2>3. CASE WriteRest(r)
      BY <2>1, <2>3 DEF WriteRest
    <2> QED
      BY <2>2, <2>3
  <1>3. OutputType'
    BY <1>1, <1>2 DEF OutputInv, OutputType
  <1>4. BuffersAreSound' /\ MarkerComesFirst' /\ NoStaleLine' /\ StreamIsUnbroken'
    BY <1>1, BuffersStay
  <1>5. UnbornIsSilent'
    <2>1. \A q \in Reader : q.gen > gen[q.slot] => q # r
      BY <1>1, ReaderIs DEF OutputInv, OutputType, Gen
    <2> QED
      BY <1>1, <1>2, <2>1 DEF OutputInv, UnbornIsSilent
  <1>6. ChannelIsUnbroken'
    BY <1>1 DEF OutputInv, ChannelIsUnbroken, Sent, Of
  <1>7. NumbersAreOwn'
    BY <1>1 DEF NumbersAreOwn
  <1> QED
    BY <1>3, <1>4, <1>5, <1>6, <1>7 DEF OutputInv

\* A line with its number, not sent yet, is still the reader's.
LEMMA StampKeeps ==
  ASSUME OutputInv, NumbersAreOwn, NEW r \in Reader, Stamp(r)
  PROVE  OutputInv' /\ NumbersAreOwn'
  <1>1. /\ UNCHANGED <<wrote, ended, chan, gen, pc, left, buffers, pushed>>
        /\ reader[r].seq = None /\ reader[r].taken < Lines(r)
        /\ nextSeq' = nextSeq + 1
        /\ reader' = [reader EXCEPT ![r] = [taken |-> reader[r].taken + 1, seq |-> nextSeq]]
    BY DEF Stamp, pipes, main
  <1>2. /\ reader \in [Reader -> [taken : Nat, seq : Nat]] /\ reader[r].taken \in Nat
        /\ nextSeq \in Nat \ {0} /\ wrote[r] \in Nat
    BY DEF OutputInv, OutputType
  <1>3. /\ reader' \in [Reader -> [taken : Nat, seq : Nat]]
        /\ reader'[r].taken = reader[r].taken + 1 /\ reader'[r].seq = nextSeq
        /\ \A q \in Reader \ {r} : reader'[q] = reader[q]
    BY <1>1, <1>2
  <1>4. \A q \in Reader : Sent(q)' = Sent(q)
    BY <1>1, <1>2, <1>3 DEF Sent, None
  <1>5. OutputType'
    BY <1>1, <1>2, <1>3 DEF OutputInv, OutputType, None
  <1>6. BuffersAreSound' /\ MarkerComesFirst' /\ NoStaleLine' /\ StreamIsUnbroken'
    BY <1>1, BuffersStay
  <1>7. UnbornIsSilent'
    <2>1. r.gen > gen[r.slot] => FALSE
      BY <1>1, <1>2 DEF OutputInv, UnbornIsSilent, Lines, Flushed
    <2> QED
      BY <1>1, <1>3, <2>1 DEF OutputInv, UnbornIsSilent
  <1>8. ChannelIsUnbroken'
    <2> HIDE DEF Sent
    <2> QED
      BY <1>1, <1>4 DEF OutputInv, ChannelIsUnbroken, Of
  <1>9. NumbersAreOwn'
    <2>1. \A q \in Reader : reader'[q].seq < nextSeq'
      BY <1>1, <1>2, <1>3 DEF NumbersAreOwn
    <2>2. \A p, q \in Reader : p # q /\ reader'[p].seq # None => reader'[p].seq # reader'[q].seq
      BY <1>1, <1>2, <1>3 DEF NumbersAreOwn
    <2>3. \A i \in DOMAIN chan : /\ chan[i].seq \in 1 .. nextSeq' - 1
                                 /\ \A q \in Reader : chan[i].seq # reader'[q].seq
      BY <1>1, <1>2, <1>3 DEF NumbersAreOwn
    <2>4. \A s \in Slot : \A i \in DOMAIN buffers[s] :
            /\ buffers[s][i].seq \in 1 .. nextSeq' - 1
            /\ \A q \in Reader : buffers[s][i].seq # reader'[q].seq
      BY <1>1, <1>2, <1>3 DEF NumbersAreOwn
    <2> QED
      BY <1>1, <2>1, <2>2, <2>3, <2>4 DEF NumbersAreOwn
  <1> QED
    BY <1>5, <1>6, <1>7, <1>8, <1>9 DEF OutputInv

\* A line sent stands last on the channel, and is the next of its stream.
LEMMA SendKeeps ==
  ASSUME OutputInv, NumbersAreOwn, NEW r \in Reader, Send(r)
  PROVE  OutputInv' /\ NumbersAreOwn'
  <1> DEFINE x == [slot |-> r.slot, gen |-> r.gen, stream |-> r.stream,
                   n |-> reader[r].taken, seq |-> reader[r].seq]
             last == Len(chan) + 1
  <1>1. /\ UNCHANGED <<wrote, ended, nextSeq, gen, pc, left, buffers, pushed>>
        /\ reader[r].seq # None /\ chan' = Append(chan, x)
        /\ reader' = [reader EXCEPT ![r].seq = None]
    BY DEF Send, pipes, main
  <1>2. /\ reader \in [Reader -> [taken : Nat, seq : Nat]]
        /\ chan \in Seq(Line) /\ reader[r].taken \in Nat \ {0}
    BY <1>1 DEF OutputInv, OutputType, None
  <1>3. x \in Line /\ ReaderOf(x) = r
    <2>1. r = [slot |-> r.slot, gen |-> r.gen, stream |-> r.stream]
      BY DEF Reader
    <2> QED
      BY <1>2, <2>1, ReaderIs DEF Line, ReaderOf
  <1>4. /\ x.slot = r.slot /\ x.gen = r.gen
        /\ x.n = reader[r].taken /\ x.seq = reader[r].seq
    OBVIOUS
  <1> HIDE DEF x
  <1>5. /\ chan' \in Seq(Line) /\ DOMAIN chan = 1 .. Len(chan) /\ DOMAIN chan' = 1 .. last
        /\ Len(chan) \in Nat
        /\ \A i \in DOMAIN chan : chan'[i] = chan[i]
        /\ chan'[last] = x
    BY <1>1, <1>2, <1>3, AppendProperties
  <1>6. /\ reader' \in [Reader -> [taken : Nat, seq : Nat]]
        /\ reader'[r].taken = reader[r].taken /\ reader'[r].seq = None
        /\ \A q \in Reader \ {r} : reader'[q] = reader[q]
    BY <1>1, <1>2 DEF None
  <1>7. /\ Sent(r)' = Sent(r) + 1 /\ Sent(r) + 1 = x.n /\ Sent(r) \in Nat
        /\ \A q \in Reader \ {r} : Sent(q)' = Sent(q)
    BY <1>1, <1>2, <1>4, <1>6 DEF Sent
  <1>8. /\ \A q \in Reader \ {r} : Of(q, chan') = Of(q, chan)
        /\ Of(r, chan') = Of(r, chan) \cup {last}
        /\ \A q \in Reader : Of(q, chan) \subseteq DOMAIN chan
    BY <1>3, <1>5 DEF Of
  <1>9. r.gen <= gen[r.slot]
    BY <1>2, ReaderIs DEF OutputInv, OutputType, UnbornIsSilent, Gen
  <1>10. OutputType'
    BY <1>1, <1>3, <1>5, <1>6, SMTT(30) DEF OutputInv, OutputType
  <1>11. BuffersAreSound' /\ MarkerComesFirst' /\ NoStaleLine' /\ StreamIsUnbroken'
    BY <1>1, BuffersStay
  <1>12. UnbornIsSilent'
    BY <1>1, <1>4, <1>5, <1>6, <1>9 DEF OutputInv, UnbornIsSilent
  <1>13. ChannelIsUnbroken'
    <2> HIDE DEF Sent
    <2>1. ASSUME NEW q \in Reader \ {r}
          PROVE  /\ \A i, j \in Of(q, chan') : i < j => chan'[i].n < chan'[j].n
                 /\ \A i \in Of(q, chan') : chan'[i].n <= Sent(q)'
                 /\ q.gen = gen'[q.slot] =>
                      /\ pushed'[q] <= Sent(q)'
                      /\ \A i \in Of(q, chan') : chan'[i].n > pushed'[q]
                      /\ \A n \in pushed'[q] + 1 .. Sent(q)' :
                           \E i \in Of(q, chan') : chan'[i].n = n
      BY <1>1, <1>5, <1>7, <1>8 DEF OutputInv, ChannelIsUnbroken
    <2>2. /\ \A i \in Of(r, chan) : chan[i] \in Line /\ chan[i].n \in Nat /\ chan[i].n <= Sent(r)
          /\ pushed[r] \in Nat
      BY <1>2, <1>5, <1>8, LineIs, ElementOfSeq DEF OutputInv, OutputType, ChannelIsUnbroken
    <2>3. \A i, j \in Of(r, chan') : i < j => chan'[i].n < chan'[j].n
      BY <1>5, <1>7, <1>8, <2>2 DEF OutputInv, ChannelIsUnbroken
    <2>4. \A i \in Of(r, chan') : chan'[i].n <= Sent(r)'
      BY <1>5, <1>7, <1>8, <2>2
    <2>5. ASSUME r.gen = gen[r.slot]
          PROVE  /\ pushed[r] <= Sent(r)'
                 /\ \A i \in Of(r, chan') : chan'[i].n > pushed[r]
                 /\ \A n \in pushed[r] + 1 .. Sent(r)' : \E i \in Of(r, chan') : chan'[i].n = n
      <3>1. /\ pushed[r] <= Sent(r)
            /\ \A i \in Of(r, chan) : chan[i].n > pushed[r]
            /\ \A n \in pushed[r] + 1 .. Sent(r) : \E i \in Of(r, chan) : chan[i].n = n
        BY <2>5 DEF OutputInv, ChannelIsUnbroken
      <3>2. ASSUME NEW n \in pushed[r] + 1 .. Sent(r)'
            PROVE  \E i \in Of(r, chan') : chan'[i].n = n
        <4>1. CASE n = Sent(r)'
          BY <1>5, <1>7, <1>8, <4>1
        <4>2. CASE n # Sent(r)'
          <5>1. n \in pushed[r] + 1 .. Sent(r)
            BY <1>7, <2>2, <4>2
          <5> QED
            BY <1>5, <1>8, <3>1, <5>1
        <4> QED
          BY <4>1, <4>2
      <3> QED
        BY <1>5, <1>7, <1>8, <2>2, <3>1, <3>2
    <2> QED
      BY <1>1, <2>1, <2>3, <2>4, <2>5, ZenonT(30) DEF ChannelIsUnbroken
  <1>14. NumbersAreOwn'
    <2>1. /\ \A q \in Reader : reader'[q].seq < nextSeq
          /\ \A p, q \in Reader : p # q /\ reader'[p].seq # None => reader'[p].seq # reader'[q].seq
      <3>1. nextSeq \in Nat \ {0}
        BY DEF OutputInv, OutputType
      <3>2. \A q \in Reader : reader'[q].seq = None \/ reader'[q] = reader[q]
        BY <1>6
      <3>3. \A q \in Reader : reader'[q].seq < nextSeq
        BY <3>1, <3>2 DEF NumbersAreOwn, None
      <3>4. ASSUME NEW p \in Reader, NEW q \in Reader, p # q, reader'[p].seq # None
            PROVE  reader'[p].seq # reader'[q].seq
        BY <3>2, <3>4 DEF NumbersAreOwn
      <3> QED
        BY <3>3, <3>4
    <2>2. x.seq \in 1 .. nextSeq - 1 /\ \A i \in DOMAIN chan : chan[i].seq # x.seq
      BY <1>1, <1>2, <1>4 DEF NumbersAreOwn, None, OutputInv, OutputType
    <2>3. \A q \in Reader : x.seq # reader'[q].seq
      BY <1>1, <1>4, <1>6 DEF NumbersAreOwn
    <2>4. \A i \in DOMAIN chan : \A q \in Reader : chan[i].seq # reader'[q].seq
      <3>1. \A i \in DOMAIN chan : chan[i].seq # None
        BY DEF NumbersAreOwn, None
      <3> QED
        BY <1>6, <3>1 DEF NumbersAreOwn
    <2>5. \A i, j \in DOMAIN chan' : i # j => chan'[i].seq # chan'[j].seq
      BY <1>5, <2>2 DEF NumbersAreOwn
    <2>6. \A s \in Slot : \A i \in DOMAIN buffers[s] :
            /\ \A j \in DOMAIN chan' : buffers[s][i].seq # chan'[j].seq
            /\ \A q \in Reader : buffers[s][i].seq # reader'[q].seq
      <3>1. \A s \in Slot : \A i \in DOMAIN buffers[s] : buffers[s][i].seq # None
        BY DEF NumbersAreOwn, None
      <3>2. ASSUME NEW s \in Slot, NEW i \in DOMAIN buffers[s]
            PROVE  /\ buffers[s][i].seq # x.seq
                   /\ \A j \in DOMAIN chan : buffers[s][i].seq # chan[j].seq
                   /\ \A q \in Reader : buffers[s][i].seq # reader'[q].seq
        BY <1>4, <1>6, <3>1 DEF NumbersAreOwn
      <3> QED
        BY <1>5, <3>2
    <2>7. \A i \in DOMAIN chan' : /\ chan'[i].seq \in 1 .. nextSeq - 1
                                  /\ \A q \in Reader : chan'[i].seq # reader'[q].seq
      BY <1>5, <2>2, <2>3, <2>4 DEF NumbersAreOwn
    <2> QED
      BY <1>1, <2>1, <2>5, <2>6, <2>7 DEF NumbersAreOwn
  <1> QED
    BY <1>10, <1>11, <1>12, <1>13, <1>14 DEF OutputInv

------------------------------------------------------------------------------
(* The main thread *)

\* One line more in the buffer of s: it is the last one there, the others moved
\* up by d places.
Grown(s, x, d) ==
  /\ buffers' \in [Slot -> Seq(Line)]
  /\ \A t \in Slot \ {s} : buffers'[t] = buffers[t]
  /\ Len(buffers'[s]) = Len(buffers[s]) + 1 - d
  /\ Len(buffers'[s]) <= Capacity /\ d <= Len(buffers[s])
  /\ \A i \in 1 .. Len(buffers[s]) - d : buffers'[s][i] = buffers[s][i + d]
  /\ buffers'[s][Len(buffers'[s])] = x

LEMMA PushGrows ==
  ASSUME OutputInv, NEW s \in Slot, NEW x \in Line,
         buffers' = [buffers EXCEPT ![s] = Push(@, x)]
  PROVE  \E d \in {0, 1} : Grown(s, x, d)
  <1>1. buffers \in [Slot -> Seq(Line)] /\ buffers[s] \in Seq(Line)
        /\ Len(buffers[s]) <= Capacity
    BY DEF OutputInv, OutputType, BuffersAreSound
  <1> DEFINE c == Push(buffers[s], x)
  <1>2. buffers' = [buffers EXCEPT ![s] = c] /\ c = Push(buffers[s], x)
    OBVIOUS
  <1> HIDE DEF c
  <1>3. PICK d \in {0, 1} :
           /\ c \in Seq(Line) /\ Len(c) = Len(buffers[s]) + 1 - d /\ Len(c) <= Capacity
           /\ d <= Len(buffers[s])
           /\ \A i \in 1 .. Len(buffers[s]) - d : c[i] = buffers[s][i + d]
           /\ c[Len(c)] = x
    <2>1. \A b \in Seq(Line), y \in Line : Len(b) <= Capacity =>
            \A e : e = Push(b, y) => \E d \in {0, 1} :
              /\ e \in Seq(Line) /\ Len(e) = Len(b) + 1 - d /\ Len(e) <= Capacity
              /\ d <= Len(b)
              /\ \A i \in 1 .. Len(b) - d : e[i] = b[i + d]
              /\ e[Len(e)] = y
      BY PushIs
    <2>2. \A e : e = Push(buffers[s], x) => \E d \in {0, 1} :
              /\ e \in Seq(Line) /\ Len(e) = Len(buffers[s]) + 1 - d /\ Len(e) <= Capacity
              /\ d <= Len(buffers[s])
              /\ \A i \in 1 .. Len(buffers[s]) - d : e[i] = buffers[s][i + d]
              /\ e[Len(e)] = x
      BY <1>1, <2>1
    <2>3. c = Push(buffers[s], x)
      BY <1>2
    <2> QED
      BY <2>2, <2>3, Zenon
  <1>4. buffers' \in [Slot -> Seq(Line)] /\ buffers'[s] = c
        /\ \A t \in Slot \ {s} : buffers'[t] = buffers[t]
    BY <1>1, <1>2, <1>3
  <1> QED
    BY <1>3, <1>4 DEF Grown

\* Whatever a grown buffer holds is the new line or one it had.
LEMMA GrownHolds ==
  ASSUME OutputInv, NEW s \in Slot, NEW x \in Line, NEW d \in {0, 1}, Grown(s, x, d)
  PROVE  /\ Len(buffers[s]) \in Nat /\ Len(buffers'[s]) \in Nat
         /\ DOMAIN buffers[s] = 1 .. Len(buffers[s])
         /\ DOMAIN buffers'[s] = 1 .. Len(buffers'[s])
         /\ Len(buffers'[s]) >= 1
         /\ \A i \in DOMAIN buffers'[s] :
              \/ i = Len(buffers'[s]) /\ buffers'[s][i] = x
              \/ /\ i < Len(buffers'[s]) /\ i + d \in DOMAIN buffers[s]
                 /\ buffers'[s][i] = buffers[s][i + d]
  <1>1. buffers[s] \in Seq(Line) /\ buffers'[s] \in Seq(Line)
    BY DEF OutputInv, OutputType, Grown
  <1>2. /\ Len(buffers[s]) \in Nat /\ Len(buffers'[s]) \in Nat
        /\ DOMAIN buffers[s] = 1 .. Len(buffers[s])
        /\ DOMAIN buffers'[s] = 1 .. Len(buffers'[s])
    BY <1>1, LenProperties
  <1> QED
    BY <1>2 DEF Grown

\* A line of the current generation, and a restart's marker only before other lines
\* of its generation, may go into the buffer.
LEMMA GrownIsSound ==
  ASSUME OutputInv, NEW s \in Slot, NEW x \in Line, NEW d \in {0, 1}, Grown(s, x, d),
         x.slot = s, x.gen = gen[s], gen' = gen,
         x.stream = "restart" =>
           \A i \in DOMAIN buffers[s] : buffers[s][i].gen = gen[s] => buffers[s][i].stream = "restart"
  PROVE  /\ BuffersAreSound' /\ NoStaleLine'
         /\ \A t \in Slot : \A i \in DOMAIN buffers'[t] : buffers'[t][i].gen <= gen[t]
  <1>1. /\ \A i \in DOMAIN buffers'[s] :
              \/ i = Len(buffers'[s]) /\ buffers'[s][i] = x
              \/ /\ i < Len(buffers'[s]) /\ i + d \in DOMAIN buffers[s]
                 /\ buffers'[s][i] = buffers[s][i + d]
        /\ DOMAIN buffers[s] = 1 .. Len(buffers[s])
        /\ DOMAIN buffers'[s] = 1 .. Len(buffers'[s])
        /\ Len(buffers[s]) \in Nat /\ Len(buffers'[s]) \in Nat
    BY GrownHolds
  <1>2. \A t \in Slot \ {s} : buffers'[t] = buffers[t]
    BY DEF Grown
  <1>3. Capacity' = Capacity
    BY DEF Capacity
  <1>4. BuffersAreSound'
    <2>1. Len(buffers'[s]) <= Capacity
      BY DEF Grown
    <2> QED
      BY <1>1, <1>2, <1>3, <2>1, SMTT(30) DEF OutputInv, BuffersAreSound
  <1>5. gen[s] \in Nat
    BY DEF OutputInv, OutputType, Gen
  <1>6. \A t \in Slot : \A i \in DOMAIN buffers'[t] : buffers'[t][i].gen <= gen[t]
    <2>1. \A t \in Slot : \A i \in DOMAIN buffers[t] : buffers[t][i].gen <= gen[t]
      BY DEF OutputInv, UnbornIsSilent
    <2>2. \A i \in DOMAIN buffers'[s] : buffers'[s][i].gen <= gen[s]
      BY <1>1, <1>5, <2>1, SMTT(30)
    <2> QED
      BY <1>2, <2>1, <2>2
  <1>7. NoStaleLine'
    <2>1. SUFFICES ASSUME NEW i \in DOMAIN buffers'[s], NEW j \in DOMAIN buffers'[s], i < j
                   PROVE  LET y == buffers'[s][i]  z == buffers'[s][j]
                          IN  /\ y.gen <= z.gen
                              /\ y.gen = z.gen /\ z.stream = "restart" => y.stream = "restart"
      BY <1>2 DEF OutputInv, NoStaleLine
    <2>2. i < Len(buffers'[s]) /\ i + d \in DOMAIN buffers[s] /\ buffers'[s][i] = buffers[s][i + d]
      BY <1>1, <2>1
    <2>3. CASE j = Len(buffers'[s])
      <3>1. buffers'[s][j] = x
        BY <1>1, <2>3
      <3>2. buffers[s][i + d].gen <= gen[s]
        BY <2>2 DEF OutputInv, UnbornIsSilent
      <3> QED
        BY <2>2, <3>1, <3>2
    <2>4. CASE j # Len(buffers'[s])
      <3>1. j + d \in DOMAIN buffers[s] /\ buffers'[s][j] = buffers[s][j + d] /\ i + d < j + d
        BY <1>1, <2>1, <2>4
      <3> QED
        BY <2>2, <3>1 DEF OutputInv, NoStaleLine
    <2> QED
      BY <2>3, <2>4
  <1> QED
    BY <1>4, <1>6, <1>7

\* A new number keeps the numbers in the buffers apart.
LEMMA GrownIsOwn ==
  ASSUME OutputInv, NumbersAreOwn, NEW s \in Slot, NEW x \in Line, NEW d \in {0, 1},
         Grown(s, x, d),
         \A t \in Slot : \A i \in DOMAIN buffers[t] : buffers[t][i].seq # x.seq
  PROVE  /\ \A t \in Slot : \A i \in DOMAIN buffers'[t] :
              \/ buffers'[t][i] = x
              \/ \E j \in DOMAIN buffers[t] : buffers'[t][i] = buffers[t][j]
         /\ \A t, u \in Slot : \A i \in DOMAIN buffers'[t] : \A j \in DOMAIN buffers'[u] :
              buffers'[t][i].seq = buffers'[u][j].seq => t = u /\ i = j
  <1>1. /\ \A i \in DOMAIN buffers'[s] :
              \/ i = Len(buffers'[s]) /\ buffers'[s][i] = x
              \/ /\ i < Len(buffers'[s]) /\ i + d \in DOMAIN buffers[s]
                 /\ buffers'[s][i] = buffers[s][i + d]
        /\ DOMAIN buffers'[s] = 1 .. Len(buffers'[s]) /\ Len(buffers'[s]) \in Nat
    BY GrownHolds
  <1>2. \A t \in Slot \ {s} : buffers'[t] = buffers[t]
    BY DEF Grown
  <1>3. \A t \in Slot : \A i \in DOMAIN buffers'[t] :
          \/ t = s /\ i = Len(buffers'[s]) /\ buffers'[t][i] = x
          \/ \E e \in {0, 1} : /\ i + e \in DOMAIN buffers[t] /\ buffers'[t][i] = buffers[t][i + e]
                               /\ e = IF t = s THEN d ELSE 0
    <2>1. \A t \in Slot \ {s} : \A i \in DOMAIN buffers'[t] :
            i + 0 \in DOMAIN buffers[t] /\ buffers'[t][i] = buffers[t][i + 0]
      <3>1. \A t \in Slot : \A i \in DOMAIN buffers[t] : i + 0 = i
        <4>1. \A t \in Slot : DOMAIN buffers[t] = 1 .. Len(buffers[t])
          BY LenProperties DEF OutputInv, OutputType
        <4> QED
          BY <4>1
      <3> QED
        BY <1>2, <3>1
    <2> QED
      BY <1>1, <2>1
  <1>4. \A t, u \in Slot : \A i \in DOMAIN buffers'[t] : \A j \in DOMAIN buffers'[u] :
          buffers'[t][i].seq = buffers'[u][j].seq => t = u /\ i = j
    <2> SUFFICES ASSUME NEW t \in Slot, NEW u \in Slot,
                        NEW i \in DOMAIN buffers'[t], NEW j \in DOMAIN buffers'[u],
                        buffers'[t][i].seq = buffers'[u][j].seq
                 PROVE  t = u /\ i = j
      OBVIOUS
    <2>1. CASE buffers'[t][i] = x
      <3>1. buffers'[u][j].seq = x.seq
        BY <2>1
      <3>2. u = s /\ j = Len(buffers'[s])
        BY <1>3, <3>1
      <3>3. t = s /\ i = Len(buffers'[s])
        BY <1>3, <2>1
      <3> QED
        BY <3>2, <3>3
    <2>2. CASE buffers'[t][i] # x
      <3>1. PICK e \in {0, 1} : /\ i + e \in DOMAIN buffers[t] /\ buffers'[t][i] = buffers[t][i + e]
                                /\ e = IF t = s THEN d ELSE 0
        BY <1>3, <2>2
      <3>2. buffers'[u][j].seq # x.seq
        BY <3>1
      <3>3. PICK f \in {0, 1} : /\ j + f \in DOMAIN buffers[u] /\ buffers'[u][j] = buffers[u][j + f]
                                /\ f = IF u = s THEN d ELSE 0
        BY <1>3, <3>2
      <3>4. t = u /\ i + e = j + f
        BY <3>1, <3>3 DEF NumbersAreOwn
      <3>5. i \in Int /\ j \in Int
        <4>1. buffers'[t] \in Seq(Line) /\ buffers'[u] \in Seq(Line)
          BY DEF Grown
        <4> QED
          BY <4>1, LenProperties
      <3> QED
        BY <3>1, <3>3, <3>4, <3>5
    <2> QED
      BY <2>1, <2>2
  <1>5. \A t \in Slot : \A i \in DOMAIN buffers'[t] :
          \/ buffers'[t][i] = x
          \/ \E j \in DOMAIN buffers[t] : buffers'[t][i] = buffers[t][j]
    BY <1>3
  <1> QED
    BY <1>4, <1>5

\* The next line of its stream leaves no gap; a marker is of no stream.
LEMMA GrownIsUnbroken ==
  ASSUME OutputInv, NEW s \in Slot, NEW x \in Line, NEW d \in {0, 1}, Grown(s, x, d),
         x.slot = s,
         \A q \in Reader :
           IF q = ReaderOf(x) THEN pushed'[q] = pushed[q] + 1 /\ x.n = pushed[q] + 1
                              ELSE pushed'[q] = pushed[q]
  PROVE  StreamIsUnbroken'
  <1> DEFINE last == Len(buffers'[s])
             old == buffers[s]
             new == buffers'[s]
  <1>1. /\ \A i \in DOMAIN new : \/ i = last /\ new[i] = x
                                 \/ i < last /\ i + d \in DOMAIN old /\ new[i] = old[i + d]
        /\ DOMAIN old = 1 .. Len(old) /\ DOMAIN new = 1 .. last
        /\ Len(old) \in Nat /\ last \in Nat /\ last >= 1
    BY GrownHolds
  <1>2. /\ last = Len(old) + 1 - d /\ new[last] = x /\ d <= Len(old)
        /\ \A i \in 1 .. Len(old) - d : new[i] = old[i + d]
        /\ \A t \in Slot \ {s} : buffers'[t] = buffers[t]
    BY DEF Grown
  <1>3. old \in Seq(Line)
    BY DEF OutputInv, OutputType
  <1>4. SUFFICES ASSUME NEW q \in Reader
                 PROVE  LET b == buffers'[q.slot]  mine == Of(q, b)
                        IN  \A i \in mine :
                              /\ b[i].n <= pushed'[q]
                              /\ \A j \in mine : i < j => b[i].n < b[j].n
                              /\ \A n \in b[i].n + 1 .. pushed'[q] : \E j \in mine : i < j /\ b[j].n = n
    BY DEF StreamIsUnbroken, Of
  <1>5. pushed[q] \in Nat
    BY DEF OutputInv, OutputType
  <1>6. CASE q.slot # s
    <2>1. q # ReaderOf(x) /\ buffers'[q.slot] = buffers[q.slot]
      BY <1>2, <1>6, ReaderIs, LineIs
    <2> QED
      BY <2>1 DEF OutputInv, StreamIsUnbroken
  <1>7. CASE q.slot = s
    <2>1. \A i \in Of(q, old) :
            /\ old[i].n \in Nat /\ old[i].n <= pushed[q]
            /\ \A j \in Of(q, old) : i < j => old[i].n < old[j].n
            /\ \A n \in old[i].n + 1 .. pushed[q] : \E j \in Of(q, old) : i < j /\ old[j].n = n
      <3>1. \A i \in Of(q, old) : old[i] \in Line /\ old[i].n \in Nat
        BY <1>1, <1>3, LineIs, ElementOfSeq DEF Of
      <3> QED
        BY <1>7, <3>1 DEF OutputInv, StreamIsUnbroken
    <2>2. /\ \A i \in Of(q, new) : \/ i = last /\ q = ReaderOf(x) /\ new[i] = x
                                   \/ i < last /\ i + d \in Of(q, old) /\ new[i] = old[i + d]
          /\ q = ReaderOf(x) => last \in Of(q, new)
          /\ \A i \in Of(q, new) : i \in 1 .. last
      BY <1>1, <1>2 DEF Of
    <2>3. \A j \in Of(q, old) : j - d >= 1 => j - d \in Of(q, new) /\ new[j - d] = old[j]
      <3> SUFFICES ASSUME NEW j \in Of(q, old), j - d >= 1
                   PROVE  j - d \in Of(q, new) /\ new[j - d] = old[j]
        OBVIOUS
      <3>1. j \in 1 .. Len(old) /\ ReaderOf(old[j]) = q
        BY <1>1 DEF Of
      <3>2. j - d \in 1 .. Len(old) - d /\ (j - d) + d = j /\ j - d \in 1 .. last
        BY <1>1, <1>2, <3>1
      <3>3. new[j - d] = old[j]
        BY <1>2, <3>2
      <3> QED
        BY <1>1, <3>1, <3>2, <3>3 DEF Of
    <2> SUFFICES ASSUME NEW i \in Of(q, new)
                 PROVE  /\ new[i].n <= pushed'[q]
                        /\ \A j \in Of(q, new) : i < j => new[i].n < new[j].n
                        /\ \A n \in new[i].n + 1 .. pushed'[q] : \E j \in Of(q, new) : i < j /\ new[j].n = n
      BY <1>7
    <2> HIDE DEF old, new, last
    <2>4. pushed'[q] = IF q = ReaderOf(x) THEN pushed[q] + 1 ELSE pushed[q]
      OBVIOUS
    <2>5. q = ReaderOf(x) => x.n = pushed[q] + 1
      OBVIOUS
    <2>6. CASE i = last
      <3>1. q = ReaderOf(x) /\ new[i] = x
        BY <2>2, <2>6
      <3>2. \A j \in Of(q, new) : ~(i < j)
        BY <1>1, <2>2, <2>6
      <3> QED
        BY <1>5, <2>4, <2>5, <3>1, <3>2
    <2>7. CASE i # last
      <3>1. i < last /\ i + d \in Of(q, old) /\ new[i] = old[i + d] /\ i >= 1 /\ i \in Nat
        BY <1>1, <2>2, <2>7
      <3>2. new[i].n \in Nat /\ new[i].n <= pushed[q]
        BY <2>1, <3>1
      <3>3. \A j \in Of(q, new) : i < j => new[i].n < new[j].n
        <4> SUFFICES ASSUME NEW j \in Of(q, new), i < j PROVE new[i].n < new[j].n
          OBVIOUS
        <4>1. CASE j = last /\ q = ReaderOf(x) /\ new[j] = x
          BY <1>5, <2>5, <3>2, <4>1
        <4>2. CASE j < last /\ j + d \in Of(q, old) /\ new[j] = old[j + d]
          <5>1. i + d < j + d
            BY <2>2, <1>1, <3>1
          <5> QED
            BY <2>1, <3>1, <4>2, <5>1
        <4> QED
          BY <2>2, <4>1, <4>2
      <3>4. ASSUME NEW n \in new[i].n + 1 .. pushed'[q]
            PROVE  \E j \in Of(q, new) : i < j /\ new[j].n = n
        <4>1. CASE q = ReaderOf(x) /\ n = pushed[q] + 1
          BY <2>2, <1>2, <2>5, <3>1, <4>1
        <4>2. CASE ~(q = ReaderOf(x) /\ n = pushed[q] + 1)
          <5>1. n \in old[i + d].n + 1 .. pushed[q]
            BY <1>5, <2>4, <3>1, <3>2, <4>2
          <5>2. PICK j \in Of(q, old) : i + d < j /\ old[j].n = n
            BY <2>1, <3>1, <5>1
          <5>3. j \in Nat
            BY <1>1 DEF Of
          <5>4. j - d >= 1 /\ i < j - d
            BY <3>1, <5>2, <5>3
          <5>5. j - d \in Of(q, new) /\ new[j - d].n = n
            BY <2>3, <5>2, <5>4
          <5> QED
            BY <5>4, <5>5
        <4> QED
          BY <4>1, <4>2
      <3> QED
        BY <1>5, <2>4, <3>2, <3>3, <3>4
    <2> QED
      BY <2>6, <2>7
  <1> QED
    BY <1>6, <1>7

\* The channel loses its first line x, of the reader r.
Shifted(x, r) ==
  /\ x \in Line /\ x = chan[1] /\ 1 \in DOMAIN chan
  /\ r = ReaderOf(x) /\ r \in Reader
  /\ chan' \in Seq(Line)
  /\ \A i \in DOMAIN chan' : i + 1 \in DOMAIN chan /\ chan'[i] = chan[i + 1]
  /\ \A q \in Reader : \A i \in Of(q, chan') : i + 1 \in Of(q, chan) /\ chan'[i] = chan[i + 1]
  /\ \A q \in Reader : \A i \in Of(q, chan) :
       i = 1 \/ (i - 1 \in Of(q, chan') /\ chan'[i - 1] = chan[i])

LEMMA ChannelTail ==
  ASSUME OutputInv, chan # <<>>, chan' = Tail(chan)
  PROVE  Shifted(Head(chan), ReaderOf(Head(chan)))
  <1>1. chan \in Seq(Line) /\ \A i \in DOMAIN chan : ReaderOf(chan[i]) \in Reader
    BY DEF OutputInv, OutputType
  <1>2. DOMAIN chan = 1 .. Len(chan) /\ Len(chan) \in Nat \ {0}
    BY <1>1, LenProperties, EmptySeq
  <1>3. /\ Head(chan) = chan[1] /\ chan' \in Seq(Line) /\ Len(chan') = Len(chan) - 1
        /\ \A i \in 1 .. Len(chan') : chan'[i] = chan[i + 1]
    BY <1>1, HeadTailProperties
  <1>4. DOMAIN chan' = 1 .. Len(chan) - 1
    BY <1>3, LenProperties
  <1>5. Head(chan) \in Line /\ 1 \in DOMAIN chan
    BY <1>1, <1>2, <1>3, ElementOfSeq
  <1>6. \A i \in DOMAIN chan' : i + 1 \in DOMAIN chan /\ chan'[i] = chan[i + 1]
    BY <1>2, <1>3, <1>4
  <1>7. \A r \in Reader : \A i \in Of(r, chan') : i + 1 \in Of(r, chan) /\ chan'[i] = chan[i + 1]
    BY <1>6 DEF Of
  <1>8. \A i \in DOMAIN chan : i = 1 \/ (i - 1 \in DOMAIN chan' /\ chan'[i - 1] = chan[i])
    <2> SUFFICES ASSUME NEW i \in DOMAIN chan, i # 1
                 PROVE  i - 1 \in DOMAIN chan' /\ chan'[i - 1] = chan[i]
      OBVIOUS
    <2>1. i - 1 \in DOMAIN chan' /\ (i - 1) + 1 = i
      BY <1>2, <1>4
    <2> QED
      BY <1>6, <2>1
  <1>9. \A r \in Reader : \A i \in Of(r, chan) : i = 1 \/ (i - 1 \in Of(r, chan') /\ chan'[i - 1] = chan[i])
    BY <1>8 DEF Of
  <1> QED
    BY <1>1, <1>3, <1>5, <1>6, <1>7, <1>9 DEF Shifted

\* The line at the head of the channel is the next of its stream to be shown,
\* if its generation is current; all others stay in order.
LEMMA HeadIsNext ==
  ASSUME OutputInv, NEW x, NEW r, Shifted(x, r), UNCHANGED <<reader, gen>>,
         \A q \in Reader : IF q = r /\ x.gen = gen[x.slot] THEN pushed'[q] = pushed[q] + 1
                                                           ELSE pushed'[q] = pushed[q]
  PROVE  /\ x.gen = gen[x.slot] => x.n = pushed[r] + 1
         /\ ChannelIsUnbroken'
  <1>1. /\ x \in Line /\ x = chan[1] /\ 1 \in DOMAIN chan /\ r \in Reader /\ r = ReaderOf(x)
        /\ \A q \in Reader : \A i \in Of(q, chan') : i + 1 \in Of(q, chan) /\ chan'[i] = chan[i + 1]
        /\ \A q \in Reader : \A i \in Of(q, chan) : i = 1 \/ (i - 1 \in Of(q, chan') /\ chan'[i - 1] = chan[i])
    BY DEF Shifted
  <1>2. /\ r.slot = x.slot /\ r.gen = x.gen /\ x.n \in Nat
        /\ 1 \in Of(r, chan) /\ \A q \in Reader \ {r} : 1 \notin Of(q, chan)
    BY <1>1, LineIs DEF Of
  <1>3. /\ pushed \in [Reader -> Nat] /\ \A q \in Reader : Sent(q)' = Sent(q) /\ Sent(q) \in Nat
    BY DEF OutputInv, OutputType, Sent, None
  <1>4. /\ \A q \in Reader : \A i \in Of(q, chan) : chan[i].n \in Nat /\ i \in Nat /\ i >= 1
        /\ \A q \in Reader : \A i \in Of(q, chan') : chan'[i].n \in Nat /\ i \in Nat /\ i >= 1
    <2>1. chan \in Seq(Line) /\ chan' \in Seq(Line)
      BY DEF OutputInv, OutputType, Shifted
    <2>2. /\ \A i \in DOMAIN chan : chan[i].n \in Nat /\ i \in Nat /\ i >= 1
          /\ \A i \in DOMAIN chan' : chan'[i].n \in Nat /\ i \in Nat /\ i >= 1
      BY <2>1, LineIs, LenProperties, ElementOfSeq
    <2> QED
      BY <2>2 DEF Of
  <1>5. /\ \A q \in Reader : \A i, j \in Of(q, chan) : i < j => chan[i].n < chan[j].n
        /\ \A q \in Reader : \A i \in Of(q, chan) : chan[i].n <= Sent(q)
        /\ \A q \in Reader : q.gen = gen[q.slot] =>
             /\ pushed[q] <= Sent(q)
             /\ \A i \in Of(q, chan) : chan[i].n > pushed[q]
             /\ \A n \in pushed[q] + 1 .. Sent(q) : \E i \in Of(q, chan) : chan[i].n = n
    BY DEF OutputInv, ChannelIsUnbroken
  <1>6. ASSUME x.gen = gen[x.slot]
        PROVE  x.n = pushed[r] + 1
    <2>1. r.gen = gen[r.slot]
      BY <1>2, <1>6
    <2>2. x.n > pushed[r] /\ x.n <= Sent(r)
      BY <1>1, <1>2, <1>5, <2>1
    <2>3. pushed[r] \in Nat /\ Sent(r) \in Nat
      BY <1>1, <1>3
    <2>4. pushed[r] + 1 \in pushed[r] + 1 .. Sent(r)
      BY <1>2, <2>2, <2>3
    <2>5. PICK i \in Of(r, chan) : chan[i].n = pushed[r] + 1
      BY <1>1, <1>5, <2>1, <2>4
    <2>6. i = 1 \/ 1 < i
      BY <1>1, <1>4
    <2>7. 1 < i => x.n < chan[i].n
      BY <1>1, <1>2, <1>5
    <2> QED
      BY <1>1, <1>2, <2>2, <2>3, <2>5, <2>6, <2>7
  <1>7. ASSUME NEW q \in Reader
        PROVE  /\ \A i, j \in Of(q, chan') : i < j => chan'[i].n < chan'[j].n
               /\ \A i \in Of(q, chan') : chan'[i].n <= Sent(q)
               /\ q.gen = gen[q.slot] =>
                    /\ pushed'[q] <= Sent(q)
                    /\ \A i \in Of(q, chan') : chan'[i].n > pushed'[q]
                    /\ \A n \in pushed'[q] + 1 .. Sent(q) : \E i \in Of(q, chan') : chan'[i].n = n
    <2> HIDE DEF Sent
    <2>1. \A i, j \in Of(q, chan') : i < j => chan'[i].n < chan'[j].n
      <3> SUFFICES ASSUME NEW i \in Of(q, chan'), NEW j \in Of(q, chan'), i < j
                   PROVE  chan'[i].n < chan'[j].n
        OBVIOUS
      <3>1. i + 1 < j + 1
        BY <1>4
      <3> QED
        BY <1>1, <1>5, <3>1
    <2>2. \A i \in Of(q, chan') : chan'[i].n <= Sent(q)
      BY <1>1, <1>5
    <2>3. ASSUME q.gen = gen[q.slot]
          PROVE  /\ pushed'[q] <= Sent(q)
                 /\ \A i \in Of(q, chan') : chan'[i].n > pushed'[q]
                 /\ \A n \in pushed'[q] + 1 .. Sent(q) : \E i \in Of(q, chan') : chan'[i].n = n
      <3>1. /\ pushed[q] <= Sent(q) /\ pushed[q] \in Nat /\ Sent(q) \in Nat
            /\ \A i \in Of(q, chan) : chan[i].n > pushed[q]
            /\ \A n \in pushed[q] + 1 .. Sent(q) : \E i \in Of(q, chan) : chan[i].n = n
        BY <1>3, <1>5, <2>3
      <3>2. CASE q = r
        <4>1. x.n = pushed[q] + 1 /\ pushed'[q] = x.n
          BY <1>2, <1>6, <2>3, <3>2
        <4>2. x.n <= Sent(q)
          BY <1>1, <1>2, <1>5, <3>2
        <4>3. \A i \in Of(q, chan') : chan'[i].n > x.n
          <5> SUFFICES ASSUME NEW i \in Of(q, chan') PROVE chan'[i].n > x.n
            OBVIOUS
          <5>1. i + 1 \in Of(q, chan) /\ chan'[i] = chan[i + 1] /\ 1 < i + 1
            BY <1>1, <1>4
          <5>2. x.n < chan[i + 1].n
            BY <1>1, <1>2, <1>5, <3>2, <5>1
          <5> QED
            BY <1>2, <1>4, <5>1, <5>2
        <4>4. ASSUME NEW n \in x.n + 1 .. Sent(q)
              PROVE  \E i \in Of(q, chan') : chan'[i].n = n
          <5>1. n \in pushed[q] + 1 .. Sent(q) /\ n # x.n
            BY <1>2, <3>1, <4>1
          <5>2. PICK i \in Of(q, chan) : chan[i].n = n
            BY <3>1, <5>1
          <5> QED
            BY <1>1, <5>1, <5>2
        <4> QED
          BY <4>1, <4>2, <4>3, <4>4
      <3>3. CASE q # r
        <4>1. pushed'[q] = pushed[q]
          BY <3>3
        <4>2. \A i \in Of(q, chan) : i # 1
          BY <1>2, <3>3
        <4> QED
          BY <1>1, <3>1, <4>1, <4>2
      <3> QED
        BY <3>2, <3>3
    <2> QED
      BY <2>1, <2>2, <2>3
  <1>8. ChannelIsUnbroken'
    BY <1>3, <1>7 DEF ChannelIsUnbroken
  <1> QED
    BY <1>6, <1>8

\* The main thread takes a line: shown if its generation is current, else gone.
LEMMA DrainLineKeeps ==
  ASSUME OutputInv, NumbersAreOwn, DrainLine
  PROVE  OutputInv' /\ NumbersAreOwn'
  <1> DEFINE x == Head(chan)
             r == ReaderOf(x)
  <1>1. /\ pc = "drain" /\ chan # <<>> /\ chan' = Tail(chan)
        /\ UNCHANGED <<wrote, ended, reader, nextSeq, gen, pc, left>>
        /\ buffers' = IF IsCurrent(x) THEN [buffers EXCEPT ![x.slot] = Push(@, x)] ELSE buffers
        /\ pushed' = IF IsCurrent(x) THEN [pushed EXCEPT ![r] = @ + 1] ELSE pushed
    BY DEF DrainLine, pipes
  <1>2. Shifted(x, r)
    BY <1>1, ChannelTail
  <1>3. IsCurrent(x) <=> x.gen = gen[x.slot]
    BY DEF IsCurrent
  <1> HIDE DEF x, r
  <1>4. /\ x \in Line /\ x = chan[1] /\ 1 \in DOMAIN chan /\ r = ReaderOf(x) /\ r \in Reader
        /\ chan' \in Seq(Line)
        /\ \A i \in DOMAIN chan' : i + 1 \in DOMAIN chan /\ chan'[i] = chan[i + 1]
    BY <1>2 DEF Shifted
  <1>5. /\ x.slot \in Slot /\ r.slot = x.slot /\ r.gen = x.gen /\ x.stream # "restart"
    BY <1>4, LineIs, SentIsNoMarker DEF Marker
  <1>6. pushed \in [Reader -> Nat]
    BY DEF OutputInv, OutputType
  <1>7. /\ pushed' \in [Reader -> Nat]
        /\ \A q \in Reader : IF q = r /\ x.gen = gen[x.slot] THEN pushed'[q] = pushed[q] + 1
                                                              ELSE pushed'[q] = pushed[q]
    <2>1. CASE IsCurrent(x)
      BY <1>1, <1>3, <1>4, <1>6, <2>1
    <2>2. CASE ~IsCurrent(x)
      BY <1>1, <1>3, <1>6, <2>2
    <2> QED
      BY <2>1, <2>2
  <1>8. ChannelIsUnbroken' /\ (x.gen = gen[x.slot] => x.n = pushed[r] + 1)
    BY <1>1, <1>2, <1>7, HeadIsNext
  <1>9. /\ buffers' \in [Slot -> Seq(Line)]
        /\ BuffersAreSound' /\ NoStaleLine' /\ StreamIsUnbroken'
        /\ \A t \in Slot : \A i \in DOMAIN buffers'[t] : buffers'[t][i].gen <= gen[t]
        /\ \A t \in Slot : \A i \in DOMAIN buffers'[t] :
             \/ buffers'[t][i] = x
             \/ \E j \in DOMAIN buffers[t] : buffers'[t][i] = buffers[t][j]
        /\ \A t, u \in Slot : \A i \in DOMAIN buffers'[t] : \A j \in DOMAIN buffers'[u] :
             buffers'[t][i].seq = buffers'[u][j].seq => t = u /\ i = j
    <2>1. CASE IsCurrent(x)
      <3>1. x.gen = gen[x.slot] /\ buffers' = [buffers EXCEPT ![x.slot] = Push(@, x)]
        BY <1>1, <1>3, <2>1
      <3>2. PICK d \in {0, 1} : Grown(x.slot, x, d)
        BY <1>4, <1>5, <3>1, PushGrows
      <3>3. BuffersAreSound' /\ NoStaleLine'
            /\ \A t \in Slot : \A i \in DOMAIN buffers'[t] : buffers'[t][i].gen <= gen[t]
        BY <1>1, <1>4, <1>5, <3>1, <3>2, GrownIsSound
      <3>4. StreamIsUnbroken'
        BY <1>4, <1>5, <1>7, <1>8, <3>1, <3>2, GrownIsUnbroken
      <3>5. \A t \in Slot : \A i \in DOMAIN buffers[t] : buffers[t][i].seq # x.seq
        BY <1>4 DEF NumbersAreOwn
      <3>6. buffers' \in [Slot -> Seq(Line)]
        BY <3>2 DEF Grown
      <3>7. /\ \A t \in Slot : \A i \in DOMAIN buffers'[t] :
                 \/ buffers'[t][i] = x
                 \/ \E j \in DOMAIN buffers[t] : buffers'[t][i] = buffers[t][j]
            /\ \A t, u \in Slot : \A i \in DOMAIN buffers'[t] : \A j \in DOMAIN buffers'[u] :
                 buffers'[t][i].seq = buffers'[u][j].seq => t = u /\ i = j
        BY <1>4, <1>5, <3>2, <3>5, GrownIsOwn
      <3> QED
        BY <3>3, <3>4, <3>6, <3>7, Zenon
    <2>2. CASE ~IsCurrent(x)
      <3>1. buffers' = buffers /\ pushed' = pushed
        BY <1>1, <2>2
      <3>2. BuffersAreSound' /\ NoStaleLine' /\ StreamIsUnbroken'
        BY <1>1, <3>1, BuffersStay
      <3>3. buffers \in [Slot -> Seq(Line)]
            /\ \A t \in Slot : \A i \in DOMAIN buffers[t] : buffers[t][i].gen <= gen[t]
        BY DEF OutputInv, OutputType, UnbornIsSilent
      <3>4. \A t, u \in Slot : \A i \in DOMAIN buffers[t] : \A j \in DOMAIN buffers[u] :
              buffers[t][i].seq = buffers[u][j].seq => t = u /\ i = j
        BY DEF NumbersAreOwn
      <3> QED
        BY <3>1, <3>2, <3>3, <3>4
    <2> QED
      BY <2>1, <2>2
  <1>10. OutputType'
    <2>1. \A i \in DOMAIN chan' : ReaderOf(chan'[i]) \in Reader
      BY <1>4 DEF OutputInv, OutputType
    <2>2. buffers' \in [Slot -> Seq(Line)]
      BY <1>9
    <2> QED
      BY <1>1, <1>4, <1>7, <2>1, <2>2 DEF OutputInv, OutputType
  <1>11. UnbornIsSilent'
    <2>1. /\ \A i \in DOMAIN chan : chan[i].gen <= gen[chan[i].slot]
          /\ \A q \in Reader : q.gen > gen[q.slot] =>
               wrote[q] = 0 /\ q \notin ended /\ reader[q].taken = 0 /\ pushed[q] = 0
      BY DEF OutputInv, UnbornIsSilent
    <2>2. \A i \in DOMAIN chan' : chan'[i].gen <= gen[chan'[i].slot]
      BY <1>4, <2>1
    <2>3. \A q \in Reader : q.gen > gen[q.slot] => pushed'[q] = pushed[q]
      <3>1. r.gen \in Nat /\ gen[r.slot] \in Nat
        BY <1>4, ReaderIs DEF OutputInv, OutputType, Gen
      <3> QED
        BY <1>5, <1>7, <3>1
    <2> QED
      BY <1>1, <1>9, <2>1, <2>2, <2>3 DEF UnbornIsSilent
  <1>12. MarkerComesFirst'
    BY <1>1 DEF MarkerComesFirst
  <1>13. NumbersAreOwn'
    <2>1. \A i, j \in DOMAIN chan' : i # j => i + 1 # j + 1
      BY <1>4, LenProperties
    <2>2. \A i \in DOMAIN chan' : chan'[i].seq # x.seq
      <3>1. \A i \in DOMAIN chan' : i + 1 # 1
        BY <1>4, LenProperties
      <3> QED
        BY <1>4, <3>1 DEF NumbersAreOwn
    <2>3. \A i \in DOMAIN chan' :
            /\ chan'[i].seq \in 1 .. nextSeq - 1
            /\ \A j \in DOMAIN chan' : i # j => chan'[i].seq # chan'[j].seq
            /\ \A q \in Reader : chan'[i].seq # reader[q].seq
      BY <1>4, <2>1 DEF NumbersAreOwn
    <2>4. \A t \in Slot : \A i \in DOMAIN buffers'[t] :
            /\ buffers'[t][i].seq \in 1 .. nextSeq - 1
            /\ \A j \in DOMAIN chan' : buffers'[t][i].seq # chan'[j].seq
            /\ \A q \in Reader : buffers'[t][i].seq # reader[q].seq
      <3> SUFFICES ASSUME NEW t \in Slot, NEW i \in DOMAIN buffers'[t]
                   PROVE  /\ buffers'[t][i].seq \in 1 .. nextSeq - 1
                          /\ \A j \in DOMAIN chan' : buffers'[t][i].seq # chan'[j].seq
                          /\ \A q \in Reader : buffers'[t][i].seq # reader[q].seq
        OBVIOUS
      <3>1. CASE buffers'[t][i] = x
        BY <1>4, <2>2, <3>1 DEF NumbersAreOwn
      <3>2. CASE buffers'[t][i] # x
        <4>1. PICK j \in DOMAIN buffers[t] : buffers'[t][i] = buffers[t][j]
          BY <1>9, <3>2
        <4> QED
          BY <1>4, <4>1 DEF NumbersAreOwn
      <3> QED
        BY <3>1, <3>2
    <2>5. /\ \A q \in Reader : reader[q].seq < nextSeq
          /\ \A q, p \in Reader : q # p /\ reader[q].seq # None => reader[q].seq # reader[p].seq
      BY DEF NumbersAreOwn
    <2> QED
      BY <1>1, <1>9, <2>3, <2>4, <2>5 DEF NumbersAreOwn
  <1> QED
    BY <1>8, <1>9, <1>10, <1>11, <1>12, <1>13 DEF OutputInv

\* A new generation has nothing on the channel and nothing in a buffer.
LEMMA RespawnKeeps ==
  ASSUME OutputInv, NumbersAreOwn, NEW s \in Slot, Respawn(s)
  PROVE  OutputInv' /\ NumbersAreOwn'
  <1>1. /\ UNCHANGED <<wrote, ended, reader, nextSeq, chan, buffers, pushed>>
        /\ gen[s] < MaxGen /\ gen' = [gen EXCEPT ![s] = @ + 1]
        /\ left' = [slot |-> s, lines |-> Block, of |-> "restart"] /\ pc' = "mark"
    BY DEF Respawn, pipes
  <1>2. gen \in [Slot -> Gen] /\ \A t \in Slot : gen[t] \in Nat
    BY DEF OutputInv, OutputType, Gen
  <1>3. /\ gen' \in [Slot -> Gen] /\ gen'[s] = gen[s] + 1
        /\ \A t \in Slot \ {s} : gen'[t] = gen[t]
    BY <1>1, <1>2 DEF Gen
  <1>4. \A t \in Slot : gen[t] <= gen'[t]
    BY <1>2, <1>3
  <1>5. OutputType'
    <2>1. left' \in [slot : Slot, lines : 1 .. Block, of : Marker]
      BY <1>1 DEF Marker
    <2> QED
      BY <1>1, <1>3, <2>1 DEF OutputInv, OutputType
  <1>6. BuffersAreSound' /\ NoStaleLine' /\ StreamIsUnbroken' /\ NumbersAreOwn'
    BY <1>1 DEF OutputInv, BuffersAreSound, NoStaleLine, StreamIsUnbroken, NumbersAreOwn,
                Capacity, Of
  <1>7. UnbornIsSilent'
    <2>1. \A t \in Slot : \A i \in DOMAIN buffers[t] :
            buffers[t][i].gen \in Nat /\ buffers[t][i].gen <= gen[t]
      <3>1. \A t \in Slot : \A i \in DOMAIN buffers[t] : buffers[t][i] \in Line
        BY ElementOfSeq, LenProperties DEF OutputInv, OutputType
      <3> QED
        BY <3>1, LineIs DEF OutputInv, UnbornIsSilent
    <2>2. \A i \in DOMAIN chan : /\ chan[i].gen \in Nat /\ chan[i].slot \in Slot
                                 /\ chan[i].gen <= gen[chan[i].slot]
      <3>1. \A i \in DOMAIN chan : chan[i] \in Line
        BY ElementOfSeq, LenProperties DEF OutputInv, OutputType
      <3> QED
        BY <3>1, LineIs DEF OutputInv, UnbornIsSilent
    <2>3. \A i \in DOMAIN chan : chan[i].gen <= gen'[chan[i].slot]
      BY <1>2, <1>3, <1>4, <2>2
    <2>4. \A t \in Slot : \A i \in DOMAIN buffers[t] : buffers[t][i].gen <= gen'[t]
      BY <1>2, <1>3, <1>4, <2>1
    <2>5. \A q \in Reader : q.gen > gen'[q.slot] => q.gen > gen[q.slot]
      BY <1>2, <1>3, ReaderIs
    <2> QED
      BY <1>1, <2>3, <2>4, <2>5 DEF OutputInv, UnbornIsSilent
  <1>8. MarkerComesFirst'
    <2>1. \A i \in DOMAIN buffers[s] : buffers[s][i].gen # gen'[s]
      <3>1. \A i \in DOMAIN buffers[s] : buffers[s][i].gen \in Nat /\ buffers[s][i].gen <= gen[s]
        BY LineIs, ElementOfSeq, LenProperties DEF OutputInv, OutputType, UnbornIsSilent
      <3> QED
        BY <1>2, <1>3, <3>1
    <2>2. left'.slot = s
      BY <1>1
    <2> QED
      BY <1>1, <2>1, <2>2 DEF MarkerComesFirst
  <1>9. ChannelIsUnbroken'
    <2>1. \A r \in Reader : Sent(r)' = Sent(r) /\ Of(r, chan') = Of(r, chan)
      BY <1>1 DEF Sent
    <2>2. ASSUME NEW r \in Reader, r.gen = gen'[r.slot], r.slot = s
          PROVE  pushed[r] = 0 /\ Sent(r) = 0 /\ Of(r, chan) = {}
      <3>1. r.gen > gen[r.slot]
        BY <1>2, <1>3, <2>2, ReaderIs
      <3>2. reader[r].taken = 0 /\ pushed[r] = 0
        BY <3>1 DEF OutputInv, UnbornIsSilent
      <3>3. reader[r].seq = None
        BY <3>2 DEF OutputInv, OutputType
      <3>4. Of(r, chan) = {}
        <4>1. \A i \in DOMAIN chan : chan[i].gen <= gen[chan[i].slot]
          BY DEF OutputInv, UnbornIsSilent
        <4>2. \A i \in Of(r, chan) : i \in DOMAIN chan /\ chan[i].gen = r.gen /\ chan[i].slot = r.slot
          <5>1. \A i \in Of(r, chan) : i \in DOMAIN chan /\ chan[i] \in Line /\ ReaderOf(chan[i]) = r
            BY ElementOfSeq, LenProperties DEF OutputInv, OutputType, Of
          <5> QED
            BY <5>1, LineIs
        <4>3. ~(r.gen <= gen[r.slot])
          BY <3>1, <1>2, ReaderIs
        <4> QED
          BY <4>1, <4>2, <4>3
      <3> QED
        BY <3>2, <3>3, <3>4 DEF Sent
    <2> HIDE DEF Sent
    <2>3. ASSUME NEW r \in Reader, r.gen = gen'[r.slot]
          PROVE  /\ pushed[r] <= Sent(r)
                 /\ \A i \in Of(r, chan) : chan[i].n > pushed[r]
                 /\ \A n \in pushed[r] + 1 .. Sent(r) : \E i \in Of(r, chan) : chan[i].n = n
      <3>1. CASE r.slot = s
        <4>1. pushed[r] = 0 /\ Sent(r) = 0 /\ Of(r, chan) = {}
          BY <2>2, <2>3, <3>1
        <4>2. \A n \in 0 + 1 .. 0 : FALSE
          OBVIOUS
        <4> QED
          BY <4>1, <4>2
      <3>2. CASE r.slot # s
        BY <1>3, <2>3, <3>2, ReaderIs DEF OutputInv, ChannelIsUnbroken
      <3> QED
        BY <3>1, <3>2
    <2>4. \A r \in Reader : /\ \A i, j \in Of(r, chan) : i < j => chan[i].n < chan[j].n
                           /\ \A i \in Of(r, chan) : chan[i].n <= Sent(r)
      BY DEF OutputInv, ChannelIsUnbroken
    <2> QED
      BY <1>1, <2>1, <2>3, <2>4 DEF ChannelIsUnbroken
  <1> QED
    BY <1>5, <1>6, <1>7, <1>8, <1>9 DEF OutputInv

\* A stop touches no buffer and no generation.
LEMMA StopKeeps ==
  ASSUME OutputInv, NumbersAreOwn, NEW s \in Slot, Stop(s)
  PROVE  OutputInv' /\ NumbersAreOwn'
  <1>1. /\ UNCHANGED <<wrote, ended, reader, nextSeq, chan, gen, buffers, pushed>>
        /\ left' = [slot |-> s, lines |-> Block, of |-> "stop"] /\ pc' = "mark"
    BY DEF Stop, pipes
  <1>2. left' \in [slot : Slot, lines : 1 .. Block, of : Marker] /\ left'.of # "restart"
    BY <1>1 DEF Marker
  <1>3. OutputType'
    BY <1>1, <1>2 DEF OutputInv, OutputType
  <1>4. MarkerComesFirst'
    BY <1>2 DEF MarkerComesFirst
  <1>5. UnbornIsSilent' /\ BuffersAreSound' /\ NoStaleLine'
    BY <1>1 DEF OutputInv, UnbornIsSilent, BuffersAreSound, NoStaleLine, Capacity
  <1>6. ChannelIsUnbroken' /\ StreamIsUnbroken'
    BY <1>1 DEF OutputInv, ChannelIsUnbroken, StreamIsUnbroken, Sent, Of
  <1>7. NumbersAreOwn'
    BY <1>1 DEF NumbersAreOwn
  <1> QED
    BY <1>3, <1>4, <1>5, <1>6, <1>7 DEF OutputInv

\* A line of the marker block, with a number of its own.
LEMMA MarkKeeps ==
  ASSUME OutputInv, NumbersAreOwn, Mark
  PROVE  OutputInv' /\ NumbersAreOwn'
  <1> DEFINE s == left.slot
             x == [slot |-> s, gen |-> gen[s], stream |-> left.of,
                   n |-> Block - left.lines + 1, seq |-> nextSeq]
  <1>1. /\ pc = "mark" /\ nextSeq' = nextSeq + 1
        /\ UNCHANGED <<wrote, ended, reader, chan, gen, pushed>>
        /\ buffers' = [buffers EXCEPT ![s] = Push(@, x)]
        /\ left' = [left EXCEPT !.lines = @ - 1]
        /\ pc' = IF left.lines = 1 THEN "drain" ELSE "mark"
    BY DEF Mark, pipes
  <1>2. /\ left \in [slot : Slot, lines : 1 .. Block, of : Marker] /\ s \in Slot
        /\ nextSeq \in Nat \ {0} /\ gen[s] \in Gen
    BY <1>1 DEF OutputInv, OutputType
  <1>3. x \in Line
    <2>1. Block - left.lines + 1 \in Nat
      BY <1>2
    <2> QED
      BY <1>2, <2>1 DEF Line
  <1>4. /\ x.slot = s /\ x.gen = gen[s] /\ x.stream = left.of /\ x.seq = nextSeq
    OBVIOUS
  <1> HIDE DEF s, x
  <1>5. \A q \in Reader : q # ReaderOf(x)
    <2>1. x.stream \in Marker
      BY <1>2, <1>4
    <2> QED
      BY <1>3, <2>1, SentIsNoMarker
  <1>6. PICK d \in {0, 1} : Grown(s, x, d)
    BY <1>1, <1>2, <1>3, PushGrows
  <1>7. left.of = "restart" =>
          \A i \in DOMAIN buffers[s] : buffers[s][i].gen = gen[s] => buffers[s][i].stream = "restart"
    BY <1>1 DEF OutputInv, MarkerComesFirst, s
  <1>8. /\ BuffersAreSound' /\ NoStaleLine'
        /\ \A t \in Slot : \A i \in DOMAIN buffers'[t] : buffers'[t][i].gen <= gen[t]
    BY <1>1, <1>2, <1>3, <1>4, <1>6, <1>7, GrownIsSound
  <1>9. StreamIsUnbroken'
    BY <1>1, <1>2, <1>3, <1>4, <1>5, <1>6, GrownIsUnbroken
  <1>10. \A t \in Slot : \A i \in DOMAIN buffers[t] : buffers[t][i].seq # x.seq
    BY <1>2, <1>4 DEF NumbersAreOwn
  <1>11. /\ \A t \in Slot : \A i \in DOMAIN buffers'[t] :
              \/ buffers'[t][i] = x
              \/ \E j \in DOMAIN buffers[t] : buffers'[t][i] = buffers[t][j]
         /\ \A t, u \in Slot : \A i \in DOMAIN buffers'[t] : \A j \in DOMAIN buffers'[u] :
              buffers'[t][i].seq = buffers'[u][j].seq => t = u /\ i = j
    BY <1>2, <1>3, <1>6, <1>10, GrownIsOwn
  <1>12. OutputType'
    <2>1. buffers' \in [Slot -> Seq(Line)]
      BY <1>6 DEF Grown
    <2>2. pc' = "mark" => left' \in [slot : Slot, lines : 1 .. Block, of : Marker]
      BY <1>1, <1>2
    <2>3. pc' \in {"drain", "tick", "mark"} /\ nextSeq' \in Nat \ {0}
      BY <1>1, <1>2
    <2> QED
      BY <1>1, <2>1, <2>2, <2>3 DEF OutputInv, OutputType
  <1>13. UnbornIsSilent'
    BY <1>1, <1>8 DEF OutputInv, UnbornIsSilent
  <1>14. MarkerComesFirst'
    <2>1. left'.slot = s /\ left'.of = left.of
      BY <1>1, <1>2 DEF s
    <2>2. left.of = "restart" =>
            \A i \in DOMAIN buffers'[s] : buffers'[s][i].gen = gen[s] => buffers'[s][i].stream = "restart"
      BY <1>2, <1>4, <1>7, <1>11
    <2> QED
      BY <1>1, <2>1, <2>2 DEF MarkerComesFirst
  <1>15. ChannelIsUnbroken'
    BY <1>1 DEF OutputInv, ChannelIsUnbroken, Sent, Of
  <1>16. NumbersAreOwn'
    <2>1. /\ \A q \in Reader : reader[q].seq \in Nat /\ reader[q].seq < nextSeq'
          /\ \A q \in Reader : reader[q].seq # x.seq
          /\ \A q, p \in Reader : q # p /\ reader[q].seq # None => reader[q].seq # reader[p].seq
      BY <1>1, <1>2, <1>4, SMTT(30) DEF NumbersAreOwn, OutputInv, OutputType
    <2>2. \A i \in DOMAIN chan :
            /\ chan[i].seq \in 1 .. nextSeq' - 1 /\ chan[i].seq # x.seq
            /\ \A j \in DOMAIN chan : i # j => chan[i].seq # chan[j].seq
            /\ \A q \in Reader : chan[i].seq # reader[q].seq
      BY <1>1, <1>2, <1>4 DEF NumbersAreOwn
    <2>3. \A t \in Slot : \A i \in DOMAIN buffers'[t] :
            /\ buffers'[t][i].seq \in 1 .. nextSeq' - 1
            /\ \A j \in DOMAIN chan : buffers'[t][i].seq # chan[j].seq
            /\ \A q \in Reader : buffers'[t][i].seq # reader[q].seq
      <3> SUFFICES ASSUME NEW t \in Slot, NEW i \in DOMAIN buffers'[t]
                   PROVE  /\ buffers'[t][i].seq \in 1 .. nextSeq' - 1
                          /\ \A j \in DOMAIN chan : buffers'[t][i].seq # chan[j].seq
                          /\ \A q \in Reader : buffers'[t][i].seq # reader[q].seq
        OBVIOUS
      <3>1. CASE buffers'[t][i] = x
        BY <1>1, <1>2, <1>4, <2>1, <2>2, <3>1
      <3>2. CASE buffers'[t][i] # x
        <4>1. PICK j \in DOMAIN buffers[t] : buffers'[t][i] = buffers[t][j]
          BY <1>11, <3>2
        <4> QED
          BY <1>1, <1>2, <4>1 DEF NumbersAreOwn
      <3> QED
        BY <3>1, <3>2
    <2> QED
      BY <1>1, <1>11, <2>1, <2>2, <2>3 DEF NumbersAreOwn
  <1> QED
    BY <1>8, <1>9, <1>12, <1>13, <1>14, <1>15, <1>16 DEF OutputInv

LEMMA IdleKeeps ==
  ASSUME OutputInv, NumbersAreOwn, DrainDone \/ NothingDue \/ UNCHANGED vars
  PROVE  OutputInv' /\ NumbersAreOwn'
  <1>1. /\ UNCHANGED <<wrote, ended, reader, nextSeq, chan, gen, left, buffers, pushed>>
        /\ pc' \in {"drain", "tick", "mark"} /\ (pc' = "mark" => pc = "mark")
    <2>1. CASE DrainDone
      BY <2>1 DEF DrainDone, pipes
    <2>2. CASE NothingDue
      BY <2>2 DEF NothingDue, pipes
    <2>3. CASE UNCHANGED vars
      BY <2>3 DEF vars, pipes, main, OutputInv, OutputType
    <2> QED
      BY <2>1, <2>2, <2>3
  <1>2. OutputType' /\ UnbornIsSilent' /\ MarkerComesFirst' /\ BuffersAreSound' /\ NoStaleLine'
    BY <1>1 DEF OutputInv, OutputType, UnbornIsSilent, MarkerComesFirst, BuffersAreSound,
                NoStaleLine, Capacity
  <1>3. ChannelIsUnbroken' /\ StreamIsUnbroken'
    BY <1>1 DEF OutputInv, ChannelIsUnbroken, StreamIsUnbroken, Sent, Of
  <1>4. NumbersAreOwn'
    BY <1>1 DEF NumbersAreOwn
  <1> QED
    BY <1>2, <1>3, <1>4 DEF OutputInv

LEMMA OutputStep == OutputInv /\ NumbersAreOwn /\ [Next]_vars => OutputInv' /\ NumbersAreOwn'
  <1> SUFFICES ASSUME OutputInv, NumbersAreOwn, [Next]_vars PROVE OutputInv' /\ NumbersAreOwn'
    OBVIOUS
  <1>1. CASE Processes
    BY <1>1, ProcessKeeps DEF Processes
  <1>2. CASE \E r \in Reader : Reading(r)
    BY <1>2, StampKeeps, SendKeeps DEF Reading
  <1>3. CASE Main
    <2>1. CASE DrainLine
      BY <2>1, DrainLineKeeps
    <2>2. CASE \E s \in Slot : Respawn(s) \/ Stop(s)
      BY <2>2, RespawnKeeps, StopKeeps
    <2>3. CASE Mark
      BY <2>3, MarkKeeps
    <2>4. CASE DrainDone \/ NothingDue
      BY <2>4, IdleKeeps
    <2> QED
      BY <1>3, <2>1, <2>2, <2>3, <2>4 DEF Main
  <1>4. CASE UNCHANGED vars
    BY <1>4, IdleKeeps
  <1> QED
    BY <1>1, <1>2, <1>3, <1>4 DEF Next

LEMMA OutputInvariance == Spec => [](OutputInv /\ NumbersAreOwn)
  BY OutputInit, OutputStep, PTL DEF Spec

\* Late output of a replaced generation is never behind its successor's marker,
\* and that marker stands before all its generation's lines (main.rs
\* drain_events, proc.rs tick, main.rs apply_transition), for any number of slots,
\* restarts and stops.
THEOREM LateOutputIsDropped == Spec => []NoStaleLine
  BY OutputInvariance, PTL DEF OutputInv

\* A ring buffer (buffer.rs push) forgets the oldest lines and nothing else:
\* what it holds of a stream is the unbroken end of what was shown of it.
THEOREM BufferHoldsTheTail == Spec => []StreamIsUnbroken
  BY OutputInvariance, PTL DEF OutputInv

\* A sequence number is given once, whoever asks for it: no two lines in the
\* buffers, on the channel or in the hands of a reader share one (emit and
\* next_seq, one shared counter).
THEOREM NumbersAreGivenOnce == Spec => []NumbersAreOwn
  BY OutputInvariance, PTL

------------------------------------------------------------------------------
(* Induction over numbers, by the least one that fails *)

LEMMA LeastNat ==
  ASSUME NEW S \in SUBSET Nat, S # {}
  PROVE  \E m \in S : \A n \in S : m <= n
  <1>1. \A a, b \in Nat : <<a, b>> \in OpToRel(<, Nat) <=> a < b
    BY Zenon DEF OpToRel
  <1>2. PICK m \in S : \A n \in S : <<n, m>> \notin OpToRel(<, Nat)
    BY NatLessThanWellFounded, WFMin
  <1>3. \A n \in S : n \in Nat /\ m \in Nat /\ ~(n < m)
    BY <1>1, <1>2
  <1> QED
    BY <1>3

LEMMA SetInduction ==
  ASSUME NEW S \in SUBSET Nat, 0 \in S, \A n \in S : n + 1 \in S
  PROVE  \A n \in Nat : n \in S
  <1> SUFFICES ASSUME Nat \ S # {} PROVE FALSE
    OBVIOUS
  <1>1. PICK m \in Nat \ S : \A n \in Nat \ S : m <= n
    <2> HIDE DEF OutputAssumption
    <2>1. Nat \ S \in SUBSET Nat
      OBVIOUS
    <2> QED
      BY <2>1, LeastNat
  <1>2. m # 0 /\ m - 1 \in Nat /\ ~(m <= m - 1) /\ (m - 1) + 1 = m
    OBVIOUS
  <1>3. m - 1 \in S
    BY <1>1, <1>2
  <1> QED
    BY <1>2, <1>3

------------------------------------------------------------------------------
(* The all-view *)

\* The recursion of interleaved() is well-founded, on every state.
LEMMA MergeIs ==
  ASSUME Total(buffers) \in Nat, DOMAIN buffers = Slot
  PROVE  /\ MergeOf(buffers)[0] = [cursor |-> [s \in Slot |-> 0], out |-> <<>>]
         /\ \A k \in 1 .. Total(buffers) :
              MergeOf(buffers)[k] = Merged(buffers, MergeOf(buffers)[k - 1])
  <1> DEFINE base == [cursor |-> [s \in DOMAIN buffers |-> 0], out |-> <<>>]
             Step(m) == Merged(buffers, m)
             Runs(f, n) == f = [k \in 0 .. n |-> IF k = 0 THEN base ELSE Step(f[k - 1])]
             S == {n \in Nat : \E f : Runs(f, n)}
             total == Total(buffers)
             merge == MergeOf(buffers)
  <1>1. merge = CHOOSE f : Runs(f, total)
    BY DEF MergeOf
  <1>2. base = [cursor |-> [s \in Slot |-> 0], out |-> <<>>]
    OBVIOUS
  <1> HIDE DEF base, Step, merge, total
  <1>3. \A n \in Nat : \E f : Runs(f, n)
    <2>1. 0 \in S
      <3> DEFINE f == [k \in 0 .. 0 |-> base]
      <3>1. Runs(f, 0)
        OBVIOUS
      <3> QED
        BY <3>1
    <2>2. ASSUME NEW n \in S PROVE n + 1 \in S
      <3>1. PICK f : Runs(f, n)
        OBVIOUS
      <3> DEFINE g == [k \in 0 .. n + 1 |-> IF k <= n THEN f[k] ELSE Step(f[n])]
      <3>2. \A k \in 0 .. n + 1 : g[k] = IF k = 0 THEN base ELSE Step(g[k - 1])
        <4> SUFFICES ASSUME NEW k \in 0 .. n + 1
                     PROVE  g[k] = IF k = 0 THEN base ELSE Step(g[k - 1])
          OBVIOUS
        <4>1. \A i \in 0 .. n : f[i] = IF i = 0 THEN base ELSE Step(f[i - 1])
          BY <3>1
        <4>2. CASE k = 0
          BY <4>1, <4>2
        <4>3. CASE k # 0
          <5>1. k - 1 \in 0 .. n + 1 /\ k - 1 <= n /\ g[k - 1] = f[k - 1]
            BY <4>3
          <5>2. CASE k <= n
            BY <4>1, <4>3, <5>1, <5>2
          <5>3. CASE k = n + 1
            BY <4>3, <5>1, <5>3
          <5> QED
            BY <5>2, <5>3
        <4> QED
          BY <4>2, <4>3
      <3>3. Runs(g, n + 1)
        BY <3>2
      <3>4. \E h : Runs(h, n + 1)
        <4> HIDE DEF Runs, g
        <4> QED
          BY <3>3
      <3>5. n + 1 \in Nat
        OBVIOUS
      <3> QED
        BY <3>4, <3>5
    <2> HIDE DEF S
    <2>3. S \in SUBSET Nat
      BY DEF S
    <2>4. \A n \in Nat : n \in S
      BY <2>1, <2>2, <2>3, SetInduction
    <2> QED
      BY <2>4 DEF S
  <1>4. Runs(merge, total)
    <2>1. total \in Nat
      BY DEF total
    <2> HIDE DEF Runs
    <2>2. \E f : Runs(f, total)
      BY <1>3, <2>1
    <2> QED
      BY <1>1, <2>2
  <1>5. /\ merge[0] = base
        /\ \A k \in 1 .. total : merge[k] = Step(merge[k - 1])
    <2>1. total \in Nat
      BY DEF total
    <2>2. \A k \in 0 .. total : merge[k] = IF k = 0 THEN base ELSE Step(merge[k - 1])
      BY <1>4
    <2>3. 0 \in 0 .. total /\ \A k \in 1 .. total : k \in 0 .. total /\ k # 0
      BY <2>1
    <2> QED
      BY <2>2, <2>3
  <1> QED
    BY <1>2, <1>5 DEF merge, total, Step

LEMMA SlotsAre == OutputInv => DOMAIN buffers = Slot
  BY DEF OutputInv, OutputType

\* What a merge needs to know of the buffers.
LEMMA BuffersAre ==
  ASSUME OutputInv, NumbersAreOwn
  PROVE  \A s \in Slot :
           /\ buffers[s] \in Seq(Line) /\ Len(buffers[s]) \in Nat /\ Len(buffers[s]) <= Capacity
           /\ DOMAIN buffers[s] = 1 .. Len(buffers[s])
           /\ \A i \in 1 .. Len(buffers[s]) :
                /\ buffers[s][i] \in Line /\ buffers[s][i].slot = s /\ buffers[s][i].seq \in Nat
                /\ \A t \in Slot : \A j \in 1 .. Len(buffers[t]) :
                     buffers[s][i].seq = buffers[t][j].seq => s = t /\ i = j
  <1>1. \A s \in Slot : /\ buffers[s] \in Seq(Line) /\ Len(buffers[s]) \in Nat
                       /\ DOMAIN buffers[s] = 1 .. Len(buffers[s])
                       /\ Len(buffers[s]) <= Capacity
    BY LenProperties DEF OutputInv, OutputType, BuffersAreSound
  <1>2. \A s \in Slot : \A i \in 1 .. Len(buffers[s]) :
          buffers[s][i] \in Line /\ buffers[s][i].slot = s
    BY <1>1, ElementOfSeq DEF OutputInv, BuffersAreSound
  <1>3. \A s \in Slot : \A i \in 1 .. Len(buffers[s]) : buffers[s][i].seq \in Nat
    BY <1>2, LineIs
  <1>4. \A s, t \in Slot : \A i \in 1 .. Len(buffers[s]), j \in 1 .. Len(buffers[t]) :
          buffers[s][i].seq = buffers[t][j].seq => s = t /\ i = j
    BY <1>1 DEF NumbersAreOwn
  <1> QED
    BY <1>1, <1>2, <1>3, <1>4

\* Lines that ascend one by one ascend.
LEMMA AscendingIs ==
  ASSUME NEW b \in Seq(Line), Ascending(b)
  PROVE  \A i, j \in 1 .. Len(b) : i < j => b[i].seq < b[j].seq
  <1>1. Len(b) \in Nat /\ \A i \in 1 .. Len(b) : b[i].seq \in Nat
    BY ElementOfSeq, LineIs, LenProperties
  <1> SUFFICES ASSUME NEW i \in 1 .. Len(b)
               PROVE  \A j \in 1 .. Len(b) : i < j => b[i].seq < b[j].seq
    OBVIOUS
  <1> DEFINE S == {k \in Nat : i + 1 + k <= Len(b) => b[i].seq < b[i + 1 + k].seq}
  <1>2. 0 \in S
    <2> SUFFICES ASSUME i + 1 <= Len(b) PROVE b[i].seq < b[i + 1].seq
      OBVIOUS
    <2>1. i + 1 \in 2 .. Len(b) /\ (i + 1) - 1 = i
      BY <1>1
    <2> QED
      BY <2>1 DEF Ascending
  <1>3. ASSUME NEW k \in S PROVE k + 1 \in S
    <2> SUFFICES ASSUME i + 1 + (k + 1) <= Len(b) PROVE b[i].seq < b[i + 1 + (k + 1)].seq
      OBVIOUS
    <2>1. /\ i + 1 + (k + 1) \in 2 .. Len(b) /\ (i + 1 + (k + 1)) - 1 = i + 1 + k
          /\ i + 1 + k \in 1 .. Len(b) /\ i + 1 + (k + 1) \in 1 .. Len(b)
      BY <1>1
    <2>2. b[i + 1 + k].seq < b[i + 1 + (k + 1)].seq
      BY <2>1 DEF Ascending
    <2>3. b[i].seq < b[i + 1 + k].seq
      BY <2>1
    <2> QED
      BY <1>1, <2>1, <2>2, <2>3
  <1> HIDE DEF S
  <1>4. S \in SUBSET Nat
    BY DEF S
  <1>5. \A k \in Nat : k \in S
    BY <1>2, <1>3, <1>4, SetInduction
  <1> SUFFICES ASSUME NEW j \in 1 .. Len(b), i < j PROVE b[i].seq < b[j].seq
    OBVIOUS
  <1>6. j - (i + 1) \in Nat /\ i + 1 + (j - (i + 1)) = j /\ j <= Len(b)
    BY <1>1
  <1> QED
    BY <1>5, <1>6 DEF S

\* The next line is the open one with the smallest number.
LEMMA BestIs ==
  ASSUME OutputInv, NumbersAreOwn,
         NEW c \in [Slot -> Nat], Open(buffers, c) # {}
  PROVE  /\ Best(buffers, c) \in Open(buffers, c)
         /\ \A t \in Open(buffers, c) : buffers[Best(buffers, c)][c[Best(buffers, c)] + 1].seq <= buffers[t][c[t] + 1].seq
  <1> DEFINE next(s) == buffers[s][c[s] + 1].seq
             P(s) == \A t \in Open(buffers, c) : next(s) < next(t) \/ (next(s) = next(t) /\ s <= t)
  <1>1. \A s \in Open(buffers, c) : s \in Slot /\ c[s] + 1 \in 1 .. Len(buffers[s]) /\ next(s) \in Nat
    BY BuffersAre, SlotsAre DEF Open
  <1> HIDE DEF next
  <1>2. PICK s \in Open(buffers, c) : \A t \in Open(buffers, c) : next(s) <= next(t)
    <2> DEFINE S == {next(s) : s \in Open(buffers, c)}
    <2>1. S \in SUBSET Nat /\ S # {}
      BY <1>1
    <2> HIDE DEF S
    <2>2. PICK m \in S : \A n \in S : m <= n
      BY <2>1, LeastNat
    <2> QED
      BY <2>2 DEF S
  <1>3. \A t \in Open(buffers, c) : next(t) = next(s) => t = s
    BY <1>1, BuffersAre, SMTT(30) DEF next
  <1>4. P(s)
    <2> SUFFICES ASSUME NEW t \in Open(buffers, c) PROVE next(s) < next(t) \/ (next(s) = next(t) /\ s <= t)
      OBVIOUS
    <2>1. next(s) \in Nat /\ next(t) \in Nat /\ next(s) <= next(t)
      BY <1>1, <1>2
    <2>2. s \in Nat
      BY <1>1 DEF Slot
    <2> QED
      BY <1>3, <2>1, <2>2
  <1>5. Best(buffers, c) = CHOOSE u \in Open(buffers, c) : P(u)
    BY DEF Best, Open, next
  <1>6. Best(buffers, c) \in Open(buffers, c) /\ P(Best(buffers, c))
    <2> HIDE DEF P
    <2> QED
      BY <1>2, <1>4, <1>5
  <1>7. \A t \in Open(buffers, c) : next(Best(buffers, c)) <= next(t)
    <2> HIDE DEF Best
    <2> QED
      BY <1>1, <1>6, SMTT(30)
  <1> QED
    BY <1>6, <1>7 DEF next

\* The lines before the cursor, and the line after it.
Taken(c) == {p \in Slot \X (1 .. Capacity) : p[2] <= c[p[1]]}

\* k lines into the merge.
MergedTo(m, k) ==
  /\ m.cursor \in [Slot -> Nat] /\ \A s \in Slot : m.cursor[s] <= Len(buffers[s])
  /\ m.out \in Seq(Line) /\ Len(m.out) = k
  /\ Cardinality(Taken(m.cursor)) = k
  /\ \A i \in 1 .. k : m.out[i] = buffers[m.out[i].slot][Rank(m.out, i)]
  /\ \A s \in Slot : Cardinality({i \in 1 .. k : m.out[i].slot = s}) = m.cursor[s]
  /\ (\A s \in Slot : Ascending(buffers[s])) =>
       /\ Ascending(m.out)
       /\ k > 0 => \A s \in Slot : \A j \in 1 .. Len(buffers[s]) :
                     m.cursor[s] < j => m.out[k].seq < buffers[s][j].seq

LEMMA TakenIsFinite ==
  /\ \A c : IsFiniteSet(Taken(c))
  /\ OutputInv /\ NumbersAreOwn =>
       /\ IsFiniteSet(Held(buffers)) /\ Total(buffers) \in Nat
       /\ Held(buffers) = {p \in Slot \X (1 .. Capacity) : p[2] <= Len(buffers[p[1]])}
  <1>1. Capacity \in Nat
    BY DEF Capacity
  <1>2. IsFiniteSet(Slot) /\ IsFiniteSet(1 .. Capacity)
    BY <1>1, FS_Interval DEF Slot
  <1>3. IsFiniteSet(Slot \X (1 .. Capacity))
    BY <1>2, FS_Product
  <1>4. \A c : IsFiniteSet(Taken(c))
    <2>1. \A c : Taken(c) \in SUBSET (Slot \X (1 .. Capacity))
      BY DEF Taken
    <2> QED
      BY <1>3, <2>1, FS_Subset
  <1>5. ASSUME OutputInv, NumbersAreOwn
        PROVE  /\ IsFiniteSet(Held(buffers)) /\ Total(buffers) \in Nat
               /\ Held(buffers) = {p \in Slot \X (1 .. Capacity) : p[2] <= Len(buffers[p[1]])}
    <2>1. \A s \in Slot : /\ DOMAIN buffers[s] = 1 .. Len(buffers[s]) /\ Len(buffers[s]) \in Nat
                         /\ Len(buffers[s]) <= Capacity
      BY <1>5, BuffersAre
    <2>2. \A s \in Slot : \A j \in DOMAIN buffers[s] : j \in 1 .. Capacity /\ j <= Len(buffers[s])
      BY <1>1, <2>1
    <2>3. \A s \in Slot : \A j \in 1 .. Capacity : j <= Len(buffers[s]) => j \in DOMAIN buffers[s]
      BY <1>1, <2>1
    <2>4. \A p : p \in Held(buffers) <=> \E s \in Slot : \E j \in DOMAIN buffers[s] : p = <<s, j>>
      <3>1. Held(buffers) = UNION {{s} \X DOMAIN buffers[s] : s \in DOMAIN buffers}
        BY DEF Held
      <3>2. DOMAIN buffers = Slot
        BY <1>5, SlotsAre
      <3> HIDE DEF Held
      <3> QED
        BY <3>1, <3>2
    <2>5. Held(buffers) = {p \in Slot \X (1 .. Capacity) : p[2] <= Len(buffers[p[1]])}
      <3>1. \A p \in Held(buffers) : p \in Slot \X (1 .. Capacity) /\ p[2] <= Len(buffers[p[1]])
        BY <2>2, <2>4
      <3>2. \A p \in Slot \X (1 .. Capacity) : p[2] <= Len(buffers[p[1]]) => p \in Held(buffers)
        <4> SUFFICES ASSUME NEW t \in Slot, NEW j \in 1 .. Capacity, j <= Len(buffers[t])
                     PROVE  <<t, j>> \in Held(buffers)
          OBVIOUS
        <4> QED
          BY <2>3, <2>4
      <3> QED
        BY <3>1, <3>2
    <2>6. IsFiniteSet(Held(buffers))
      <3>1. Held(buffers) \in SUBSET (Slot \X (1 .. Capacity))
        BY <2>5
      <3> QED
        BY <1>3, <3>1, FS_Subset
    <2> QED
      BY <2>5, <2>6, FS_CardinalityType DEF Total
  <1> QED
    BY <1>4, <1>5

\* As long as not all is taken a buffer is open.
LEMMA SomethingIsOpen ==
  ASSUME OutputInv, NumbersAreOwn, NEW m, NEW k \in Nat, MergedTo(m, k)
  PROVE  /\ k <= Total(buffers)
         /\ k = Total(buffers) => \A s \in Slot : m.cursor[s] = Len(buffers[s])
         /\ k # Total(buffers) => Open(buffers, m.cursor) # {}
  <1>1. /\ m.cursor \in [Slot -> Nat] /\ \A s \in Slot : m.cursor[s] <= Len(buffers[s])
        /\ Cardinality(Taken(m.cursor)) = k
    BY DEF MergedTo
  <1>2. \A s \in Slot : Len(buffers[s]) \in Nat /\ Len(buffers[s]) <= Capacity
    BY BuffersAre
  <1>3. /\ IsFiniteSet(Held(buffers))
        /\ Held(buffers) = {p \in Slot \X (1 .. Capacity) : p[2] <= Len(buffers[p[1]])}
    BY TakenIsFinite
  <1>4. Taken(m.cursor) \in SUBSET Held(buffers)
    <2> SUFFICES ASSUME NEW s \in Slot, NEW j \in 1 .. Capacity, j <= m.cursor[s]
                 PROVE  j <= Len(buffers[s])
      BY <1>3 DEF Taken
    <2>1. m.cursor[s] \in Nat /\ m.cursor[s] <= Len(buffers[s]) /\ Len(buffers[s]) \in Nat
      BY <1>1, <1>2
    <2> QED
      BY <2>1
  <1>5. k <= Total(buffers) /\ (k = Total(buffers) => Held(buffers) = Taken(m.cursor))
    BY <1>1, <1>3, <1>4, FS_Subset DEF Total
  <1>6. ASSUME Held(buffers) = Taken(m.cursor), NEW s \in Slot
        PROVE  m.cursor[s] = Len(buffers[s])
    <2>1. m.cursor[s] \in Nat /\ m.cursor[s] <= Len(buffers[s])
          /\ Len(buffers[s]) \in Nat /\ Len(buffers[s]) <= Capacity /\ Capacity \in Nat
      BY <1>1, <1>2 DEF Capacity
    <2>2. CASE Len(buffers[s]) = 0
      BY <2>1, <2>2
    <2>3. CASE Len(buffers[s]) # 0
      <3>1. Len(buffers[s]) \in 1 .. Capacity
        BY <2>1, <2>3
      <3>2. <<s, Len(buffers[s])>> \in Held(buffers)
        BY <1>3, <2>1, <3>1
      <3>3. Len(buffers[s]) <= m.cursor[s]
        BY <1>6, <3>2 DEF Taken
      <3> QED
        BY <2>1, <3>3
    <2> QED
      BY <2>2, <2>3
  <1>7. ASSUME Open(buffers, m.cursor) = {} PROVE k = Total(buffers)
    <2>1. \A s \in Slot : m.cursor[s] = Len(buffers[s])
      <3>1. \A s \in Slot : ~(m.cursor[s] < Len(buffers[s]))
        BY <1>7, SlotsAre DEF Open
      <3> QED
        BY <1>1, <1>2, <3>1
    <2>2. Taken(m.cursor) = Held(buffers)
      BY <1>3, <2>1 DEF Taken
    <2> QED
      BY <1>1, <2>2 DEF Total
  <1> QED
    BY <1>5, <1>6, <1>7

LEMMA MergeStep ==
  ASSUME OutputInv, NumbersAreOwn, NEW m, NEW k \in Nat, MergedTo(m, k), k # Total(buffers)
  PROVE  MergedTo(Merged(buffers, m), k + 1)
  <1> DEFINE c == m.cursor
             out == m.out
             s == Best(buffers, c)
             at == c[s] + 1
             x == buffers[s][at]
             d == [c EXCEPT ![s] = @ + 1]
             new == Append(out, x)
  <1>1. /\ c \in [Slot -> Nat] /\ \A t \in Slot : c[t] <= Len(buffers[t])
        /\ out \in Seq(Line) /\ Len(out) = k
        /\ Cardinality(Taken(c)) = k
        /\ \A i \in 1 .. k : out[i] = buffers[out[i].slot][Rank(out, i)]
        /\ \A t \in Slot : Cardinality({i \in 1 .. k : out[i].slot = t}) = c[t]
        /\ (\A t \in Slot : Ascending(buffers[t])) =>
             /\ Ascending(out)
             /\ k > 0 => \A t \in Slot : \A j \in 1 .. Len(buffers[t]) :
                           c[t] < j => out[k].seq < buffers[t][j].seq
    BY DEF MergedTo
  <1>2. Open(buffers, c) # {}
    BY SomethingIsOpen
  <1>3. Merged(buffers, m).cursor = d /\ Merged(buffers, m).out = new
    BY <1>2 DEF Merged
  <1>4. s \in Open(buffers, c) /\ \A t \in Open(buffers, c) : x.seq <= buffers[t][c[t] + 1].seq
    BY <1>1, <1>2, BestIs
  <1> HIDE DEF s
  <1>5. s \in Slot /\ c[s] < Len(buffers[s]) /\ c[s] \in Nat /\ at = c[s] + 1
    BY <1>1, <1>4, SlotsAre DEF Open
  <1>6. /\ at \in Nat /\ at \in 1 .. Len(buffers[s]) /\ at \in 1 .. Capacity /\ Len(buffers[s]) \in Nat
        /\ x \in Line /\ x.slot = s /\ x.seq \in Nat
    <2>1. Capacity \in Nat
      BY DEF Capacity
    <2>2. at \in 1 .. Len(buffers[s]) /\ at \in 1 .. Capacity
      BY <1>5, <2>1, BuffersAre
    <2> QED
      BY <1>5, <2>2, BuffersAre
  <1> HIDE DEF x, at
  <1>7. /\ d \in [Slot -> Nat] /\ d[s] = at /\ \A t \in Slot \ {s} : d[t] = c[t]
    BY <1>1, <1>5
  <1>8. /\ new \in Seq(Line) /\ Len(new) = k + 1 /\ new[k + 1] = x
        /\ \A i \in 1 .. k : new[i] = out[i]
    BY <1>1, <1>6, AppendProperties
  <1>9. \A i \in 1 .. k : out[i] \in Line /\ out[i].seq \in Nat /\ out[i].slot \in Slot
    BY <1>1, LineIs, ElementOfSeq
  <1> HIDE DEF c, out, d, new
  <1>10. \A t \in Slot : d[t] <= Len(buffers[t])
    BY <1>1, <1>6, <1>7, SMTT(30)
  <1>11. Cardinality(Taken(d)) = k + 1
    <2>1. Taken(d) = Taken(c) \cup {<<s, at>>}
      <3>1. \A t \in Slot : \A j \in 1 .. Capacity : j <= d[t] <=> (j <= c[t] \/ (t = s /\ j = at))
        BY <1>1, <1>5, <1>7
      <3> QED
        BY <1>5, <1>6, <3>1 DEF Taken
    <2>2. <<s, at>> \notin Taken(c)
      BY <1>5 DEF Taken
    <2>3. IsFiniteSet(Taken(c))
      BY TakenIsFinite
    <2>4. Cardinality(Taken(c) \cup {<<s, at>>}) = Cardinality(Taken(c)) + 1
      BY <2>2, <2>3, FS_AddElement
    <2> QED
      BY <1>1, <2>1, <2>4
  <1>12. \A t \in Slot : {i \in 1 .. k + 1 : new[i].slot = t} =
           {i \in 1 .. k : out[i].slot = t} \cup (IF t = s THEN {k + 1} ELSE {})
    BY <1>6, <1>8
  <1>13. \A t \in Slot : Cardinality({i \in 1 .. k + 1 : new[i].slot = t}) = d[t]
    <2> SUFFICES ASSUME NEW t \in Slot
                 PROVE  Cardinality({i \in 1 .. k + 1 : new[i].slot = t}) = d[t]
      OBVIOUS
    <2> DEFINE mine == {i \in 1 .. k : out[i].slot = t}
    <2>1. IsFiniteSet(mine)
      <3>1. IsFiniteSet(1 .. k) /\ mine \in SUBSET (1 .. k)
        BY FS_Interval
      <3> QED
        BY <3>1, FS_Subset
    <2>2. Cardinality(mine) = c[t] /\ k + 1 \notin mine
      BY <1>1
    <2>3. {i \in 1 .. k + 1 : new[i].slot = t} = mine \cup (IF t = s THEN {k + 1} ELSE {})
      BY <1>12
    <2> HIDE DEF mine
    <2>4. CASE t = s
      <3>1. Cardinality(mine \cup {k + 1}) = Cardinality(mine) + 1
        BY <2>1, <2>2, FS_AddElement
      <3> QED
        BY <1>5, <1>7, <2>2, <2>3, <2>4, <3>1
    <2>5. CASE t # s
      BY <1>7, <2>2, <2>3, <2>5
    <2> QED
      BY <2>4, <2>5
  <1>14. \A i \in 1 .. k + 1 : new[i] = buffers[new[i].slot][Rank(new, i)]
    <2> SUFFICES ASSUME NEW i \in 1 .. k + 1
                 PROVE  new[i] = buffers[new[i].slot][Rank(new, i)]
      OBVIOUS
    <2>1. CASE i = k + 1
      <3>1. Rank(new, i) = d[s]
        BY <1>5, <1>6, <1>8, <1>13, <2>1 DEF Rank
      <3> QED
        BY <1>6, <1>7, <1>8, <2>1, <3>1 DEF x
    <2>2. CASE i # k + 1
      <3>1. i \in 1 .. k /\ \A j \in 1 .. i : j \in 1 .. k
        BY <2>2
      <3>2. {j \in 1 .. i : new[j].slot = new[i].slot} = {j \in 1 .. i : out[j].slot = out[i].slot}
        BY <1>8, <3>1
      <3>3. Rank(new, i) = Rank(out, i)
        BY <3>2 DEF Rank
      <3> QED
        BY <1>1, <1>8, <3>1, <3>3
    <2> QED
      BY <2>1, <2>2
  <1>15. ASSUME \A t \in Slot : Ascending(buffers[t])
         PROVE  /\ Ascending(new)
                /\ \A t \in Slot : \A j \in 1 .. Len(buffers[t]) : d[t] < j => x.seq < buffers[t][j].seq
    <2>1. k > 0 => out[k].seq < x.seq
      BY <1>1, <1>5, <1>6, <1>15 DEF x
    <2>2. \A i \in 2 .. Len(new) : new[i - 1].seq < new[i].seq
      <3> SUFFICES ASSUME NEW i \in 2 .. k + 1 PROVE new[i - 1].seq < new[i].seq
        BY <1>8
      <3>1. i - 1 \in 1 .. k
        OBVIOUS
      <3>2. CASE i = k + 1
        BY <1>8, <2>1, <3>1, <3>2
      <3>3. CASE i # k + 1
        <4>1. i \in 1 .. k /\ i \in 2 .. Len(out)
          BY <1>1, <3>3
        <4> QED
          BY <1>1, <1>8, <1>15, <3>1, <4>1 DEF Ascending
      <3> QED
        BY <3>2, <3>3
    <2>3. ASSUME NEW t \in Slot, NEW j \in 1 .. Len(buffers[t]), d[t] < j
          PROVE  x.seq < buffers[t][j].seq
      <3>1. /\ buffers[t] \in Seq(Line) /\ Len(buffers[t]) \in Nat /\ buffers[t][j].seq \in Nat
            /\ \A i \in 1 .. Len(buffers[t]) : i < j => buffers[t][i].seq < buffers[t][j].seq
        BY <1>15, BuffersAre, AscendingIs
      <3>2. CASE t = s
        <4>1. at \in 1 .. Len(buffers[t]) /\ at < j
          BY <1>6, <1>7, <2>3, <3>2
        <4> QED
          BY <3>1, <3>2, <4>1 DEF x
      <3>3. CASE t # s
        <4>1. c[t] \in Nat /\ c[t] < j /\ c[t] + 1 \in 1 .. Len(buffers[t])
          BY <1>1, <1>7, <2>3, <3>1, <3>3
        <4>2. t \in Open(buffers, c)
          BY <3>1, <4>1, SlotsAre DEF Open
        <4>3. x.seq <= buffers[t][c[t] + 1].seq
          BY <1>4, <4>2 DEF x
        <4>4. x.seq # buffers[t][c[t] + 1].seq /\ buffers[t][c[t] + 1].seq \in Nat
          <5>1. \A i \in 1 .. Len(buffers[t]) : buffers[t][i].seq \in Nat
            BY BuffersAre
          <5>2. \A i \in 1 .. Len(buffers[t]) : buffers[s][at].seq = buffers[t][i].seq => s = t
            BY <1>5, <1>6, BuffersAre, SMTT(30)
          <5> QED
            BY <3>3, <4>1, <5>1, <5>2 DEF x
        <4>5. buffers[t][c[t] + 1].seq <= buffers[t][j].seq
          <5>1. c[t] + 1 = j \/ c[t] + 1 < j
            BY <4>1
          <5> QED
            BY <3>1, <4>1, <4>4, <5>1
        <4> QED
          BY <1>6, <3>1, <4>3, <4>4, <4>5
      <3> QED
        BY <3>2, <3>3
    <2> QED
      BY <2>2, <2>3 DEF Ascending
  <1> QED
    BY <1>3, <1>7, <1>8, <1>10, <1>11, <1>13, <1>14, <1>15 DEF MergedTo

LEMMA MergeHolds ==
  ASSUME OutputInv, NumbersAreOwn
  PROVE  \A k \in 0 .. Total(buffers) : MergedTo(MergeOf(buffers)[k], k)
  <1> DEFINE S == {k \in Nat : k <= Total(buffers) => MergedTo(MergeOf(buffers)[k], k)}
  <1>0. /\ Total(buffers) \in Nat
        /\ MergeOf(buffers)[0] = [cursor |-> [s \in Slot |-> 0], out |-> <<>>]
        /\ \A k \in 1 .. Total(buffers) :
             MergeOf(buffers)[k] = Merged(buffers, MergeOf(buffers)[k - 1])
    <2>1. Total(buffers) \in Nat /\ DOMAIN buffers = Slot
      BY TakenIsFinite, SlotsAre
    <2> QED
      BY <2>1, MergeIs
  <1>1. 0 \in S
    <2> DEFINE m == MergeOf(buffers)[0]
    <2>1. m.cursor = [s \in Slot |-> 0] /\ m.out = <<>>
      BY <1>0
    <2> HIDE DEF m
    <2>2. Taken(m.cursor) = {}
      BY <2>1 DEF Taken
    <2>3. \A s \in Slot : {i \in 1 .. 0 : m.out[i].slot = s} = {}
      OBVIOUS
    <2>4. /\ m.out \in Seq(Line) /\ Len(m.out) = 0 /\ Ascending(m.out)
          /\ m.cursor \in [Slot -> Nat]
      BY <2>1 DEF Ascending
    <2>5. \A s \in Slot : m.cursor[s] <= Len(buffers[s])
      BY <2>1, BuffersAre
    <2>6. MergedTo(m, 0)
      <3>1. Cardinality(Taken(m.cursor)) = 0
        BY <2>2, FS_EmptySet
      <3>2. \A s \in Slot : Cardinality({i \in 1 .. 0 : m.out[i].slot = s}) = m.cursor[s]
        <4> SUFFICES ASSUME NEW s \in Slot
                     PROVE  Cardinality({i \in 1 .. 0 : m.out[i].slot = s}) = m.cursor[s]
          OBVIOUS
        <4>1. {i \in 1 .. 0 : m.out[i].slot = s} = {} /\ m.cursor[s] = 0
          BY <2>1, <2>3
        <4> QED
          BY <4>1, FS_EmptySet
      <3>3. \A i \in 1 .. 0 : m.out[i] = buffers[m.out[i].slot][Rank(m.out, i)]
        OBVIOUS
      <3> QED
        BY <2>4, <2>5, <3>1, <3>2, <3>3 DEF MergedTo
    <2> QED
      BY <2>6 DEF m
  <1>2. ASSUME NEW k \in S PROVE k + 1 \in S
    <2>1. Total(buffers) \in Nat
      BY TakenIsFinite
    <2> SUFFICES ASSUME k + 1 <= Total(buffers) PROVE MergedTo(MergeOf(buffers)[k + 1], k + 1)
      OBVIOUS
    <2>2. MergedTo(MergeOf(buffers)[k], k) /\ k # Total(buffers) /\ k \in Nat
      BY <2>1
    <2>3. MergedTo(Merged(buffers, MergeOf(buffers)[k]), k + 1)
      BY <2>2, MergeStep
    <2> QED
      <3>1. k + 1 \in 1 .. Total(buffers) /\ (k + 1) - 1 = k
        BY <2>1, <2>2
      <3> QED
        BY <1>0, <2>3, <3>1
  <1> HIDE DEF S
  <1>3. S \in SUBSET Nat
    BY DEF S
  <1>4. \A k \in Nat : k \in S
    BY <1>1, <1>2, <1>3, SetInduction
  <1> QED
    BY <1>4, TakenIsFinite DEF S

LEMMA ViewHolds ==
  ASSUME OutputInv, NumbersAreOwn
  PROVE  ViewIsComplete
  <1> DEFINE m == MergeOf(buffers)[Total(buffers)]
  <1>1. Total(buffers) \in Nat
    BY TakenIsFinite
  <1>2. MergedTo(m, Total(buffers))
    BY <1>1, MergeHolds
  <1>3. \A s \in Slot : m.cursor[s] = Len(buffers[s])
    BY <1>1, <1>2, SomethingIsOpen
  <1>4. Interleaved(buffers) = m.out
    BY DEF Interleaved
  <1> HIDE DEF m
  <1>5. m.out \in Seq(Line) /\ Len(m.out) = Total(buffers)
    BY <1>2 DEF MergedTo
  <1>6. DOMAIN m.out = 1 .. Total(buffers)
    BY <1>5, LenProperties
  <1>7. /\ \A i \in DOMAIN m.out : m.out[i] = buffers[m.out[i].slot][Rank(m.out, i)]
        /\ \A s \in Slot : Cardinality({i \in DOMAIN m.out : m.out[i].slot = s}) = Len(buffers[s])
        /\ (\A s \in Slot : Ascending(buffers[s])) => Ascending(m.out)
    BY <1>2, <1>3, <1>6 DEF MergedTo
  <1> QED
    BY <1>4, <1>7 DEF ViewIsComplete

\* The all-view (buffer.rs interleaved): every line that is held is shown once,
\* the lines of a slot in their order, and all in the order of arrival when the
\* buffers are, for any number of buffers of any length.
THEOREM AllViewIsComplete == Spec => []ViewIsComplete
  BY OutputInvariance, ViewHolds, PTL

==============================================================================
