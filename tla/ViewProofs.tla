------------------------------ MODULE ViewProofs ------------------------------
(***************************************************************************)
(* The screen, for any number of slots, any output and any terminal: the   *)
(* pane that is shown is the one acted on, wrapping loses nothing, the     *)
(* tail is followed until the user leaves it, and `w` keeps the place.     *)
(***************************************************************************)
EXTENDS View, SequenceTheorems, FiniteSetTheorems, WellFoundedInduction, TLAPS

Views == {All} \cup Proc

------------------------------------------------------------------------------
(* Recursion over a sequence: by induction on numbers, through the least one *)
(* that fails.                                                               *)

LEMMA LeastNat ==
  ASSUME NEW S \in SUBSET Nat, S # {}
  PROVE  \E m \in S : \A n \in S : m <= n
<1>1. \A a, b \in Nat : <<a, b>> \in OpToRel(<, Nat) <=> a < b
  BY Zenon DEF OpToRel
<1>2. PICK m \in S : \A n \in S : <<n, m>> \notin OpToRel(<, Nat)
  BY NatLessThanWellFounded, WFMin
<1>3. \A n \in S : n \in Nat /\ m \in Nat /\ ~(n < m)
  BY <1>1, <1>2
<1> QED
  BY <1>3

\* Up to a bound, a set closed under the next number holds every one.
LEMMA UpTo ==
  ASSUME NEW n \in Nat, NEW S, 0 \in S, \A k \in 1 .. n : k - 1 \in S => k \in S
  PROVE  \A k \in 0 .. n : k \in S
<1> DEFINE F == {k \in 0 .. n : k \notin S}
<1> SUFFICES ASSUME F # {} PROVE FALSE
  OBVIOUS
<1>1. F \in SUBSET Nat
  OBVIOUS
<1>2. PICK m \in F : \A k \in F : m <= k
  <2> HIDE DEF F
  <2> QED
    BY <1>1, LeastNat
<1>3. m \in 1 .. n /\ m - 1 \in 0 .. n /\ ~(m <= m - 1)
  BY <1>2
<1>4. m - 1 \in S
  BY <1>2, <1>3
<1> QED
  BY <1>2, <1>3, <1>4

\* A function may be given by its first value and a step for each number.
Follows(f, base, step, n) == f[0] = base /\ \A k \in 1 .. n : f[k] = step[k][f[k - 1]]

LEMMA Recursion ==
  ASSUME NEW X, NEW n \in Nat, NEW base \in X, NEW step \in [1 .. n -> [X -> X]]
  PROVE  \E f \in [0 .. n -> X] : Follows(f, base, step, n)
<1> DEFINE Runs(f, m) == Follows(f, base, step, m)
           S == {m \in 0 .. n : \E f \in [0 .. m -> X] : Runs(f, m)}
<1>1. 0 \in S
  <2> DEFINE f == [k \in 0 .. 0 |-> base]
  <2>1. f \in [0 .. 0 -> X] /\ Runs(f, 0) /\ 0 \in 0 .. n
    BY DEF Follows
  <2> HIDE DEF f, Runs
  <2> QED
    BY <2>1
<1>2. ASSUME NEW m \in 1 .. n, m - 1 \in S PROVE m \in S
  <2>1. PICK f \in [0 .. m - 1 -> X] : Runs(f, m - 1)
    BY <1>2
  <2> DEFINE g == [k \in 0 .. m |-> IF k = m THEN step[m][f[m - 1]] ELSE f[k]]
  <2>2. m - 1 \in 0 .. m - 1 /\ f[m - 1] \in X
    OBVIOUS
  <2>3. step[m][f[m - 1]] \in X
    BY <2>2
  <2>4. g \in [0 .. m -> X]
    BY <2>3
  <2>5. g[0] = base
    BY <2>1 DEF Follows
  <2>6. ASSUME NEW k \in 1 .. m PROVE g[k] = step[k][g[k - 1]]
    <3>1. k - 1 \in 0 .. m - 1 /\ g[k - 1] = f[k - 1]
      OBVIOUS
    <3>2. CASE k = m
      BY <3>1, <3>2
    <3>3. CASE k # m
      BY <2>1, <3>1, <3>3 DEF Follows
    <3> QED
      BY <3>2, <3>3
  <2>7. Runs(g, m)
    BY <2>5, <2>6 DEF Follows
  <2> HIDE DEF g, Runs
  <2> QED
    BY <2>4, <2>7
<1>3. n \in S
  <2> HIDE DEF S
  <2>1. \A m \in 1 .. n : m - 1 \in S => m \in S
    BY <1>2
  <2>2. \A m \in 0 .. n : m \in S
    BY <1>1, <2>1, UpTo, Zenon
  <2> QED
    BY <2>2
<1> QED
  BY <1>3

\* Two that begin alike and step alike are alike.
StepAlike(f, g, n) ==
  f[0] = g[0] /\ \A k \in 1 .. n : f[k - 1] = g[k - 1] => f[k] = g[k]

AreAlike(f, g, n) == \A k \in 0 .. n : f[k] = g[k]

LEMMA Alike ==
  ASSUME NEW n \in Nat, NEW f, NEW g, StepAlike(f, g, n)
  PROVE  AreAlike(f, g, n)
<1> DEFINE S == {k \in 0 .. n : f[k] = g[k]}
<1>1. 0 \in S /\ \A k \in 1 .. n : k - 1 \in S => k \in S
  BY DEF StepAlike
<1> HIDE DEF S
<1>2. \A k \in 0 .. n : k \in S
  BY <1>1, UpTo
<1> QED
  BY <1>2 DEF S, AreAlike

\* What SumUpTo computes.
LEMMA SumIs ==
  ASSUME NEW counts \in Seq(Nat)
  PROVE  /\ SumUpTo(counts) \in [0 .. Len(counts) -> Nat]
         /\ SumUpTo(counts)[0] = 0
         /\ \A k \in 1 .. Len(counts) :
              SumUpTo(counts)[k] = SumUpTo(counts)[k - 1] + counts[k]
<1> DEFINE n == Len(counts)
           step == [k \in 1 .. n |-> [x \in Nat |-> x + counts[k]]]
           Runs(f) == f = [k \in 0 .. n |-> IF k = 0 THEN 0 ELSE f[k - 1] + counts[k]]
<1>1. n \in Nat /\ \A k \in 1 .. n : counts[k] \in Nat
  OBVIOUS
<1> HIDE DEF n
<1>2. step \in [1 .. n -> [Nat -> Nat]]
  BY <1>1
<1>3. \A k \in 1 .. n : \A x \in Nat : step[k][x] = x + counts[k]
  OBVIOUS
<1> HIDE DEF step
<1>4. PICK f \in [0 .. n -> Nat] : f[0] = 0 /\ \A k \in 1 .. n : f[k] = step[k][f[k - 1]]
  <2>1. n \in Nat /\ 0 \in Nat
    BY <1>1
  <2>2. \E f \in [0 .. n -> Nat] : Follows(f, 0, step, n)
    BY <1>2, <2>1, Recursion
  <2> QED
    BY <2>2 DEF Follows
<1>5. \A k \in 1 .. n : f[k] = f[k - 1] + counts[k]
  <2>1. \A k \in 1 .. n : k - 1 \in 0 .. n
    BY <1>1
  <2>2. \A k \in 1 .. n : f[k - 1] \in Nat
    BY <2>1
  <2> QED
    BY <1>3, <1>4, <2>2
<1>6. Runs(f)
  <2>1. f = [k \in 0 .. n |-> f[k]]
    OBVIOUS
  <2>2. \A k \in 0 .. n : f[k] = IF k = 0 THEN 0 ELSE f[k - 1] + counts[k]
    BY <1>4, <1>5
  <2> QED
    BY <2>1, <2>2
<1> DEFINE sum == SumUpTo(counts)
<1>7. sum = CHOOSE g : Runs(g)
  BY DEF SumUpTo, n
<1> HIDE DEF sum
<1>8. Runs(sum)
  <2> HIDE DEF Runs
  <2> QED
    BY <1>6, <1>7
<1>9. /\ sum[0] = 0
      /\ \A k \in 1 .. n : sum[k] = sum[k - 1] + counts[k]
  BY <1>1, <1>8
<1>10. \A k \in 0 .. n : sum[k] = f[k]
  <2>1. \A k \in 1 .. n : sum[k - 1] = f[k - 1] => sum[k] = f[k]
    BY <1>5, <1>9
  <2>2. sum[0] = f[0] /\ n \in Nat
    BY <1>1, <1>4, <1>9
  <2> HIDE DEF Runs
  <2>3. AreAlike(sum, f, n)
    BY <2>1, <2>2, Alike DEF StepAlike
  <2> QED
    BY <2>3 DEF AreAlike
<1>11. sum \in [0 .. n -> Nat]
  <2>1. sum = [k \in 0 .. n |-> sum[k]]
    BY <1>8
  <2> HIDE DEF Runs
  <2> QED
    BY <1>10, <2>1
<1> QED
  BY <1>9, <1>11 DEF sum, n

------------------------------------------------------------------------------
(* Wrapping *)

Row == [start : Nat, col : Nat, cells : Seq(Nat)]

\* The graphemes that have a width.
Inked(cells) == {j \in DOMAIN cells : cells[j] # 0}

\* ui.rs `grapheme_width`: a tab goes to the next stop; only a grapheme that is not
\* there has no width.
LEMMA WidthIs ==
  ASSUME NEW g \in Nat, NEW col \in Nat
  PROVE  /\ GraphemeWidth(g, col) \in Nat
         /\ GraphemeWidth(g, col) = 0 <=> g = 0
         /\ g = Tab => col + GraphemeWidth(g, col) = ((col \div 8) + 1) * 8
         /\ g # Tab => GraphemeWidth(g, col) = g
<1>1. /\ col % 8 \in 0 .. 7 /\ col \div 8 \in Nat
      /\ col = 8 * (col \div 8) + (col % 8)
  OBVIOUS
<1> DEFINE d == col \div 8
           m == col % 8
<1> HIDE DEF d, m
<1>2. m \in 0 .. 7 /\ d \in Nat /\ col = 8 * d + m
  BY <1>1 DEF d, m
<1>3. col + (8 - m) = (d + 1) * 8 /\ 8 - m \in Nat \ {0}
  BY <1>2
<1>4. g = Tab => GraphemeWidth(g, col) = 8 - m
  BY DEF GraphemeWidth, TAB_STOP, m
<1>5. g # Tab => GraphemeWidth(g, col) = g
  BY DEF GraphemeWidth
<1> QED
  BY <1>3, <1>4, <1>5 DEF Tab, d

LEMMA LimitIs ==
  ASSUME NEW prefix \in Nat, NEW width \in Nat
  PROVE  /\ Indent(prefix, width) \in Nat /\ Limit(prefix, width) \in Nat
         /\ Indent(prefix, width) < Limit(prefix, width)
  BY DEF Indent, Limit, Larger

LEMMA PutIs ==
  ASSUME NEW row \in Row, NEW g \in Nat
  PROVE  /\ Put(row, g) \in Row
         /\ Put(row, g).start = row.start
         /\ Put(row, g).col = row.col + GraphemeWidth(g, row.col)
         /\ Put(row, g).cells = Append(row.cells, g)
         /\ Len(Put(row, g).cells) = Len(row.cells) + 1
         /\ \A j \in 1 .. Len(row.cells) : Put(row, g).cells[j] = row.cells[j]
         /\ Put(row, g).cells[Len(row.cells) + 1] = g
<1>1. /\ row.start \in Nat /\ row.col \in Nat /\ row.cells \in Seq(Nat)
      /\ row = [start |-> row.start, col |-> row.col, cells |-> row.cells]
  BY DEF Row
<1>2. GraphemeWidth(g, row.col) \in Nat
  BY <1>1, WidthIs
<1>3. Put(row, g) = [start |-> row.start, col |-> row.col + GraphemeWidth(g, row.col),
                     cells |-> Append(row.cells, g)]
  <2> DEFINE a == row.start
             b == row.col
             c == row.cells
             w == GraphemeWidth(g, b)
             d == Append(c, g)
  <2>1. Put(row, g) = [row EXCEPT !.cells = d, !.col = b + w]
    BY DEF Put
  <2>2. row = [start |-> a, col |-> b, cells |-> c]
    BY <1>1
  <2> HIDE DEF a, b, c, w, d
  <2>3. Put(row, g) = [start |-> a, col |-> b + w, cells |-> d]
    BY <2>1, <2>2
  <2> QED
    BY <2>3 DEF a, b, c, w, d
<1>4. /\ Append(row.cells, g) \in Seq(Nat)
      /\ Len(Append(row.cells, g)) = Len(row.cells) + 1
      /\ \A j \in 1 .. Len(row.cells) : Append(row.cells, g)[j] = row.cells[j]
      /\ Append(row.cells, g)[Len(row.cells) + 1] = g
  BY <1>1, AppendProperties
<1>5. Put(row, g) \in Row
  BY <1>1, <1>2, <1>3, <1>4 DEF Row
<1> HIDE DEF Row
<1> QED
  BY <1>3, <1>4, <1>5

LEMMA NewRowIs ==
  ASSUME NEW start \in Nat
  PROVE  NewRow(start) \in Row
  BY EmptySeq DEF NewRow, Row

\* What Cursor computes.
LEMMA CursorIs ==
  ASSUME NEW row \in Row
  PROVE  /\ Cursor(row)[0] = row.start
         /\ \A k \in 1 .. Len(row.cells) :
              Cursor(row)[k] = IF row.cells[k] = Tab THEN ((Cursor(row)[k - 1] \div 8) + 1) * 8
                               ELSE Cursor(row)[k - 1] + row.cells[k]
<1> DEFINE n == Len(row.cells)
           moved(x, g) == IF g = Tab THEN ((x \div 8) + 1) * 8 ELSE x + g
           step == [k \in 1 .. n |-> [x \in Nat |-> moved(x, row.cells[k])]]
           Runs(f) == f = [k \in 0 .. n |-> IF k = 0 THEN row.start
                                            ELSE IF row.cells[k] = Tab
                                            THEN ((f[k - 1] \div 8) + 1) * 8
                                            ELSE f[k - 1] + row.cells[k]]
<1>1. n \in Nat /\ row.start \in Nat /\ \A k \in 1 .. n : row.cells[k] \in Nat
  BY DEF Row
<1> HIDE DEF n
<1>2. \A x, g \in Nat : moved(x, g) \in Nat
  OBVIOUS
<1>3. step \in [1 .. n -> [Nat -> Nat]]
  <2> HIDE DEF moved
  <2> QED
    BY <1>1, <1>2
<1>4. \A k \in 1 .. n : \A x \in Nat : step[k][x] = moved(x, row.cells[k])
  <2> HIDE DEF moved
  <2> QED
    OBVIOUS
<1> HIDE DEF step
<1>5. PICK f \in [0 .. n -> Nat] : f[0] = row.start /\ \A k \in 1 .. n : f[k] = step[k][f[k - 1]]
  <2>1. n \in Nat /\ row.start \in Nat
    BY <1>1
  <2>2. \E f \in [0 .. n -> Nat] : Follows(f, row.start, step, n)
    BY <1>3, <2>1, Recursion
  <2> QED
    BY <2>2 DEF Follows
<1>6. \A k \in 1 .. n : f[k] = moved(f[k - 1], row.cells[k])
  <2>1. \A k \in 1 .. n : k - 1 \in 0 .. n
    BY <1>1
  <2>2. \A k \in 1 .. n : f[k - 1] \in Nat
    BY <2>1
  <2> HIDE DEF moved
  <2> QED
    BY <1>4, <1>5, <2>2
<1>7. Runs(f)
  <2>1. f = [k \in 0 .. n |-> f[k]]
    OBVIOUS
  <2>2. \A k \in 0 .. n : f[k] = IF k = 0 THEN row.start ELSE moved(f[k - 1], row.cells[k])
    <3> HIDE DEF moved
    <3> QED
      BY <1>5, <1>6
  <2> QED
    BY <2>1, <2>2
<1> DEFINE cursor == Cursor(row)
<1>8. cursor = CHOOSE g : Runs(g)
  BY DEF Cursor, n
<1> HIDE DEF cursor
<1>9. Runs(cursor)
  <2> HIDE DEF Runs
  <2> QED
    BY <1>7, <1>8
<1>10. \A k \in 0 .. n : cursor[k] = IF k = 0 THEN row.start
                                     ELSE IF row.cells[k] = Tab
                                     THEN ((cursor[k - 1] \div 8) + 1) * 8
                                     ELSE cursor[k - 1] + row.cells[k]
  BY <1>9
<1> QED
  BY <1>1, <1>10 DEF cursor, n

\* A row with its content: the column after it is where the cursor is, and past the
\* edge only when the row holds a single grapheme with a width.
RowIsSound(row, limit) ==
  /\ row.start < limit /\ row.start <= row.col
  /\ row.col = row.start => \A j \in DOMAIN row.cells : row.cells[j] = 0
  /\ Cursor(row)[Len(row.cells)] = row.col
  /\ row.col <= limit \/ Cardinality(Inked(row.cells)) = 1

LEMMA NewRowIsSound ==
  ASSUME NEW prefix \in Nat, NEW width \in Nat, NEW start \in Nat, start < Limit(prefix, width),
         NEW g \in Nat
  PROVE  /\ RowIsSound(NewRow(start), Limit(prefix, width))
         /\ ~Breaks(NewRow(start), g, prefix, width)
<1>1. /\ NewRow(start).start = start /\ NewRow(start).col = start
      /\ NewRow(start).cells = <<>> /\ Len(<<>>) = 0 /\ DOMAIN <<>> = {}
  BY EmptySeq DEF NewRow
<1>2. Cursor(NewRow(start))[0] = start
  BY <1>1, NewRowIs, CursorIs
<1>3. start <= Limit(prefix, width) /\ ~(start > start)
  BY LimitIs
<1>4. RowIsSound(NewRow(start), Limit(prefix, width))
  <2> HIDE DEF NewRow
  <2> QED
    BY <1>1, <1>2, <1>3 DEF RowIsSound
<1> QED
  BY <1>1, <1>3, <1>4 DEF Breaks

LEMMA PutIsSound ==
  ASSUME NEW row \in Row, NEW g \in Nat, NEW prefix \in Nat, NEW width \in Nat,
         RowIsSound(row, Limit(prefix, width)), ~Breaks(row, g, prefix, width)
  PROVE  RowIsSound(Put(row, g), Limit(prefix, width))
<1> DEFINE put == Put(row, g)
           limit == Limit(prefix, width)
           w == GraphemeWidth(g, row.col)
           n == Len(row.cells)
<1>1. /\ row.start \in Nat /\ row.col \in Nat /\ row.cells \in Seq(Nat) /\ n \in Nat
      /\ DOMAIN row.cells = 1 .. n
  BY DEF Row
<1>2. w \in Nat /\ (w = 0 <=> g = 0) /\ limit \in Nat
  BY <1>1, WidthIs, LimitIs
<1>3. /\ put \in Row /\ put.start = row.start /\ put.col = row.col + w
      /\ Len(put.cells) = n + 1 /\ put.cells[n + 1] = g
      /\ \A j \in 1 .. n : put.cells[j] = row.cells[j]
  BY PutIs
<1>4. put.cells \in Seq(Nat) /\ DOMAIN put.cells = 1 .. n + 1
  <2>1. put.cells \in Seq(Nat)
    BY <1>3 DEF Row
  <2> QED
    BY <1>3, <2>1, LenProperties
<1>5. /\ row.start < limit /\ row.start <= row.col
      /\ row.col = row.start => \A j \in 1 .. n : row.cells[j] = 0
      /\ Cursor(row)[n] = row.col
      /\ row.col <= limit \/ Cardinality(Inked(row.cells)) = 1
  BY <1>1 DEF RowIsSound
<1>6. row.col > row.start => row.col + w <= limit
  BY <1>1, <1>2 DEF Breaks
<1>7. Cursor(put)[n + 1] = put.col
  <2>1. Cursor(put)[0] = row.start /\ Cursor(row)[0] = row.start
    BY <1>3, CursorIs
  <2>2. \A k \in 1 .. n : /\ Cursor(put)[k] = IF row.cells[k] = Tab
                                              THEN ((Cursor(put)[k - 1] \div 8) + 1) * 8
                                              ELSE Cursor(put)[k - 1] + row.cells[k]
                          /\ Cursor(row)[k] = IF row.cells[k] = Tab
                                              THEN ((Cursor(row)[k - 1] \div 8) + 1) * 8
                                              ELSE Cursor(row)[k - 1] + row.cells[k]
    <3>1. \A k \in 1 .. n : k \in 1 .. Len(put.cells)
      BY <1>1, <1>3
    <3>2. \A k \in 1 .. n : Cursor(put)[k] = IF put.cells[k] = Tab
                                             THEN ((Cursor(put)[k - 1] \div 8) + 1) * 8
                                             ELSE Cursor(put)[k - 1] + put.cells[k]
      BY <1>3, <3>1, CursorIs
    <3> HIDE DEF put
    <3> QED
      BY <1>3, <3>2, CursorIs
  <2>3. \A k \in 1 .. n : Cursor(put)[k - 1] = Cursor(row)[k - 1] => Cursor(put)[k] = Cursor(row)[k]
    BY <2>2, Zenon
  <2>4. Cursor(put)[0] = Cursor(row)[0] /\ n \in Nat
    BY <1>1, <2>1
  <2>5. \A k \in 0 .. n : Cursor(put)[k] = Cursor(row)[k]
    <3>1. AreAlike(Cursor(put), Cursor(row), n)
      BY <2>3, <2>4, Alike DEF StepAlike
    <3> QED
      BY <3>1 DEF AreAlike
  <2>6. Cursor(put)[n] = row.col
    <3>1. n \in 0 .. n
      BY <1>1
    <3> QED
      BY <1>5, <2>5, <3>1, Zenon
  <2>7. Cursor(put)[n + 1] = IF g = Tab THEN ((row.col \div 8) + 1) * 8 ELSE row.col + g
    <3>1. n + 1 \in 1 .. Len(put.cells) /\ (n + 1) - 1 = n
      BY <1>1, <1>3
    <3>2. Cursor(put)[n + 1] = IF put.cells[n + 1] = Tab
                               THEN ((Cursor(put)[n] \div 8) + 1) * 8
                               ELSE Cursor(put)[n] + put.cells[n + 1]
      BY <1>3, <3>1, CursorIs
    <3> HIDE DEF put, n
    <3> QED
      BY <1>3, <2>6, <3>2
  <2>8. g = Tab => row.col + w = ((row.col \div 8) + 1) * 8
    BY <1>1, WidthIs
  <2>9. g # Tab => w = g
    BY <1>1, WidthIs
  <2> HIDE DEF put, n, w
  <2> QED
    BY <1>3, <2>7, <2>8, <2>9
<1> HIDE DEF put, n, w, limit
<1>8. put.start < limit /\ put.start <= put.col
  BY <1>1, <1>2, <1>3, <1>5
<1>9. put.col = put.start => \A j \in DOMAIN put.cells : put.cells[j] = 0
  <2> SUFFICES ASSUME put.col = put.start, NEW j \in 1 .. n + 1 PROVE put.cells[j] = 0
    BY <1>4
  <2>1. row.col = row.start /\ g = 0
    BY <1>1, <1>2, <1>3, <1>5
  <2>2. CASE j = n + 1
    BY <1>3, <2>1, <2>2
  <2>3. CASE j # n + 1
    <3>1. j \in 1 .. n
      BY <1>1, <2>3
    <3> QED
      BY <1>3, <1>5, <2>1, <3>1
  <2> QED
    BY <2>2, <2>3
<1>10. put.col <= limit \/ Cardinality(Inked(put.cells)) = 1
  <2> SUFFICES ASSUME ~(put.col <= limit) PROVE Cardinality(Inked(put.cells)) = 1
    OBVIOUS
  <2>1. row.col = row.start /\ g # 0
    BY <1>1, <1>2, <1>3, <1>5, <1>6
  <2>2. \A j \in 1 .. n : put.cells[j] = 0
    BY <1>3, <1>5, <2>1
  <2>3. \A j \in 1 .. n + 1 : j \in 1 .. n \/ j = n + 1
    BY <1>1
  <2>4. n + 1 \in 1 .. n + 1
    BY <1>1
  <2>5. Inked(put.cells) = {n + 1}
    BY <1>3, <1>4, <2>1, <2>2, <2>3, <2>4 DEF Inked
  <2> QED
    BY <2>5, FS_Singleton
<1>11. Cursor(put)[Len(put.cells)] = put.col
  BY <1>3, <1>7
<1>12. RowIsSound(put, limit)
  BY <1>8, <1>9, <1>10, <1>11, Zenon DEF RowIsSound
<1> QED
  BY <1>12 DEF put, limit

Rows == Seq(Row) \ {<<>>}

\* ui.rs `wrap_line`: a grapheme goes to the last row or begins the next.
Added(rows, n, g, prefix, width, more) ==
  /\ Breaks(rows[n], g, prefix, width) =>
       /\ Len(more) = n + 1 /\ \A m \in 1 .. n : more[m] = rows[m]
       /\ more[n + 1] = Put(NewRow(Indent(prefix, width)), g)
  /\ ~Breaks(rows[n], g, prefix, width) =>
       /\ Len(more) = n /\ \A m \in 1 .. n : m # n => more[m] = rows[m]
       /\ more[n] = Put(rows[n], g)

LEMMA AddIs ==
  ASSUME NEW rows \in Rows, NEW g \in Nat, NEW prefix \in Nat, NEW width \in Nat,
         NEW n, n = Len(rows), NEW more, more = AddGrapheme(rows, g, prefix, width)
  PROVE  /\ n \in Nat \ {0} /\ rows[n] \in Row /\ more \in Rows
         /\ Added(rows, n, g, prefix, width, more)
<1>1. rows \in Seq(Row) /\ rows # <<>> /\ n \in Nat \ {0} /\ n \in 1 .. Len(rows)
  BY EmptySeq DEF Rows
<1>2. rows[n] \in Row /\ Last(rows) = rows[n]
  BY <1>1, ElementOfSeq DEF Last
<1>3. CASE Breaks(rows[n], g, prefix, width)
  <2> DEFINE row == Put(NewRow(Indent(prefix, width)), g)
  <2>1. row \in Row
    BY LimitIs, NewRowIs, PutIs
  <2>2. more = Append(rows, row)
    BY <1>2, <1>3 DEF AddGrapheme
  <2> HIDE DEF row
  <2>3. /\ more \in Seq(Row) /\ Len(more) = n + 1
        /\ \A m \in 1 .. n : more[m] = rows[m]
        /\ more[n + 1] = row
    BY <1>1, <2>1, <2>2, AppendProperties
  <2>4. more # <<>>
    BY <1>1, <2>3, EmptySeq
  <2> QED
    BY <1>1, <1>2, <1>3, <2>3, <2>4 DEF Added, Rows, row
<1>4. CASE ~Breaks(rows[n], g, prefix, width)
  <2> DEFINE row == Put(rows[n], g)
  <2>1. row \in Row
    BY <1>2, PutIs
  <2>2. more = [rows EXCEPT ![n] = row]
    BY <1>2, <1>4 DEF AddGrapheme
  <2> HIDE DEF row
  <2>3. /\ more \in Seq(Row) /\ Len(more) = n
        /\ \A m \in 1 .. n : more[m] = IF m = n THEN row ELSE rows[m]
    BY <1>1, <2>1, <2>2, ExceptSeq
  <2>4. more # <<>> /\ more[n] = row /\ \A m \in 1 .. n : m # n => more[m] = rows[m]
    BY <1>1, <2>3, EmptySeq
  <2> QED
    BY <1>1, <1>2, <1>4, <2>3, <2>4 DEF Added, Rows, row
<1> QED
  BY <1>3, <1>4

\* What RowsUpTo computes.
LEMMA RowsAre ==
  ASSUME NEW line \in Seq(Nat), NEW prefix \in Nat, NEW width \in Nat,
         NEW rows, rows = RowsUpTo(line, prefix, width)
  PROVE  /\ rows \in [0 .. Len(line) -> Rows]
         /\ rows[0] = <<NewRow(0)>>
         /\ \A k \in 1 .. Len(line) : rows[k] = AddGrapheme(rows[k - 1], line[k], prefix, width)
<1> DEFINE n == Len(line)
           base == <<NewRow(0)>>
           step == [k \in 1 .. n |-> [x \in Rows |-> AddGrapheme(x, line[k], prefix, width)]]
           Runs(f) == f = [k \in 0 .. n |-> IF k = 0 THEN base
                                            ELSE AddGrapheme(f[k - 1], line[k], prefix, width)]
<1>1. n \in Nat /\ \A k \in 1 .. n : line[k] \in Nat
  OBVIOUS
<1>2. rows = CHOOSE f : Runs(f)
  BY DEF RowsUpTo
<1> HIDE DEF n
<1>3. base \in Rows
  <2>1. NewRow(0) \in Row
    BY NewRowIs
  <2> QED
    BY <2>1, EmptySeq DEF Rows
<1> HIDE DEF base
<1>4. \A x \in Rows : \A k \in 1 .. n : AddGrapheme(x, line[k], prefix, width) \in Rows
  <2> SUFFICES ASSUME NEW x \in Rows, NEW k \in 1 .. n
               PROVE  AddGrapheme(x, line[k], prefix, width) \in Rows
    OBVIOUS
  <2>1. line[k] \in Nat
    BY <1>1
  <2> QED
    BY <2>1, AddIs
<1>5. step \in [1 .. n -> [Rows -> Rows]]
  BY <1>4
<1>6. \A k \in 1 .. n : \A x \in Rows : step[k][x] = AddGrapheme(x, line[k], prefix, width)
  OBVIOUS
<1> HIDE DEF step
<1>7. PICK f \in [0 .. n -> Rows] : f[0] = base /\ \A k \in 1 .. n : f[k] = step[k][f[k - 1]]
  <2>1. n \in Nat
    BY <1>1
  <2>2. \E f \in [0 .. n -> Rows] : Follows(f, base, step, n)
    BY <1>3, <1>5, <2>1, Recursion
  <2> QED
    BY <2>2 DEF Follows
<1>8. \A k \in 1 .. n : f[k] = AddGrapheme(f[k - 1], line[k], prefix, width)
  <2>1. \A k \in 1 .. n : k - 1 \in 0 .. n
    BY <1>1
  <2>2. \A k \in 1 .. n : f[k - 1] \in Rows
    BY <2>1
  <2> QED
    BY <1>6, <1>7, <2>2
<1>9. Runs(f)
  <2>1. f = [k \in 0 .. n |-> f[k]]
    OBVIOUS
  <2>2. \A k \in 0 .. n : f[k] = IF k = 0 THEN base
                                 ELSE AddGrapheme(f[k - 1], line[k], prefix, width)
    BY <1>7, <1>8
  <2> QED
    BY <2>1, <2>2
<1>10. Runs(rows)
  <2> HIDE DEF Runs
  <2> QED
    BY <1>2, <1>9
<1>11. /\ rows[0] = base
       /\ \A k \in 1 .. n : rows[k] = AddGrapheme(rows[k - 1], line[k], prefix, width)
  BY <1>1, <1>10
<1>12. \A k \in 0 .. n : rows[k] = f[k]
  <2>1. \A k \in 1 .. n : rows[k - 1] = f[k - 1] => rows[k] = f[k]
    BY <1>8, <1>11
  <2>2. rows[0] = f[0] /\ n \in Nat
    BY <1>1, <1>7, <1>11
  <2> HIDE DEF Runs
  <2>3. AreAlike(rows, f, n)
    BY <2>1, <2>2, Alike DEF StepAlike
  <2> QED
    BY <2>3 DEF AreAlike
<1>13. rows \in [0 .. n -> Rows]
  <2>1. rows = [k \in 0 .. n |-> rows[k]]
    BY <1>10
  <2> HIDE DEF Runs
  <2> QED
    BY <1>12, <2>1
<1> QED
  BY <1>11, <1>13 DEF n, base

Counts(rows) == [m \in DOMAIN rows |-> Len(rows[m].cells)]

LEMMA CountsAre ==
  ASSUME NEW rows \in Seq(Row)
  PROVE  /\ Counts(rows) \in Seq(Nat) /\ Len(Counts(rows)) = Len(rows)
         /\ \A m \in 1 .. Len(rows) : Counts(rows)[m] = Len(rows[m].cells)
<1>1. \A m \in 1 .. Len(rows) : rows[m].cells \in Seq(Nat)
  <2>1. \A m \in 1 .. Len(rows) : rows[m] \in Row
    BY ElementOfSeq, Zenon
  <2> QED
    BY <2>1 DEF Row
<1>2. \A m \in 1 .. Len(rows) : Len(rows[m].cells) \in Nat
  BY <1>1
<1>3. Len(rows) \in Nat /\ Counts(rows) = [m \in 1 .. Len(rows) |-> Len(rows[m].cells)]
  BY LenProperties DEF Counts
<1> QED
  BY <1>2, <1>3

LEMMA SumsAgree ==
  ASSUME NEW a \in Seq(Nat), NEW b \in Seq(Nat), NEW n \in Nat, n <= Len(a), n <= Len(b),
         \A i \in 1 .. n : a[i] = b[i]
  PROVE  \A i \in 0 .. n : SumUpTo(a)[i] = SumUpTo(b)[i]
<1> DEFINE f == SumUpTo(a)
           g == SumUpTo(b)
<1>1. \A i \in 1 .. n : i \in 1 .. Len(a) /\ i \in 1 .. Len(b)
  OBVIOUS
<1>2. f[0] = g[0]
  BY SumIs
<1>3. \A i \in 1 .. n : f[i] = f[i - 1] + a[i] /\ g[i] = g[i - 1] + b[i]
  BY <1>1, SumIs
<1> HIDE DEF f, g
<1>4. \A i \in 1 .. n : f[i - 1] = g[i - 1] => f[i] = g[i]
  BY <1>3
<1>5. \A i \in 0 .. n : f[i] = g[i]
  <2>1. AreAlike(f, g, n)
    BY <1>2, <1>4, Alike DEF StepAlike
  <2> QED
    BY <2>1 DEF AreAlike
<1> QED
  BY <1>5 DEF f, g

\* The rows hold the first k graphemes of the line, in order.
Holds(rows, line, k) ==
  LET before == SumUpTo(Counts(rows))
  IN  /\ before[Len(rows)] = k
      /\ \A m \in DOMAIN rows : \A j \in DOMAIN rows[m].cells :
           rows[m].cells[j] = line[before[m - 1] + j]

\* What holds of the rows after k graphemes.
Wraps(rows, line, k, limit) ==
  /\ \A m \in DOMAIN rows : /\ RowIsSound(rows[m], limit)
                            /\ rows[m].cells = <<>> => k = 0 /\ Len(rows) = 1
  /\ Holds(rows, line, k)

LEMMA WrapsFirst ==
  ASSUME NEW line \in Seq(Nat), NEW prefix \in Nat, NEW width \in Nat
  PROVE  Wraps(<<NewRow(0)>>, line, 0, Limit(prefix, width))
<1> DEFINE row == NewRow(0)
           rows == <<row>>
           limit == Limit(prefix, width)
<1>1. row \in Row /\ RowIsSound(row, limit) /\ row.cells = <<>>
  <2>0. /\ Indent(prefix, width) \in Nat /\ Limit(prefix, width) \in Nat
        /\ Indent(prefix, width) < Limit(prefix, width)
    BY LimitIs, Zenon
  <2>1. 0 < Limit(prefix, width) /\ 0 \in Nat
    BY <2>0
  <2>2. RowIsSound(row, limit)
    BY <2>1, NewRowIsSound, Zenon
  <2>3. row \in Row
    BY <2>1, NewRowIs, Zenon
  <2> QED
    BY <2>2, <2>3 DEF NewRow
<1> HIDE DEF row, limit
<1>2. rows \in Seq(Row) /\ Len(rows) = 1 /\ DOMAIN rows = {1} /\ rows[1] = row
  BY <1>1
<1>3. Len(row.cells) = 0 /\ DOMAIN row.cells = {}
  BY <1>1, EmptySeq
<1> HIDE DEF rows
<1>4. SumUpTo(Counts(rows))[1] = 0
  <2>1. Counts(rows) \in Seq(Nat) /\ Len(Counts(rows)) = 1 /\ Counts(rows)[1] = 0
    BY <1>2, <1>3, CountsAre
  <2>2. /\ SumUpTo(Counts(rows))[0] = 0
        /\ SumUpTo(Counts(rows))[1] = SumUpTo(Counts(rows))[1 - 1] + 0
    <3>1. 1 \in 1 .. Len(Counts(rows))
      BY <2>1
    <3>2. /\ SumUpTo(Counts(rows))[0] = 0
          /\ SumUpTo(Counts(rows))[1] = SumUpTo(Counts(rows))[1 - 1] + Counts(rows)[1]
      BY <2>1, <3>1, SumIs, Zenon
    <3> QED
      BY <2>1, <3>2
  <2> QED
    BY <2>2
<1>5. Holds(rows, line, 0)
  BY <1>2, <1>3, <1>4 DEF Holds
<1> QED
  BY <1>1, <1>2, <1>5 DEF Wraps, rows, row, limit

LEMMA WrapsOn ==
  ASSUME NEW line \in Seq(Nat), NEW prefix \in Nat, NEW width \in Nat,
         NEW k \in 1 .. Len(line), NEW rows \in Rows,
         Wraps(rows, line, k - 1, Limit(prefix, width)),
         NEW more, more = AddGrapheme(rows, line[k], prefix, width)
  PROVE  Wraps(more, line, k, Limit(prefix, width))
<1> DEFINE limit == Limit(prefix, width)
           n == Len(rows)
           g == line[k]
           a == Counts(rows)
           b == Counts(more)
<1>1. g \in Nat /\ k \in Nat \ {0}
  BY LenProperties
<1>2. /\ rows \in Seq(Row) /\ DOMAIN rows = 1 .. n /\ n \in Nat \ {0}
      /\ a \in Seq(Nat) /\ Len(a) = n /\ \A m \in 1 .. n : a[m] = Len(rows[m].cells)
  BY EmptySeq, LenProperties, CountsAre DEF Rows
<1>3. rows[n] \in Row /\ more \in Rows /\ Added(rows, n, g, prefix, width, more)
  <2>1. g \in Nat /\ n = Len(rows) /\ more = AddGrapheme(rows, g, prefix, width)
    BY <1>1
  <2> HIDE DEF g, n
  <2> QED
    BY <2>1, AddIs
<1>4. /\ more \in Seq(Row) /\ DOMAIN more = 1 .. Len(more)
      /\ b \in Seq(Nat) /\ Len(b) = Len(more) /\ \A m \in 1 .. Len(more) : b[m] = Len(more[m].cells)
  BY <1>3, LenProperties, CountsAre DEF Rows
<1>5. /\ \A m \in 1 .. n : RowIsSound(rows[m], limit) /\ (rows[m].cells = <<>> => n = 1)
      /\ SumUpTo(a)[n] = k - 1
      /\ \A m \in 1 .. n : \A j \in DOMAIN rows[m].cells : rows[m].cells[j] = line[SumUpTo(a)[m - 1] + j]
  BY <1>2 DEF Wraps, Holds
<1>6. /\ \A m \in 1 .. n : SumUpTo(a)[m] = SumUpTo(a)[m - 1] + a[m]
      /\ \A m \in 1 .. Len(more) : SumUpTo(b)[m] = SumUpTo(b)[m - 1] + b[m]
      /\ SumUpTo(a) \in [0 .. n -> Nat]
  BY <1>2, <1>4, SumIs
<1>7. ASSUME NEW row \in Row
      PROVE  /\ Put(row, g).cells # <<>> /\ Len(row.cells) \in Nat
             /\ DOMAIN Put(row, g).cells = 1 .. Len(row.cells) + 1
             /\ DOMAIN row.cells = 1 .. Len(row.cells)
  <2>1. /\ Put(row, g).cells \in Seq(Nat) /\ Len(Put(row, g).cells) = Len(row.cells) + 1
        /\ row.cells \in Seq(Nat)
    BY <1>1, PutIs DEF Row
  <2> QED
    BY <2>1, EmptySeq, LenProperties
<1> HIDE DEF a, b, n, g, limit
<1>8. CASE Breaks(rows[n], g, prefix, width)
  <2> DEFINE fresh == NewRow(Indent(prefix, width))
  <2>1. Len(more) = n + 1 /\ (\A m \in 1 .. n : more[m] = rows[m]) /\ more[n + 1] = Put(fresh, g)
    BY <1>3, <1>8 DEF Added
  <2>2. fresh \in Row /\ Len(fresh.cells) = 0
    BY LimitIs, NewRowIs, EmptySeq DEF NewRow
  <2>3. RowIsSound(Put(fresh, g), limit)
    <3>1. /\ Indent(prefix, width) \in Nat
          /\ Indent(prefix, width) < Limit(prefix, width)
      BY LimitIs
    <3>2. RowIsSound(fresh, Limit(prefix, width)) /\ ~Breaks(fresh, g, prefix, width)
      BY <1>1, <3>1, NewRowIsSound
    <3> HIDE DEF fresh
    <3> QED
      BY <1>1, <2>2, <3>2, PutIsSound DEF limit
  <2>4. /\ Put(fresh, g).cells # <<>> /\ DOMAIN Put(fresh, g).cells = 1 .. 1
        /\ Put(fresh, g).cells[1] = g /\ Len(Put(fresh, g).cells) = 1
    <3> HIDE DEF fresh
    <3>1. 1 .. 0 + 1 = 1 .. 1 /\ 0 + 1 = 1
      OBVIOUS
    <3> QED
      <4>1. Put(fresh, g).cells = Append(fresh.cells, g) /\ Len(Put(fresh, g).cells) = 0 + 1
            /\ Put(fresh, g).cells[0 + 1] = g
        BY <1>1, <2>2, PutIs, Zenon
      <4> QED
        BY <1>7, <2>2, <3>1, <4>1, Zenon
  <2> HIDE DEF fresh
  <2>5. \A m \in 0 .. n : SumUpTo(a)[m] = SumUpTo(b)[m]
    <3>1. n \in Nat /\ n <= Len(a) /\ n <= Len(b) /\ \A i \in 1 .. n : a[i] = b[i]
      <4>1. n \in Nat /\ Len(a) = n /\ Len(b) = n + 1
        BY <1>2, <1>4, <2>1
      <4>2. \A i \in 1 .. n : i \in 1 .. Len(more)
        BY <2>1, <4>1
      <4>3. \A i \in 1 .. n : a[i] = b[i]
        BY <1>2, <1>4, <2>1, <4>2, ZenonT(30)
      <4> QED
        BY <4>1, <4>3
    <3> QED
      BY <1>2, <1>4, <3>1, SumsAgree
  <2>6. SumUpTo(b)[n + 1] = k /\ SumUpTo(b)[n] = k - 1
    <3>1. n \in 0 .. n /\ n + 1 \in 1 .. Len(more) /\ (n + 1) - 1 = n
      BY <1>2, <2>1
    <3>2. SumUpTo(b)[n + 1] = SumUpTo(b)[n] + b[n + 1] /\ SumUpTo(b)[n] = k - 1
      BY <1>5, <1>6, <2>5, <3>1
    <3> QED
      <4>1. b[n + 1] = 1
        BY <1>4, <2>1, <2>4, <3>1, Zenon
      <4> QED
        BY <1>1, <3>2, <4>1
  <2>7. ASSUME NEW m \in 1 .. n + 1
        PROVE  /\ RowIsSound(more[m], limit) /\ more[m].cells # <<>>
               /\ \A j \in DOMAIN more[m].cells : more[m].cells[j] = line[SumUpTo(b)[m - 1] + j]
    <3>1. CASE m = n + 1
      <4>1. m - 1 = n /\ (k - 1) + 1 = k
        BY <1>1, <1>2, <3>1
      <4>2. \A j \in 1 .. 1 : Put(fresh, g).cells[j] = line[(k - 1) + j]
        BY <1>1, <2>4, <4>1 DEF g
      <4> QED
        BY <2>1, <2>3, <2>4, <2>6, <3>1, <4>1, <4>2
    <3>2. CASE m # n + 1
      <4>1. m \in 1 .. n /\ m - 1 \in 0 .. n
        BY <1>2, <3>2
      <4>2. rows[n].cells # <<>>
        <5> SUFFICES ASSUME rows[n].cells = <<>> PROVE FALSE
          OBVIOUS
        <5>1. Len(rows[n].cells) = 0 /\ n \in 1 .. n
          BY <1>2, EmptySeq
        <5>2. Cursor(rows[n])[Len(rows[n].cells)] = rows[n].col
          BY <1>5, <5>1 DEF RowIsSound
        <5>3. rows[n].col = rows[n].start /\ rows[n].start \in Nat
          BY <1>3, <5>1, <5>2, CursorIs DEF Row
        <5> QED
          BY <1>8, <5>3 DEF Breaks
      <4>3. rows[m].cells # <<>>
        <5>1. n = 1 => m = n
          BY <4>1
        <5> QED
          BY <1>5, <4>1, <4>2, <5>1
      <4> QED
        <5>1. more[m] = rows[m] /\ SumUpTo(b)[m - 1] = SumUpTo(a)[m - 1]
          BY <2>1, <2>5, <4>1
        <5>2. /\ RowIsSound(rows[m], limit)
              /\ \A j \in DOMAIN rows[m].cells :
                   rows[m].cells[j] = line[SumUpTo(a)[m - 1] + j]
          BY <1>5, <4>1
        <5> QED
          BY <4>3, <5>1, <5>2
    <3> QED
      BY <3>1, <3>2
  <2>8. DOMAIN more = 1 .. n + 1 /\ Len(more) = n + 1
    BY <1>4, <2>1
  <2>9. Holds(more, line, k)
    BY <2>6, <2>7, <2>8 DEF Holds, b
  <2> QED
    BY <2>7, <2>8, <2>9 DEF Wraps, limit
<1>9. CASE ~Breaks(rows[n], g, prefix, width)
  <2> DEFINE c == Len(rows[n].cells)
  <2>1. Len(more) = n /\ (\A m \in 1 .. n : m # n => more[m] = rows[m]) /\ more[n] = Put(rows[n], g)
    BY <1>3, <1>9 DEF Added
  <2>2. n \in 1 .. n /\ n - 1 \in 0 .. n /\ n - 1 \in Nat
    BY <1>2
  <2>3. RowIsSound(Put(rows[n], g), limit)
    BY <1>1, <1>3, <1>5, <1>9, <2>2, PutIsSound DEF limit
  <2>4. /\ Put(rows[n], g).cells # <<>> /\ DOMAIN Put(rows[n], g).cells = 1 .. c + 1
        /\ DOMAIN rows[n].cells = 1 .. c /\ c \in Nat
    BY <1>3, <1>7
  <2>5. /\ Len(Put(rows[n], g).cells) = c + 1 /\ Put(rows[n], g).cells[c + 1] = g
        /\ \A j \in 1 .. c : Put(rows[n], g).cells[j] = rows[n].cells[j]
    BY <1>1, <1>3, PutIs
  <2> HIDE DEF c
  <2>6. \A m \in 0 .. n - 1 : SumUpTo(a)[m] = SumUpTo(b)[m]
    <3>1. /\ n - 1 <= Len(a) /\ n - 1 <= Len(b)
          /\ \A i \in 1 .. n - 1 : i \in 1 .. n /\ i # n
      <4>1. n \in Nat /\ Len(a) = n /\ Len(b) = n
        BY <1>2, <1>4, <2>1, Zenon
      <4> QED
        BY <1>2, <4>1
    <3>2. \A i \in 1 .. n - 1 : a[i] = b[i]
      BY <1>2, <1>4, <2>1, <3>1, ZenonT(30)
    <3> QED
      BY <1>2, <1>4, <2>2, <3>1, <3>2, SumsAgree, ZenonT(30)
  <2>7. SumUpTo(a)[n - 1] + c = k - 1 /\ SumUpTo(b)[n - 1] = SumUpTo(a)[n - 1]
        /\ SumUpTo(a)[n - 1] \in Nat
    <3>1. a[n] = c /\ n - 1 \in 0 .. n - 1
      BY <1>2, <2>2 DEF c
    <3>2. SumUpTo(a)[n] = SumUpTo(a)[n - 1] + a[n]
      BY <1>6, <2>2
    <3> QED
      BY <1>5, <1>6, <2>2, <2>6, <3>1, <3>2
  <2>0. SumUpTo(b)[n - 1] + (c + 1) = k
    <3>1. k \in Nat /\ c \in Nat
      BY <1>1, <2>4
    <3>2. \A x \in Nat : x + c = k - 1 => x + (c + 1) = k
      BY <3>1
    <3> QED
      BY <2>7, <3>2, Zenon
  <2>8. SumUpTo(b)[n] = k
    <3>1. b[n] = c + 1
      BY <1>4, <2>1, <2>2, <2>5, Zenon
    <3>2. SumUpTo(b)[n] = SumUpTo(b)[n - 1] + b[n]
      BY <1>6, <2>1, <2>2
    <3> QED
      BY <2>0, <3>1, <3>2, Zenon
  <2>9. ASSUME NEW m \in 1 .. n
        PROVE  /\ RowIsSound(more[m], limit) /\ more[m].cells # <<>>
               /\ \A j \in DOMAIN more[m].cells : more[m].cells[j] = line[SumUpTo(b)[m - 1] + j]
    <3>1. CASE m = n
      <4>1. ASSUME NEW j \in 1 .. c + 1
            PROVE  Put(rows[n], g).cells[j] = line[SumUpTo(b)[n - 1] + j]
        <5>1. CASE j = c + 1
          <6>1. SumUpTo(b)[n - 1] + j = k
            BY <2>0, <5>1, Zenon
          <6> QED
            BY <2>5, <5>1, <6>1 DEF g
        <5>2. CASE j # c + 1
          <6>1. j \in 1 .. c
            BY <2>4, <5>2
          <6> QED
            BY <1>5, <2>2, <2>4, <2>5, <2>7, <6>1, ZenonT(30)
        <5> QED
          BY <5>1, <5>2
      <4> QED
        <5>1. /\ more[m] = Put(rows[n], g) /\ SumUpTo(b)[m - 1] = SumUpTo(b)[n - 1]
              /\ DOMAIN more[m].cells = 1 .. c + 1
          BY <2>1, <2>4, <3>1
        <5> QED
          BY <2>3, <2>4, <4>1, <5>1
    <3>2. CASE m # n
      <4>1. m - 1 \in 0 .. n - 1 /\ more[m] = rows[m]
        BY <1>2, <2>1, <3>2
      <4>2. SumUpTo(b)[m - 1] = SumUpTo(a)[m - 1]
        BY <2>6, <4>1
      <4>3. more[m].cells # <<>>
        <5>1. n # 1
          BY <3>2
        <5> QED
          BY <1>5, <4>1, <5>1
      <4> QED
        BY <1>5, <4>1, <4>2, <4>3
    <3> QED
      BY <3>1, <3>2
  <2>10. DOMAIN more = 1 .. n /\ Len(more) = n
    BY <1>4, <2>1
  <2>11. Holds(more, line, k)
    BY <2>8, <2>9, <2>10 DEF Holds, b
  <2> QED
    BY <2>9, <2>10, <2>11 DEF Wraps, limit
<1> QED
  BY <1>8, <1>9

\* ui.rs `wrap_line`: however long the line and whatever is in it.
LEMMA WrapIs ==
  ASSUME NEW line \in Seq(Nat), NEW prefix \in Nat, NEW width \in Nat,
         NEW rows, rows = WrapLine(line, prefix, width)
  PROVE  rows \in Rows /\ Wraps(rows, line, Len(line), Limit(prefix, width))
<1> DEFINE n == Len(line)
           upTo == RowsUpTo(line, prefix, width)
           limit == Limit(prefix, width)
           S == {k \in 0 .. n : Wraps(upTo[k], line, k, limit)}
<1>1. n \in Nat /\ 0 \in 0 .. n /\ n \in 0 .. n
  OBVIOUS
<1>2. /\ upTo \in [0 .. n -> Rows] /\ upTo[0] = <<NewRow(0)>>
      /\ \A k \in 1 .. n : upTo[k] = AddGrapheme(upTo[k - 1], line[k], prefix, width)
  BY RowsAre
<1> HIDE DEF upTo
<1>3. 0 \in S
  BY <1>1, <1>2, WrapsFirst
<1>4. ASSUME NEW k \in 1 .. n, k - 1 \in S PROVE k \in S
  <2>1. k - 1 \in 0 .. n /\ k \in 0 .. n
    BY <1>1
  <2>2. upTo[k - 1] \in Rows /\ upTo[k] = AddGrapheme(upTo[k - 1], line[k], prefix, width)
    BY <1>2, <2>1
  <2>3. Wraps(upTo[k], line, k, limit)
    BY <1>4, <2>2, WrapsOn, Zenon
  <2> QED
    BY <2>1, <2>3
<1> HIDE DEF S
<1>5. \A k \in 1 .. n : k - 1 \in S => k \in S
  BY <1>4
<1>6. \A k \in 0 .. n : k \in S
  BY <1>1, <1>3, <1>5, UpTo, Zenon
<1>7. Wraps(upTo[n], line, n, limit)
  BY <1>1, <1>6 DEF S
<1> QED
  BY <1>1, <1>2, <1>7 DEF WrapLine, upTo

\* Of the lines that may be shown: what a tagged line is, and how it is wrapped.
LEMMA TaggedIs ==
  ASSUME NEW o \in Texts, NEW prefix \in Nat
  PROVE  /\ TaggedLine(o, prefix) \in Seq(Nat)
         /\ Len(TaggedLine(o, prefix)) \in Nat
<1>1. PICK p \in Proc : o \in Outputs[p]
  BY DEF Texts
<1>2. o.text \in Seq(Nat)
  BY <1>1, ViewAssumption
<1>3. [i \in 1 .. prefix |-> 1] \in Seq(Nat)
  OBVIOUS
<1>4. TaggedLine(o, prefix) \in Seq(Nat)
  BY <1>2, <1>3, ConcatProperties DEF TaggedLine
<1> QED
  BY <1>4, LenProperties

LEMMA PrefixIs ==
  ASSUME NEW o \in Texts, NEW v \in Views, NEW t \in DOMAIN StampWidth
  PROVE  PrefixWidth(o, v, t) \in Nat /\ PrefixWidth(o, v, t) \in Indents
<1>1. StampWidth[t] \in Nat
  BY DEF StampWidth
<1>2. PrefixWidth(o, v, t) \in Nat
  BY <1>1 DEF PrefixWidth
<1>3. PICK w \in {All, 1} : PrefixWidth(o, v, t) = PrefixWidth(o, w, t)
  <2>1. v = All \/ (v # All /\ 1 # All)
    BY DEF Views, Proc, All
  <2> QED
    BY <2>1 DEF PrefixWidth
<1>4. PrefixWidth(o, v, t) \in Indents
  BY <1>3 DEF Indents
<1> QED
  BY <1>2, <1>4

LEMMA WrappedIs ==
  ASSUME NEW o \in Texts, NEW v \in Views, NEW t \in DOMAIN StampWidth, NEW s \in Sizes,
         NEW prefix, prefix = PrefixWidth(o, v, t),
         NEW line, line = TaggedLine(o, prefix),
         NEW rows, rows = Wrapped[o][prefix][s.width]
  PROVE  rows \in Rows /\ Wraps(rows, line, Len(line), Limit(prefix, s.width))
<1>1. prefix \in Nat /\ prefix \in Indents /\ s.width \in Nat /\ s.width \in Widths
  BY PrefixIs, ViewAssumption DEF Widths
<1>2. rows = WrapLine(line, prefix, s.width)
  BY <1>1 DEF Wrapped
<1>3. line \in Seq(Nat)
  BY <1>1, TaggedIs
<1> QED
  BY <1>1, <1>2, <1>3, WrapIs

------------------------------------------------------------------------------
(* The all-view: the merge of the buffers, and what a line that arrives does *)
(* to it.                                                                    *)

\* A buffered line.
Entry == [out : Texts, seq : Nat]

Buffers == [Proc -> Seq(Entry)]

\* How far a merge has come.
Merging == [cursor : [Proc -> Nat], out : Seq(Entry)]

NextSeq(b, c, s) == b[s][c[s] + 1].seq

\* The slot that Best chooses.
Leads(b, c, s) ==
  /\ s \in Open(b, c)
  /\ \A t \in Open(b, c) :
       \/ NextSeq(b, c, s) < NextSeq(b, c, t)
       \/ NextSeq(b, c, s) = NextSeq(b, c, t) /\ s <= t

LEMMA OpenIs ==
  ASSUME NEW b \in Buffers, NEW c \in [Proc -> Nat]
  PROVE  /\ Open(b, c) = {s \in Proc : c[s] < Len(b[s])}
         /\ \A s \in Open(b, c) : /\ s \in Nat /\ c[s] + 1 \in 1 .. Len(b[s])
                                  /\ b[s][c[s] + 1] \in Entry
                                  /\ NextSeq(b, c, s) \in Nat
<1>1. Open(b, c) = {s \in Proc : c[s] < Len(b[s])}
  BY DEF Open, Buffers
<1>2. ASSUME NEW s \in Open(b, c)
      PROVE  /\ s \in Nat /\ c[s] + 1 \in 1 .. Len(b[s])
             /\ b[s][c[s] + 1] \in Entry
  <2>1. /\ s \in Proc /\ c[s] \in Nat /\ c[s] < Len(b[s])
        /\ b[s] \in Seq(Entry) /\ Len(b[s]) \in Nat
    BY <1>1, LenProperties DEF Buffers
  <2>2. s \in Nat /\ c[s] + 1 \in 1 .. Len(b[s])
    BY <2>1 DEF Proc
  <2> QED
    BY <2>1, <2>2, ElementOfSeq
<1> QED
  BY <1>1, <1>2 DEF NextSeq, Entry

\* There is a slot to take from while a buffer is open, and one only.
LEMMA BestLeads ==
  ASSUME NEW b \in Buffers, NEW c \in [Proc -> Nat], Open(b, c) # {}
  PROVE  /\ Leads(b, c, Best(b, c))
         /\ \A s : Leads(b, c, s) => s = Best(b, c)
<1> DEFINE open == Open(b, c)
           num(s) == NextSeq(b, c, s)
           Q == {num(s) : s \in open}
<1>1. \A s \in open : s \in Nat /\ num(s) \in Nat
  BY OpenIs
<1>2. Best(b, c) = CHOOSE s : Leads(b, c, s)
  BY DEF Best, Leads, NextSeq
<1>3. \A s : Leads(b, c, s) <=>
        s \in open /\ \A t \in open : num(s) < num(t) \/ (num(s) = num(t) /\ s <= t)
  BY DEF Leads
<1> HIDE DEF open, num
<1>4. PICK q \in Q : \A r \in Q : q <= r
  <2>1. Q \in SUBSET Nat /\ Q # {}
    BY <1>1 DEF open
  <2> HIDE DEF Q
  <2> QED
    BY <2>1, LeastNat
<1> DEFINE S == {s \in open : num(s) = q}
<1>5. PICK s \in S : \A t \in S : s <= t
  <2>1. S \in SUBSET Nat /\ S # {}
    BY <1>1
  <2> HIDE DEF S
  <2> QED
    BY <2>1, LeastNat
<1>6. Leads(b, c, s)
  <2>1. ASSUME NEW t \in open PROVE num(s) < num(t) \/ (num(s) = num(t) /\ s <= t)
    BY <1>1, <1>4, <1>5
  <2> QED
    BY <1>3, <2>1
<1>7. ASSUME NEW r, NEW t, Leads(b, c, r), Leads(b, c, t) PROVE r = t
  <2>1. /\ r \in open /\ t \in open
        /\ num(r) < num(t) \/ (num(r) = num(t) /\ r <= t)
        /\ num(t) < num(r) \/ (num(t) = num(r) /\ t <= r)
    BY <1>3, <1>7
  <2> QED
    BY <1>1, <2>1
<1>8. Leads(b, c, Best(b, c))
  BY <1>2, <1>6
<1> QED
  BY <1>7, <1>8

\* buffer.rs `interleaved`: one step of the loop.
LEMMA MergedIs ==
  ASSUME NEW b \in Buffers, NEW m \in Merging
  PROVE  /\ Merged(b, m) \in Merging
         /\ Open(b, m.cursor) = {} => Merged(b, m) = m
         /\ Open(b, m.cursor) # {} =>
              Merged(b, m).out =
                Append(m.out, b[Best(b, m.cursor)][m.cursor[Best(b, m.cursor)] + 1])
<1>1. CASE Open(b, m.cursor) = {}
  BY <1>1 DEF Merged
<1>2. CASE Open(b, m.cursor) # {}
  <2> DEFINE c == m.cursor
             s == Best(b, c)
  <2>1. c \in [Proc -> Nat] /\ m.out \in Seq(Entry)
    BY DEF Merging
  <2>2. s \in Open(b, c)
    BY <1>2, <2>1, BestLeads DEF Leads
  <2>3. Merged(b, m) = [cursor |-> [c EXCEPT ![s] = @ + 1],
                        out |-> Append(m.out, b[s][c[s] + 1])]
    BY <1>2 DEF Merged
  <2>4. s \in Proc /\ b[s][c[s] + 1] \in Entry
    BY <2>1, <2>2, OpenIs
  <2> HIDE DEF c, s
  <2>5. Append(m.out, b[s][c[s] + 1]) \in Seq(Entry)
    BY <2>1, <2>4, AppendProperties
  <2>6. [c EXCEPT ![s] = @ + 1] \in [Proc -> Nat]
    BY <2>1, <2>4
  <2>7. Merged(b, m) \in Merging
    BY <2>3, <2>5, <2>6 DEF Merging
  <2> QED
    BY <1>2, <2>3, <2>7 DEF c, s
<1> QED
  BY <1>1, <1>2

\* It only adds to what is shown.
LEMMA MergedGrows ==
  ASSUME NEW b \in Buffers, NEW m \in Merging
  PROVE  /\ Len(m.out) \in Nat
         /\ Len(m.out) <= Len(Merged(b, m).out)
         /\ \A i \in 1 .. Len(m.out) : Merged(b, m).out[i] = m.out[i]
<1>1. m.cursor \in [Proc -> Nat] /\ m.out \in Seq(Entry) /\ Len(m.out) \in Nat
  BY LenProperties DEF Merging
<1>2. CASE Open(b, m.cursor) = {}
  <2>1. Merged(b, m) = m
    BY <1>2, MergedIs
  <2> QED
    BY <1>1, <2>1
<1>3. CASE Open(b, m.cursor) # {}
  <2>1. PICK y \in Entry : Merged(b, m).out = Append(m.out, y)
    <3>1. Best(b, m.cursor) \in Open(b, m.cursor)
      BY <1>1, <1>3, BestLeads DEF Leads
    <3> QED
      BY <1>1, <1>3, <3>1, OpenIs, MergedIs
  <2>2. /\ Len(Append(m.out, y)) = Len(m.out) + 1
        /\ \A i \in 1 .. Len(m.out) : Append(m.out, y)[i] = m.out[i]
    BY <1>1, AppendProperties
  <2> QED
    BY <1>1, <2>1, <2>2
<1> QED
  BY <1>2, <1>3

LEMMA TotalIs ==
  ASSUME NEW b \in Buffers
  PROVE  IsFiniteSet(Held(b)) /\ Total(b) \in Nat
<1> DEFINE S == {{s} \X DOMAIN b[s] : s \in Proc}
           f == [s \in Proc |-> {s} \X DOMAIN b[s]]
<1>1. Held(b) = UNION S
  BY DEF Held, Buffers
<1>2. IsFiniteSet(S)
  <2>1. IsFiniteSet(Proc)
    BY FS_Interval, ViewAssumption DEF Proc
  <2>2. f \in Surjection(Proc, S)
    BY DEF Surjection
  <2> HIDE DEF f, S
  <2> QED
    BY <2>1, <2>2, FS_Surjection
<1>3. ASSUME NEW s \in Proc PROVE IsFiniteSet({s} \X DOMAIN b[s])
  <2>1. DOMAIN b[s] = 1 .. Len(b[s]) /\ Len(b[s]) \in Nat
    BY LenProperties DEF Buffers
  <2>2. IsFiniteSet(1 .. Len(b[s]))
    BY <2>1, FS_Interval
  <2>3. IsFiniteSet({s})
    BY FS_Singleton, Zenon
  <2> QED
    BY <2>1, <2>2, <2>3, FS_Product
<1>4. \A T \in S : IsFiniteSet(T)
  BY <1>3
<1> HIDE DEF S
<1>5. IsFiniteSet(Held(b))
  BY <1>1, <1>2, <1>4, FS_UNION
<1> QED
  BY <1>5, FS_CardinalityType DEF Total

\* The recursion of the merge is well-founded, and k steps of it show lines only.
LEMMA MergeIs ==
  ASSUME NEW b \in Buffers, NEW f, f = MergeOf(b)
  PROVE  /\ f \in [0 .. Total(b) -> Merging]
         /\ f[0] = [cursor |-> [s \in Proc |-> 0], out |-> <<>>]
         /\ \A k \in 1 .. Total(b) : f[k] = Merged(b, f[k - 1])
<1> DEFINE n == Total(b)
           base == [cursor |-> [s \in Proc |-> 0], out |-> <<>>]
           more(m) == Merged(b, m)
           step == [k \in 1 .. n |-> [m \in Merging |-> more(m)]]
           Runs(g) == g = [k \in 0 .. n |-> IF k = 0 THEN base ELSE more(g[k - 1])]
<1>1. n \in Nat /\ base \in Merging
  BY TotalIs, EmptySeq DEF Merging
<1>2. f = CHOOSE g : Runs(g)
  <2>1. DOMAIN b = Proc
    BY DEF Buffers
  <2> QED
    BY <2>1 DEF MergeOf
<1>3. \A m \in Merging : more(m) \in Merging
  BY MergedIs
<1>4. base = [cursor |-> [s \in Proc |-> 0], out |-> <<>>]
  OBVIOUS
<1> HIDE DEF n, base, more
<1>5. step \in [1 .. n -> [Merging -> Merging]]
  BY <1>3
<1>6. \A k \in 1 .. n : \A m \in Merging : step[k][m] = more(m)
  OBVIOUS
<1> HIDE DEF step
<1>7. PICK g \in [0 .. n -> Merging] :
        g[0] = base /\ \A k \in 1 .. n : g[k] = step[k][g[k - 1]]
  <2>1. \E g \in [0 .. n -> Merging] : Follows(g, base, step, n)
    BY <1>1, <1>5, Recursion
  <2> QED
    BY <2>1 DEF Follows
<1>8. \A k \in 1 .. n : g[k] = more(g[k - 1])
  <2>1. \A k \in 1 .. n : k - 1 \in 0 .. n
    BY <1>1
  <2>2. \A k \in 1 .. n : g[k - 1] \in Merging
    BY <2>1
  <2> QED
    BY <1>6, <1>7, <2>2
<1>9. Runs(g)
  <2>1. g = [k \in 0 .. n |-> g[k]]
    OBVIOUS
  <2>2. \A k \in 0 .. n : g[k] = IF k = 0 THEN base ELSE more(g[k - 1])
    BY <1>7, <1>8
  <2> QED
    BY <2>1, <2>2
<1>10. Runs(f)
  <2> HIDE DEF Runs
  <2> QED
    BY <1>2, <1>9
<1>11. f[0] = base /\ \A k \in 1 .. n : f[k] = more(f[k - 1])
  <2>1. \A k \in 0 .. n : f[k] = IF k = 0 THEN base ELSE more(f[k - 1])
    BY <1>10
  <2>2. 0 \in 0 .. n /\ \A k \in 1 .. n : k \in 0 .. n /\ k # 0
    BY <1>1
  <2> QED
    BY <2>1, <2>2
<1>12. \A k \in 0 .. n : f[k] = g[k]
  <2>1. \A k \in 1 .. n : f[k - 1] = g[k - 1] => f[k] = g[k]
    BY <1>8, <1>11
  <2>2. f[0] = g[0]
    BY <1>7, <1>11
  <2> HIDE DEF Runs
  <2>3. AreAlike(f, g, n)
    BY <1>1, <2>1, <2>2, Alike DEF StepAlike
  <2> QED
    BY <2>3 DEF AreAlike
<1>13. f \in [0 .. n -> Merging]
  <2>1. f = [k \in 0 .. n |-> f[k]]
    BY <1>10
  <2> HIDE DEF Runs
  <2> QED
    BY <1>12, <2>1
<1> QED
  BY <1>4, <1>11, <1>13 DEF n, more

\* ui.rs `content_lines`: a view shows lines.
LEMMA ContentHas ==
  ASSUME buffers \in Buffers, NEW v \in Views
  PROVE  /\ Content(v) \in Seq(Entry) /\ Len(Content(v)) \in Nat
         /\ DOMAIN Content(v) = 1 .. Len(Content(v))
         /\ \A i \in 1 .. Len(Content(v)) : Content(v)[i] \in Entry
<1>1. Interleaved(buffers) \in Seq(Entry)
  <2>1. Total(buffers) \in 0 .. Total(buffers)
    BY TotalIs
  <2>2. MergeOf(buffers)[Total(buffers)] \in Merging
    BY <2>1, MergeIs
  <2> QED
    BY <2>2 DEF Interleaved, Merging
<1>2. Content(v) \in Seq(Entry)
  BY <1>1 DEF Content, Views, Buffers
<1> QED
  BY <1>2, LenProperties, ElementOfSeq

\* A line more at the end of one buffer.
Pushed(b, p, x) == [b EXCEPT ![p] = Append(@, x)]

LEMMA PushedIs ==
  ASSUME NEW b \in Buffers, NEW p \in Proc, NEW x \in Entry
  PROVE  /\ Pushed(b, p, x) \in Buffers
         /\ \A s \in Proc : \A i \in 1 .. Len(b[s]) : Pushed(b, p, x)[s][i] = b[s][i]
         /\ \A s \in Proc : Len(b[s]) \in Nat
         /\ \A s \in Proc \ {p} : Pushed(b, p, x)[s] = b[s]
         /\ Len(Pushed(b, p, x)[p]) = Len(b[p]) + 1
         /\ Pushed(b, p, x)[p][Len(b[p]) + 1] = x
         /\ Total(Pushed(b, p, x)) = Total(b) + 1
<1> DEFINE d == Pushed(b, p, x)
<1>1. /\ Append(b[p], x) \in Seq(Entry) /\ Len(Append(b[p], x)) = Len(b[p]) + 1
      /\ \A i \in 1 .. Len(b[p]) : Append(b[p], x)[i] = b[p][i]
      /\ Append(b[p], x)[Len(b[p]) + 1] = x
  BY AppendProperties DEF Buffers
<1>2. \A s \in Proc : Len(b[s]) \in Nat /\ b[s] \in Seq(Entry) /\ DOMAIN b[s] = 1 .. Len(b[s])
  BY LenProperties DEF Buffers
<1>3. /\ DOMAIN d = Proc /\ d[p] = Append(b[p], x)
      /\ \A s \in Proc \ {p} : d[s] = b[s]
  BY DEF Buffers, Pushed
<1>4. d \in Buffers
  <2>1. d = [s \in Proc |-> d[s]]
    BY DEF Buffers, Pushed
  <2>2. \A s \in Proc : d[s] \in Seq(Entry)
    BY <1>1, <1>2, <1>3
  <2> HIDE DEF d
  <2> QED
    BY <2>1, <2>2 DEF Buffers
<1> HIDE DEF d
<1>5. Held(d) = Held(b) \cup {<<p, Len(b[p]) + 1>>} /\ <<p, Len(b[p]) + 1>> \notin Held(b)
  <2>1. \A c \in Buffers : \A y : y \in Held(c) <=> \E s \in Proc : \E i \in 1 .. Len(c[s]) : y = <<s, i>>
    <3> SUFFICES ASSUME NEW c \in Buffers
                 PROVE  \A y : y \in Held(c) <=> \E s \in Proc : \E i \in 1 .. Len(c[s]) : y = <<s, i>>
      OBVIOUS
    <3>1. Held(c) = UNION {{s} \X DOMAIN c[s] : s \in Proc}
      BY DEF Held, Buffers
    <3>2. \A s \in Proc : DOMAIN c[s] = 1 .. Len(c[s])
      BY LenProperties DEF Buffers
    <3> QED
      BY <3>1, <3>2
  <2>2. 1 .. Len(d[p]) = (1 .. Len(b[p])) \cup {Len(b[p]) + 1}
    BY <1>1, <1>2, <1>3
  <2>3. Len(b[p]) + 1 \notin 1 .. Len(b[p])
    BY <1>2
  <2>4. \A y : y \in Held(d) <=> y \in Held(b) \/ y = <<p, Len(b[p]) + 1>>
    <3> SUFFICES ASSUME NEW y
                 PROVE  y \in Held(d) <=> y \in Held(b) \/ y = <<p, Len(b[p]) + 1>>
      OBVIOUS
    <3>1. y \in Held(d) <=> \E s \in Proc : \E i \in 1 .. Len(d[s]) : y = <<s, i>>
      BY <1>4, <2>1
    <3>2. y \in Held(b) <=> \E s \in Proc : \E i \in 1 .. Len(b[s]) : y = <<s, i>>
      BY <2>1
    <3>3. \A s \in Proc \ {p} : 1 .. Len(d[s]) = 1 .. Len(b[s])
      BY <1>3
    <3> QED
      BY <2>2, <3>1, <3>2, <3>3
  <2>5. <<p, Len(b[p]) + 1>> \notin Held(b)
    BY <2>1, <2>3
  <2> QED
    BY <2>4, <2>5
<1>6. Total(d) = Total(b) + 1
  BY <1>5, TotalIs, FS_AddElement DEF Total
<1>7. \A s \in Proc : \A i \in 1 .. Len(b[s]) : d[s][i] = b[s][i]
  BY <1>1, <1>3
<1> QED
  BY <1>1, <1>2, <1>3, <1>4, <1>6, <1>7 DEF d

\* Two merges that have shown the same so far, ...
Shared(m, w, d) ==
  /\ d <= Len(m.out) /\ d <= Len(w.out)
  /\ \A i \in 1 .. d : m.out[i] = w.out[i]

\* ... where the first is done, or shows no line next that is numbered before x.
Parted(b, m, w, x, d) ==
  /\ Shared(m, w, d)
  /\ \/ d = Len(m.out) /\ Open(b, m.cursor) = {}
     \/ d + 1 <= Len(m.out) /\ ~(m.out[d + 1].seq < x.seq)

\* The merges without x and with it agree until x, if x may still come.
Agree(b, m, w, x) == m = w \/ \E d \in Nat : Parted(b, m, w, x, d)

LEMMA AgreeOn ==
  ASSUME NEW b \in Buffers, NEW p \in Proc, NEW x \in Entry,
         NEW m \in Merging, NEW w \in Merging, Agree(b, m, w, x)
  PROVE  Agree(b, Merged(b, m), Merged(Pushed(b, p, x), w), x)
<1> DEFINE d == Pushed(b, p, x)
           c == m.cursor
           M == Merged(b, m)
           W == Merged(d, w)
<1>1. /\ d \in Buffers /\ c \in [Proc -> Nat]
      /\ \A s \in Proc : \A i \in 1 .. Len(b[s]) : d[s][i] = b[s][i]
      /\ \A s \in Proc \ {p} : d[s] = b[s]
      /\ Len(d[p]) = Len(b[p]) + 1 /\ d[p][Len(b[p]) + 1] = x
      /\ \A s \in Proc : Len(b[s]) \in Nat /\ c[s] \in Nat
  BY PushedIs DEF Merging
<1> HIDE DEF d
<1>2. M \in Merging /\ W \in Merging
  BY <1>1, MergedIs
<1>3. \A u \in Merging : Len(u.out) \in Nat /\ u.out \in Seq(Entry)
  BY LenProperties DEF Merging
<1>4. /\ Len(m.out) <= Len(M.out) /\ Len(w.out) <= Len(W.out)
      /\ \A i \in 1 .. Len(m.out) : M.out[i] = m.out[i]
      /\ \A i \in 1 .. Len(w.out) : W.out[i] = w.out[i]
  BY <1>1, MergedGrows
<1>5. CASE m # w
  <2>1. PICK k \in Nat : Parted(b, m, w, x, k)
    BY <1>5 DEF Agree
  <2>2. /\ Len(m.out) \in Nat /\ Len(w.out) \in Nat /\ Len(M.out) \in Nat /\ Len(W.out) \in Nat
        /\ Len(m.out) <= Len(M.out) /\ Len(w.out) <= Len(W.out)
        /\ \A i \in 1 .. Len(m.out) : M.out[i] = m.out[i]
        /\ \A i \in 1 .. Len(w.out) : W.out[i] = w.out[i]
    BY <1>1, <1>2, <1>3, <1>4
  <2>3. Open(b, c) = {} => M = m
    BY MergedIs
  <2> HIDE DEF M, W, c
  <2>4. Shared(M, W, k)
    BY <2>1, <2>2 DEF Parted, Shared
  <2>5. CASE k = Len(m.out) /\ Open(b, c) = {}
    <3>1. Parted(b, M, W, x, k)
      BY <2>3, <2>4, <2>5 DEF Parted, c
    <3> QED
      BY <3>1 DEF Agree, M, W, d
  <2>6. CASE k + 1 <= Len(m.out) /\ ~(m.out[k + 1].seq < x.seq)
    <3>1. k + 1 \in 1 .. Len(m.out) /\ k + 1 <= Len(M.out)
      BY <2>2, <2>6
    <3>2. M.out[k + 1] = m.out[k + 1]
      BY <2>2, <3>1
    <3>3. Parted(b, M, W, x, k)
      BY <2>4, <2>6, <3>1, <3>2 DEF Parted
    <3> QED
      BY <3>3 DEF Agree, M, W, d
  <2> QED
    BY <2>1, <2>5, <2>6 DEF Parted, c
<1>6. CASE m = w
  <2>1. \A s \in Open(b, c) : s \in Open(d, c) /\ d[s][c[s] + 1] = b[s][c[s] + 1]
    <3> SUFFICES ASSUME NEW s \in Open(b, c)
                 PROVE  s \in Open(d, c) /\ d[s][c[s] + 1] = b[s][c[s] + 1]
      OBVIOUS
    <3>1. s \in Proc /\ c[s] < Len(b[s]) /\ c[s] + 1 \in 1 .. Len(b[s])
      BY <1>1, OpenIs
    <3>2. c[s] < Len(d[s])
      BY <1>1, <3>1
    <3> QED
      BY <1>1, <3>1, <3>2, OpenIs
  <2>2. \A t \in Open(d, c) : t \in Open(b, c) \/ d[t][c[t] + 1] = x
    <3> SUFFICES ASSUME NEW t \in Open(d, c), t \notin Open(b, c)
                 PROVE  d[t][c[t] + 1] = x
      OBVIOUS
    <3>1. t \in Proc /\ c[t] < Len(d[t]) /\ ~(c[t] < Len(b[t]))
      BY <1>1, OpenIs
    <3>2. t = p /\ c[p] = Len(b[p])
      BY <1>1, <3>1
    <3> QED
      BY <1>1, <3>2
  <2>3. Shared(M, W, Len(m.out)) /\ Len(m.out) \in Nat
    BY <1>1, <1>3, <1>4, <1>6 DEF Shared
  <2>4. CASE Open(d, c) = {}
    <3>1. Open(b, c) = {}
      BY <2>1, <2>4
    <3>2. M = m /\ W = w
      BY <1>1, <1>6, <2>4, <3>1, MergedIs
    <3> QED
      BY <1>6, <3>2 DEF Agree, d
  <2>5. CASE Open(d, c) # {} /\ Open(b, c) = {}
    <3>1. M = m
      BY <2>5, MergedIs
    <3>2. Parted(b, M, W, x, Len(m.out))
      BY <2>3, <2>5, <3>1 DEF Parted
    <3> QED
      BY <2>3, <3>2 DEF Agree, d
  <2>6. CASE Open(b, c) # {}
    <3> DEFINE s == Best(b, c)
               y == b[s][c[s] + 1]
    <3>1. Leads(b, c, s) /\ s \in Open(b, c)
      BY <1>1, <2>6, BestLeads DEF Leads
    <3>2. M.out = Append(m.out, y) /\ y \in Entry
      BY <1>1, <2>6, <3>1, MergedIs, OpenIs
    <3> HIDE DEF s
    <3>3. CASE Leads(d, c, s)
      <4>1. Open(d, c) # {} /\ Best(d, c) = s
        BY <1>1, <2>1, <3>1, <3>3, BestLeads
      <4>2. M = [cursor |-> [c EXCEPT ![s] = @ + 1], out |-> Append(m.out, y)]
        BY <2>6 DEF Merged, s
      <4>3. W = [cursor |-> [c EXCEPT ![s] = @ + 1], out |-> Append(m.out, d[s][c[s] + 1])]
        BY <1>6, <4>1 DEF Merged
      <4>4. M = W
        BY <2>1, <3>1, <4>2, <4>3
      <4> QED
        BY <4>4 DEF Agree, d
    <3>4. CASE ~Leads(d, c, s)
      <4>1. PICK t \in Open(d, c) :
              ~(\/ NextSeq(d, c, s) < NextSeq(d, c, t)
                \/ NextSeq(d, c, s) = NextSeq(d, c, t) /\ s <= t)
        BY <2>1, <3>1, <3>4 DEF Leads
      <4>2. NextSeq(d, c, s) = y.seq
        BY <2>1, <3>1 DEF NextSeq
      <4>3. t \notin Open(b, c)
        <5> SUFFICES ASSUME t \in Open(b, c) PROVE FALSE
          OBVIOUS
        <5>1. NextSeq(d, c, s) = NextSeq(b, c, s) /\ NextSeq(d, c, t) = NextSeq(b, c, t)
          BY <2>1, <3>1 DEF NextSeq
        <5> QED
          BY <3>1, <4>1, <5>1 DEF Leads
      <4>4. NextSeq(d, c, t) = x.seq
        BY <2>2, <4>3 DEF NextSeq
      <4>5. ~(y.seq < x.seq)
        BY <4>1, <4>2, <4>4
      <4> HIDE DEF y, M, W, c
      <4>6. Len(M.out) = Len(m.out) + 1 /\ M.out[Len(m.out) + 1] = y
        BY <1>3, <3>2, AppendProperties
      <4>7. Parted(b, M, W, x, Len(m.out))
        BY <2>3, <4>5, <4>6 DEF Parted
      <4> QED
        BY <2>3, <4>7 DEF Agree, M, W, d
    <3> QED
      BY <3>3, <3>4
  <2> QED
    BY <2>4, <2>5, <2>6
<1> QED
  BY <1>5, <1>6

\* Lines that are all numbered before x stay where they are when x arrives.
LEMMA MergeGrows ==
  ASSUME NEW b \in Buffers, NEW p \in Proc, NEW x \in Entry,
         NEW u, u = Interleaved(b), NEW v, v = Interleaved(Pushed(b, p, x)),
         NEW a \in 1 .. Len(u), \A i \in 1 .. a : u[i].seq < x.seq
  PROVE  a \in 1 .. Len(v) /\ \A i \in 1 .. a : v[i] = u[i]
<1> DEFINE d == Pushed(b, p, x)
           n == Total(b)
           f == MergeOf(b)
           g == MergeOf(d)
           S == {k \in 0 .. n : Agree(b, f[k], g[k], x)}
<1>1. d \in Buffers /\ Total(d) = n + 1 /\ n \in Nat
  BY PushedIs, TotalIs
<1>2. /\ f \in [0 .. n -> Merging]
      /\ f[0] = [cursor |-> [s \in Proc |-> 0], out |-> <<>>]
      /\ \A k \in 1 .. n : f[k] = Merged(b, f[k - 1])
  BY MergeIs
<1>3. /\ g \in [0 .. n + 1 -> Merging]
      /\ g[0] = [cursor |-> [s \in Proc |-> 0], out |-> <<>>]
      /\ \A k \in 1 .. n + 1 : g[k] = Merged(d, g[k - 1])
  <2> HIDE DEF d
  <2> QED
    BY <1>1, MergeIs
<1>4. u = f[n].out /\ v = g[n + 1].out
  <2> HIDE DEF d
  <2> QED
    BY <1>1 DEF Interleaved, d
<1> HIDE DEF f, g, n
<1>5. Agree(b, f[n], g[n], x)
  <2>1. 0 \in S
    BY <1>1, <1>2, <1>3 DEF Agree
  <2>2. ASSUME NEW k \in 1 .. n, k - 1 \in S PROVE k \in S
    <3>1. k - 1 \in 0 .. n /\ k - 1 \in 0 .. n + 1 /\ k \in 1 .. n + 1 /\ k \in 0 .. n
      BY <1>1
    <3>2. f[k - 1] \in Merging /\ g[k - 1] \in Merging /\ Agree(b, f[k - 1], g[k - 1], x)
      BY <1>2, <1>3, <2>2, <3>1
    <3>3. Agree(b, Merged(b, f[k - 1]), Merged(d, g[k - 1]), x)
      BY <3>2, AgreeOn
    <3>4. f[k] = Merged(b, f[k - 1]) /\ g[k] = Merged(d, g[k - 1])
      BY <1>2, <1>3, <3>1
    <3> QED
      BY <3>1, <3>3, <3>4
  <2> HIDE DEF S
  <2>3. \A k \in 1 .. n : k - 1 \in S => k \in S
    BY <2>2
  <2>4. \A k \in 0 .. n : k \in S
    BY <1>1, <2>1, <2>3, UpTo, Zenon
  <2>5. n \in S
    BY <1>1, <2>4
  <2> QED
    BY <2>5 DEF S
<1>6. n \in 0 .. n /\ n \in 0 .. n + 1 /\ n + 1 \in 1 .. n + 1 /\ (n + 1) - 1 = n
  BY <1>1
<1> DEFINE m == f[n]
           w == g[n]
<1>7. m \in Merging /\ w \in Merging /\ g[n + 1] = Merged(d, w) /\ g[n + 1] \in Merging
  BY <1>2, <1>3, <1>6
<1> HIDE DEF m, w
<1>8. a \in 1 .. Len(w.out) /\ \A i \in 1 .. a : w.out[i] = u[i]
  <2>1. u = m.out /\ Agree(b, m, w, x) /\ Len(m.out) \in Nat /\ Len(w.out) \in Nat
    BY <1>4, <1>5, <1>7, LenProperties DEF m, w, Merging
  <2>2. CASE m = w
    BY <2>1, <2>2
  <2>3. CASE m # w
    <3>1. PICK k \in Nat : Parted(b, m, w, x, k)
      BY <2>1, <2>3 DEF Agree
    <3>2. a <= k
      <4>1. CASE k = Len(m.out)
        BY <2>1, <4>1
      <4>2. CASE k + 1 <= Len(m.out) /\ ~(m.out[k + 1].seq < x.seq)
        <5>1. k + 1 \notin 1 .. a
          BY <2>1, <4>2
        <5> QED
          BY <5>1
      <4> QED
        BY <3>1, <4>1, <4>2 DEF Parted
    <3>3. k <= Len(w.out) /\ \A i \in 1 .. k : m.out[i] = w.out[i]
      BY <3>1 DEF Parted, Shared
    <3> QED
      BY <2>1, <3>2, <3>3
  <2> QED
    BY <2>2, <2>3
<1>9. Len(w.out) <= Len(v) /\ \A i \in 1 .. Len(w.out) : v[i] = w.out[i]
  <2>1. v = Merged(d, w).out
    BY <1>4, <1>7
  <2> HIDE DEF d
  <2> QED
    BY <1>1, <1>7, <2>1, MergedGrows
<1>10. Len(v) \in Nat /\ Len(w.out) \in Nat
  BY <1>4, <1>7, LenProperties DEF Merging
<1> QED
  BY <1>8, <1>9, <1>10

------------------------------------------------------------------------------
(* How a view is laid out *)

\* Of positive numbers every sum is greater than those before it.
LEMMA SumsAscend ==
  ASSUME NEW counts \in Seq(Nat \ {0}), NEW n, n = Len(counts),
         NEW sum, sum = SumUpTo(counts)
  PROVE  /\ n \in Nat /\ sum \in [0 .. n -> Nat] /\ sum[0] = 0
         /\ \A j \in 0 .. n : \A i \in 0 .. n : i < j => sum[i] < sum[j]
<1>1. counts \in Seq(Nat) /\ n \in Nat /\ \A k \in 1 .. n : counts[k] \in Nat \ {0}
  BY SeqMonotonic
<1>2. /\ sum \in [0 .. n -> Nat] /\ sum[0] = 0
      /\ \A k \in 1 .. n : sum[k] = sum[k - 1] + counts[k]
  BY <1>1, SumIs
<1> DEFINE S == {j \in 0 .. n : \A i \in 0 .. n : i < j => sum[i] < sum[j]}
<1>3. 0 \in S
  BY <1>1
<1>4. ASSUME NEW k \in 1 .. n, k - 1 \in S PROVE k \in S
  <2> SUFFICES ASSUME NEW i \in 0 .. n, i < k PROVE sum[i] < sum[k]
    BY <1>1
  <2>1. k - 1 \in 0 .. n /\ k \in 0 .. n /\ (i = k - 1 \/ i < k - 1)
    BY <1>1
  <2>2. /\ sum[i] \in Nat /\ sum[k - 1] \in Nat /\ sum[k] = sum[k - 1] + counts[k]
        /\ counts[k] \in Nat \ {0}
    BY <1>1, <1>2, <2>1
  <2>3. i < k - 1 => sum[i] < sum[k - 1]
    BY <1>4
  <2> QED
    BY <2>1, <2>2, <2>3
<1> HIDE DEF S
<1>5. \A k \in 1 .. n : k - 1 \in S => k \in S
  BY <1>4
<1>6. \A k \in 0 .. n : k \in S
  BY <1>1, <1>3, <1>5, UpTo, Zenon
<1> QED
  BY <1>1, <1>2, <1>6 DEF S

------------------------------------------------------------------------------
(* The pane *)

\* The view is the whole or one of the slots, and between a frame and the key that
\* follows it nothing changes the view.
ViewInv ==
  /\ view \in Views
  /\ pc = "key" => shown.view = view

\* ui.rs `cycle_pane`: Tab and Shift-Tab stay within the panes, and each takes back
\* what the other did, from every view.
THEOREM PanesComeRound ==
  ASSUME NEW v \in Views, NEW forward \in BOOLEAN
  PROVE  /\ CyclePane(v, forward) \in Views
         /\ CyclePane(CyclePane(v, forward), ~forward) = v
<1>1. v = 0 \/ v \in 1 .. N
  BY DEF Views, All, Proc
<1> QED BY <1>1, ViewAssumption DEF CyclePane, Views, All, Proc

LEMMA KeysKeepViews == ViewInv /\ Next => view' \in Views
<1> SUFFICES ASSUME ViewInv, Next PROVE view' \in Views
  OBVIOUS
<1>0. view \in Views
  BY DEF ViewInv
<1>1. CASE NextPane \/ PrevPane
  BY <1>0, <1>1, PanesComeRound DEF NextPane, PrevPane, SwitchView
<1>2. CASE AllView \/ \E p \in Proc : JumpPane(p)
  BY <1>2 DEF AllView, JumpPane, SwitchView, Views
<1>3. CASE LineUp \/ LineDown \/ PageUp \/ PageDown
  BY <1>0, <1>3 DEF LineUp, LineDown, PageUp, PageDown, ScrollBy
<1>4. CASE CycleTimeDisplay \/ ToggleWrap \/ (\E p \in Proc : ActOn(p)) \/ OtherKey
  BY <1>0, <1>4 DEF CycleTimeDisplay, ToggleWrap, ActOn, OtherKey
<1>5. CASE Draw
  BY <1>0, <1>5 DEF Draw
<1>6. CASE \/ \E r \in Reader : Stamp(r)
           \/ \E p \in Proc : \E o \in Outputs[p] : Arrive(p, o)
           \/ Drained \/ \E s \in Sizes : Resize(s)
  BY <1>0, <1>6 DEF Stamp, Arrive, Drained, Resize, uiVars
<1> QED BY <1>1, <1>2, <1>3, <1>4, <1>5, <1>6 DEF Next

\* Every key ends the poll; what else happens leaves the last frame on the screen.
LEMMA KeysEndThePoll ==
  ASSUME Next, ~Draw
  PROVE  pc' # "key" \/ UNCHANGED <<pc, view, shown>>
<1>1. CASE \/ NextPane \/ PrevPane \/ AllView \/ (\E p \in Proc : JumpPane(p))
           \/ LineUp \/ LineDown \/ PageUp \/ PageDown
           \/ CycleTimeDisplay \/ ToggleWrap \/ (\E p \in Proc : ActOn(p)) \/ OtherKey
  BY <1>1 DEF NextPane, PrevPane, AllView, JumpPane, LineUp, LineDown, PageUp, PageDown,
              CycleTimeDisplay, ToggleWrap, ActOn, OtherKey, Poll, Key
<1>2. CASE \/ \E p \in Proc : \E o \in Outputs[p] : Arrive(p, o)
           \/ Drained \/ \E s \in Sizes : Resize(s)
  BY <1>2 DEF Arrive, Drained, Resize
<1>3. CASE \E r \in Reader : Stamp(r)
  BY <1>3 DEF Stamp, uiVars, history
<1> QED BY <1>1, <1>2, <1>3 DEF Next

LEMMA ViewInvHolds == Spec => []ViewInv
<1>1. Init => ViewInv
  BY DEF Init, ViewInv, Views
<1>2. ViewInv /\ [Next]_vars => ViewInv'
  <2> SUFFICES ASSUME ViewInv, [Next]_vars PROVE ViewInv'
    OBVIOUS
  <2>1. CASE Draw
    <3>1. shown'.view = view /\ view' = view
      BY <2>1 DEF Draw, Frame
    <3> QED BY <3>1 DEF ViewInv
  <2>2. CASE Next /\ ~Draw
    BY <2>2, KeysKeepViews, KeysEndThePoll DEF ViewInv
  <2>3. CASE UNCHANGED vars
    BY <2>3 DEF ViewInv, vars, uiVars, history
  <2> QED BY <2>1, <2>2, <2>3
<1> QED BY <1>1, <1>2, PTL DEF Spec

\* `r` and `k` act on the pane that the last frame before they are read showed
\* (main.rs:322-349, ui.rs:380-392).
THEOREM ActsOnSeenPane == Spec => ActsOnWhatIsShown
<1>1. ViewInv /\ [Next]_vars => [\A p \in Proc : ActOn(p) => shown.view = p]_vars
  BY DEF ViewInv, ActOn, Poll, Key
<1> QED BY <1>1, ViewInvHolds, PTL DEF Spec, ActsOnWhatIsShown
------------------------------------------------------------------------------
(* Frames *)

ViewType ==
  /\ buffers \in Buffers /\ nextSeq \in Nat /\ stamped \in [Reader -> Nat]
  /\ size \in Sizes
  /\ view \in Views /\ time \in DOMAIN StampWidth
  /\ offset \in Nat /\ height \in Nat /\ contentLen \in Nat

LEMMA RowsOfIs ==
  ASSUME ViewType, NEW o \in Texts
  PROVE  RowsOf(o) \in Nat \ {0}
<1>1. CASE ~wrap
  BY <1>1 DEF RowsOf
<1>2. CASE wrap
  <2> DEFINE rows == Wrapped[o][PrefixWidth(o, view, time)][size.width]
  <2>1. rows \in Rows
    BY WrappedIs DEF ViewType
  <2>2. rows \in Seq(Row) /\ rows # <<>>
    BY <2>1 DEF Rows
  <2>3. Len(rows) \in Nat \ {0}
    BY <2>2, EmptySeq
  <2> QED BY <1>2, <2>3 DEF RowsOf
<1> QED BY <1>1, <1>2

\* ui.rs `render_body`: each line begins where the one above it ends, and takes a row
\* at the least.
LEMMA DrawIs ==
  ASSUME ViewType, Draw, NEW n, n = Len(Content(view))
  PROVE  \E sum \in [0 .. n -> Nat] :
           /\ n \in Nat /\ sum[0] = 0
           /\ \A j \in 0 .. n : \A i \in 0 .. n : i < j => sum[i] < sum[j]
           /\ starts' = [i \in 1 .. n |-> sum[i - 1]]
           /\ contentLen' = sum[n]
           /\ offset' = Smaller(IF anchor = NoAnchor THEN offset
                                ELSE OffsetPutting(anchor, starts', contentLen', size.height),
                                MaxOffset(contentLen', size.height))
<1> DEFINE content == Content(view)
           counts == [i \in DOMAIN content |-> RowsOf(content[i].out)]
           sum == SumUpTo(counts)
<1>1. /\ n \in Nat /\ DOMAIN content = 1 .. n
      /\ \A i \in 1 .. n : content[i].out \in Texts
  <2>1. buffers \in Buffers /\ view \in Views
    BY DEF ViewType
  <2>2. \A i \in 1 .. n : content[i] \in Entry
    BY <2>1, ContentHas
  <2> QED BY <2>1, <2>2, ContentHas DEF Entry
<1>2. /\ starts' = [i \in DOMAIN content |-> sum[i - 1]]
      /\ contentLen' = sum[Len(content)]
      /\ offset' = Smaller(IF anchor = NoAnchor THEN offset
                           ELSE OffsetPutting(anchor, [i \in DOMAIN content |-> sum[i - 1]],
                                              sum[Len(content)], size.height),
                           MaxOffset(sum[Len(content)], size.height))
  BY DEF Draw
<1> HIDE DEF content
<1>3. \A i \in 1 .. n : RowsOf(content[i].out) \in Nat \ {0}
  BY <1>1, RowsOfIs
<1>4. counts \in Seq(Nat \ {0}) /\ Len(counts) = n
  BY <1>1, <1>3
<1> HIDE DEF counts
<1>5. /\ sum \in [0 .. n -> Nat] /\ sum[0] = 0
      /\ \A j \in 0 .. n : \A i \in 0 .. n : i < j => sum[i] < sum[j]
  BY <1>4, SumsAscend
<1> HIDE DEF sum
<1>6. /\ starts' = [i \in 1 .. n |-> sum[i - 1]]
      /\ contentLen' = sum[n]
      /\ offset' = Smaller(IF anchor = NoAnchor THEN offset
                           ELSE OffsetPutting(anchor, starts', contentLen', size.height),
                           MaxOffset(contentLen', size.height))
  BY <1>1, <1>2 DEF content
<1> QED BY <1>1, <1>5, <1>6

\* BottomLine, as a function of the layout.
BottomOf(s, len, off) ==
  LET row   == len - (1 + off)
      above == {i \in DOMAIN s : s[i] <= row}
  IN  IF row < 0 \/ above = {} THEN NoAnchor
      ELSE CHOOSE i \in above : \A j \in above : j <= i

LEMMA GreatestUpTo ==
  ASSUME NEW n \in Nat, NEW S, S \subseteq 1 .. n, S # {}
  PROVE  \E i \in S : \A j \in S : j <= i
<1> DEFINE T == {n - i : i \in S}
<1>1. T \in SUBSET Nat /\ T # {}
  <2>1. \A i \in S : i \in 1 .. n /\ n - i \in Nat
    OBVIOUS
  <2>2. PICK i \in S : TRUE
    OBVIOUS
  <2>3. n - i \in T
    OBVIOUS
  <2> QED BY <2>1, <2>3
<1> HIDE DEF T
<1>2. PICK m \in T : \A k \in T : m <= k
  BY <1>1, LeastNat
<1>3. PICK i \in S : m = n - i
  BY DEF T
<1>4. \A j \in S : n - j \in T /\ j \in Nat /\ i \in Nat
  BY DEF T
<1>5. \A j \in S : n - i <= n - j
  BY <1>2, <1>3, <1>4
<1> QED BY <1>4, <1>5

LEMMA BottomIs ==
  ASSUME NEW n \in Nat, NEW s, DOMAIN s = 1 .. n, NEW len, NEW off
  PROVE  BottomOf(s, len, off) \in 1 .. n \/ BottomOf(s, len, off) = NoAnchor
<1> DEFINE row == len - (1 + off)
           above == {i \in DOMAIN s : s[i] <= row}
<1>1. above \subseteq 1 .. n
  OBVIOUS
<1>2. BottomOf(s, len, off) = IF row < 0 \/ above = {} THEN NoAnchor
                              ELSE CHOOSE i \in above : \A j \in above : j <= i
  BY DEF BottomOf
<1> HIDE DEF above, row
<1>3. CASE above = {}
  BY <1>2, <1>3
<1>4. CASE above # {}
  <2>1. \E i \in above : \A j \in above : j <= i
    BY <1>1, <1>4, GreatestUpTo
  <2>2. (CHOOSE i \in above : \A j \in above : j <= i) \in above
    BY <2>1
  <2> QED BY <1>1, <1>2, <2>2
<1> QED BY <1>3, <1>4

\* ui.rs `bottom_logical_line`: the line whose last row is the bottom row.
LastAbove(a, s, len, off) ==
  /\ len - (1 + off) >= 0 /\ a \in DOMAIN s
  /\ \A i \in DOMAIN s : s[i] <= len - (1 + off) <=> i <= a

LEMMA BottomIsLast ==
  ASSUME NEW n \in Nat, NEW s, DOMAIN s = 1 .. n, NEW len \in Nat, NEW off \in Nat,
         NEW a, LastAbove(a, s, len, off)
  PROVE  BottomOf(s, len, off) = a
<1> DEFINE row == len - (1 + off)
           above == {i \in DOMAIN s : s[i] <= row}
<1>1. above = {i \in 1 .. n : i <= a} /\ ~(row < 0) /\ a \in 1 .. n
  BY DEF LastAbove
<1>2. BottomOf(s, len, off) = IF row < 0 \/ above = {} THEN NoAnchor
                              ELSE CHOOSE i \in above : \A j \in above : j <= i
  BY DEF BottomOf
<1> HIDE DEF above, row
<1>3. a \in above /\ \A j \in above : j <= a
  BY <1>1
<1>4. \A i \in above : (\A j \in above : j <= i) => i = a
  BY <1>1, <1>3
<1>5. (CHOOSE i \in above : \A j \in above : j <= i) = a
  BY <1>3, <1>4
<1> QED BY <1>1, <1>2, <1>3, <1>5

LEMMA DrawKeepsType ==
  ASSUME ViewType, Draw
  PROVE  ViewType'
<1>1. PICK sum \in [0 .. Len(Content(view)) -> Nat] :
        /\ Len(Content(view)) \in Nat
        /\ starts' = [i \in 1 .. Len(Content(view)) |-> sum[i - 1]]
        /\ contentLen' = sum[Len(Content(view))]
        /\ offset' = Smaller(IF anchor = NoAnchor THEN offset
                             ELSE OffsetPutting(anchor, starts', contentLen', size.height),
                             MaxOffset(contentLen', size.height))
  BY DrawIs
<1> DEFINE n == Len(Content(view))
<1> HIDE DEF n
<1>2. n \in Nat /\ n \in 0 .. n /\ contentLen' \in Nat
  BY <1>1 DEF n
<1>3. size.height \in Nat /\ offset \in Nat
  BY ViewAssumption DEF ViewType
<1>4. \A i \in DOMAIN starts' : starts'[i] \in Nat
  <2>1. DOMAIN starts' = 1 .. n /\ \A i \in 1 .. n : i - 1 \in 0 .. n /\ starts'[i] = sum[i - 1]
    BY <1>1, <1>2 DEF n
  <2>2. sum \in [0 .. n -> Nat]
    BY DEF n
  <2> QED BY <2>1, <2>2
<1>5. OffsetPutting(anchor, starts', contentLen', size.height) \in Nat
  <2>1. \A a, b \in Nat : Less(a, b) \in Nat /\ Smaller(a, b) \in Nat
    BY DEF Less, Larger, Smaller
  <2>2. \A i \in DOMAIN starts' : Less(starts'[i], 1) \in Nat
    BY <1>4, <2>1
  <2>3. /\ Less(contentLen', 1) \in Nat
        /\ MaxOffset(contentLen', size.height) \in Nat
    BY <1>2, <1>3, <2>1 DEF MaxOffset
  <2> DEFINE lastRow == IF anchor + 1 \in DOMAIN starts' THEN Less(starts'[anchor + 1], 1)
                        ELSE Less(contentLen', 1)
  <2>4. lastRow \in Nat
    BY <2>2, <2>3, Zenon
  <2>5. OffsetPutting(anchor, starts', contentLen', size.height)
          = Smaller(Less(Less(contentLen', 1), lastRow), MaxOffset(contentLen', size.height))
    BY DEF OffsetPutting
  <2> HIDE DEF lastRow
  <2>6. Less(Less(contentLen', 1), lastRow) \in Nat
    BY <2>1, <2>3, <2>4, Zenon
  <2> QED BY <2>1, <2>3, <2>5, <2>6, Zenon
<1>6. offset' \in Nat
  <2>1. MaxOffset(contentLen', size.height) \in Nat
    BY <1>2, <1>3 DEF MaxOffset, Less, Larger
  <2> DEFINE place == IF anchor = NoAnchor THEN offset
                      ELSE OffsetPutting(anchor, starts', contentLen', size.height)
  <2>2. place \in Nat
    BY <1>3, <1>5, Zenon
  <2>3. offset' = Smaller(place, MaxOffset(contentLen', size.height))
    BY <1>1, Zenon
  <2> HIDE DEF place
  <2> QED BY <2>1, <2>2, <2>3 DEF Smaller
<1>7. height' \in Nat /\ UNCHANGED <<lines, size, view, time>>
  BY <1>3 DEF Draw
<1> QED BY <1>2, <1>6, <1>7 DEF lines, ViewType

\* buffer.rs `push`, for a line that arrives: unless one is evicted it goes below the
\* others of its slot, and unless it is late it is numbered after those that were shown.
LEMMA ArriveIs ==
  ASSUME ViewType, NEW p \in Proc, NEW o \in Outputs[p], Arrive(p, o)
  PROVE  /\ buffers' \in Buffers /\ stamped' \in [Reader -> Nat]
         /\ \A s \in Proc \ {p} : buffers'[s] = buffers[s]
         /\ ~evicted' => ~evicted
         /\ ~late' => ~late
         /\ \E x \in Entry :
              /\ ~late' => \A n \in shown.above : n < x.seq
              /\ ~evicted' /\ view \in {All, p} => buffers' = Pushed(buffers, p, x)
<1> DEFINE r == [proc |-> p, err |-> o.err]
           x == [out |-> o, seq |-> stamped[r]]
<1>1. /\ buffers' = [buffers EXCEPT ![p] = Push(@, x)]
      /\ stamped' = [stamped EXCEPT ![r] = NoLine]
      /\ evicted' = (evicted \/ (view \in {All, p} /\ Len(buffers[p]) = Capacity))
      /\ late' = (late \/ ~ \A n \in shown.above : n < x.seq)
  BY DEF Arrive
<1>2. r \in Reader /\ o \in Texts
  BY ViewAssumption DEF Reader, Texts
<1>3. x \in Entry
  BY <1>2 DEF ViewType, Entry
<1> HIDE DEF x, r
<1>4. stamped' \in [Reader -> Nat]
  BY <1>1 DEF ViewType, NoLine
<1>5. buffers[p] \in Seq(Entry) /\ Len(buffers[p]) \in Nat
  BY LenProperties DEF ViewType, Buffers
<1>6. Push(buffers[p], x) \in Seq(Entry)
  <2>1. CASE Len(buffers[p]) = Capacity
    <3>1. buffers[p] # <<>>
      BY <1>5, <2>1, EmptySeq, ViewAssumption DEF Capacity
    <3>2. Tail(buffers[p]) \in Seq(Entry)
      BY <1>5, <3>1, HeadTailProperties
    <3> QED BY <1>3, <2>1, <3>2, AppendProperties DEF Push
  <2>2. CASE Len(buffers[p]) # Capacity
    BY <1>3, <1>5, <2>2, AppendProperties DEF Push
  <2> QED BY <2>1, <2>2
<1>7. Len(buffers[p]) # Capacity => buffers' = Pushed(buffers, p, x)
  BY <1>1 DEF Push, Pushed
<1> HIDE DEF Push
<1>8. buffers' \in Buffers /\ \A s \in Proc \ {p} : buffers'[s] = buffers[s]
  BY <1>1, <1>6 DEF ViewType, Buffers
<1>9. /\ ~late' => ~late /\ \A n \in shown.above : n < x.seq
      /\ ~evicted' => ~evicted
      /\ ~evicted' /\ view \in {All, p} => buffers' = Pushed(buffers, p, x)
  BY <1>1, <1>7
<1> QED BY <1>3, <1>4, <1>8, <1>9

LEMMA TypeKept ==
  ASSUME ViewType, [Next]_vars
  PROVE  ViewType'
<1>0. offset \in Nat /\ height \in Nat /\ contentLen \in Nat /\ time \in DOMAIN StampWidth
  BY DEF ViewType
<1>1. CASE Draw
  BY <1>1, DrawKeepsType
<1>2. CASE NextPane \/ PrevPane \/ AllView \/ \E p \in Proc : JumpPane(p)
  <2>1. PICK v \in Views : Poll /\ SwitchView(v)
    <3>1. CyclePane(view, TRUE) \in Views /\ CyclePane(view, FALSE) \in Views
      BY PanesComeRound DEF ViewType
    <3> QED BY <1>2, <3>1 DEF NextPane, PrevPane, AllView, JumpPane, Views
  <2> QED BY <2>1 DEF Poll, SwitchView, lines, ViewType
<1>3. CASE LineUp \/ LineDown \/ PageUp \/ PageDown
  <2>1. PICK delta \in Int : Poll /\ ScrollBy(delta)
    <3>1. Page \in Int /\ -Page \in Int /\ 1 \in Int /\ -1 \in Int
      BY <1>0 DEF Page, Larger
    <3> HIDE DEF Page
    <3> QED BY <1>3, <3>1 DEF LineUp, LineDown, PageUp, PageDown
  <2>2. offset' \in Nat
    <3>1. offset' = ApplyScroll(offset, delta, MaxOffset(contentLen, height))
      BY <2>1 DEF ScrollBy
    <3> QED BY <1>0, <3>1 DEF ApplyScroll, MaxOffset, Less, Larger, Smaller
  <2> QED BY <2>1, <2>2 DEF Poll, ScrollBy, lines, ViewType
<1>4. CASE CycleTimeDisplay
  <2>1. time' \in DOMAIN StampWidth
    BY <1>0, <1>4 DEF CycleTimeDisplay, NextTime, StampWidth
  <2> QED BY <1>4, <2>1 DEF CycleTimeDisplay, Poll, lines, ViewType
<1>5. CASE ToggleWrap \/ (\E p \in Proc : ActOn(p)) \/ OtherKey
  BY <1>5 DEF ToggleWrap, ActOn, OtherKey, Poll, lines, ViewType
<1>6. CASE \E p \in Proc : \E o \in Outputs[p] : Arrive(p, o)
  <2>1. buffers' \in Buffers /\ stamped' \in [Reader -> Nat]
    BY <1>6, ArriveIs
  <2> QED BY <1>6, <2>1 DEF Arrive, uiVars, ViewType
<1>7. CASE Drained \/ \E s \in Sizes : Resize(s)
  BY <1>7 DEF Drained, Resize, lines, uiVars, ViewType
<1>8. CASE \E r \in Reader : Stamp(r)
  <2>1. nextSeq' \in Nat /\ stamped' \in [Reader -> Nat]
    BY <1>8 DEF Stamp, ViewType
  <2> QED BY <1>8, <2>1 DEF Stamp, uiVars, ViewType
<1>9. CASE UNCHANGED vars
  BY <1>9 DEF vars, lines, uiVars, ViewType
<1> QED BY <1>1, <1>2, <1>3, <1>4, <1>5, <1>6, <1>7, <1>8, <1>9 DEF Next

LEMMA TypeHolds == Spec => []ViewType
<1>1. Init => ViewType
  <2> SUFFICES ASSUME Init PROVE ViewType
    OBVIOUS
  <2>1. buffers \in Buffers /\ time \in DOMAIN StampWidth
    BY EmptySeq DEF Init, Buffers, StampWidth
  <2> QED BY <2>1 DEF Init, NoLine, ViewType, Views
<1>2. ViewType /\ [Next]_vars => ViewType'
  BY TypeKept
<1> QED BY <1>1, <1>2, PTL DEF Spec

------------------------------------------------------------------------------
(* Wrapping, following, and keeping one's place *)

\* Every line on the screen is there in full, within the edge, at every width, in every
\* view, with every stamp (ui.rs:790-852).
THEOREM WrapIsLossless == Spec => []WrapLosesNothing
<1>1. ViewType => WrapLosesNothing
  <2> SUFFICES ASSUME ViewType, NEW p \in Proc, NEW i \in DOMAIN buffers[p]
               PROVE  LET out    == buffers[p][i].out
                          prefix == PrefixWidth(out, view, time)
                          line   == TaggedLine(out, prefix)
                          rows   == Wrapped[out][prefix][size.width]
                          before == SumUpTo([k \in DOMAIN rows |-> Len(rows[k].cells)])
                      IN  /\ before[Len(rows)] = Len(line)
                          /\ \A k \in DOMAIN rows :
                               LET cells == rows[k].cells
                               IN  /\ \A j \in DOMAIN cells : cells[j] = line[before[k - 1] + j]
                                   /\ cells = <<>> => line = <<>>
                                   /\ \/ Cursor(rows[k])[Len(cells)] <= Limit(prefix, size.width)
                                      \/ Cardinality({j \in DOMAIN cells : cells[j] # 0}) = 1
    BY DEF WrapLosesNothing
  <2> DEFINE out    == buffers[p][i].out
             prefix == PrefixWidth(out, view, time)
             line   == TaggedLine(out, prefix)
             rows   == Wrapped[out][prefix][size.width]
  <2>1. out \in Texts
    <3>1. buffers[p] \in Seq(Entry) /\ DOMAIN buffers[p] = 1 .. Len(buffers[p])
      BY LenProperties DEF ViewType, Buffers
    <3>2. buffers[p][i] \in Entry
      BY <3>1, ElementOfSeq, Zenon
    <3> QED BY <3>2 DEF Entry
  <2> HIDE DEF out
  <2>2. prefix \in Nat
    BY <2>1, PrefixIs DEF ViewType
  <2>3. line \in Seq(Nat)
    BY <2>1, <2>2, TaggedIs
  <2>4. rows \in Rows /\ Wraps(rows, line, Len(line), Limit(prefix, size.width))
    BY <2>1, WrappedIs DEF ViewType
  <2> HIDE DEF prefix, line, rows
  <2>5. Counts(rows) = [k \in DOMAIN rows |-> Len(rows[k].cells)]
    BY DEF Counts
  <2> DEFINE before == SumUpTo(Counts(rows))
  <2>6. /\ before[Len(rows)] = Len(line)
        /\ \A k \in DOMAIN rows : \A j \in DOMAIN rows[k].cells :
             rows[k].cells[j] = line[before[k - 1] + j]
    BY <2>4 DEF Wraps, Holds
  <2>7. ASSUME NEW k \in DOMAIN rows
        PROVE  /\ rows[k].cells = <<>> => line = <<>>
               /\ \/ Cursor(rows[k])[Len(rows[k].cells)] <= Limit(prefix, size.width)
                  \/ Cardinality({j \in DOMAIN rows[k].cells : rows[k].cells[j] # 0}) = 1
    <3>1. /\ RowIsSound(rows[k], Limit(prefix, size.width))
          /\ rows[k].cells = <<>> => Len(line) = 0
      BY <2>4 DEF Wraps
    <3>2. Len(line) = 0 => line = <<>>
      BY <2>3, EmptySeq
    <3> QED BY <3>1, <3>2 DEF RowIsSound, Inked
  <2> HIDE DEF before
  <2> QED BY <2>5, <2>6, <2>7 DEF out, prefix, line, rows, before
<1> QED BY <1>1, TypeHolds, PTL

\* Between a frame and the next the tail is left by an upward scroll only.
FollowInv ==
  /\ pc = "key" => (shown.following <=> offset = 0) /\ anchor = NoAnchor
  /\ pc # "key" /\ shown.following /\ ~up => offset = 0 /\ anchor = NoAnchor

\* At the bottom a frame stays at the bottom.
LEMMA DrawFollows ==
  ASSUME ViewType, Draw, offset = 0, anchor = NoAnchor
  PROVE  offset' = 0
<1>1. /\ offset' = Smaller(offset, MaxOffset(contentLen', size.height))
      /\ contentLen' \in Nat
  BY DrawIs, DrawKeepsType DEF ViewType
<1>2. size.height \in Nat
  BY ViewAssumption DEF ViewType
<1> QED BY <1>1, <1>2 DEF MaxOffset, Less, Larger, Smaller

LEMMA FollowInvKept ==
  ASSUME ViewType, FollowInv, [Next]_vars
  PROVE  FollowInv'
<1>0. offset \in Nat /\ height \in Nat /\ contentLen \in Nat
  BY DEF ViewType
<1>1. CASE Draw
  <2>1. /\ pc' = "key" /\ anchor' = NoAnchor
        /\ shown'.following = (offset' = 0)
    BY <1>1 DEF Draw, Frame
  <2> QED BY <2>1 DEF FollowInv
<1>2. CASE NextPane \/ PrevPane \/ AllView \/ \E p \in Proc : JumpPane(p)
  <2>1. PICK v : Poll /\ SwitchView(v)
    BY <1>2 DEF NextPane, PrevPane, AllView, JumpPane
  <2> QED BY <2>1 DEF Poll, Key, SwitchView, FollowInv
<1>3. CASE LineUp \/ PageUp
  <2>1. PICK delta \in {1, Page} : Poll /\ ScrollBy(delta)
    BY <1>3 DEF LineUp, PageUp
  <2>2. delta > 0
    BY <1>0 DEF Page, Larger
  <2>3. pc' = "drain" /\ up' = (delta > 0)
    BY <2>1 DEF Poll, Key, ScrollBy
  <2> QED BY <2>2, <2>3 DEF FollowInv
<1>4. CASE LineDown \/ PageDown
  <2>1. PICK delta \in {-1, -Page} : Poll /\ ScrollBy(delta)
    BY <1>4 DEF LineDown, PageDown
  <2>2. offset = 0 => offset' = 0
    <3>1. delta \in Int /\ delta < 0
      BY <1>0 DEF Page, Larger
    <3>2. offset' = ApplyScroll(offset, delta, MaxOffset(contentLen, height))
      BY <2>1 DEF ScrollBy
    <3> QED BY <1>0, <3>1, <3>2 DEF ApplyScroll, MaxOffset, Less, Larger, Smaller
  <2>3. pc = "key" /\ pc' = "drain" /\ UNCHANGED <<shown, anchor>>
    BY <2>1 DEF Poll, Key, ScrollBy
  <2> QED BY <2>2, <2>3 DEF FollowInv
<1>5. CASE CycleTimeDisplay \/ (\E p \in Proc : ActOn(p)) \/ OtherKey
  BY <1>5 DEF CycleTimeDisplay, ActOn, OtherKey, Poll, Key, FollowInv
<1>6. CASE ToggleWrap
  BY <1>6 DEF ToggleWrap, Anchor, Poll, Key, FollowInv
<1>7. CASE \/ \E p \in Proc : \E o \in Outputs[p] : Arrive(p, o)
           \/ Drained \/ \E s \in Sizes : Resize(s)
  <2>1. /\ pc = "drain" /\ pc' \in {"drain", "draw"}
        /\ UNCHANGED <<offset, anchor, shown, up>>
    BY <1>7 DEF Arrive, Drained, Resize, uiVars, history
  <2> QED BY <2>1 DEF FollowInv
<1>8. CASE (\E r \in Reader : Stamp(r)) \/ UNCHANGED vars
  BY <1>8 DEF Stamp, vars, uiVars, history, FollowInv
<1> QED BY <1>1, <1>2, <1>3, <1>4, <1>5, <1>6, <1>7, <1>8 DEF Next

\* Only the user leaves the tail: not what arrives or is evicted, not a resize, not
\* another view or layout (ui.rs:319-322, 336-343, 371-379, 594-604).
THEOREM TailIsKept == Spec => FollowIsKept
<1>1. Init => FollowInv
  BY DEF Init, FollowInv
<1>2. ViewType /\ FollowInv /\ [Next]_vars => FollowInv'
  BY FollowInvKept
<1>3. ViewType /\ FollowInv /\ [Next]_vars => [Draw /\ shown.following /\ ~up => shown'.following]_vars
  <2> SUFFICES ASSUME ViewType, FollowInv, Draw, shown.following, ~up PROVE shown'.following
    OBVIOUS
  <2>1. pc = "draw" /\ shown'.following = (offset' = 0)
    BY DEF Draw, Frame
  <2>2. offset' = 0
    BY <2>1, DrawFollows DEF FollowInv
  <2> QED BY <2>1, <2>2
<1> QED BY <1>1, <1>2, <1>3, TypeHolds, PTL DEF Spec, FollowIsKept

\* The line that is held on to, by its place in what the view shows.
HeldAt(content) ==
  /\ anchor \in 1 .. Len(content)
  /\ content[anchor].seq = shown.bottom
  /\ view = All => \A i \in 1 .. anchor : content[i].seq \in shown.above

\* Before the key the frame is what the view shows; after `w` the line that was at its
\* bottom is the one held on to, as long as the view lost none and none came late.
PlaceInv ==
  /\ pc = "key" => /\ DOMAIN starts = 1 .. Len(Content(view))
                   /\ shown = Frame(Content(view), BottomLine, offset)
  /\ pc # "key" /\ toggled /\ ~evicted /\ ~late /\ shown.bottom # NoLine =>
       HeldAt(Content(view))

\* ui.rs `offset_putting_line_at_bottom`: with the layout of any width and any lines, the
\* line is at the bottom or the frame is scrolled up as far as it goes.
LEMMA DrawKeepsPlace ==
  ASSUME ViewType, Draw, anchor \in 1 .. Len(Content(view))
  PROVE  offset' = MaxOffset(contentLen', height') \/ BottomLine' = anchor
<1> DEFINE n == Len(Content(view))
           a == anchor
           len == contentLen'
           max == MaxOffset(len, size.height)
<1>1. PICK sum \in [0 .. n -> Nat] :
        /\ n \in Nat /\ sum[0] = 0
        /\ \A j \in 0 .. n : \A i \in 0 .. n : i < j => sum[i] < sum[j]
        /\ starts' = [i \in 1 .. n |-> sum[i - 1]]
        /\ len = sum[n]
        /\ offset' = Smaller(IF anchor = NoAnchor THEN offset
                             ELSE OffsetPutting(anchor, starts', len, size.height), max)
  BY DrawIs
<1>2. n \in Nat /\ a \in 1 .. n /\ a \in 0 .. n /\ n \in 0 .. n /\ 0 \in 0 .. n /\ a # NoAnchor
  BY <1>1, ViewAssumption
<1>3. height' = size.height /\ size.height \in Nat
  BY ViewAssumption DEF Draw, ViewType
<1>4. BottomLine' = BottomOf(starts', len, offset')
  BY DEF BottomLine, BottomOf
<1>5. offset' = Smaller(OffsetPutting(a, starts', len, size.height), max)
  BY <1>1, <1>2, Zenon
<1> HIDE DEF n, a, len, max
<1>6. sum[a] \in Nat \ {0} /\ len \in Nat /\ sum[a] <= len
  <2>1. sum[0] < sum[a] /\ sum[a] \in Nat /\ sum[0] = 0
    BY <1>1, <1>2
  <2>2. a < n => sum[a] < sum[n]
    BY <1>1, <1>2
  <2>3. a = n \/ a < n
    BY <1>2
  <2>4. len = sum[n] /\ sum[n] \in Nat
    BY <1>1, <1>2
  <2> QED BY <2>1, <2>2, <2>3, <2>4
<1>7. max \in Nat
  BY <1>3, <1>6 DEF max, MaxOffset, Less, Larger
<1> DEFINE lastRow == IF a + 1 \in DOMAIN starts' THEN Less(starts'[a + 1], 1) ELSE Less(len, 1)
<1>8. lastRow = sum[a] - 1
  <2>1. DOMAIN starts' = 1 .. n
    BY <1>1
  <2>2. Less(sum[a], 1) = sum[a] - 1
    BY <1>6 DEF Less, Larger
  <2>3. CASE a + 1 \in 1 .. n
    <3>1. starts'[a + 1] = sum[a]
      <4>1. (a + 1) - 1 = a
        BY <1>2
      <4> QED BY <1>1, <2>3, <4>1
    <3> QED BY <2>1, <2>2, <2>3, <3>1
  <2>4. CASE ~(a + 1 \in 1 .. n)
    <3>1. a = n
      BY <1>2, <2>4
    <3>2. len = sum[a]
      BY <1>1, <3>1
    <3> QED BY <2>1, <2>2, <2>4, <3>2
  <2> QED BY <2>3, <2>4
<1>9. OffsetPutting(a, starts', len, size.height) = Smaller(Less(Less(len, 1), lastRow), max)
  BY DEF OffsetPutting, max
<1> HIDE DEF lastRow
<1>10. Less(Less(len, 1), lastRow) = len - sum[a]
  BY <1>6, <1>8 DEF Less, Larger
<1>11. offset' = max \/ offset' = len - sum[a]
  BY <1>5, <1>9, <1>10 DEF Smaller
<1>12. CASE offset' = len - sum[a]
  <2>1. offset' \in Nat /\ len - (1 + offset') = sum[a] - 1 /\ len - (1 + offset') >= 0
    BY <1>6, <1>12
  <2>2. ASSUME NEW i \in 1 .. n PROVE starts'[i] <= sum[a] - 1 <=> i <= a
    <3>1. i \in Nat /\ i - 1 \in 0 .. n /\ starts'[i] = sum[i - 1] /\ sum[i - 1] \in Nat
      BY <1>1, <1>2
    <3>2. CASE i <= a
      <4>1. i - 1 < a
        BY <1>2, <3>1, <3>2
      <4>2. sum[i - 1] < sum[a]
        BY <1>1, <1>2, <3>1, <4>1
      <4> QED BY <1>6, <3>1, <3>2, <4>2
    <3>3. CASE ~(i <= a)
      <4>1. i - 1 = a \/ a < i - 1
        BY <1>2, <3>1, <3>3
      <4>2. sum[i - 1] = sum[a] \/ sum[a] < sum[i - 1]
        BY <1>1, <1>2, <3>1, <4>1
      <4> QED BY <1>6, <3>1, <3>3, <4>2
    <3> QED BY <3>2, <3>3
  <2>3. DOMAIN starts' = 1 .. n
    BY <1>1
  <2>4. \A i \in 1 .. n : starts'[i] <= len - (1 + offset') <=> i <= a
    BY <2>1, <2>2
  <2>5. LastAbove(a, starts', len, offset')
    BY <1>2, <2>1, <2>3, <2>4 DEF LastAbove
  <2>6. BottomOf(starts', len, offset') = a
    BY <1>2, <1>6, <2>1, <2>3, <2>5, BottomIsLast
  <2> QED BY <1>4, <2>6 DEF a
<1>13. CASE offset' = max
  BY <1>3, <1>13 DEF max, len
<1> QED BY <1>11, <1>12, <1>13

\* A line that arrives, unless it evicts one or comes late, leaves the one held on to
\* where it is: in a pane it goes below all others, in the all-view below those that
\* were shown.
LEMMA ArriveKeepsPlace ==
  ASSUME ViewType, NEW p \in Proc, NEW o \in Outputs[p], Arrive(p, o),
         HeldAt(Content(view)), ~evicted', ~late'
  PROVE  HeldAt(Content(view))'
<1>1. PICK x \in Entry :
        /\ \A n \in shown.above : n < x.seq
        /\ view \in {All, p} => buffers' = Pushed(buffers, p, x)
  BY ArriveIs
<1>2. /\ UNCHANGED <<view, anchor, shown>>
      /\ \A s \in Proc \ {p} : buffers'[s] = buffers[s]
  BY ArriveIs DEF Arrive, uiVars
<1>3. buffers \in Buffers /\ view \in Views /\ All \notin Proc
  BY DEF ViewType, All, Proc
<1>4. SUFFICES /\ anchor \in 1 .. Len(Content(view)')
               /\ \A i \in 1 .. anchor : Content(view)'[i] = Content(view)[i]
  <2>1. anchor \in 1 .. anchor
    BY DEF HeldAt
  <2> QED BY <1>2, <2>1 DEF HeldAt
<1>5. CASE view = All
  <2> DEFINE u == Interleaved(buffers)
             v == Interleaved(Pushed(buffers, p, x))
  <2>1. Content(view) = u /\ Content(view)' = v
    BY <1>1, <1>2, <1>5 DEF Content
  <2>2. anchor \in 1 .. Len(u) /\ \A i \in 1 .. anchor : u[i].seq < x.seq
    BY <1>1, <1>5, <2>1 DEF HeldAt
  <2>3. anchor \in 1 .. Len(v) /\ \A i \in 1 .. anchor : v[i] = u[i]
    BY <1>3, <2>2, MergeGrows
  <2> QED BY <2>1, <2>3
<1>6. CASE view = p
  <2>1. Content(view) = buffers[p] /\ Content(view)' = Pushed(buffers, p, x)[p]
    BY <1>1, <1>2, <1>3, <1>6 DEF Content
  <2> DEFINE b == Pushed(buffers, p, x)
  <2>2. /\ Len(buffers[p]) \in Nat /\ Len(b[p]) = Len(buffers[p]) + 1
        /\ \A i \in 1 .. Len(buffers[p]) : b[p][i] = buffers[p][i]
    BY <1>3, PushedIs
  <2> HIDE DEF b
  <2>3. anchor \in 1 .. Len(buffers[p])
    BY <2>1 DEF HeldAt
  <2>4. anchor \in 1 .. Len(b[p]) /\ \A i \in 1 .. anchor : b[p][i] = buffers[p][i]
    BY <2>2, <2>3
  <2> QED BY <2>1, <2>4 DEF b
<1>7. CASE view \in Proc \ {p}
  <2>1. Content(view)' = Content(view)
    BY <1>2, <1>3, <1>7 DEF Content
  <2> QED BY <2>1 DEF HeldAt
<1> QED BY <1>3, <1>5, <1>6, <1>7 DEF Views

LEMMA PlaceInvKept ==
  ASSUME ViewType, PlaceInv, [Next]_vars
  PROVE  PlaceInv'
<1>0. buffers \in Buffers /\ view \in Views
  BY DEF ViewType
<1>1. CASE Draw
  <2> DEFINE n == Len(Content(view))
  <2>1. Content(view)' = Content(view) /\ pc' = "key" /\ view' = view
    BY <1>1 DEF Draw, Content, lines
  <2>2. DOMAIN starts' = 1 .. n
    <3>1. DOMAIN starts' = DOMAIN Content(view)
      BY <1>1 DEF Draw
    <3> QED BY <1>0, <3>1, ContentHas
  <2>3. shown' = Frame(Content(view), BottomLine', offset')
    BY <1>1 DEF Draw
  <2>4. shown' = Frame(Content(view), BottomLine, offset)'
    BY <2>1, <2>3 DEF Frame
  <2> QED BY <2>1, <2>2, <2>4 DEF PlaceInv
<1>2. CASE ToggleWrap
  <2>1. /\ pc = "key" /\ pc' = "drain" /\ Content(view)' = Content(view)
        /\ shown' = shown /\ view' = view /\ toggled' = (offset # 0) /\ anchor' = Anchor
    BY <1>2 DEF ToggleWrap, Poll, Key, Content, lines
  <2>2. SUFFICES ASSUME offset # 0, shown.bottom # NoLine
                 PROVE  HeldAt(Content(view))'
    BY <2>1 DEF PlaceInv
  <2>3. anchor' = BottomLine
    BY <2>1, <2>2 DEF Anchor
  <2>4. DOMAIN starts = 1 .. Len(Content(view)) /\ Len(Content(view)) \in Nat
    BY <1>0, <2>1, ContentHas DEF PlaceInv
  <2>5. /\ shown.bottom = IF BottomLine = NoAnchor THEN NoLine ELSE Content(view)[BottomLine].seq
        /\ shown.above = IF BottomLine = NoAnchor \/ view # All THEN {}
                         ELSE {Content(view)[i].seq : i \in 1 .. BottomLine}
    BY <2>1 DEF PlaceInv, Frame
  <2>6. BottomLine \in 1 .. Len(Content(view)) \/ BottomLine = NoAnchor
    <3>1. BottomLine = BottomOf(starts, contentLen, offset)
      BY DEF BottomLine, BottomOf
    <3> QED BY <2>4, <3>1, BottomIs
  <2>7. BottomLine # NoAnchor
    BY <2>2, <2>5
  <2> QED BY <2>1, <2>3, <2>5, <2>6, <2>7 DEF HeldAt
<1>3. CASE \/ NextPane \/ PrevPane \/ AllView \/ (\E p \in Proc : JumpPane(p))
           \/ LineUp \/ LineDown \/ PageUp \/ PageDown
           \/ CycleTimeDisplay \/ (\E p \in Proc : ActOn(p)) \/ OtherKey
  <2>1. pc' = "drain" /\ toggled' = FALSE
    BY <1>3 DEF NextPane, PrevPane, AllView, JumpPane, SwitchView, LineUp, LineDown, PageUp,
                PageDown, ScrollBy, CycleTimeDisplay, ActOn, OtherKey, Poll, Key
  <2> QED BY <2>1 DEF PlaceInv
<1>4. CASE \E p \in Proc : \E o \in Outputs[p] : Arrive(p, o)
  <2>0. PICK p \in Proc : \E o \in Outputs[p] : Arrive(p, o)
    BY <1>4
  <2>1. PICK o \in Outputs[p] : Arrive(p, o)
    BY <2>0
  <2>2. /\ pc = "drain" /\ pc' = "drain" /\ UNCHANGED <<shown, toggled>>
        /\ ~evicted' => ~evicted
        /\ ~late' => ~late
    BY <2>1, ArriveIs DEF Arrive
  <2>3. SUFFICES ASSUME toggled, ~evicted', ~late', shown.bottom # NoLine
                 PROVE  HeldAt(Content(view))'
    BY <2>2 DEF PlaceInv
  <2>4. HeldAt(Content(view))
    BY <2>2, <2>3 DEF PlaceInv
  <2> QED BY <2>1, <2>3, <2>4, ArriveKeepsPlace
<1>5. CASE \/ \E r \in Reader : Stamp(r)
           \/ Drained \/ (\E s \in Sizes : Resize(s)) \/ UNCHANGED vars
  <2>1. UNCHANGED <<buffers, view, offset, contentLen, starts, anchor, shown, toggled, evicted,
                    late>>
    BY <1>5 DEF Stamp, Drained, Resize, vars, lines, uiVars, history
  <2>2. pc' = pc \/ (pc = "drain" /\ pc' # "key")
    BY <1>5 DEF Stamp, Drained, Resize, vars
  <2>3. Content(view)' = Content(view) /\ BottomLine' = BottomLine
    BY <2>1 DEF Content, BottomLine
  <2>4. /\ HeldAt(Content(view))' <=> HeldAt(Content(view))
        /\ Frame(Content(view), BottomLine, offset)' = Frame(Content(view), BottomLine, offset)
    BY <2>1, <2>3 DEF HeldAt, Frame
  <2> QED BY <2>1, <2>2, <2>3, <2>4 DEF PlaceInv
<1> QED BY <1>1, <1>2, <1>3, <1>4, <1>5 DEF Next

\* `w` keeps the line that was read at the bottom of the screen, whatever arrives and
\* whatever size the terminal has, unless the view lost a line or one came late above it
\* (README.md:166-167, ui.rs:371-379, 403-424, 594-598, buffer.rs:199-234).
THEOREM PlaceIsKept == Spec => WrapKeepsPlace
<1>1. Init => PlaceInv
  BY DEF Init, PlaceInv
<1>2. ViewType /\ PlaceInv /\ [Next]_vars => PlaceInv'
  BY PlaceInvKept
<1>3. ViewType /\ PlaceInv /\ [Next]_vars =>
        [Draw /\ toggled /\ ~evicted /\ ~late /\ shown.bottom # NoLine =>
           \/ shown'.bottom = shown.bottom
           \/ offset' = MaxOffset(contentLen', height')]_vars
  <2> SUFFICES ASSUME ViewType, PlaceInv, Draw, toggled, ~evicted, ~late,
                      shown.bottom # NoLine, offset' # MaxOffset(contentLen', height')
               PROVE  shown'.bottom = shown.bottom
    OBVIOUS
  <2>1. pc = "draw"
    BY DEF Draw
  <2>2. anchor \in 1 .. Len(Content(view)) /\ Content(view)[anchor].seq = shown.bottom
    BY <2>1 DEF PlaceInv, HeldAt
  <2>3. BottomLine' = anchor
    BY <2>2, DrawKeepsPlace
  <2>4. anchor # NoAnchor
    <3>1. anchor \in Nat
      BY <2>2
    <3> QED BY <3>1, ViewAssumption
  <2>5. shown'.bottom = IF BottomLine' = NoAnchor THEN NoLine
                        ELSE Content(view)[BottomLine'].seq
    BY DEF Draw, Frame
  <2> QED BY <2>2, <2>3, <2>4, <2>5
<1> QED BY <1>1, <1>2, <1>3, TypeHolds, PTL DEF Spec, WrapKeepsPlace
==============================================================================
