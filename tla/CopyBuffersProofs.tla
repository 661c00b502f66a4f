-------------------------- MODULE CopyBuffersProofs --------------------------
(***************************************************************************)
(* Theorems about CopyBuffers for every value of its constants: types, who *)
(* holds an encoder, and what the table gets of a batch.                   *)
(***************************************************************************)
EXTENDS CopyBuffers, SetLemmas, SequenceTheorems

-----------------------------------------------------------------------------
(* The cells of a buffer.                                                  *)

\* The first at cells of a buffer are the text.
Has(cells, at, text) ==
  at = Len(text) /\ at <= Len(cells) /\ \A i \in 1..at : cells[i] = text[i]

LEMMA CellsAreCells ==
  /\ Header \in Cell /\ Trailer \in Cell /\ Unset \in Cell
  /\ \A b \in Batches, i \in 1..MaxBatchRows : <<b, i>> \in Cell
BY DEF Cell, RowsOf

LEMMA RowTextType ==
  ASSUME NEW b \in Batches, NEW i \in 1..MaxBatchRows
  PROVE  /\ RowText(b, i) \in Seq(Cell) /\ RowCells[i] \in 1..RowReserve
         /\ Len(RowText(b, i)) = RowCells[i]
<1>1. RowCells[i] \in 1..RowReserve /\ RowReserve \in Nat
  BY BuffersAssumption
<1> DEFINE n == RowCells[i]
           c == <<b, i>>
<1>2. c \in Cell
  BY CellsAreCells
<1>3. RowText(b, i) = [k \in 1..n |-> c]
  BY DEF RowText
<1>4. n \in Nat
  BY <1>1
<1> HIDE DEF n, c
<1>5. [k \in 1..n |-> c] \in Seq(Cell) /\ Len([k \in 1..n |-> c]) = n
  BY <1>2, <1>4
<1> QED BY <1>1, <1>3, <1>5 DEF n

LEMMA OverwrittenKeeps ==
  ASSUME NEW cells \in Seq(Cell), NEW at \in Nat, NEW text \in Seq(Cell)
  PROVE  /\ Overwritten(cells, at, text) \in Seq(Cell)
         /\ Len(Overwritten(cells, at, text)) = Len(cells)
         /\ \A i \in 1..Len(cells) :
              Overwritten(cells, at, text)[i] =
                IF i > at /\ i <= at + Len(text) THEN text[i - at] ELSE cells[i]
<1> DEFINE new(i) == IF i > at /\ i <= at + Len(text) THEN text[i - at] ELSE cells[i]
<1>1. Len(cells) \in Nat /\ DOMAIN cells = 1..Len(cells) /\ Len(text) \in Nat
  OBVIOUS
<1>2. \A i \in 1..Len(cells) : new(i) \in Cell
  <2>1. ASSUME NEW i \in 1..Len(cells)
        PROVE  new(i) \in Cell
    <3>1. CASE i > at /\ i <= at + Len(text)
      <4>1. i - at \in 1..Len(text)
        BY <1>1, <3>1
      <4> QED BY <3>1, <4>1, ElementOfSeq
    <3>2. CASE ~(i > at /\ i <= at + Len(text))
      BY <3>2, ElementOfSeq
    <3> QED BY <3>1, <3>2
  <2> QED BY <2>1
<1>3. Overwritten(cells, at, text) = [i \in 1..Len(cells) |-> new(i)]
  BY <1>1 DEF Overwritten
<1> HIDE DEF new
<1>4. Overwritten(cells, at, text) \in Seq(Cell) /\ Len(Overwritten(cells, at, text)) = Len(cells)
  BY <1>1, <1>2, <1>3
<1>5. \A i \in 1..Len(cells) : Overwritten(cells, at, text)[i] = new(i)
  BY <1>3
<1> QED BY <1>4, <1>5 DEF new

LEMMA AllocatedType ==
  ASSUME NEW n \in Nat
  PROVE  Allocated(n) \in Seq(Cell) /\ Len(Allocated(n)) = n
BY CellsAreCells DEF Allocated

\* Doubled often enough, a buffer is as large as is asked for.
LEMMA DoublingReaches ==
  ASSUME NEW len \in Nat \ {0}, NEW m \in Nat \ {0}, NEW grown,
         grown = [k \in 0..m |-> IF k = 0 THEN len ELSE 2 * grown[k - 1]]
  PROVE  \A k \in 0..m : grown[k] \in Nat /\ grown[k] > k
<1> DEFINE N == {k \in Nat : k \in 0..m => grown[k] \in Nat /\ grown[k] > k}
<1>1. 0 \in N
  OBVIOUS
<1>2. ASSUME NEW k \in N
      PROVE  k + 1 \in N
  <2>1. CASE k + 1 \in 0..m
    <3>1. k \in 0..m /\ grown[k] \in Nat /\ grown[k] > k /\ k + 1 # 0 /\ (k + 1) - 1 = k
      BY <2>1
    <3>2. grown[k + 1] = 2 * grown[k]
      BY <2>1, <3>1
    <3> QED BY <3>1, <3>2
  <2> QED BY <2>1
<1>3. N \in SUBSET Nat
  OBVIOUS
<1> HIDE DEF N
<1>4. \A k \in Nat : k \in N
  BY <1>1, <1>2, <1>3, InductiveSet
<1>5. \A k \in 0..m : k \in Nat
  OBVIOUS
<1>6. \A k \in 0..m : k \in N
  BY <1>4, <1>5
<1> QED BY <1>6 DEF N

Doublings(len, m) ==
  CHOOSE g : g = [k \in 0..m |-> IF k = 0 THEN len ELSE 2 * g[k - 1]]

LEMMA DoublingsExist ==
  ASSUME NEW len \in Nat, NEW m \in Nat
  PROVE  Doublings(len, m) =
           [k \in 0..m |-> IF k = 0 THEN len ELSE 2 * Doublings(len, m)[k - 1]]
<1>1. PICK F \in [Nat \X Nat -> Nat] : \A k, x \in Nat : F[<<k, x>>] = 2 * x
  <2>1. [p \in Nat \X Nat |-> 2 * p[2]] \in [Nat \X Nat -> Nat]
    OBVIOUS
  <2> QED BY <2>1
<1>2. PICK g \in [Nat -> Nat] : Recurses(F, len, g)
  BY RecursionExists
<1>3. \A k \in Nat : k # 0 => k - 1 \in Nat /\ g[k] = 2 * g[k - 1]
  <2>1. ASSUME NEW k \in Nat, k # 0
        PROVE  k - 1 \in Nat /\ g[k] = 2 * g[k - 1]
    <3>1. k - 1 \in Nat /\ (k - 1) + 1 = k
      BY <2>1
    <3> QED BY <1>1, <1>2, <3>1 DEF Recurses
  <2> QED BY <2>1
<1> DEFINE h == [k \in 0..m |-> g[k]]
<1>4. \A k \in 0..m : h[k] = IF k = 0 THEN len ELSE 2 * h[k - 1]
  BY <1>2, <1>3 DEF Recurses
<1>5. h = [k \in 0..m |-> h[k]]
  OBVIOUS
<1> HIDE DEF h
<1>6. h = [k \in 0..m |-> IF k = 0 THEN len ELSE 2 * h[k - 1]]
  BY <1>4, <1>5
<1> QED BY <1>6 DEF Doublings

\* ensureCapacity() makes room for the addition and keeps what is written.
LEMMA EnsureMakesRoom ==
  ASSUME NEW cells \in Seq(Cell), Len(cells) > 0, NEW at \in 0..Len(cells), NEW add \in Nat \ {0}
  PROVE  /\ EnsureCapacity(cells, at, add) \in Seq(Cell)
         /\ Len(EnsureCapacity(cells, at, add)) >= at + add
         /\ \A i \in 1..at : EnsureCapacity(cells, at, add)[i] = cells[i]
<1>1. Len(cells) \in Nat /\ at \in Nat
  OBVIOUS
<1>2. CASE at + add <= Len(cells)
  BY <1>1, <1>2 DEF EnsureCapacity
<1>3. CASE ~(at + add <= Len(cells))
  <2> DEFINE m == at + add
             grown == Doublings(Len(cells), m)
             fits == {k \in 1..m : grown[k] >= m}
             size == grown[Min(fits)]
             kept == SubSeq(cells, 1, at)
  <2>1. EnsureCapacity(cells, at, add) = Overwritten(Allocated(size), 0, kept)
    BY <1>3 DEF EnsureCapacity, Doublings
  <2>2. m \in Nat \ {0}
    BY <1>1
  <2>3. \A k \in 0..m : grown[k] \in Nat /\ grown[k] > k
    <3> HIDE DEF m
    <3>1. Len(cells) \in Nat \ {0}
      BY <1>1
    <3>2. grown = [k \in 0..m |-> IF k = 0 THEN Len(cells) ELSE 2 * grown[k - 1]]
      BY <2>2, <3>1, DoublingsExist
    <3> HIDE DEF grown
    <3> QED BY <2>2, <3>1, <3>2, DoublingReaches
  <2>4. kept \in Seq(Cell) /\ Len(kept) = at /\ \A i \in 1..at : kept[i] = cells[i]
    BY <1>1
  <2> HIDE DEF grown, m, kept
  <2>5. m \in fits
    BY <2>2, <2>3
  <2>6. fits \in SUBSET Nat /\ fits # {}
    BY <2>5
  <2>7. Min(fits) \in fits
    BY <2>6, MinIsLeast
  <2>8. size \in Nat /\ size >= m
    BY <2>2, <2>3, <2>7
  <2> HIDE DEF size, fits
  <2>9. Allocated(size) \in Seq(Cell) /\ Len(Allocated(size)) = size
    BY <2>8, AllocatedType
  <2>10. /\ Overwritten(Allocated(size), 0, kept) \in Seq(Cell)
         /\ Len(Overwritten(Allocated(size), 0, kept)) = size
         /\ \A i \in 1..size : Overwritten(Allocated(size), 0, kept)[i] =
              IF i > 0 /\ i <= 0 + Len(kept) THEN kept[i - 0] ELSE Allocated(size)[i]
    BY <2>4, <2>9, OverwrittenKeeps
  <2>11. \A i \in 1..at : /\ i \in 1..size /\ i > 0 /\ i <= 0 + Len(kept) /\ i - 0 = i
    BY <1>1, <2>2, <2>4, <2>8 DEF m
  <2>12. \A i \in 1..at : Overwritten(Allocated(size), 0, kept)[i] = cells[i]
    BY <2>4, <2>10, <2>11
  <2> QED BY <2>1, <2>8, <2>10, <2>12 DEF m
<1> QED BY <1>2, <1>3

\* What is written into the room that was made follows what the buffer had.
LEMMA AppendsText ==
  ASSUME NEW cells \in Seq(Cell), Len(cells) > 0, NEW at \in 0..Len(cells),
         NEW old \in Seq(Cell), Has(cells, at, old),
         NEW add \in Nat \ {0}, NEW text \in Seq(Cell), Len(text) <= add
  PROVE  LET new == Overwritten(EnsureCapacity(cells, at, add), at, text)
         IN /\ new \in Seq(Cell) /\ Len(new) > 0 /\ at + Len(text) \in 0..Len(new)
            /\ Has(new, at + Len(text), old \o text)
<1> DEFINE room == EnsureCapacity(cells, at, add)
           new == Overwritten(room, at, text)
<1>1. /\ Len(cells) \in Nat /\ at \in Nat /\ Len(text) \in Nat /\ Len(old) = at
      /\ \A i \in 1..at : cells[i] = old[i]
  BY DEF Has
<1>2. room \in Seq(Cell) /\ Len(room) >= at + add /\ \A i \in 1..at : room[i] = cells[i]
  BY EnsureMakesRoom
<1> HIDE DEF room
<1>3. /\ new \in Seq(Cell) /\ Len(new) = Len(room)
      /\ \A i \in 1..Len(room) :
           new[i] = IF i > at /\ i <= at + Len(text) THEN text[i - at] ELSE room[i]
  BY <1>1, <1>2, OverwrittenKeeps
<1> HIDE DEF new
<1>4. Len(room) \in Nat
  BY <1>2
<1>5. /\ Len(old \o text) = at + Len(text)
      /\ \A i \in 1..at + Len(text) :
           (old \o text)[i] = IF i <= at THEN old[i] ELSE text[i - at]
  BY <1>1, ConcatProperties
<1>6. ASSUME NEW i \in 1..at + Len(text)
      PROVE  new[i] = (old \o text)[i]
  <2>1. i \in 1..Len(room)
    BY <1>1, <1>2, <1>4
  <2>2. CASE i <= at
    <3>1. i \in 1..at /\ ~(i > at)
      BY <1>1, <2>2
    <3>2. new[i] = room[i] /\ room[i] = cells[i] /\ cells[i] = old[i]
      BY <1>1, <1>2, <1>3, <2>1, <3>1
    <3> QED BY <1>5, <2>2, <3>2
  <2>3. CASE ~(i <= at)
    <3>1. i > at /\ i <= at + Len(text)
      BY <1>1, <2>3
    <3> QED BY <1>3, <1>5, <2>1, <2>3, <3>1
  <2> QED BY <2>2, <2>3
<1>7. at + Len(text) <= Len(new) /\ Len(new) > 0 /\ at + Len(text) \in 0..Len(new)
  BY <1>1, <1>2, <1>3, <1>4
<1>8. Has(new, at + Len(text), old \o text)
  BY <1>5, <1>6, <1>7 DEF Has
<1> QED BY <1>3, <1>7, <1>8 DEF new, room

-----------------------------------------------------------------------------
(* What a batch of n rows has written.                                     *)

Rows(b, n) == FlattenSeq([i \in 1..n |-> RowText(b, i)])

Written(b, n) == <<Header>> \o Rows(b, n)

Joined(b, n) ==
  CHOOSE g : g = [i \in 1..n |-> IF i = 1 THEN RowText(b, i) ELSE g[i - 1] \o RowText(b, i)]

\* The rows laid end to end, for any number of them.
RowsSoFar(b, g) ==
  /\ g \in [Nat -> Seq(Cell)] /\ g[0] = <<>>
  /\ \A n \in Nat : n + 1 \in 1..MaxBatchRows => g[n + 1] = g[n] \o RowText(b, n + 1)

LEMMA RowsSoFarExists ==
  ASSUME NEW b \in Batches
  PROVE  \E g : RowsSoFar(b, g)
<1> DEFINE F == [p \in Nat \X Seq(Cell) |->
                   IF p[1] + 1 \in 1..MaxBatchRows THEN p[2] \o RowText(b, p[1] + 1) ELSE p[2]]
<1>1. ASSUME NEW n \in Nat, NEW s \in Seq(Cell)
      PROVE  /\ F[<<n, s>>] \in Seq(Cell)
             /\ n + 1 \in 1..MaxBatchRows => F[<<n, s>>] = s \o RowText(b, n + 1)
  <2>1. F[<<n, s>>] = IF n + 1 \in 1..MaxBatchRows THEN s \o RowText(b, n + 1) ELSE s
    OBVIOUS
  <2> HIDE DEF F
  <2>2. CASE n + 1 \in 1..MaxBatchRows
    <3>1. RowText(b, n + 1) \in Seq(Cell)
      BY <2>2, RowTextType
    <3> QED BY <2>1, <2>2, <3>1, ConcatProperties
  <2>3. CASE n + 1 \notin 1..MaxBatchRows
    BY <2>1, <2>3
  <2> QED BY <2>2, <2>3
<1>2. F \in [Nat \X Seq(Cell) -> Seq(Cell)]
  <2>1. F = [p \in Nat \X Seq(Cell) |-> F[p]]
    OBVIOUS
  <2>2. \A p \in Nat \X Seq(Cell) : p[1] \in Nat /\ p[2] \in Seq(Cell) /\ p = <<p[1], p[2]>>
    OBVIOUS
  <2> HIDE DEF F
  <2>3. \A p \in Nat \X Seq(Cell) : F[p] \in Seq(Cell)
    BY <1>1, <2>2
  <2> QED BY <2>1, <2>3
<1>3. <<>> \in Seq(Cell)
  OBVIOUS
<1> HIDE DEF F
<1>4. PICK g \in [Nat -> Seq(Cell)] : Recurses(F, <<>>, g)
  BY <1>2, <1>3, RecursionExists
<1>5. \A n \in Nat : n + 1 \in 1..MaxBatchRows => g[n + 1] = g[n] \o RowText(b, n + 1)
  BY <1>1, <1>4 DEF Recurses
<1> QED BY <1>4, <1>5 DEF RowsSoFar, Recurses

\* FlattenSeq lays the rows end to end.
LEMMA RowsAreJoined ==
  ASSUME NEW b \in Batches, NEW g, RowsSoFar(b, g), NEW n \in 0..MaxBatchRows
  PROVE  Rows(b, n) = g[n]
<1>1. n \in Nat /\ MaxBatchRows \in Nat
  BY BuffersAssumption
<1> DEFINE texts == [i \in 1..n |-> RowText(b, i)]
           join == Joined(b, n)
<1>2. texts \in Seq(Seq(Cell)) /\ Len(texts) = n /\ \A i \in 1..n : texts[i] = RowText(b, i)
  <2>1. \A i \in 1..n : RowText(b, i) \in Seq(Cell)
    BY <1>1, RowTextType
  <2> QED BY <1>1, <2>1
<1>3. CASE n = 0
  <2>1. texts = <<>>
    BY <1>3
  <2>2. Rows(b, n) = texts
    BY <1>2, <1>3 DEF Rows, FlattenSeq
  <2> QED BY <1>3, <2>1, <2>2 DEF RowsSoFar
<1>4. CASE n # 0
  <2>1. Rows(b, n) = join[n]
    <3>1. Rows(b, n) = FlattenSeq(texts)
      BY DEF Rows
    <3> DEFINE flatten == CHOOSE f : f = [i \in 1..Len(texts) |->
                            IF i = 1 THEN texts[i] ELSE f[i - 1] \o texts[i]]
    <3>2. FlattenSeq(texts) = flatten[Len(texts)]
      <4> HIDE DEF texts
      <4> QED BY <1>2, <1>4 DEF FlattenSeq
    <3>3. ASSUME NEW f
          PROVE  [i \in 1..Len(texts) |-> IF i = 1 THEN texts[i] ELSE f[i - 1] \o texts[i]]
                 = [i \in 1..n |-> IF i = 1 THEN RowText(b, i) ELSE f[i - 1] \o RowText(b, i)]
      BY <1>2
    <3> HIDE DEF texts
    <3>4. flatten = join
      BY <3>3, ZenonT(40) DEF Joined
    <3> QED BY <1>2, <3>1, <3>2, <3>4
  <2> HIDE DEF texts
  <2>2. join = [i \in 1..n |-> IF i = 1 THEN RowText(b, i) ELSE join[i - 1] \o RowText(b, i)]
    <3> DEFINE h == [i \in 1..n |-> g[i]]
    <3>1. ASSUME NEW i \in 1..n
          PROVE  h[i] = IF i = 1 THEN RowText(b, i) ELSE h[i - 1] \o RowText(b, i)
      <4>1. i - 1 \in Nat /\ (i - 1) + 1 = i /\ i \in 1..MaxBatchRows
        BY <1>1
      <4>2. g[i] = g[i - 1] \o RowText(b, i)
        BY <4>1 DEF RowsSoFar
      <4>3. CASE i = 1
        <5>1. RowText(b, i) \in Seq(Cell)
          BY <4>1, RowTextType
        <5>2. i - 1 = 0
          BY <4>3
        <5>3. g[i] = <<>> \o RowText(b, i)
          BY <4>2, <5>2 DEF RowsSoFar
        <5> QED BY <4>3, <5>1, <5>3, ConcatEmptySeq
      <4>4. CASE i # 1
        <5>1. i - 1 \in 1..n
          BY <4>1, <4>4
        <5> QED BY <4>2, <4>4, <5>1
      <4> QED BY <4>3, <4>4
    <3>2. h = [i \in 1..n |-> h[i]]
      OBVIOUS
    <3> HIDE DEF h
    <3>3. h = [i \in 1..n |-> IF i = 1 THEN RowText(b, i) ELSE h[i - 1] \o RowText(b, i)]
      BY <3>1, <3>2
    <3> QED BY <3>3 DEF Joined
  <2> HIDE DEF join
  <2> DEFINE N == {k \in Nat : k \in 1..n => join[k] = g[k]}
  <2>3. 0 \in N
    OBVIOUS
  <2>4. ASSUME NEW k \in N
        PROVE  k + 1 \in N
    <3>1. CASE k + 1 \in 1..n
      <4>1. k \in Nat /\ k + 1 \in 1..MaxBatchRows /\ (k + 1) - 1 = k
        BY <1>1, <3>1
      <4>2. g[k + 1] = g[k] \o RowText(b, k + 1)
        BY <4>1 DEF RowsSoFar
      <4>3. join[k + 1] = IF k + 1 = 1 THEN RowText(b, k + 1) ELSE join[k] \o RowText(b, k + 1)
        BY <2>2, <3>1, <4>1
      <4>4. CASE k = 0
        <5>1. RowText(b, k + 1) \in Seq(Cell)
          BY <4>1, RowTextType
        <5>2. g[k + 1] = <<>> \o RowText(b, k + 1)
          BY <4>2, <4>4 DEF RowsSoFar
        <5>3. g[k + 1] = join[k + 1]
          BY <4>3, <4>4, <5>1, <5>2, ConcatEmptySeq
        <5> QED BY <4>1, <5>3
      <4>5. CASE k # 0
        <5>1. k \in 1..n /\ k + 1 # 1
          BY <3>1, <4>1, <4>5
        <5>2. g[k + 1] = join[k + 1]
          BY <4>2, <4>3, <5>1
        <5> QED BY <4>1, <5>2
      <4> QED BY <4>4, <4>5
    <3> QED BY <3>1
  <2>5. N \in SUBSET Nat
    OBVIOUS
  <2> HIDE DEF N
  <2>6. n \in N
    BY <1>1, <2>3, <2>4, <2>5, InductiveSet
  <2>7. n \in 1..n
    BY <1>1, <1>4
  <2>8. join[n] = g[n]
    BY <2>6, <2>7 DEF N
  <2> QED BY <2>1, <2>8
<1> QED BY <1>3, <1>4

LEMMA WrittenType ==
  ASSUME NEW b \in Batches, NEW n \in 0..MaxBatchRows
  PROVE  /\ Written(b, n) \in Seq(Cell)
         /\ Payload(b, n) = Written(b, n) \o <<Trailer>>
         /\ Payload(b, n) \in Seq(Cell) /\ Len(Payload(b, n)) = Len(Written(b, n)) + 1
<1>1. PICK g : RowsSoFar(b, g)
  BY RowsSoFarExists
<1>2. Rows(b, n) \in Seq(Cell)
  <2>1. Rows(b, n) = g[n]
    BY <1>1, RowsAreJoined
  <2>2. n \in Nat
    BY BuffersAssumption
  <2> QED BY <1>1, <2>1, <2>2 DEF RowsSoFar
<1>3. <<Header>> \in Seq(Cell) /\ <<Trailer>> \in Seq(Cell) /\ Len(<<Trailer>>) = 1
  BY CellsAreCells
<1>4. Payload(b, n) = Written(b, n) \o <<Trailer>>
  BY DEF Payload, Written, Rows
<1>5. Written(b, n) \in Seq(Cell)
  BY <1>2, <1>3, ConcatProperties DEF Written
<1> QED BY <1>3, <1>4, <1>5, ConcatProperties

LEMMA WrittenFirst ==
  ASSUME NEW b \in Batches
  PROVE  Written(b, 0) = <<Header>>
<1>1. PICK g : RowsSoFar(b, g)
  BY RowsSoFarExists
<1>2. 0 \in 0..MaxBatchRows
  BY BuffersAssumption
<1>3. Rows(b, 0) = <<>>
  BY <1>1, <1>2, RowsAreJoined DEF RowsSoFar
<1>4. <<Header>> \in Seq(Cell)
  BY CellsAreCells
<1> QED BY <1>3, <1>4, ConcatEmptySeq DEF Written

LEMMA WrittenNext ==
  ASSUME NEW b \in Batches, NEW n \in Nat, n + 1 \in 1..MaxBatchRows
  PROVE  Written(b, n + 1) = Written(b, n) \o RowText(b, n + 1)
<1>1. PICK g : RowsSoFar(b, g)
  BY RowsSoFarExists
<1>2. n \in 0..MaxBatchRows /\ n + 1 \in 0..MaxBatchRows
  BY BuffersAssumption
<1>3. Rows(b, n + 1) = Rows(b, n) \o RowText(b, n + 1) /\ Rows(b, n) \in Seq(Cell)
  BY <1>1, <1>2, RowsAreJoined DEF RowsSoFar
<1>4. <<Header>> \in Seq(Cell) /\ RowText(b, n + 1) \in Seq(Cell)
  BY CellsAreCells, RowTextType
<1>5. (<<Header>> \o Rows(b, n)) \o RowText(b, n + 1)
      = <<Header>> \o (Rows(b, n) \o RowText(b, n + 1))
  BY <1>3, <1>4, ConcatAssociative
<1> QED BY <1>3, <1>5 DEF Written

-----------------------------------------------------------------------------
(* writeLogRow() for each row of a chunk.                                  *)

EncoderStates ==
  {s \in [cells : Seq(Cell), at : Nat] : Len(s.cells) > 0 /\ s.at <= Len(s.cells)}

LEMMA WriteLogRowAppends ==
  ASSUME NEW s \in EncoderStates, NEW b \in Batches, NEW i \in 1..MaxBatchRows,
         NEW old \in Seq(Cell), Has(s.cells, s.at, old)
  PROVE  LET new == WriteLogRow(s, <<b, i>>)
         IN new \in EncoderStates /\ Has(new.cells, new.at, old \o RowText(b, i))
<1> DEFINE text == RowText(b, i)
           cells == Overwritten(EnsureCapacity(s.cells, s.at, RowReserve), s.at, text)
<1>1. /\ s.cells \in Seq(Cell) /\ Len(s.cells) > 0 /\ s.at \in Nat /\ s.at <= Len(s.cells)
      /\ Len(s.cells) \in Nat
  BY DEF EncoderStates
<1>2. s.at \in 0..Len(s.cells)
  BY <1>1
<1>3. text \in Seq(Cell) /\ Len(text) \in 1..RowReserve /\ RowReserve \in Nat \ {0}
  BY RowTextType, BuffersAssumption
<1>4. WriteLogRow(s, <<b, i>>) = [cells |-> cells, at |-> s.at + Len(text)]
  BY DEF WriteLogRow
<1> HIDE DEF text
<1>5. Len(text) <= RowReserve /\ Len(text) \in Nat
  BY <1>3
<1>6. /\ cells \in Seq(Cell) /\ Len(cells) > 0 /\ s.at + Len(text) \in 0..Len(cells)
      /\ Has(cells, s.at + Len(text), old \o text)
  BY <1>1, <1>2, <1>3, <1>5, AppendsText
<1> HIDE DEF cells
<1>7. [cells |-> cells, at |-> s.at + Len(text)] \in EncoderStates
  <2>1. s.at + Len(text) \in Nat /\ s.at + Len(text) <= Len(cells)
    BY <1>1, <1>5, <1>6
  <2> QED BY <1>6, <2>1 DEF EncoderStates
<1> QED BY <1>4, <1>6, <1>7 DEF text

\* What FoldLeft computes by: the rows up to the greatest of a set of indices.
RowFold(seq, start, S) ==
  CHOOSE f : f = [s \in SUBSET S |->
                    IF s = {} THEN start ELSE WriteLogRow(f[s \ {Max(s)}], seq[Max(s)])]

LEMMA FoldLeftIsRowFold ==
  ASSUME NEW seq, NEW start
  PROVE  FoldLeft(WriteLogRow, start, seq) = RowFold(seq, start, DOMAIN seq)[DOMAIN seq]
BY DEF FoldLeft, MapThenFoldSet, RowFold

IsRowFold(f, seq, start, S) ==
  \A s \in SUBSET S :
    f[s] = IF s = {} THEN start ELSE WriteLogRow(f[s \ {Max(s)}], seq[Max(s)])

IsChunk(seq, b, r, n) == \A i \in 1..n : seq[i] = <<b, r + i>>

LEMMA RowFoldExists ==
  ASSUME NEW n \in Nat, NEW b \in Batches, NEW r \in Nat, r + n <= MaxBatchRows,
         NEW start \in EncoderStates, NEW seq, IsChunk(seq, b, r, n)
  PROVE  IsRowFold(RowFold(seq, start, 1..n), seq, start, 1..n)
<1> DEFINE S == 1..n
           V == EncoderStates
           F == [p \in S \X V |-> WriteLogRow(p[2], seq[p[1]])]
           h == [s \in SUBSET S |-> Max(s)]
<1>1. IsFiniteSet(S)
  BY FS_Interval
<1>2. \A s \in SUBSET S : s # {} => Max(s) \in s
  <2>1. ASSUME NEW s \in SUBSET S, s # {}
        PROVE  Max(s) \in s
    <3>1. s \in SUBSET Nat /\ \A x \in s : x <= n
      OBVIOUS
    <3> QED BY <2>1, <3>1, MaxIsGreatest
  <2> QED BY <2>1
<1>3. ChoosesIn(S, h) /\ \A s \in SUBSET S : h[s] = Max(s)
  BY <1>2 DEF ChoosesIn
<1>4. ASSUME NEW i \in S, NEW v \in V
      PROVE  WriteLogRow(v, seq[i]) \in V
  <2>1. seq[i] = <<b, r + i>> /\ r + i \in 1..MaxBatchRows
    BY BuffersAssumption DEF IsChunk
  <2>2. /\ v.cells \in Seq(Cell) /\ v.at \in Nat /\ v.at <= Len(v.cells) /\ Len(v.cells) \in Nat
    BY DEF EncoderStates
  <2> DEFINE old == SubSeq(v.cells, 1, v.at)
  <2>3. old \in Seq(Cell) /\ Has(v.cells, v.at, old)
    BY <2>2 DEF Has
  <2> HIDE DEF old
  <2> QED BY <2>1, <2>3, WriteLogRowAppends
<1>5. F \in [S \X V -> V] /\ \A i \in S, v \in V : F[<<i, v>>] = WriteLogRow(v, seq[i])
  <2>1. \A i \in S, v \in V : F[<<i, v>>] = WriteLogRow(v, seq[i])
    OBVIOUS
  <2>2. \A p \in S \X V : WriteLogRow(p[2], seq[p[1]]) \in V
    <3> HIDE DEF S, V
    <3>1. \A p \in S \X V : p[1] \in S /\ p[2] \in V
      OBVIOUS
    <3> QED BY <1>4, <3>1
  <2> QED BY <2>1, <2>2
<1>6. start \in V
  OBVIOUS
<1> HIDE DEF F, h, S, V
<1>7. PICK g \in [SUBSET S -> V] : IsFold(S, start, F, h, g)
  BY <1>1, <1>3, <1>5, <1>6, FoldExists
<1>8. ASSUME NEW s \in SUBSET S
      PROVE  g[s] = IF s = {} THEN start ELSE WriteLogRow(g[s \ {Max(s)}], seq[Max(s)])
  <2>1. CASE s = {}
    BY <1>7, <2>1 DEF IsFold
  <2>2. CASE s # {}
    <3>1. Max(s) \in S /\ s \ {Max(s)} \in SUBSET S
      BY <1>2, <2>2
    <3>2. g[s] = F[<<h[s], g[s \ {h[s]}]>>] /\ h[s] = Max(s)
      BY <1>3, <1>7, <2>2 DEF IsFold
    <3>3. g[s \ {Max(s)}] \in V
      BY <1>7, <3>1
    <3> QED BY <1>5, <2>2, <3>1, <3>2, <3>3
  <2> QED BY <2>1, <2>2
<1>9. g = [s \in SUBSET S |->
             IF s = {} THEN start ELSE WriteLogRow(g[s \ {Max(s)}], seq[Max(s)])]
  BY <1>7, <1>8
<1> DEFINE f == RowFold(seq, start, S)
<1>10. f = [s \in SUBSET S |->
              IF s = {} THEN start ELSE WriteLogRow(f[s \ {Max(s)}], seq[Max(s)])]
  BY <1>9 DEF RowFold
<1> HIDE DEF f
<1>11. \A s \in SUBSET S :
         f[s] = IF s = {} THEN start ELSE WriteLogRow(f[s \ {Max(s)}], seq[Max(s)])
  BY <1>10
<1> QED BY <1>11 DEF f, S, IsRowFold

\* A chunk of rows written one after the other follows what the batch had.
LEMMA RowsAppend ==
  ASSUME NEW n \in Nat, NEW b \in Batches, NEW r \in Nat, r + n <= MaxBatchRows,
         NEW start \in EncoderStates, Has(start.cells, start.at, Written(b, r))
  PROVE  LET done == FoldLeft(WriteLogRow, start, [i \in 1..n |-> <<b, r + i>>])
         IN done \in EncoderStates /\ Has(done.cells, done.at, Written(b, r + n))
<1> DEFINE seq == [i \in 1..n |-> <<b, r + i>>]
           f == RowFold(seq, start, 1..n)
           N == {k \in Nat : k <= n => /\ f[1..k] \in EncoderStates
                                       /\ Has(f[1..k].cells, f[1..k].at, Written(b, r + k))}
<1>1. IsChunk(seq, b, r, n)
  BY DEF IsChunk
<1>2. DOMAIN seq = 1..n
  OBVIOUS
<1> HIDE DEF seq
<1>3. IsRowFold(f, seq, start, 1..n)
  BY <1>1, RowFoldExists
<1> HIDE DEF f
<1>4. 0 \in N
  <2>1. 1..0 = {} /\ {} \in SUBSET (1..n) /\ r + 0 = r
    OBVIOUS
  <2>2. f[1..0] = start
    BY <1>3, <2>1 DEF IsRowFold
  <2> QED BY <2>1, <2>2
<1>5. ASSUME NEW k \in N
      PROVE  k + 1 \in N
  <2>1. k \in Nat /\ k + 1 \in Nat
    OBVIOUS
  <2>2. CASE k + 1 <= n
    <3>1. /\ f[1..k] \in EncoderStates /\ k + 1 \in 1..n
          /\ Has(f[1..k].cells, f[1..k].at, Written(b, r + k))
      BY <2>1, <2>2
    <3>2. Max(1..k + 1) = k + 1
      <4>1. 1..k + 1 \in SUBSET Nat /\ k + 1 \in 1..k + 1 /\ \A y \in 1..k + 1 : y <= k + 1
        BY <2>1
      <4>2. Max(1..k + 1) \in 1..k + 1 /\ \A y \in 1..k + 1 : Max(1..k + 1) >= y
        BY <2>1, <4>1, MaxIsGreatest
      <4>3. Max(1..k + 1) >= k + 1 /\ Max(1..k + 1) <= k + 1 /\ Max(1..k + 1) \in Nat
        BY <4>1, <4>2
      <4> QED BY <2>1, <4>3
    <3>3. (1..k + 1) \ {k + 1} = 1..k /\ 1..k + 1 \in SUBSET (1..n) /\ 1..k + 1 # {}
      <4> HIDE DEF N
      <4>1. \A i \in Int : i \in (1..k + 1) \ {k + 1} <=> i \in 1..k
        BY <2>1
      <4>2. (1..k + 1) \ {k + 1} = 1..k
        BY <4>1
      <4>3. \A i \in 1..k + 1 : i \in 1..n
        BY <2>1, <2>2
      <4>4. k + 1 \in 1..k + 1
        BY <2>1
      <4> QED BY <4>2, <4>3, <4>4
    <3>4. f[1..k + 1] = WriteLogRow(f[1..k], <<b, r + (k + 1)>>)
      BY <1>1, <1>3, <3>1, <3>2, <3>3 DEF IsRowFold, IsChunk
    <3>5. /\ r + (k + 1) \in 1..MaxBatchRows /\ r + k \in Nat /\ r + k \in 0..MaxBatchRows
          /\ (r + k) + 1 = r + (k + 1)
      BY <2>1, <2>2, BuffersAssumption
    <3>6. Written(b, r + k) \in Seq(Cell)
      BY <3>5, WrittenType
    <3>7. Written(b, r + (k + 1)) = Written(b, r + k) \o RowText(b, r + (k + 1))
      BY <3>5, WrittenNext
    <3>8. /\ f[1..k + 1] \in EncoderStates
          /\ Has(f[1..k + 1].cells, f[1..k + 1].at, Written(b, r + (k + 1)))
      BY <3>1, <3>4, <3>5, <3>6, <3>7, WriteLogRowAppends
    <3> QED BY <2>1, <3>8
  <2>3. CASE ~(k + 1 <= n)
    BY <2>1, <2>3
  <2> QED BY <2>2, <2>3
<1>6. N \in SUBSET Nat
  OBVIOUS
<1> HIDE DEF N
<1>7. n \in N
  BY <1>4, <1>5, <1>6, InductiveSet
<1>8. n <= n
  OBVIOUS
<1>9. f[1..n] \in EncoderStates /\ Has(f[1..n].cells, f[1..n].at, Written(b, r + n))
  BY <1>7, <1>8 DEF N
<1>10. FoldLeft(WriteLogRow, start, seq) = f[1..n]
  BY <1>2, FoldLeftIsRowFold DEF f
<1> QED BY <1>9, <1>10 DEF seq

\* finish() appends the trailer.
LEMMA FinishedAppends ==
  ASSUME NEW cells \in Seq(Cell), Len(cells) > 0, NEW at \in 0..Len(cells),
         NEW b \in Batches, NEW n \in 0..MaxBatchRows
  PROVE  /\ Finished(cells, at) \in Seq(Cell) /\ Len(Finished(cells, at)) > 0
         /\ at + 1 \in 0..Len(Finished(cells, at))
         /\ Has(cells, at, Written(b, n)) => Has(Finished(cells, at), at + 1, Payload(b, n))
<1> DEFINE old == SubSeq(cells, 1, at)
           text == <<Trailer>>
<1>1. text \in Seq(Cell) /\ Len(text) = 1 /\ Len(text) <= 1 /\ 1 \in Nat \ {0}
  BY CellsAreCells
<1>2. old \in Seq(Cell) /\ Has(cells, at, old)
  BY DEF Has
<1>3. Finished(cells, at) = Overwritten(EnsureCapacity(cells, at, 1), at, text)
  BY DEF Finished
<1>4. Written(b, n) \in Seq(Cell) /\ Payload(b, n) = Written(b, n) \o text
  BY WrittenType
<1> HIDE DEF old, text
<1>5. /\ Finished(cells, at) \in Seq(Cell) /\ Len(Finished(cells, at)) > 0
      /\ at + 1 \in 0..Len(Finished(cells, at))
  BY <1>1, <1>2, <1>3, AppendsText, ZenonT(40)
<1>6. Has(cells, at, Written(b, n)) => Has(Finished(cells, at), at + 1, Payload(b, n))
  BY <1>1, <1>3, <1>4, AppendsText, ZenonT(40)
<1> QED BY <1>5, <1>6

\* reset() writes the header.
LEMMA ResetHasHeader ==
  ASSUME NEW cells \in Seq(Cell), Len(cells) > 0, NEW b \in Batches
  PROVE  /\ Reset(cells) \in Seq(Cell) /\ Len(Reset(cells)) = Len(cells)
         /\ Has(Reset(cells), 1, Written(b, 0))
<1> DEFINE text == <<Header>>
<1>1. text \in Seq(Cell) /\ Len(text) = 1 /\ text[1] = Header /\ Written(b, 0) = text
  BY CellsAreCells, WrittenFirst
<1>2. Reset(cells) = Overwritten(cells, 0, text)
  BY DEF Reset
<1>3. 1 \in 1..Len(cells) /\ 1 > 0 /\ 1 <= 0 + 1 /\ 1 - 0 = 1
  OBVIOUS
<1> HIDE DEF text
<1>4. /\ Reset(cells) \in Seq(Cell) /\ Len(Reset(cells)) = Len(cells)
      /\ Reset(cells)[1] = text[1]
  BY <1>1, <1>2, <1>3, OverwrittenKeeps
<1>5. \A i \in 1..1 : Reset(cells)[i] = text[i]
  BY <1>4
<1>6. 1 <= Len(Reset(cells))
  BY <1>4
<1> QED BY <1>1, <1>4, <1>5, <1>6 DEF Has

-----------------------------------------------------------------------------
(* The inductive invariant.  EncodersHeldOnce needs to know which batches   *)
(* have an encoder and who has the batches; StoredIntact what each encoder  *)
(* holds of its batch, and what each socket still has to send.              *)

View ==
  [batch : Batches, source : Encoders \cup {None}, kept : Seq(Cell), sent : Nat, size : Nat]

TypeInv ==
  /\ TypeOK
  /\ buffer \in [Encoders -> Seq(Cell)] /\ offset \in [Encoders -> Nat]
  /\ wire \in [Writers -> Seq(View)]
  /\ got \in [Writers -> Seq(Cell)] /\ table \in [Batches -> Seq(Cell)]
  /\ \A w \in Writers : phase[w] = "idle" <=> job[w] = None

Live == {b \in Batches : encoder[b] # None}

\* A batch that flush() has closed is in the queue or with one writer, if with anybody.
Holders(q, j, H) ==
  /\ \A i \in 1..Len(q) : q[i] \in H
  /\ \A i, k \in 1..Len(q) : q[i] = q[k] => i = k
  /\ \A w \in Writers : j[w] # None => j[w] \in H
  /\ \A v, w \in Writers : j[v] = j[w] /\ j[v] # None => v = w
  /\ \A i \in 1..Len(q), w \in Writers : q[i] # j[w]

EncoderInv ==
  /\ EncodersHeldOnce
  /\ \A b \in Batches : b \in Live <=> b <= opened /\ outcome[b] = "none"
  /\ \A b \in Batches : b > opened => outcome[b] = "none" /\ rows[b] = 0
  /\ made <= opened
  /\ \A b \in Batches : encoder[b] <= made
  /\ \A e \in ToSet(pool) : e <= made
  /\ \A e \in Encoders : e <= made => Len(buffer[e]) > 0

HolderInv ==
  /\ Holders(queue, job, Live \ {open})
  /\ open # None => open \in Live

\* What was sent before the server gave a COPY up is sent to the end, and dropped.
Stale(v) == v.sent > 0 /\ v.sent < v.size

\* The view of the COPY a writer is awaiting.
Current(w, v) ==
  /\ v.batch = job[w] /\ v.source = encoder[job[w]]
  /\ v.size = Len(Payload(job[w], rows[job[w]]))

\* No COPY is awaited, or it has not begun to be sent, or some of it has been sent and read.
NoCopy(w) ==
  /\ phase[w] # "copy" /\ copying[w] = None /\ got[w] = <<>>
  /\ \A i \in 1..Len(wire[w]) : Stale(wire[w][i])

CopyWaits(w) ==
  /\ phase[w] = "copy" /\ copying[w] = None /\ got[w] = <<>>
  /\ Len(wire[w]) > 0
  /\ Current(w, wire[w][Len(wire[w])]) /\ wire[w][Len(wire[w])].sent = 0
  /\ \A i \in 1..Len(wire[w]) : i # Len(wire[w]) => Stale(wire[w][i])

CopyFlows(w) ==
  /\ phase[w] = "copy" /\ copying[w] = job[w]
  /\ \/ wire[w] = <<>> /\ got[w] = Payload(job[w], rows[job[w]])
     \/ /\ Len(wire[w]) = 1 /\ Current(w, wire[w][1]) /\ Stale(wire[w][1])
        /\ got[w] = SubSeq(Payload(job[w], rows[job[w]]), 1, wire[w][1].sent)

Holds(b, text) == Has(buffer[encoder[b]], offset[encoder[b]], text)

DataInv ==
  /\ \A b \in Live : (\A w \in Writers : job[w] = b => phase[w] = "ensure") =>
                        Holds(b, Written(b, rows[b]))
  /\ \A w \in Writers : phase[w] = "copy" => Holds(job[w], Payload(job[w], rows[job[w]]))
  /\ \A w \in Writers : phase[w] = "ack" => table[job[w]] # <<>>
  /\ \A b \in Batches : table[b] # <<>> => b <= opened /\ b # open
  /\ StoredIntact
  /\ \A w \in Writers : NoCopy(w) \/ CopyWaits(w) \/ CopyFlows(w)

-----------------------------------------------------------------------------
(* dispatch(), releaseEncoder() and the views of a buffer that is replaced. *)

LEMMA NoneIsNone == None \notin Batches /\ None \notin Encoders /\ None = 0
BY BuffersAssumption DEF None, Batches, Encoders

InPhase(j) == \A w \in Writers : j[w] # None => phase[w] # "idle"

\* The writers that had a batch of j keep it; what they and the queue now have is H.
Dealt(j, H) ==
  /\ queue' \in Seq(Batches) /\ job' \in [Writers -> Batches \cup {None}]
  /\ phase' \in [Writers -> {"idle", "ensure", "copy", "ack", "error", "broken"}]
  /\ \A w \in Writers : phase'[w] = "idle" <=> job'[w] = None
  /\ Holders(queue', job', H)
  /\ \A w \in Writers : j[w] # None => job'[w] = j[w] /\ phase'[w] = phase[w]
  /\ \A w \in Writers : j[w] = None => phase'[w] \in {"idle", "ensure"}

LEMMA DispatchHands ==
  ASSUME TypeInv, NEW q \in Seq(Batches), NEW j \in [Writers -> Batches \cup {None}],
         NEW healthy \in [Writers -> BOOLEAN], InPhase(j),
         NEW H, Holders(q, j, H), Dispatch(q, j, healthy)
  PROVE  Dealt(j, H)
<1> DEFINE idle == {w \in Writers : healthy[w] /\ j[w] = None}
           c == Cardinality(idle)
           takes(w) == w \in idle /\ Rank(idle, w) <= Len(q)
<1>1. /\ job' = [w \in Writers |-> IF takes(w) THEN q[Rank(idle, w)] ELSE j[w]]
      /\ phase' = [w \in Writers |-> IF takes(w) THEN "ensure"
                                     ELSE IF j[w] = None THEN "idle" ELSE phase[w]]
      /\ queue' = SubSeq(q, c + 1, Len(q))
  BY DEF Dispatch, Idle, Rank
<1>2. idle \in SUBSET Int /\ IsFiniteSet(idle) /\ c \in Nat
  <2>1. IsFiniteSet(Writers) /\ \A w \in Writers : w \in Int
    BY BuffersAssumption, FS_Interval DEF Writers
  <2>2. idle \in SUBSET Writers
    OBVIOUS
  <2> HIDE DEF idle
  <2> QED BY <2>1, <2>2, FS_Subset, FS_CardinalityType
<1>3. \A w \in idle : w \in Writers /\ j[w] = None
  OBVIOUS
<1>4. Len(q) \in Nat /\ \A i \in 1..Len(q) : q[i] \in Batches
  OBVIOUS
<1>5. phase \in [Writers -> {"idle", "ensure", "copy", "ack", "error", "broken"}]
  BY DEF TypeInv, TypeOK
<1> HIDE DEF idle, c
<1>6. \A w \in idle : Rank(idle, w) \in Nat /\ 1 <= Rank(idle, w) /\ Rank(idle, w) <= c
  <2>1. \A w \in idle : Rank(idle, w) \in 1..c
    BY <1>2, RankInRange DEF c
  <2> QED BY <1>2, <2>1
<1>7. \A v, w \in idle : Rank(idle, v) = Rank(idle, w) => v = w
  BY <1>2, RankInjective
<1>8. \A w \in Writers : takes(w) =>
        Rank(idle, w) \in 1..Len(q) /\ Rank(idle, w) <= c /\ job'[w] = q[Rank(idle, w)]
          /\ j[w] = None /\ phase'[w] = "ensure"
  BY <1>1, <1>3, <1>4, <1>6
<1>9. \A w \in Writers : ~takes(w) => job'[w] = j[w]
                            /\ phase'[w] = IF j[w] = None THEN "idle" ELSE phase[w]
  BY <1>1
<1>10. \A i \in 1..Len(queue') : c + i \in 1..Len(q) /\ queue'[i] = q[c + i] /\ i \in Nat
                                   /\ ~(c + i <= c)
  BY <1>1, <1>2, <1>4
<1>11. queue' \in Seq(Batches)
  BY <1>1, <1>2
<1>12. \A v, w \in Writers : takes(v) /\ takes(w) /\ v # w => Rank(idle, v) # Rank(idle, w)
  BY <1>7
<1>13. job' \in [Writers -> Batches \cup {None}]
  <2>1. \A w \in Writers : takes(w) => q[Rank(idle, w)] \in Batches
    BY <1>4, <1>8
  <2> HIDE DEF takes
  <2> QED BY <1>1, <2>1
<1>14. phase' \in [Writers -> {"idle", "ensure", "copy", "ack", "error", "broken"}]
  <2> HIDE DEF takes
  <2> QED BY <1>1, <1>5
<1> HIDE DEF takes
<1>15. \A w \in Writers : phase'[w] = "idle" <=> job'[w] = None
  <2>1. \A w \in Writers : takes(w) => job'[w] # None
    BY <1>4, <1>8, NoneIsNone
  <2> QED BY <1>8, <1>9, <2>1 DEF InPhase
<1>16. \A i \in 1..Len(queue') : queue'[i] \in H
  BY <1>10 DEF Holders
<1>17. ASSUME NEW i \in 1..Len(queue'), NEW k \in 1..Len(queue'), queue'[i] = queue'[k]
       PROVE  i = k
  <2>1. c + i = c + k
    BY <1>10, <1>17 DEF Holders
  <2>2. i \in Nat /\ k \in Nat
    BY <1>10
  <2> QED BY <1>2, <2>1, <2>2
<1>18. \A w \in Writers : job'[w] # None => job'[w] \in H
  BY <1>8, <1>9 DEF Holders
<1>19. ASSUME NEW v \in Writers, NEW w \in Writers, job'[v] = job'[w], job'[v] # None, v # w
       PROVE  FALSE
  <2>1. CASE takes(v) /\ takes(w)
    BY <1>8, <1>12, <1>19, <2>1 DEF Holders
  <2>2. CASE ~takes(v) /\ ~takes(w)
    BY <1>9, <1>19, <2>2 DEF Holders
  <2>3. CASE takes(v) /\ ~takes(w)
    BY <1>8, <1>9, <1>19, <2>3 DEF Holders
  <2>4. CASE ~takes(v) /\ takes(w)
    BY <1>8, <1>9, <1>19, <2>4 DEF Holders
  <2> QED BY <2>1, <2>2, <2>3, <2>4
<1>20. ASSUME NEW i \in 1..Len(queue'), NEW w \in Writers
       PROVE  queue'[i] # job'[w]
  <2>1. CASE takes(w)
    BY <1>8, <1>10, <2>1 DEF Holders
  <2>2. CASE ~takes(w)
    BY <1>9, <1>10, <2>2 DEF Holders
  <2> QED BY <2>1, <2>2
<1>21. Holders(queue', job', H)
  BY <1>16, <1>17, <1>18, <1>19, <1>20 DEF Holders
<1>22. \A w \in Writers : j[w] # None => job'[w] = j[w] /\ phase'[w] = phase[w]
  BY <1>8, <1>9
<1>23. \A w \in Writers : j[w] = None => phase'[w] \in {"idle", "ensure"}
  BY <1>8, <1>9
<1> QED BY <1>11, <1>13, <1>14, <1>15, <1>21, <1>22, <1>23 DEF Dealt

\* flush() puts into the queue a batch that nobody else has.
LEMMA HolderJoins ==
  ASSUME NEW q \in Seq(Batches), NEW j \in [Writers -> Batches \cup {None}], NEW H,
         Holders(q, j, H), NEW b \in Batches, b \notin H
  PROVE  Append(q, b) \in Seq(Batches) /\ Holders(Append(q, b), j, H \cup {b})
<1> DEFINE q2 == Append(q, b)
<1>1. Len(q) \in Nat /\ \A i \in 1..Len(q) : q[i] \in H /\ q[i] # b
  BY DEF Holders
<1>2. \A w \in Writers : j[w] # b
  BY NoneIsNone DEF Holders
<1>3. q2 \in Seq(Batches) /\ Len(q2) = Len(q) + 1 /\ q2[Len(q) + 1] = b
      /\ \A i \in 1..Len(q) : q2[i] = q[i]
  BY AppendProperties
<1> HIDE DEF q2
<1>4. \A i \in 1..Len(q2) : (i \in 1..Len(q) /\ q2[i] = q[i]) \/ (i = Len(q) + 1 /\ q2[i] = b)
  BY <1>1, <1>3
<1>5. Holders(q2, j, H \cup {b})
  <2>1. \A i \in 1..Len(q2) : q2[i] \in H \cup {b}
    BY <1>1, <1>4
  <2>2. \A i, k \in 1..Len(q2) : q2[i] = q2[k] => i = k
    BY <1>1, <1>4 DEF Holders
  <2>3. \A i \in 1..Len(q2), w \in Writers : q2[i] # j[w]
    BY <1>2, <1>4 DEF Holders
  <2> QED BY <2>1, <2>2, <2>3 DEF Holders
<1> QED BY <1>3, <1>5 DEF q2

\* A writer gives its batch up.
LEMMA HolderLeaves ==
  ASSUME NEW q \in Seq(Batches), NEW j \in [Writers -> Batches \cup {None}], NEW H,
         Holders(q, j, H), NEW w \in Writers, j[w] # None
  PROVE  Holders(q, [j EXCEPT ![w] = None], H \ {j[w]})
<1> DEFINE j2 == [j EXCEPT ![w] = None]
<1>1. j2[w] = None /\ \A v \in Writers : v # w => j2[v] = j[v]
  OBVIOUS
<1>2. \A i \in 1..Len(q) : q[i] \in Batches
  OBVIOUS
<1> HIDE DEF j2
<1>3. \A i \in 1..Len(q) : q[i] \in H \ {j[w]}
  BY DEF Holders
<1>4. \A v \in Writers : j2[v] # None => v # w /\ j2[v] = j[v] /\ j2[v] \in H \ {j[w]}
  BY <1>1 DEF Holders
<1>5. \A u, v \in Writers : j2[u] = j2[v] /\ j2[u] # None => u = v
  BY <1>4 DEF Holders
<1>6. \A i \in 1..Len(q), v \in Writers : q[i] # j2[v]
  BY <1>1, <1>2, NoneIsNone DEF Holders
<1>7. \A i, k \in 1..Len(q) : q[i] = q[k] => i = k
  BY DEF Holders
<1>8. Holders(q, j2, H \ {j[w]})
  BY <1>3, <1>4, <1>5, <1>6, <1>7 DEF Holders
<1> QED BY <1>8 DEF j2

\* Nothing of a view changes but where it reads, if its encoder is one of those.
SameViews(old, new, changed) ==
  \A w \in Writers :
    /\ Len(new[w]) = Len(old[w])
    /\ \A i \in 1..Len(old[w]) :
         /\ new[w][i].batch = old[w][i].batch /\ new[w][i].sent = old[w][i].sent
         /\ new[w][i].size = old[w][i].size
         /\ old[w][i].source \notin changed => new[w][i].source = old[w][i].source

LEMMA DetachedKeeps ==
  ASSUME TypeInv, NEW changed \in SUBSET Encoders
  PROVE  /\ Detached(changed) \in [Writers -> Seq(View)]
         /\ SameViews(wire, Detached(changed), changed)
<1> DEFINE new(v) == IF v.source \in changed
                     THEN [v EXCEPT !.source = None, !.kept = buffer[v.source]] ELSE v
<1>1. wire \in [Writers -> Seq(View)] /\ buffer \in [Encoders -> Seq(Cell)]
  BY DEF TypeInv
<1>2. ASSUME NEW v \in View
      PROVE  /\ new(v) \in View /\ new(v).batch = v.batch /\ new(v).sent = v.sent
             /\ new(v).size = v.size /\ (v.source \notin changed => new(v).source = v.source)
  <2>1. CASE v.source \in changed
    <3>1. buffer[v.source] \in Seq(Cell)
      BY <1>1, <2>1
    <3> QED BY <2>1, <3>1 DEF View
  <2>2. CASE v.source \notin changed
    BY <2>2
  <2> QED BY <2>1, <2>2
<1>3. ASSUME NEW w \in Writers
      PROVE  /\ Detached(changed)[w] = [i \in 1..Len(wire[w]) |-> new(wire[w][i])]
             /\ \A i \in 1..Len(wire[w]) : wire[w][i] \in View
             /\ Len(wire[w]) \in Nat
  <2>1. wire[w] \in Seq(View)
    BY <1>1
  <2>2. DOMAIN wire[w] = 1..Len(wire[w])
    BY <2>1
  <2> QED BY <2>1, <2>2 DEF Detached
<1>4. DOMAIN Detached(changed) = Writers /\ Detached(changed) = [w \in Writers |-> Detached(changed)[w]]
  BY DEF Detached
<1> DEFINE D == Detached(changed)
<1> HIDE DEF new, D
<1>5. ASSUME NEW w \in Writers
      PROVE  /\ D[w] \in Seq(View) /\ Len(D[w]) = Len(wire[w])
             /\ \A i \in 1..Len(wire[w]) : D[w][i] = new(wire[w][i])
  <2>1. D[w] = [i \in 1..Len(wire[w]) |-> new(wire[w][i])]
    BY <1>3 DEF D
  <2>2. \A i \in 1..Len(wire[w]) : new(wire[w][i]) \in View
    BY <1>2, <1>3
  <2> QED BY <1>3, <2>1, <2>2
<1>6. D \in [Writers -> Seq(View)]
  <2>1. D = [w \in Writers |-> D[w]]
    BY <1>4 DEF D
  <2> QED BY <1>5, <2>1
<1>7. SameViews(wire, D, changed)
  BY <1>2, <1>3, <1>5 DEF SameViews
<1> QED BY <1>6, <1>7 DEF D

\* releaseEncoder(): what it keeps goes to the end of the pool, once; the other encoders are
\* left alone, and one that gives up its storage has another.
Untouched(es) ==
  /\ \A e \in Encoders : e \notin ToSet(es) => buffer'[e] = buffer[e] /\ offset'[e] = offset[e]
  /\ \A e \in Encoders : Len(buffer[e]) > 0 => Len(buffer'[e]) > 0
  /\ \E changed \in SUBSET ToSet(es) : SameViews(wire, wire', changed)

LEMMA Released ==
  ASSUME TypeInv, EncodersHeldOnce, NEW es \in Seq(Encoders), IsInjective(es),
         ToSet(es) \cap ToSet(pool) = {}, ReleaseEncoders(es)
  PROVE  /\ buffer' \in [Encoders -> Seq(Cell)] /\ offset' \in [Encoders -> Nat]
         /\ \A e \in Encoders : offset'[e] \in 0..Len(buffer'[e])
         /\ wire' \in [Writers -> Seq(View)]
         /\ pool' \in Seq(Encoders) /\ IsInjective(pool')
         /\ ToSet(pool') \subseteq ToSet(pool) \cup ToSet(es)
         /\ Untouched(es)
<1> DEFINE oversized == {e \in ToSet(es) : Len(buffer[e]) > RetainedCells}
           kept == Min({Len(es), PoolSize - Len(pool)})
           fresh == Reset(Allocated(InitialCells))
<1>1. /\ buffer' = [e \in Encoders |-> IF e \in oversized THEN fresh ELSE buffer[e]]
      /\ offset' = [e \in Encoders |-> IF e \in oversized THEN 1 ELSE offset[e]]
      /\ wire' = Detached(oversized)
      /\ pool' = pool \o SubSeq(es, 1, kept)
  BY DEF ReleaseEncoders
<1>2. /\ buffer \in [Encoders -> Seq(Cell)] /\ offset \in [Encoders -> Nat]
      /\ \A e \in Encoders : offset[e] \in 0..Len(buffer[e])
      /\ pool \in Seq(Encoders)
  BY DEF TypeInv, TypeOK
<1>3. fresh \in Seq(Cell) /\ Len(fresh) > 0
  <2>1. InitialCells \in Nat \ {0}
    BY BuffersAssumption
  <2>2. Allocated(InitialCells) \in Seq(Cell) /\ Len(Allocated(InitialCells)) = InitialCells
    BY <2>1, AllocatedType
  <2>3. <<Header>> \in Seq(Cell)
    BY CellsAreCells
  <2>4. /\ Overwritten(Allocated(InitialCells), 0, <<Header>>) \in Seq(Cell)
        /\ Len(Overwritten(Allocated(InitialCells), 0, <<Header>>)) = Len(Allocated(InitialCells))
    BY <2>2, <2>3, OverwrittenKeeps
  <2> QED BY <2>1, <2>2, <2>4 DEF Reset
<1>4. ToSet(es) \in SUBSET Encoders /\ oversized \in SUBSET ToSet(es) /\ oversized \in SUBSET Encoders
  BY DEF ToSet
<1>5. kept \in Int /\ kept <= Len(es)
  <2>1. Len(es) \in Int /\ PoolSize - Len(pool) \in Int
    BY <1>2, BuffersAssumption DEF PoolSize
  <2> DEFINE a == Len(es)
             b == PoolSize - Len(pool)
  <2> HIDE DEF a, b
  <2>2. \A x, y \in Int : \E m \in {x, y} : \A z \in {x, y} : m <= z
    OBVIOUS
  <2>3. \E m \in {a, b} : \A z \in {a, b} : m <= z
    BY <2>1, <2>2 DEF a, b
  <2>4. Min({a, b}) \in {a, b} /\ \A z \in {a, b} : Min({a, b}) <= z
    BY <2>3 DEF Min
  <2> QED BY <2>1, <2>4 DEF a, b
<1> HIDE DEF oversized, kept, fresh
<1>6. buffer' \in [Encoders -> Seq(Cell)] /\ offset' \in [Encoders -> Nat]
  BY <1>1, <1>2, <1>3
<1>7. \A e \in Encoders : offset'[e] \in 0..Len(buffer'[e])
  <2>1. \A e \in Encoders : e \in oversized => buffer'[e] = fresh /\ offset'[e] = 1
    BY <1>1
  <2>2. \A e \in Encoders : e \notin oversized => buffer'[e] = buffer[e] /\ offset'[e] = offset[e]
    BY <1>1
  <2>3. 1 \in 0..Len(fresh)
    BY <1>3
  <2> QED BY <1>2, <2>1, <2>2, <2>3
<1>8. wire' \in [Writers -> Seq(View)] /\ SameViews(wire, wire', oversized)
  BY <1>1, <1>4, DetachedKeeps
<1>9. /\ Len(es) \in Nat /\ Len(pool) \in Nat /\ DOMAIN pool = 1..Len(pool)
      /\ DOMAIN es = 1..Len(es)
  BY <1>2
<1>10. /\ pool' \in Seq(Encoders) /\ Len(pool) <= Len(pool') /\ DOMAIN pool' = 1..Len(pool')
       /\ \A i \in 1..Len(pool') :
            \/ i \in 1..Len(pool) /\ pool'[i] = pool[i]
            \/ i - Len(pool) \in 1..Len(es) /\ pool'[i] = es[i - Len(pool)]
  <2> DEFINE t == SubSeq(es, 1, kept)
  <2>1. /\ t \in Seq(Encoders) /\ Len(t) \in Nat /\ Len(t) <= Len(es)
        /\ \A i \in 1..Len(t) : t[i] = es[i]
    BY <1>5, <1>9
  <2> HIDE DEF t
  <2>2. /\ pool' \in Seq(Encoders) /\ Len(pool') = Len(pool) + Len(t)
        /\ \A i \in 1..Len(pool) + Len(t) :
             pool'[i] = IF i <= Len(pool) THEN pool[i] ELSE t[i - Len(pool)]
    <3>1. pool' = pool \o t
      BY <1>1 DEF t
    <3>2. /\ pool \o t \in Seq(Encoders) /\ Len(pool \o t) = Len(pool) + Len(t)
          /\ \A i \in 1..Len(pool) + Len(t) :
               (pool \o t)[i] = IF i <= Len(pool) THEN pool[i] ELSE t[i - Len(pool)]
      BY <1>2, <2>1, ConcatProperties
    <3> QED BY <3>1, <3>2
  <2>3. ASSUME NEW i \in 1..Len(pool')
        PROVE  \/ i \in 1..Len(pool) /\ pool'[i] = pool[i]
               \/ i - Len(pool) \in 1..Len(es) /\ pool'[i] = es[i - Len(pool)]
    <3>1. CASE i <= Len(pool)
      BY <1>9, <2>1, <2>2, <3>1
    <3>2. CASE ~(i <= Len(pool))
      <4>1. i - Len(pool) \in 1..Len(t) /\ i - Len(pool) \in 1..Len(es)
        BY <1>9, <2>1, <2>2, <3>2
      <4> QED BY <2>1, <2>2, <3>2, <4>1
    <3> QED BY <3>1, <3>2
  <2> QED BY <1>9, <2>1, <2>2, <2>3
<1>11. \A i \in 1..Len(pool) : pool[i] \in ToSet(pool)
  BY <1>9 DEF ToSet
<1>12. \A i \in 1..Len(es) : es[i] \in ToSet(es)
  BY <1>9 DEF ToSet
<1>13. IsInjective(pool')
  <2> SUFFICES ASSUME NEW i \in 1..Len(pool'), NEW k \in 1..Len(pool'), pool'[i] = pool'[k]
               PROVE  i = k
    BY <1>10 DEF IsInjective
  <2>1. i \in Nat /\ k \in Nat /\ Len(pool) \in Nat
    BY <1>9
  <2>2. CASE i \in 1..Len(pool) /\ pool'[i] = pool[i] /\ k \in 1..Len(pool) /\ pool'[k] = pool[k]
    BY <1>9, <2>2 DEF EncodersHeldOnce, IsInjective
  <2>3. CASE /\ i - Len(pool) \in 1..Len(es) /\ pool'[i] = es[i - Len(pool)]
             /\ k - Len(pool) \in 1..Len(es) /\ pool'[k] = es[k - Len(pool)]
    <3>1. i - Len(pool) = k - Len(pool)
      BY <1>9, <2>3 DEF IsInjective
    <3> QED BY <2>1, <3>1
  <2> QED BY <1>10, <1>11, <1>12, <2>2, <2>3
<1>14. ToSet(pool') \subseteq ToSet(pool) \cup ToSet(es)
  <2> SUFFICES ASSUME NEW i \in 1..Len(pool')
               PROVE  pool'[i] \in ToSet(pool) \cup ToSet(es)
    BY <1>10 DEF ToSet
  <2> QED BY <1>10, <1>11, <1>12
<1>15. Untouched(es)
  <2>1. \A e \in Encoders : e \notin oversized => buffer'[e] = buffer[e] /\ offset'[e] = offset[e]
    BY <1>1
  <2>2. \A e \in Encoders : Len(buffer[e]) > 0 => Len(buffer'[e]) > 0
    BY <1>1, <1>3
  <2> QED BY <1>4, <1>8, <2>1, <2>2 DEF Untouched
<1> QED BY <1>6, <1>7, <1>8, <1>10, <1>13, <1>14, <1>15

-----------------------------------------------------------------------------
(* Types and custody, action by action.                                    *)

LEMMA Types ==
  ASSUME TypeInv
  PROVE  /\ opened \in 0..NumBatches /\ made \in 0..NumBatches /\ NumBatches \in Nat
         /\ open \in Batches \cup {None}
         /\ rows \in [Batches -> 0..MaxBatchRows]
         /\ outcome \in [Batches -> {"none", "resolved", "rejected"}]
         /\ encoder \in [Batches -> Encoders \cup {None}]
         /\ buffer \in [Encoders -> Seq(Cell)] /\ offset \in [Encoders -> Nat]
         /\ \A e \in Encoders : offset[e] \in 0..Len(buffer[e])
         /\ pool \in Seq(Encoders) /\ queue \in Seq(Batches)
         /\ job \in [Writers -> Batches \cup {None}]
         /\ phase \in [Writers -> {"idle", "ensure", "copy", "ack", "error", "broken"}]
         /\ up \in [Writers -> BOOLEAN]
         /\ wire \in [Writers -> Seq(View)]
         /\ copying \in [Writers -> Batches \cup {None}]
         /\ got \in [Writers -> Seq(Cell)] /\ table \in [Batches -> Seq(Cell)]
         /\ \A w \in Writers : phase[w] = "idle" <=> job[w] = None
BY BuffersAssumption DEF TypeInv, TypeOK

\* The batches in B give their encoders up: the encoders es go to the pool.
GivesUp(B, es) ==
  /\ encoder' = [b \in Batches |-> IF b \in B THEN None ELSE encoder[b]]
  /\ \A b \in Batches : outcome'[b] = "none" <=> b \notin B /\ outcome[b] = "none"
  /\ outcome' \in [Batches -> {"none", "resolved", "rejected"}]
  /\ UNCHANGED <<opened, rows, made>>
  /\ ReleaseEncoders(es)

LEMMA GivenUp ==
  ASSUME TypeInv, EncoderInv, NEW es \in Seq(Encoders), IsInjective(es),
         NEW B \in SUBSET Live, \A i \in 1..Len(es) : \E b \in B : es[i] = encoder[b],
         GivesUp(B, es)
  PROVE  /\ EncoderInv' /\ Live' = Live \ B /\ Untouched(es)
         /\ encoder' \in [Batches -> Encoders \cup {None}]
         /\ buffer' \in [Encoders -> Seq(Cell)] /\ offset' \in [Encoders -> Nat]
         /\ \A e \in Encoders : offset'[e] \in 0..Len(buffer'[e])
         /\ wire' \in [Writers -> Seq(View)] /\ pool' \in Seq(Encoders)
<1>1. ToSet(es) \subseteq {encoder[b] : b \in B}
  <2>1. DOMAIN es = 1..Len(es)
    OBVIOUS
  <2> QED BY <2>1 DEF ToSet
<1>2. B \in SUBSET Batches /\ \A b \in B : encoder[b] \in Encoders /\ encoder[b] # None
  BY Types DEF Live
<1>3. ToSet(es) \cap ToSet(pool) = {}
  BY <1>1, <1>2 DEF EncoderInv, EncodersHeldOnce
<1>4. ReleaseEncoders(es)
  BY DEF GivesUp
<1>5. EncodersHeldOnce
  BY DEF EncoderInv
<1>6. /\ buffer' \in [Encoders -> Seq(Cell)] /\ offset' \in [Encoders -> Nat]
      /\ \A e \in Encoders : offset'[e] \in 0..Len(buffer'[e])
      /\ wire' \in [Writers -> Seq(View)]
      /\ pool' \in Seq(Encoders) /\ IsInjective(pool')
      /\ ToSet(pool') \subseteq ToSet(pool) \cup ToSet(es)
      /\ Untouched(es)
  BY <1>3, <1>4, <1>5, Released
<1>7. \A b \in Batches : encoder'[b] = IF b \in B THEN None ELSE encoder[b]
  BY DEF GivesUp
<1>8. encoder' \in [Batches -> Encoders \cup {None}]
  BY Types DEF GivesUp
<1>9. Live' = Live \ B
  BY <1>7 DEF Live
<1>10. EncodersHeldOnce'
  <2>1. \A b, c \in Batches : b # c /\ encoder'[b] # None => encoder'[b] # encoder'[c]
    BY <1>5, <1>7 DEF EncodersHeldOnce
  <2>2. \A b \in Batches : encoder'[b] \notin ToSet(pool')
    <3> SUFFICES ASSUME NEW b \in Batches, encoder'[b] \in ToSet(pool')
                 PROVE  FALSE
      OBVIOUS
    <3>1. DOMAIN pool' = 1..Len(pool')
      BY <1>6
    <3>2. encoder'[b] \in Encoders
      BY <1>6, <3>1 DEF ToSet
    <3>3. b \notin B /\ encoder'[b] = encoder[b] /\ encoder[b] # None
      BY <1>7, <3>2, NoneIsNone
    <3>4. encoder[b] \notin ToSet(es)
      BY <1>1, <1>2, <1>5, <3>3 DEF EncodersHeldOnce
    <3> QED BY <1>5, <1>6, <3>3, <3>4 DEF EncodersHeldOnce
  <2> QED BY <1>6, <2>1, <2>2 DEF EncodersHeldOnce
<1>11. UNCHANGED <<opened, rows, made>> /\ made \in Nat
  BY Types DEF GivesUp
<1>12. \A b \in Batches : b \in Live' <=> b <= opened' /\ outcome'[b] = "none"
  BY <1>2, <1>9, <1>11 DEF EncoderInv, GivesUp
<1>13. \A b \in Batches : b > opened' => outcome'[b] = "none" /\ rows'[b] = 0
  <2>1. \A b \in Batches : b > opened => b \notin Live
    BY Types DEF EncoderInv, Batches
  <2> QED BY <1>11, <2>1 DEF EncoderInv, GivesUp
<1>14. \A b \in Batches : encoder'[b] <= made'
  BY <1>7, <1>11, NoneIsNone DEF EncoderInv
<1>15. \A e \in ToSet(pool') : e <= made'
  BY <1>1, <1>2, <1>6, <1>11 DEF EncoderInv
<1>16. \A e \in Encoders : e <= made' => Len(buffer'[e]) > 0
  BY <1>6, <1>11 DEF EncoderInv, Untouched
<1>17. EncoderInv'
  BY <1>10, <1>11, <1>12, <1>13, <1>14, <1>15, <1>16 DEF EncoderInv
<1> QED BY <1>1, <1>6, <1>8, <1>9, <1>17

\* One batch gives its encoder up.
LEMMA OneGivenUp ==
  ASSUME TypeInv, EncoderInv, NEW b \in Live,
         NEW result \in {"resolved", "rejected"},
         outcome' = [outcome EXCEPT ![b] = result],
         encoder' = [encoder EXCEPT ![b] = None],
         ReleaseEncoders(<<encoder[b]>>), UNCHANGED <<opened, rows, made>>
  PROVE  /\ EncoderInv' /\ Live' = Live \ {b} /\ Untouched(<<encoder[b]>>)
         /\ ToSet(<<encoder[b]>>) = {encoder[b]}
         /\ outcome' \in [Batches -> {"none", "resolved", "rejected"}]
         /\ encoder' \in [Batches -> Encoders \cup {None}]
         /\ buffer' \in [Encoders -> Seq(Cell)] /\ offset' \in [Encoders -> Nat]
         /\ \A e \in Encoders : offset'[e] \in 0..Len(buffer'[e])
         /\ wire' \in [Writers -> Seq(View)] /\ pool' \in Seq(Encoders)
<1> DEFINE es == <<encoder[b]>>
<1>1. b \in Batches /\ encoder[b] \in Encoders
  BY Types DEF Live
<1>2. /\ es \in Seq(Encoders) /\ Len(es) = 1 /\ DOMAIN es = 1..1 /\ es[1] = encoder[b]
  BY <1>1
<1>3. IsInjective(es) /\ ToSet(es) = {encoder[b]}
  BY <1>2 DEF IsInjective, ToSet
<1>4. outcome' \in [Batches -> {"none", "resolved", "rejected"}]
  BY <1>1, Types
<1>5. ReleaseEncoders(es)
  OBVIOUS
<1> HIDE DEF es
<1>6. \A i \in 1..Len(es) : \E c \in {b} : es[i] = encoder[c]
  BY <1>2
<1>7. GivesUp({b}, es)
  <2>1. encoder' = [c \in Batches |-> IF c \in {b} THEN None ELSE encoder[c]]
    BY <1>1, Types
  <2>2. \A c \in Batches : outcome'[c] = "none" <=> c \notin {b} /\ outcome[c] = "none"
    BY <1>1, Types
  <2> QED BY <1>4, <1>5, <2>1, <2>2 DEF GivesUp
<1>8. {b} \in SUBSET Live
  OBVIOUS
<1> QED BY <1>2, <1>3, <1>4, <1>6, <1>7, <1>8, GivenUp DEF es

\* What a step leaves alone that changes only the batches in T and their encoders.
Kept(T) ==
  /\ \A c \in Live' : c \notin T =>
       /\ c \in Live /\ encoder'[c] = encoder[c] /\ rows'[c] = rows[c]
       /\ buffer'[encoder[c]] = buffer[encoder[c]] /\ offset'[encoder[c]] = offset[encoder[c]]
  /\ \A w \in Writers : job[w] # None /\ job[w] \notin T =>
                          job'[w] = job[w] /\ phase'[w] = phase[w]
  /\ \A w \in Writers : phase'[w] \in {"copy", "ack"} =>
                          phase'[w] = phase[w] /\ job[w] \notin T
  /\ \A w \in Writers : phase[w] = "copy" => job[w] \notin T
  /\ copying' = copying /\ got' = got /\ table' = table
  /\ \A c \in Batches : c <= opened /\ c # open =>
                          c <= opened' /\ c # open' /\ rows'[c] = rows[c]
  /\ \A c \in Batches : outcome'[c] = "resolved" /\ rows'[c] > 0 =>
       table[c] # <<>> \/ (outcome[c] = "resolved" /\ rows[c] > 0)
  /\ \E changed : /\ SameViews(wire, wire', changed)
                  /\ \A w \in Writers : phase[w] = "copy" => encoder[job[w]] \notin changed

\* Batches with encoders of their own keep them as they were.
EncodersOf(B) == {encoder[b] : b \in B}

OthersKeep(B) ==
  /\ \A c \in Live \ B : /\ buffer'[encoder[c]] = buffer[encoder[c]]
                         /\ offset'[encoder[c]] = offset[encoder[c]]
  /\ \E changed : /\ SameViews(wire, wire', changed)
                  /\ \A c \in Live \ B : encoder[c] \notin changed

LEMMA OthersUntouched ==
  ASSUME TypeInv, EncoderInv, NEW B \in SUBSET Live, NEW es, Untouched(es),
         ToSet(es) \subseteq EncodersOf(B)
  PROVE  OthersKeep(B)
<1>1. \A c \in Live \ B : encoder[c] \in Encoders /\ encoder[c] \notin ToSet(es)
  <2>1. ASSUME NEW c \in Live \ B, NEW b \in B
        PROVE  encoder[c] # encoder[b] /\ encoder[c] \in Encoders
    <3>1. b \in Batches /\ c \in Batches /\ b # c /\ encoder[b] # None /\ encoder[c] # None
      BY DEF Live
    <3> QED BY <3>1, Types DEF EncoderInv, EncodersHeldOnce
  <2>2. \A c \in Live : encoder[c] \in Encoders
    BY Types DEF Live
  <2> QED BY <2>1, <2>2 DEF EncodersOf
<1> QED BY <1>1 DEF Untouched, OthersKeep

LEMMA SameViewsRefl == SameViews(wire, wire, {})
BY DEF SameViews

LEMMA FlushOpenSteps ==
  ASSUME TypeInv, EncoderInv, HolderInv, FlushOpen
  PROVE  TypeInv' /\ EncoderInv' /\ HolderInv' /\ \E T : Kept(T) /\ T \cap Live' = {}
<1>1. /\ open # None /\ open' = None /\ open \in Batches /\ open \in Live
      /\ UNCHANGED <<opened, rows, made, up, copying, got, table>>
  BY Types DEF FlushOpen, HolderInv, serverVars
<1>2. CASE rows[open] = 0
  <2>1. /\ ReleaseEncoders(<<encoder[open]>>)
        /\ encoder' = [encoder EXCEPT ![open] = None]
        /\ outcome' = [outcome EXCEPT ![open] = "resolved"]
        /\ UNCHANGED <<queue, job, phase>>
    BY <1>2 DEF FlushOpen, writerVars
  <2>2. /\ EncoderInv' /\ Live' = Live \ {open} /\ Untouched(<<encoder[open]>>)
        /\ ToSet(<<encoder[open]>>) = {encoder[open]}
        /\ outcome' \in [Batches -> {"none", "resolved", "rejected"}]
        /\ encoder' \in [Batches -> Encoders \cup {None}]
        /\ buffer' \in [Encoders -> Seq(Cell)] /\ offset' \in [Encoders -> Nat]
        /\ \A e \in Encoders : offset'[e] \in 0..Len(buffer'[e])
        /\ wire' \in [Writers -> Seq(View)] /\ pool' \in Seq(Encoders)
    BY <1>1, <2>1, OneGivenUp
  <2>3. TypeInv'
    BY <1>1, <2>1, <2>2, Types DEF TypeInv, TypeOK
  <2>4. HolderInv'
    <3>1. Live' \ {open'} = Live \ {open}
      BY <1>1, <2>2, NoneIsNone DEF Live
    <3>2. Holders(queue', job', Live \ {open})
      BY <2>1 DEF HolderInv
    <3> QED BY <1>1, <3>1, <3>2 DEF HolderInv
  <2>5. Kept({open})
    <3>1. OthersKeep({open})
      <4>1. ToSet(<<encoder[open]>>) \subseteq EncodersOf({open}) /\ {open} \in SUBSET Live
        BY <1>1, <2>2 DEF EncodersOf
      <4> QED BY <2>2, <4>1, OthersUntouched
    <3>2. \A w \in Writers : job[w] # None => job[w] \in Live \ {open}
      BY DEF HolderInv, Holders
    <3>3. \A w \in Writers : phase[w] = "copy" => job[w] \in Live \ {open}
      BY <3>2, Types
    <3>4. \A c \in Live' : c \notin {open} =>
            /\ c \in Live /\ encoder'[c] = encoder[c] /\ rows'[c] = rows[c]
            /\ buffer'[encoder[c]] = buffer[encoder[c]]
            /\ offset'[encoder[c]] = offset[encoder[c]]
      BY <1>1, <2>1, <2>2, <3>1, Types DEF Live, OthersKeep
    <3>5. \A w \in Writers : phase'[w] \in {"copy", "ack"} =>
                               phase'[w] = phase[w] /\ job[w] \notin {open}
      BY <2>1, <3>2, Types
    <3>6. \A c \in Batches : c <= opened /\ c # open =>
                               c <= opened' /\ c # open' /\ rows'[c] = rows[c]
      BY <1>1, NoneIsNone
    <3>7. \A c \in Batches : outcome'[c] = "resolved" /\ rows'[c] > 0 =>
            table[c] # <<>> \/ (outcome[c] = "resolved" /\ rows[c] > 0)
      BY <1>1, <1>2, <2>1, Types
    <3>8. \E changed : /\ SameViews(wire, wire', changed)
                       /\ \A w \in Writers : phase[w] = "copy" => encoder[job[w]] \notin changed
      BY <3>1, <3>3 DEF OthersKeep
    <3>9. \A w \in Writers : phase[w] = "copy" => job[w] \notin {open}
      BY <3>3
    <3> QED BY <1>1, <2>1, <3>4, <3>5, <3>6, <3>7, <3>8, <3>9 DEF Kept
  <2>6. {open} \cap Live' = {}
    BY <2>2
  <2> QED BY <2>2, <2>3, <2>4, <2>5, <2>6
<1>3. CASE rows[open] # 0
  <2>1. /\ Dispatch(Append(queue, open), job, up)
        /\ UNCHANGED <<encoder, buffer, offset, pool, wire, outcome>>
    BY <1>3 DEF FlushOpen, heapVars
  <2>2. /\ Append(queue, open) \in Seq(Batches)
        /\ Holders(Append(queue, open), job, (Live \ {open}) \cup {open})
    BY <1>1, Types, HolderJoins DEF HolderInv
  <2>3. InPhase(job)
    BY Types DEF InPhase
  <2>4. (Live \ {open}) \cup {open} = Live /\ Live' = Live
    BY <1>1, <2>1 DEF Live
  <2>5. Dealt(job, Live)
    BY <2>1, <2>2, <2>3, <2>4, Types, DispatchHands
  <2>6. TypeInv'
    BY <1>1, <2>1, <2>5, Types DEF TypeInv, TypeOK, Dealt
  <2>7. EncoderInv'
    BY <1>1, <2>1, <2>4 DEF EncoderInv, EncodersHeldOnce
  <2>8. HolderInv'
    <3>1. Live' \ {open'} = Live
      BY <1>1, <2>4, NoneIsNone DEF Live
    <3> QED BY <1>1, <2>5, <3>1 DEF HolderInv, Dealt
  <2>9. Kept({})
    <3>1. \A w \in Writers : phase'[w] \in {"copy", "ack"} => phase'[w] = phase[w]
      BY <2>5 DEF Dealt
    <3>2. SameViews(wire, wire', {})
      BY <2>1, SameViewsRefl
    <3>3. \A c \in Batches : c <= opened /\ c # open =>
                               c <= opened' /\ c # open' /\ rows'[c] = rows[c]
      BY <1>1, NoneIsNone
    <3> QED BY <1>1, <2>1, <2>4, <2>5, <3>1, <3>2, <3>3 DEF Kept, Dealt
  <2> QED BY <2>6, <2>7, <2>8, <2>9
<1> QED BY <1>2, <1>3

LEMMA WatchdogSteps ==
  ASSUME TypeInv, EncoderInv, HolderInv, Watchdog
  PROVE  TypeInv' /\ EncoderInv' /\ HolderInv' /\ \E T : Kept(T) /\ T \cap Live' = {}
<1>1. PICK n \in 1..Len(queue) :
        LET due == SubSeq(queue, 1, n)
        IN /\ queue' = SubSeq(queue, n + 1, Len(queue))
           /\ outcome' = [b \in Batches |-> IF b \in ToSet(due) THEN "rejected" ELSE outcome[b]]
           /\ encoder' = [b \in Batches |-> IF b \in ToSet(due) THEN None ELSE encoder[b]]
           /\ ReleaseEncoders([i \in 1..n |-> encoder[due[i]]])
  BY DEF Watchdog
<1>2. UNCHANGED <<opened, open, rows, made, job, phase, up, copying, got, table>>
  BY DEF Watchdog, serverVars
<1> DEFINE due == SubSeq(queue, 1, n)
           B == ToSet(due)
           es == [i \in 1..n |-> encoder[due[i]]]
<1>3. Len(queue) \in Nat /\ n \in Nat /\ n <= Len(queue) /\ queue \in Seq(Batches)
  BY Types
<1>4. /\ Len(due) = n /\ DOMAIN due = 1..n
      /\ \A i \in 1..n : due[i] = queue[i] /\ i \in 1..Len(queue)
  BY <1>3
<1>5. B = {queue[i] : i \in 1..n}
  <2>1. B = {due[i] : i \in 1..n}
    BY <1>4 DEF ToSet
  <2> HIDE DEF B, due
  <2> QED BY <1>4, <2>1
<1>6. \A i \in 1..Len(queue) : queue[i] \in Live /\ queue[i] # open /\ encoder[queue[i]] \in Encoders
  BY Types DEF HolderInv, Holders, Live
<1>7. es \in Seq(Encoders) /\ Len(es) = n /\ DOMAIN es = 1..n
      /\ \A i \in 1..n : es[i] = encoder[queue[i]]
  <2> HIDE DEF due
  <2>1. \A i \in 1..n : encoder[due[i]] = encoder[queue[i]] /\ encoder[due[i]] \in Encoders
    BY <1>4, <1>6
  <2> QED BY <1>3, <2>1
<1>8. /\ outcome' = [b \in Batches |-> IF b \in B THEN "rejected" ELSE outcome[b]]
      /\ encoder' = [b \in Batches |-> IF b \in B THEN None ELSE encoder[b]]
      /\ ReleaseEncoders(es)
      /\ queue' = SubSeq(queue, n + 1, Len(queue))
  BY <1>1
<1> HIDE DEF due, B, es
<1>9. \A i, k \in 1..Len(queue) : queue[i] = queue[k] => i = k
  BY DEF HolderInv, Holders
<1>10. \A b, c \in Live : b # c => encoder[b] # encoder[c]
  BY DEF EncoderInv, EncodersHeldOnce, Live
<1>11. IsInjective(es)
  BY <1>4, <1>6, <1>7, <1>9, <1>10 DEF IsInjective
<1>12. B \in SUBSET Live /\ \A i \in 1..Len(es) : \E b \in B : es[i] = encoder[b]
  BY <1>4, <1>5, <1>6, <1>7
<1>13. outcome' \in [Batches -> {"none", "resolved", "rejected"}]
  BY <1>8, Types
<1>14. GivesUp(B, es)
  BY <1>2, <1>8, <1>13 DEF GivesUp
<1>15. /\ EncoderInv' /\ Live' = Live \ B /\ Untouched(es)
       /\ encoder' \in [Batches -> Encoders \cup {None}]
       /\ buffer' \in [Encoders -> Seq(Cell)] /\ offset' \in [Encoders -> Nat]
       /\ \A e \in Encoders : offset'[e] \in 0..Len(buffer'[e])
       /\ wire' \in [Writers -> Seq(View)] /\ pool' \in Seq(Encoders)
  BY <1>7, <1>11, <1>12, <1>14, GivenUp
<1>16. queue' \in Seq(Batches)
  BY <1>3, <1>8
<1>17. TypeInv'
  BY <1>2, <1>13, <1>15, <1>16, Types DEF TypeInv, TypeOK
<1>18. HolderInv'
  <2>1. \A i \in 1..Len(queue') : n + i \in 1..Len(queue) /\ queue'[i] = queue[n + i]
                                    /\ i \in Nat /\ n + i > n
    BY <1>3, <1>8
  <2>2. \A i \in 1..Len(queue') : queue'[i] \notin B
    BY <1>3, <1>4, <1>5, <1>9, <2>1
  <2>3. Holders(queue, job, Live \ {open})
    BY DEF HolderInv
  <2>4. \A w \in Writers : job[w] \notin B
    BY <1>4, <1>5, <2>3 DEF Holders
  <2>5. open \notin B
    BY <1>4, <1>5, <1>6
  <2>6. Holders(queue', job, (Live \ B) \ {open})
    <3>1. \A i \in 1..Len(queue') : queue'[i] \in (Live \ B) \ {open}
      BY <2>1, <2>2, <2>3 DEF Holders
    <3>2. ASSUME NEW i \in 1..Len(queue'), NEW k \in 1..Len(queue'), queue'[i] = queue'[k]
          PROVE  i = k
      <4>1. n + i = n + k
        BY <1>9, <2>1, <3>2
      <4>2. i \in Nat /\ k \in Nat
        BY <2>1
      <4> QED BY <1>3, <4>1, <4>2
    <3>3. \A w \in Writers : job[w] # None => job[w] \in (Live \ B) \ {open}
      BY <2>3, <2>4 DEF Holders
    <3>4. \A i \in 1..Len(queue'), w \in Writers : queue'[i] # job[w]
      BY <2>1, <2>3 DEF Holders
    <3>5. \A v, w \in Writers : job[v] = job[w] /\ job[v] # None => v = w
      BY <2>3 DEF Holders
    <3> QED BY <3>1, <3>2, <3>3, <3>4, <3>5 DEF Holders
  <2>7. open # None => open \in Live \ B
    BY <2>5 DEF HolderInv
  <2> QED BY <1>2, <1>15, <2>6, <2>7 DEF HolderInv
<1>19. Kept(B)
  <2>1. OthersKeep(B)
    <3>1. ToSet(es) \subseteq EncodersOf(B)
      BY <1>7, <1>12 DEF ToSet, EncodersOf
    <3> QED BY <1>12, <1>15, <3>1, OthersUntouched
  <2>2. \A w \in Writers : job[w] # None => job[w] \in Live \ B
    BY <1>2, <1>15, <1>18 DEF HolderInv, Holders
  <2>3. \A w \in Writers : phase[w] \in {"copy", "ack"} => job[w] \in Live \ B
    BY <2>2, Types
  <2>4. \A c \in Live' : c \notin B =>
          /\ c \in Live /\ encoder'[c] = encoder[c] /\ rows'[c] = rows[c]
          /\ buffer'[encoder[c]] = buffer[encoder[c]]
          /\ offset'[encoder[c]] = offset[encoder[c]]
    BY <1>2, <1>8, <1>15, <2>1 DEF Live, OthersKeep
  <2>5. \A c \in Batches : outcome'[c] = "resolved" /\ rows'[c] > 0 =>
          table[c] # <<>> \/ (outcome[c] = "resolved" /\ rows[c] > 0)
    BY <1>2, <1>8
  <2>6. \E changed : /\ SameViews(wire, wire', changed)
                     /\ \A w \in Writers : phase[w] = "copy" => encoder[job[w]] \notin changed
    BY <2>1, <2>3 DEF OthersKeep
  <2> QED BY <1>2, <2>3, <2>4, <2>5, <2>6 DEF Kept
<1>20. B \cap Live' = {}
  BY <1>15
<1> QED BY <1>15, <1>17, <1>18, <1>19, <1>20

LEMMA EndCopySteps ==
  ASSUME TypeInv, EncoderInv, HolderInv, NEW w \in Writers,
         phase[w] \in {"ack", "error", "broken"},
         NEW result \in {"resolved", "rejected"},
         result = "resolved" => table[job[w]] # <<>>,
         EndCopy(w, result)
  PROVE  TypeInv' /\ EncoderInv' /\ HolderInv' /\ \E T : Kept(T) /\ T \cap Live' = {}
<1> DEFINE b == job[w]
           j == [job EXCEPT ![w] = None]
<1>1. /\ outcome' = [outcome EXCEPT ![b] = result]
      /\ encoder' = [encoder EXCEPT ![b] = None]
      /\ ReleaseEncoders(<<encoder[b]>>)
      /\ Dispatch(queue, j, up)
      /\ UNCHANGED <<opened, open, rows, made, up, copying, got, table>>
  BY DEF EndCopy, serverVars
<1>2. job[w] # None
  BY Types
<1>3. Holders(queue, job, Live \ {open})
  BY DEF HolderInv
<1>4. b \in Live /\ b # open /\ b \in Batches
  BY <1>2, <1>3 DEF Holders, Live
<1>5. j \in [Writers -> Batches \cup {None}] /\ j[w] = None
      /\ \A v \in Writers : v # w => j[v] = job[v]
  BY Types
<1>6. Holders(queue, j, (Live \ {open}) \ {b})
  BY <1>2, <1>3, Types, HolderLeaves
<1>7. \A v \in Writers : v # w => job[v] # b
  BY <1>2, <1>3 DEF Holders
<1>8. InPhase(j)
  BY <1>5, Types DEF InPhase
<1> HIDE DEF b, j
<1>9. /\ EncoderInv' /\ Live' = Live \ {b} /\ Untouched(<<encoder[b]>>)
      /\ ToSet(<<encoder[b]>>) = {encoder[b]}
      /\ outcome' \in [Batches -> {"none", "resolved", "rejected"}]
      /\ encoder' \in [Batches -> Encoders \cup {None}]
      /\ buffer' \in [Encoders -> Seq(Cell)] /\ offset' \in [Encoders -> Nat]
      /\ \A e \in Encoders : offset'[e] \in 0..Len(buffer'[e])
      /\ wire' \in [Writers -> Seq(View)] /\ pool' \in Seq(Encoders)
  BY <1>1, <1>4, OneGivenUp
<1>10. (Live \ {open}) \ {b} = Live' \ {open'}
  BY <1>1, <1>9
<1>11. Dealt(j, Live' \ {open'})
  BY <1>1, <1>5, <1>6, <1>8, <1>10, Types, DispatchHands
<1>12. TypeInv'
  BY <1>1, <1>9, <1>11, Types DEF TypeInv, TypeOK, Dealt
<1>13. HolderInv'
  BY <1>1, <1>4, <1>9, <1>11 DEF HolderInv, Dealt
<1>14. Kept({b})
  <2>1. OthersKeep({b})
    <3>1. ToSet(<<encoder[b]>>) \subseteq EncodersOf({b}) /\ {b} \in SUBSET Live
      BY <1>4, <1>9 DEF EncodersOf
    <3> QED BY <1>9, <3>1, OthersUntouched
  <2>2. \A v \in Writers : job[v] # None /\ v # w => job[v] \in Live \ {b}
    BY <1>3, <1>7 DEF Holders
  <2>3. \A v \in Writers : phase[v] = "copy" => job[v] \in Live \ {b}
    <3>1. \A v \in Writers : phase[v] = "copy" => v # w /\ job[v] # None
      BY Types
    <3> QED BY <2>2, <3>1
  <2>4. \A c \in Live' : c \notin {b} =>
          /\ c \in Live /\ encoder'[c] = encoder[c] /\ rows'[c] = rows[c]
          /\ buffer'[encoder[c]] = buffer[encoder[c]]
          /\ offset'[encoder[c]] = offset[encoder[c]]
    BY <1>1, <1>4, <1>9, <2>1, Types DEF Live, OthersKeep
  <2>5. \A v \in Writers : job[v] # None /\ job[v] \notin {b} =>
                             job'[v] = job[v] /\ phase'[v] = phase[v]
    BY <1>5, <1>11 DEF Dealt, b
  <2>6. \A v \in Writers : phase'[v] \in {"copy", "ack"} =>
                             phase'[v] = phase[v] /\ job[v] \notin {b}
    <3>1. \A v \in Writers : phase'[v] \in {"copy", "ack"} => j[v] # None /\ v # w
      BY <1>5, <1>11 DEF Dealt
    <3> QED BY <1>5, <1>7, <1>11, <3>1 DEF Dealt
  <2>7. \A c \in Batches : outcome'[c] = "resolved" /\ rows'[c] > 0 =>
          table[c] # <<>> \/ (outcome[c] = "resolved" /\ rows[c] > 0)
    BY <1>1, <1>4, Types DEF b
  <2>8. \E changed : /\ SameViews(wire, wire', changed)
                     /\ \A v \in Writers : phase[v] = "copy" => encoder[job[v]] \notin changed
    BY <2>1, <2>3 DEF OthersKeep
  <2>9. \A v \in Writers : phase[v] = "copy" => job[v] \notin {b}
    BY <2>3
  <2>10. \A c \in Batches : c <= opened /\ c # open =>
                              c <= opened' /\ c # open' /\ rows'[c] = rows[c]
    BY <1>1
  <2> QED BY <1>1, <2>4, <2>5, <2>6, <2>7, <2>8, <2>9, <2>10 DEF Kept
<1>15. {b} \cap Live' = {}
  BY <1>9
<1> QED BY <1>9, <1>12, <1>13, <1>14, <1>15

LEMMA ReconnectedSteps ==
  ASSUME TypeInv, EncoderInv, HolderInv, NEW w \in Writers, Reconnected(w)
  PROVE  TypeInv' /\ EncoderInv' /\ HolderInv' /\ \E T : Kept(T) /\ T \cap Live' = {}
<1>1. /\ up' = [up EXCEPT ![w] = TRUE] /\ Dispatch(queue, job, up')
      /\ UNCHANGED <<opened, open, rows, outcome, encoder, made, buffer, offset, pool, wire,
                     copying, got, table>>
  BY DEF Reconnected, batchVars, heapVars, serverVars
<1>2. up' \in [Writers -> BOOLEAN]
  BY <1>1, Types
<1>3. InPhase(job)
  BY Types DEF InPhase
<1>4. Live' = Live
  BY <1>1 DEF Live
<1>5. Dealt(job, Live \ {open})
  BY <1>1, <1>2, <1>3, Types, DispatchHands DEF HolderInv
<1>6. TypeInv'
  BY <1>1, <1>2, <1>5, Types DEF TypeInv, TypeOK, Dealt
<1>7. EncoderInv'
  BY <1>1, <1>4 DEF EncoderInv, EncodersHeldOnce
<1>8. HolderInv'
  BY <1>1, <1>4, <1>5 DEF HolderInv, Dealt
<1>9. Kept({})
  <2>1. \A v \in Writers : phase'[v] \in {"copy", "ack"} => phase'[v] = phase[v]
    BY <1>5 DEF Dealt
  <2>2. SameViews(wire, wire', {})
    BY <1>1, SameViewsRefl
  <2> QED BY <1>1, <1>4, <1>5, <2>1, <2>2 DEF Kept, Dealt
<1> QED BY <1>6, <1>7, <1>8, <1>9

-----------------------------------------------------------------------------
(* append().                                                               *)

\* The encoder of a batch holds the rows the batch has so far.
Ready(b) == Holds(b, Written(b, rows[b]))

\* Rows go into batch b, the open one or a new one, whose encoder e is its own and in state
\* start.
Begins(b, e, start) ==
  /\ b \in Batches /\ e \in Encoders
  /\ outcome[b] = "none" /\ (b \in Live \/ b <= opened => b = open)
  /\ opened' \in 0..NumBatches
  /\ \A c \in Batches : c <= opened' <=> c <= opened \/ c = b
  /\ made' \in 0..NumBatches /\ made' <= opened' /\ made <= made' /\ e <= made'
  /\ \A d \in Encoders : d <= made' => d <= made \/ d = e
  /\ pool' \in Seq(Encoders) /\ IsInjective(pool') /\ ToSet(pool') \subseteq ToSet(pool)
  /\ e \notin ToSet(pool')
  /\ \A c \in Batches : c # b => encoder[c] # e
  /\ open # None => b = open
  /\ start \in EncoderStates /\ Has(start.cells, start.at, Written(b, rows[b]))

\* An encoder of the pool or a new one, when a batch is opened.
LEMMA NewBatchBegins ==
  ASSUME TypeInv, EncoderInv, open = None, opened < NumBatches, opened' = opened + 1,
         NEW e, NEW cells \in Seq(Cell), Len(cells) > 0,
         \/ /\ pool # <<>> /\ e = Last(pool) /\ made' = made /\ pool' = Front(pool)
         \/ /\ pool = <<>> /\ e = made + 1 /\ made' = made + 1 /\ pool' = pool
  PROVE  Begins(opened + 1, e, [cells |-> Reset(cells), at |-> 1])
<1> DEFINE b == opened + 1
           start == [cells |-> Reset(cells), at |-> 1]
<1>1. /\ opened \in 0..NumBatches /\ made \in 0..NumBatches /\ NumBatches \in Nat
      /\ made <= opened
  BY Types DEF EncoderInv
<1>2. b \in Batches /\ b > opened /\ b <= opened' /\ opened' \in 0..NumBatches
  BY <1>1 DEF Batches
<1>3. outcome[b] = "none" /\ rows[b] = 0 /\ b \notin Live
  <2>1. b \in Batches /\ b > opened /\ ~(b <= opened)
    BY <1>1, <1>2
  <2> HIDE DEF b
  <2> QED BY <2>1 DEF EncoderInv
<1>4. \A c \in Batches : c <= opened' <=> c <= opened \/ c = b
  BY <1>1 DEF Batches
<1>9. ~(b <= opened)
  BY <1>1
<1>5. start \in EncoderStates /\ Has(start.cells, start.at, Written(b, rows[b]))
  <2> HIDE DEF b
  <2>1. /\ Reset(cells) \in Seq(Cell) /\ Len(Reset(cells)) = Len(cells)
        /\ Has(Reset(cells), 1, Written(b, 0))
    BY <1>2, ResetHasHeader
  <2>2. start \in EncoderStates
    BY <2>1 DEF EncoderStates
  <2> QED BY <1>3, <2>1, <2>2
<1>6. \A c \in Batches : encoder[c] \in Int /\ encoder[c] <= made
  BY Types DEF EncoderInv, Encoders, None
<1>7. CASE pool # <<>> /\ e = Last(pool) /\ made' = made /\ pool' = Front(pool)
  <2>1. /\ pool \in Seq(Encoders) /\ Len(pool) \in Nat \ {0} /\ DOMAIN pool = 1..Len(pool)
        /\ \A i \in 1..Len(pool) : pool[i] \in Encoders
    BY <1>7, Types
  <2>2. e = pool[Len(pool)] /\ Len(pool) \in 1..Len(pool)
    BY <1>7, <2>1 DEF Last
  <2>3. e \in Encoders /\ e \in ToSet(pool)
    BY <2>1, <2>2 DEF ToSet
  <2>4. /\ pool' \in Seq(Encoders) /\ Len(pool') = Len(pool) - 1 /\ DOMAIN pool' = 1..Len(pool')
        /\ \A i \in 1..Len(pool') : /\ pool'[i] = pool[i] /\ i \in 1..Len(pool)
                                    /\ i # Len(pool)
    <3> DEFINE l == Len(pool)
               m == l - 1
    <3>1. l \in Nat \ {0} /\ m \in 0..l /\ m \in Int
      BY <2>1
    <3>2. pool' = SubSeq(pool, 1, m)
      BY <1>7 DEF Front
    <3>5. \A i \in 1..m : i \in 1..l /\ i # l
      <4> HIDE DEF l
      <4> QED BY <3>1
    <3>3. pool' \in Seq(Encoders) /\ Len(pool') = m /\ \A i \in 1..m : pool'[i] = pool[i]
      <4>1. \A i \in 1..m : pool[i] \in Encoders
        BY <2>1, <3>5
      <4>2. /\ pool' \in Seq(Encoders)
            /\ Len(pool') = IF 1 <= m THEN m - 1 + 1 ELSE 0
            /\ \A i \in 1..m - 1 + 1 : pool'[i] = pool[1 + i - 1]
        <5> HIDE DEF m, l
        <5> QED BY <3>1, <3>2, <4>1, SubSeqProperties
      <4> HIDE DEF m, l
      <4>3. Len(pool') = m
        BY <3>1, <4>2
      <4> QED BY <3>1, <4>2, <4>3
    <3>4. DOMAIN pool' = 1..m
      BY <3>3
    <3> QED BY <3>3, <3>4, <3>5
  <2>5. \A i, k \in 1..Len(pool) : pool[i] = pool[k] => i = k
    BY <2>1 DEF EncoderInv, EncodersHeldOnce, IsInjective
  <2>6. IsInjective(pool') /\ ToSet(pool') \subseteq ToSet(pool) /\ e \notin ToSet(pool')
    <3>1. IsInjective(pool')
      BY <2>4, <2>5 DEF IsInjective
    <3>2. \A x \in ToSet(pool') : \E i \in 1..Len(pool') : x = pool'[i]
      BY <2>4 DEF ToSet
    <3>3. ToSet(pool') \subseteq ToSet(pool)
      BY <2>1, <2>4, <3>2 DEF ToSet
    <3>4. e \notin ToSet(pool')
      BY <2>2, <2>4, <2>5, <3>2
    <3> QED BY <3>1, <3>3, <3>4
  <2>7. \A c \in Batches : encoder[c] # e
    BY <2>3 DEF EncoderInv, EncodersHeldOnce
  <2>8. e <= made
    BY <2>3 DEF EncoderInv
  <2>9. made' \in 0..NumBatches /\ made' <= opened' /\ made <= made' /\ e <= made'
        /\ \A d \in Encoders : d <= made' => d <= made \/ d = e
    BY <1>1, <1>7, <2>8
  <2> HIDE DEF b, start
  <2> SUFFICES Begins(b, e, start)
    BY DEF b, start
  <2> QED BY <1>9, <1>2, <1>3, <1>4, <1>5, <2>3, <2>4, <2>6, <2>7, <2>9 DEF Begins
<1>8. CASE pool = <<>> /\ e = made + 1 /\ made' = made + 1 /\ pool' = pool
  <2>1. e \in Encoders /\ e > made
    BY <1>1, <1>8 DEF Encoders
  <2>2. pool' \in Seq(Encoders) /\ DOMAIN pool' = {}
    BY <1>8
  <2>3. IsInjective(pool') /\ ToSet(pool') \subseteq ToSet(pool) /\ e \notin ToSet(pool')
    BY <1>8, <2>2 DEF ToSet, IsInjective
  <2>4. \A c \in Batches : encoder[c] # e
    BY <1>1, <1>6, <1>8
  <2>5. made' \in 0..NumBatches /\ made' <= opened' /\ made <= made' /\ e <= made'
        /\ \A d \in Encoders : d <= made' => d <= made \/ d = e
    BY <1>1, <1>8 DEF Encoders
  <2> HIDE DEF b, start
  <2> SUFFICES Begins(b, e, start)
    BY DEF b, start
  <2> QED BY <1>9, <1>2, <1>3, <1>4, <1>5, <2>1, <2>2, <2>3, <2>4, <2>5 DEF Begins
<1> QED BY <1>7, <1>8

\* The rest of append()'s step.
Writes(n, b, e, done) ==
  /\ rows[b] + n <= MaxBatchRows
  /\ rows' = [rows EXCEPT ![b] = @ + n]
  /\ encoder' = [encoder EXCEPT ![b] = e]
  /\ buffer' = [buffer EXCEPT ![e] = done.cells]
  /\ offset' = [offset EXCEPT ![e] = done.at]
  /\ \E changed \in SUBSET {e} : wire' = Detached(changed)
  /\ \/ open' = None /\ Dispatch(Append(queue, b), job, up)
     \/ open' = b /\ UNCHANGED writerVars
  /\ UNCHANGED <<outcome, up, serverVars>>
  /\ done \in EncoderStates /\ Has(done.cells, done.at, Written(b, rows[b] + n))

LEMMA ChunkBegins ==
  ASSUME TypeInv, EncoderInv, HolderInv, open # None => Ready(open),
         NEW n \in 0..MaxBatchRows, AppendChunk(n)
  PROVE  \E b, e, start, done : Begins(b, e, start) /\ Writes(n, b, e, done)
<1> DEFINE b == IF open # None THEN open ELSE opened + 1
           e == CASE open # None -> encoder[open]
                  [] open = None /\ pool # <<>> -> Last(pool)
                  [] OTHER -> made + 1
           start == IF open # None THEN [cells |-> buffer[e], at |-> offset[e]]
                                   ELSE CurrentEncoder(e)
           done == FoldLeft(WriteLogRow, start, [i \in 1..n |-> <<b, rows[b] + i>>])
<1>1. /\ open # None \/ opened < NumBatches
      /\ rows[b] + n <= MaxBatchRows
      /\ rows' = [rows EXCEPT ![b] = @ + n]
      /\ opened' = IF open = None THEN opened + 1 ELSE opened
      /\ encoder' = [encoder EXCEPT ![b] = e]
      /\ made' = IF open = None /\ pool = <<>> THEN made + 1 ELSE made
      /\ pool' = IF open = None /\ pool # <<>> THEN Front(pool) ELSE pool
      /\ buffer' = [buffer EXCEPT ![e] = done.cells]
      /\ offset' = [offset EXCEPT ![e] = done.at]
      /\ wire' = Detached(IF Len(done.cells) # Len(buffer[e]) THEN {e} ELSE {})
      /\ \/ open' = None /\ Dispatch(Append(queue, b), job, up)
         \/ open' = b /\ UNCHANGED writerVars
      /\ UNCHANGED <<outcome, up, serverVars>>
  BY Zenon DEF AppendChunk
<1>2. Begins(b, e, start)
  <2>1. CASE open # None
    <3>1. b = open /\ e = encoder[open] /\ start = [cells |-> buffer[e], at |-> offset[e]]
          /\ opened' = opened /\ made' = made /\ pool' = pool
      BY <1>1, <2>1
    <3>2. /\ open \in Batches /\ open \in Live /\ encoder[open] \in Encoders
          /\ encoder[open] # None /\ encoder[open] <= made
      BY <2>1, Types DEF HolderInv, Live, EncoderInv
    <3>3. open <= opened /\ outcome[open] = "none"
      BY <3>2 DEF EncoderInv
    <3>4. start \in EncoderStates /\ Has(start.cells, start.at, Written(b, rows[b]))
      <4> HIDE DEF start, b, e
      <4>1. Has(buffer[e], offset[e], Written(b, rows[b]))
        BY <2>1, <3>1 DEF Ready, Holds
      <4>2. /\ buffer[e] \in Seq(Cell) /\ offset[e] \in Nat /\ offset[e] <= Len(buffer[e])
            /\ Len(buffer[e]) > 0
        BY <3>1, <3>2, Types DEF EncoderInv
      <4>3. [cells |-> buffer[e], at |-> offset[e]] \in EncoderStates
        BY <4>2 DEF EncoderStates
      <4> QED BY <3>1, <4>1, <4>3
    <3>5. \A c \in Batches : c # open => encoder[c] # encoder[open]
      BY <3>2 DEF EncoderInv, EncodersHeldOnce
    <3>6. /\ pool \in Seq(Encoders) /\ IsInjective(pool) /\ encoder[open] \notin ToSet(pool)
          /\ made <= opened /\ made \in 0..NumBatches /\ opened \in 0..NumBatches /\ made <= made
      BY <3>2, Types DEF EncoderInv, EncodersHeldOnce
    <3>7. \A c \in Batches : c <= opened <=> c <= opened \/ c = open
      BY <3>3
    <3> HIDE DEF b, e, start
    <3> QED BY <2>1, <3>1, <3>2, <3>3, <3>4, <3>5, <3>6, <3>7 DEF Begins
  <2>2. CASE open = None
    <3> DEFINE cells == IF e \in ToSet(pool) THEN buffer[e] ELSE Allocated(InitialCells)
    <3>1. /\ b = opened + 1 /\ opened < NumBatches /\ opened' = opened + 1
          /\ start = [cells |-> Reset(cells), at |-> 1]
      BY <1>1, <2>2 DEF CurrentEncoder
    <3>2. \/ pool # <<>> /\ e = Last(pool) /\ made' = made /\ pool' = Front(pool)
          \/ pool = <<>> /\ e = made + 1 /\ made' = made + 1 /\ pool' = pool
      BY <1>1, <2>2
    <3>3. cells \in Seq(Cell) /\ Len(cells) > 0
      <4>1. e \in ToSet(pool) => buffer[e] \in Seq(Cell) /\ Len(buffer[e]) > 0
        <5> HIDE DEF e
        <5>1. e \in ToSet(pool) => e \in Encoders /\ e <= made
          BY Types DEF ToSet, EncoderInv
        <5> QED BY <5>1, Types DEF EncoderInv
      <4>2. InitialCells \in Nat \ {0}
        BY BuffersAssumption
      <4>3. Allocated(InitialCells) \in Seq(Cell) /\ Len(Allocated(InitialCells)) > 0
        BY <4>2, AllocatedType
      <4> QED BY <4>1, <4>3
    <3> HIDE DEF e, b, start, cells
    <3> QED BY <2>2, <3>1, <3>2, <3>3, NewBatchBegins
  <2> QED BY <2>1, <2>2
<1> HIDE DEF e, start
<1>3. done \in EncoderStates /\ Has(done.cells, done.at, Written(b, rows[b] + n))
  <2>1. b \in Batches /\ start \in EncoderStates /\ Has(start.cells, start.at, Written(b, rows[b]))
    BY <1>2 DEF Begins
  <2> HIDE DEF b
  <2>2. n \in Nat /\ rows[b] \in Nat
    BY <2>1, Types, BuffersAssumption
  <2> QED BY <1>1, <2>1, <2>2, RowsAppend
<1> HIDE DEF b, done
<1>4. \E changed \in SUBSET {e} : wire' = Detached(changed)
  BY <1>1
<1>5. Writes(n, b, e, done)
  BY <1>1, <1>3, <1>4 DEF Writes
<1> QED BY <1>2, <1>5

LEMMA AppendSteps ==
  ASSUME TypeInv, EncoderInv, HolderInv, open # None => Ready(open),
         NEW n \in 0..MaxBatchRows, AppendChunk(n)
  PROVE  /\ TypeInv' /\ EncoderInv' /\ HolderInv'
         /\ \E T : Kept(T) /\ \A c \in T : c \in Live' => Ready(c)'
<1>1. PICK b, e, start, done : Begins(b, e, start) /\ Writes(n, b, e, done)
  BY ChunkBegins
<1>2. /\ b \in Batches /\ e \in Encoders /\ outcome[b] = "none" /\ e <= made' /\ made <= made'
      /\ (b \in Live \/ b <= opened => b = open) /\ (open # None => b = open)
      /\ opened' \in 0..NumBatches /\ made' \in 0..NumBatches /\ made' <= opened'
      /\ pool' \in Seq(Encoders) /\ IsInjective(pool') /\ ToSet(pool') \subseteq ToSet(pool)
      /\ e \notin ToSet(pool')
  BY <1>1 DEF Begins
<1>3. /\ \A c \in Batches : c <= opened' <=> c <= opened \/ c = b
      /\ \A d \in Encoders : d <= made' => d <= made \/ d = e
      /\ \A c \in Batches : c # b => encoder[c] # e
  BY <1>1 DEF Begins
<1>4. /\ rows[b] + n <= MaxBatchRows /\ rows' = [rows EXCEPT ![b] = @ + n]
      /\ encoder' = [encoder EXCEPT ![b] = e]
      /\ buffer' = [buffer EXCEPT ![e] = done.cells]
      /\ offset' = [offset EXCEPT ![e] = done.at]
      /\ outcome' = outcome /\ up' = up /\ copying' = copying /\ got' = got /\ table' = table
      /\ done \in EncoderStates /\ Has(done.cells, done.at, Written(b, rows[b] + n))
  BY <1>1 DEF Writes, serverVars
<1>5. \/ open' = None /\ Dispatch(Append(queue, b), job, up)
      \/ open' = b /\ queue' = queue /\ job' = job /\ phase' = phase
  BY <1>1 DEF Writes, writerVars
<1>6. PICK changed \in SUBSET {e} : wire' = Detached(changed)
  BY <1>1 DEF Writes
<1>7. wire' \in [Writers -> Seq(View)] /\ SameViews(wire, wire', changed)
  BY <1>2, <1>6, DetachedKeeps
<1>8. /\ done.cells \in Seq(Cell) /\ done.at \in Nat /\ Len(done.cells) > 0
      /\ done.at <= Len(done.cells)
  BY <1>4 DEF EncoderStates
<1>9. /\ buffer' \in [Encoders -> Seq(Cell)] /\ buffer'[e] = done.cells
      /\ offset' \in [Encoders -> Nat] /\ offset'[e] = done.at
      /\ \A d \in Encoders : d # e => buffer'[d] = buffer[d] /\ offset'[d] = offset[d]
  BY <1>2, <1>4, <1>8, Types
<1>10. \A d \in Encoders : offset'[d] \in 0..Len(buffer'[d])
  <2>1. done.at \in 0..Len(done.cells)
    BY <1>8
  <2> QED BY <1>9, <2>1, Types
<1>11. /\ rows' \in [Batches -> 0..MaxBatchRows] /\ rows'[b] = rows[b] + n
       /\ \A c \in Batches : c # b => rows'[c] = rows[c]
  <2>1. rows[b] \in 0..MaxBatchRows /\ MaxBatchRows \in Nat /\ n \in Nat
    BY <1>2, Types, BuffersAssumption
  <2>2. rows[b] + n \in 0..MaxBatchRows
    BY <1>4, <2>1
  <2> QED BY <1>2, <1>4, <2>2, Types
<1>12. /\ encoder' \in [Batches -> Encoders \cup {None}] /\ encoder'[b] = e
       /\ \A c \in Batches : c # b => encoder'[c] = encoder[c]
  BY <1>2, <1>4, Types
<1>13. e # None /\ b # None
  BY <1>2, NoneIsNone
<1>14. Live' = Live \cup {b}
  BY <1>2, <1>12, <1>13 DEF Live
<1>15. Holders(queue, job, Live \ {open}) /\ b \notin Live \ {open}
  BY <1>2 DEF HolderInv
<1>16. \A w \in Writers : job[w] # None => job[w] \in Live /\ job[w] # b /\ job[w] \in Batches
  <2>1. \A w \in Writers : job[w] # None => job[w] \in Live \ {open}
    BY <1>15 DEF Holders
  <2> QED BY <1>15, <2>1 DEF Live
<1>17. Dealt(job, Live' \ {open'})
  <2>1. CASE open' = None /\ Dispatch(Append(queue, b), job, up)
    <3>1. Append(queue, b) \in Seq(Batches) /\ Holders(Append(queue, b), job, (Live \ {open}) \cup {b})
      BY <1>2, <1>15, Types, HolderJoins
    <3>2. (Live \ {open}) \cup {b} = Live' \ {open'}
      BY <1>2, <1>13, <1>14, <2>1, NoneIsNone DEF Live
    <3>3. InPhase(job)
      BY Types DEF InPhase
    <3> QED BY <2>1, <3>1, <3>2, <3>3, Types, DispatchHands
  <2>2. CASE open' = b /\ queue' = queue /\ job' = job /\ phase' = phase
    <3>1. Live' \ {open'} = Live \ {open}
      BY <1>2, <1>14, <2>2, NoneIsNone DEF Live
    <3>2. \A w \in Writers : job[w] = None => phase'[w] \in {"idle", "ensure"}
      BY <2>2, Types
    <3> QED BY <1>15, <2>2, <3>1, <3>2, Types DEF Dealt
  <2> QED BY <1>5, <2>1, <2>2
<1>18. open' \in Batches \cup {None} /\ (open' # None => open' = b)
  BY <1>2, <1>5
<1>19. TypeInv'
  BY <1>2, <1>4, <1>7, <1>9, <1>10, <1>11, <1>12, <1>17, <1>18, Types DEF TypeInv, TypeOK, Dealt
<1>20. EncoderInv'
  <2>1. \A b2 \in Batches : encoder'[b2] \notin ToSet(pool')
    BY <1>2, <1>12 DEF EncoderInv, EncodersHeldOnce
  <2>2. \A c, d \in Batches : c # d /\ encoder'[c] # None => encoder'[c] # encoder'[d]
    BY <1>2, <1>3, <1>12 DEF EncoderInv, EncodersHeldOnce
  <2>3. EncodersHeldOnce'
    BY <1>2, <2>1, <2>2 DEF EncodersHeldOnce
  <2>4. \A c \in Batches : c \in Live' <=> c <= opened' /\ outcome'[c] = "none"
    BY <1>2, <1>3, <1>4, <1>14 DEF EncoderInv
  <2>5. \A c \in Batches : c > opened' => outcome'[c] = "none" /\ rows'[c] = 0
    <3>1. \A c \in Batches : c > opened' => c > opened /\ c # b
      BY <1>2, <1>3, Types DEF Batches
    <3> QED BY <1>4, <1>11, <3>1 DEF EncoderInv
  <2>6. \A c \in Batches : encoder'[c] <= made'
    <3>1. \A c \in Batches : encoder[c] \in Int /\ encoder[c] <= made
      BY Types DEF EncoderInv, Encoders, None
    <3>2. \A c \in Batches : encoder[c] <= made'
      <4>1. made \in Int /\ made' \in Int
        BY <1>2, Types
      <4> QED BY <1>2, <3>1, <4>1
    <3> QED BY <1>2, <1>12, <3>2
  <2>7. \A d \in ToSet(pool') : d <= made'
    <3>1. \A d \in ToSet(pool) : d \in Int /\ d <= made
      BY Types DEF EncoderInv, ToSet, Encoders
    <3>2. made \in Int /\ made' \in Int
      BY <1>2, Types
    <3> QED BY <1>2, <3>1, <3>2
  <2>8. \A d \in Encoders : d <= made' => Len(buffer'[d]) > 0
    BY <1>3, <1>8, <1>9 DEF EncoderInv
  <2> QED BY <1>2, <2>3, <2>4, <2>5, <2>6, <2>7, <2>8 DEF EncoderInv
<1>21. HolderInv'
  BY <1>14, <1>17, <1>18 DEF HolderInv, Dealt
<1>22. Kept({b})
  <2>1. \A c \in Live' : c \notin {b} =>
          /\ c \in Live /\ encoder'[c] = encoder[c] /\ rows'[c] = rows[c]
          /\ buffer'[encoder[c]] = buffer[encoder[c]]
          /\ offset'[encoder[c]] = offset[encoder[c]]
    <3>1. \A c \in Live : c \in Batches /\ encoder[c] \in Encoders
      BY Types DEF Live
    <3> QED BY <1>3, <1>9, <1>11, <1>12, <1>14, <3>1
  <2>2. \A w \in Writers : job[w] # None /\ job[w] \notin {b} =>
                             job'[w] = job[w] /\ phase'[w] = phase[w]
    BY <1>17 DEF Dealt
  <2>3. \A w \in Writers : phase'[w] \in {"copy", "ack"} =>
                             phase'[w] = phase[w] /\ job[w] \notin {b}
    <3>1. \A w \in Writers : phase'[w] \in {"copy", "ack"} => job[w] # None
      BY <1>17 DEF Dealt
    <3> QED BY <1>16, <1>17, <3>1 DEF Dealt
  <2>4. \A w \in Writers : phase[w] = "copy" => job[w] # None
    BY Types
  <2>5. \A w \in Writers : phase[w] = "copy" => job[w] \notin {b}
    BY <1>16, <2>4
  <2>6. \A c \in Batches : c <= opened /\ c # open =>
                             c <= opened' /\ c # open' /\ rows'[c] = rows[c]
    BY <1>2, <1>3, <1>11, <1>18, NoneIsNone
  <2>7. \A c \in Batches : outcome'[c] = "resolved" /\ rows'[c] > 0 =>
          table[c] # <<>> \/ (outcome[c] = "resolved" /\ rows[c] > 0)
    BY <1>2, <1>4, <1>11
  <2>8. \A w \in Writers : phase[w] = "copy" => encoder[job[w]] \notin changed
    BY <1>3, <1>16, <2>4
  <2> QED BY <1>4, <1>7, <2>1, <2>2, <2>3, <2>5, <2>6, <2>7, <2>8 DEF Kept
<1>23. Ready(b)'
  BY <1>4, <1>9, <1>11, <1>12 DEF Ready, Holds
<1> QED BY <1>19, <1>20, <1>21, <1>22, <1>23

-----------------------------------------------------------------------------
(* What the encoders, the sockets and the tables hold.                     *)

\* A batch that a writer copies has an encoder.
LEMMA JobIsLive ==
  ASSUME TypeInv, HolderInv, NEW w \in Writers, job[w] # None
  PROVE  job[w] \in Live /\ job[w] # open /\ job[w] \in Batches /\ encoder[job[w]] \in Encoders
<1>1. job[w] \in Live \ {open}
  BY DEF HolderInv, Holders
<1> QED BY <1>1, Types DEF Live

\* A COPY goes on as it did when the batch, its encoder and the socket are left alone.
LEMMA CopyKept ==
  ASSUME TypeInv, TypeInv', NEW w \in Writers,
         NoCopy(w) \/ CopyWaits(w) \/ CopyFlows(w),
         NEW changed, NEW new, SameViews(wire, new, changed), wire'[w] = new[w],
         copying'[w] = copying[w], got'[w] = got[w],
         phase'[w] = "copy" <=> phase[w] = "copy",
         phase[w] = "copy" => /\ job'[w] = job[w] /\ rows'[job[w]] = rows[job[w]]
                              /\ encoder'[job[w]] = encoder[job[w]]
                              /\ encoder[job[w]] \notin changed
  PROVE  (NoCopy(w) \/ CopyWaits(w) \/ CopyFlows(w))'
<1> DEFINE b == job[w]
           text == Payload(b, rows[b])
           l == Len(wire[w])
<1>1. /\ l \in Nat /\ Len(wire'[w]) = l
      /\ \A i \in 1..l : /\ wire'[w][i].batch = wire[w][i].batch
                         /\ wire'[w][i].sent = wire[w][i].sent
                         /\ wire'[w][i].size = wire[w][i].size
                         /\ wire[w][i].source \notin changed =>
                              wire'[w][i].source = wire[w][i].source
  <2>1. wire[w] \in Seq(View)
    BY Types
  <2> QED BY <2>1 DEF SameViews
<1>2. phase[w] = "copy" => Payload(job'[w], rows'[job'[w]]) = text /\ job'[w] = b
  BY DEF Payload
<1>3. \A i \in 1..l : Stale(wire[w][i]) => Stale(wire'[w][i])
  BY <1>1 DEF Stale
<1>4. phase[w] = "copy" => \A i \in 1..l : Current(w, wire[w][i]) =>
                             /\ wire'[w][i].batch = job'[w]
                             /\ wire'[w][i].source = encoder'[job'[w]]
                             /\ wire'[w][i].size = Len(text)
  <2> HIDE DEF text
  <2> QED BY <1>1, <1>2 DEF Current, text
<1>5. CASE NoCopy(w)
  <2>1. \A i \in 1..Len(wire'[w]) : Stale(wire'[w][i])
    BY <1>1, <1>3, <1>5 DEF NoCopy
  <2> QED BY <1>5, <2>1 DEF NoCopy
<1>6. CASE CopyWaits(w)
  <2>1. l > 0 /\ phase[w] = "copy" /\ l \in 1..l
    BY <1>1, <1>6 DEF CopyWaits
  <2>2. Current(w, wire[w][Len(wire[w])])'
    <3>1. Current(w, wire[w][l])
      BY <1>6 DEF CopyWaits
    <3>2. Len(wire'[w]) = l
      BY <1>1
    <3>3. /\ wire'[w][Len(wire'[w])].batch = job'[w]
          /\ wire'[w][Len(wire'[w])].source = encoder'[job'[w]]
          /\ wire'[w][Len(wire'[w])].size = Len(Payload(job'[w], rows'[job'[w]]))
      <4> HIDE DEF l, text
      <4> QED BY <1>2, <1>4, <2>1, <3>1, <3>2
    <3> QED BY <3>3 DEF Current
  <2>3. wire'[w][l].sent = 0 /\ \A i \in 1..l : i # l => Stale(wire'[w][i])
    BY <1>1, <1>3, <1>6, <2>1 DEF CopyWaits
  <2>4. CopyWaits(w)'
    BY <1>1, <1>6, <2>1, <2>2, <2>3 DEF CopyWaits
  <2> QED BY <2>4
<1>7. CASE CopyFlows(w)
  <2>1. phase'[w] = "copy" /\ copying'[w] = job'[w] /\ phase[w] = "copy"
    BY <1>7 DEF CopyFlows
  <2>2. CASE wire[w] = <<>> /\ got[w] = text
    <3>1. wire'[w] = <<>>
      <4>1. wire'[w] \in Seq(View) /\ Len(wire'[w]) = 0
        BY <1>1, <2>2, Types DEF TypeInv
      <4> QED BY <4>1
    <3> QED BY <1>2, <2>1, <2>2, <3>1 DEF CopyFlows
  <2>3. CASE /\ Len(wire[w]) = 1 /\ Current(w, wire[w][1]) /\ Stale(wire[w][1])
             /\ got[w] = SubSeq(text, 1, wire[w][1].sent)
    <3>1. Len(wire'[w]) = 1 /\ wire'[w][1].sent = wire[w][1].sent /\ Stale(wire'[w][1])
      BY <1>1, <1>3, <2>3
    <3>2. Current(w, wire[w][1])'
      <4>1. /\ wire'[w][1].batch = job'[w] /\ wire'[w][1].source = encoder'[job'[w]]
            /\ wire'[w][1].size = Len(Payload(job'[w], rows'[job'[w]]))
        <5> HIDE DEF text
        <5> QED BY <1>1, <1>2, <1>4, <2>1, <2>3
      <4> QED BY <4>1 DEF Current
    <3>3. got'[w] = SubSeq(Payload(job'[w], rows'[job'[w]]), 1, wire'[w][1].sent)
      BY <1>2, <2>1, <2>3, <3>1
    <3> QED BY <2>1, <3>1, <3>2, <3>3 DEF CopyFlows
  <2> QED BY <1>7, <2>2, <2>3 DEF CopyFlows
<1> QED BY <1>5, <1>6, <1>7

LEMMA DataKept ==
  ASSUME TypeInv, TypeInv', HolderInv, HolderInv', DataInv, NEW T, Kept(T),
         \A c \in T : c \in Live' => Ready(c)'
  PROVE  DataInv'
<1>1. /\ \A c \in Live' : c \notin T =>
           /\ c \in Live /\ encoder'[c] = encoder[c] /\ rows'[c] = rows[c]
           /\ buffer'[encoder[c]] = buffer[encoder[c]]
           /\ offset'[encoder[c]] = offset[encoder[c]]
      /\ \A w \in Writers : job[w] # None /\ job[w] \notin T =>
                              job'[w] = job[w] /\ phase'[w] = phase[w]
      /\ \A w \in Writers : phase'[w] \in {"copy", "ack"} =>
                              phase'[w] = phase[w] /\ job[w] \notin T
      /\ copying' = copying /\ got' = got /\ table' = table
  BY DEF Kept
<1>2. /\ \A w \in Writers : phase[w] = "copy" => job[w] \notin T
      /\ \A c \in Batches : c <= opened /\ c # open =>
                              c <= opened' /\ c # open' /\ rows'[c] = rows[c]
      /\ \A c \in Batches : outcome'[c] = "resolved" /\ rows'[c] > 0 =>
           table[c] # <<>> \/ (outcome[c] = "resolved" /\ rows[c] > 0)
  BY DEF Kept
<1>3. \A b \in Live' : (\A w \in Writers : job'[w] = b => phase'[w] = "ensure") => Ready(b)'
  <2>1. ASSUME NEW b \in Live', \A w \in Writers : job'[w] = b => phase'[w] = "ensure",
               b \notin T
        PROVE  Ready(b)'
    <3>1. b \in Live /\ b # None
      BY <1>1, <2>1, NoneIsNone DEF Live
    <3>2. \A w \in Writers : job[w] = b => phase[w] = "ensure"
      BY <1>1, <2>1, <3>1
    <3>3. Holds(b, Written(b, rows[b]))
      BY <3>1, <3>2 DEF DataInv
    <3>4. Has(buffer'[encoder'[b]], offset'[encoder'[b]], Written(b, rows'[b]))
      BY <1>1, <2>1, <3>3 DEF Holds
    <3> QED BY <3>4 DEF Ready, Holds
  <2> QED BY <2>1
<1>4. ASSUME NEW w \in Writers, phase[w] = "copy" \/ phase'[w] = "copy"
      PROVE  LET b == job[w]
             IN /\ phase[w] = "copy" /\ phase'[w] = "copy" /\ b \notin T
                /\ job'[w] = b /\ b \in Live /\ b # None
                /\ encoder'[b] = encoder[b] /\ rows'[b] = rows[b]
                /\ buffer'[encoder[b]] = buffer[encoder[b]]
                /\ offset'[encoder[b]] = offset[encoder[b]]
  <2>1. phase[w] = "copy" /\ job[w] \notin T
    BY <1>1, <1>2, <1>4
  <2>2. job[w] # None
    BY <2>1, Types
  <2>3. job'[w] = job[w] /\ phase'[w] = phase[w]
    BY <1>1, <2>1, <2>2
  <2>4. job'[w] \in Live'
    <3>1. job'[w] # None
      BY <2>2, <2>3
    <3> QED BY <3>1 DEF HolderInv, Holders
  <2> QED BY <1>1, <2>1, <2>2, <2>3, <2>4
<1>5. \A w \in Writers : phase'[w] = "copy" => Holds(job[w], Payload(job[w], rows[job[w]]))'
  <2>1. ASSUME NEW w \in Writers, phase'[w] = "copy"
        PROVE  Holds(job[w], Payload(job[w], rows[job[w]]))'
    <3>1. Holds(job[w], Payload(job[w], rows[job[w]]))
      BY <1>4, <2>1 DEF DataInv
    <3>2. /\ job'[w] = job[w] /\ rows'[job[w]] = rows[job[w]]
          /\ encoder'[job[w]] = encoder[job[w]]
          /\ buffer'[encoder[job[w]]] = buffer[encoder[job[w]]]
          /\ offset'[encoder[job[w]]] = offset[encoder[job[w]]]
      BY <1>4, <2>1
    <3>3. Has(buffer'[encoder'[job'[w]]], offset'[encoder'[job'[w]]],
              Payload(job'[w], rows'[job'[w]]))
      BY <3>1, <3>2 DEF Holds
    <3> QED BY <3>3 DEF Holds
  <2> QED BY <2>1
<1>6. \A w \in Writers : phase'[w] = "ack" => table'[job'[w]] # <<>>
  <2>1. ASSUME NEW w \in Writers, phase'[w] = "ack"
        PROVE  table'[job'[w]] # <<>>
    <3>1. phase[w] = "ack" /\ job[w] \notin T
      BY <1>1, <2>1
    <3>2. job[w] # None
      BY <3>1, Types
    <3> QED BY <1>1, <3>1, <3>2 DEF DataInv
  <2> QED BY <2>1
<1>7. \A b \in Batches : table[b] # <<>> => b <= opened /\ b # open
  BY DEF DataInv
<1>8. \A b \in Batches : table'[b] # <<>> => b <= opened' /\ b # open'
  BY <1>1, <1>2, <1>7
<1>9. StoredIntact'
  <2>1. \A b \in Batches : table'[b] # <<>> => table'[b] = Payload(b, rows'[b])
    <3>1. \A b \in Batches : table[b] # <<>> => table[b] = Payload(b, rows[b])
      BY DEF DataInv, StoredIntact
    <3> QED BY <1>1, <1>2, <1>7, <3>1
  <2>2. \A b \in Batches : outcome'[b] = "resolved" /\ rows'[b] > 0 => table'[b] # <<>>
    <3>1. \A b \in Batches : outcome[b] = "resolved" /\ rows[b] > 0 => table[b] # <<>>
      BY DEF DataInv, StoredIntact
    <3> QED BY <1>1, <1>2, <3>1
  <2>3. \A b \in Batches : Payload(b, rows[b])' = Payload(b, rows'[b])
    BY DEF Payload, RowText
  <2> QED BY <2>1, <2>2, <2>3 DEF StoredIntact
<1>10. \A w \in Writers : (NoCopy(w) \/ CopyWaits(w) \/ CopyFlows(w))'
  <2>1. ASSUME NEW w \in Writers
        PROVE  (NoCopy(w) \/ CopyWaits(w) \/ CopyFlows(w))'
    <3>1. PICK changed : /\ SameViews(wire, wire', changed)
                         /\ \A v \in Writers : phase[v] = "copy" =>
                                                 encoder[job[v]] \notin changed
      BY DEF Kept
    <3>2. NoCopy(w) \/ CopyWaits(w) \/ CopyFlows(w)
      BY DEF DataInv
    <3>3. copying'[w] = copying[w] /\ got'[w] = got[w]
      BY <1>1
    <3>4. phase'[w] = "copy" <=> phase[w] = "copy"
      BY <1>4
    <3>5. phase[w] = "copy" => /\ job'[w] = job[w] /\ rows'[job[w]] = rows[job[w]]
                               /\ encoder'[job[w]] = encoder[job[w]]
                               /\ encoder[job[w]] \notin changed
      BY <1>4, <3>1
    <3> QED BY <3>1, <3>2, <3>3, <3>4, <3>5, CopyKept
  <2> QED BY <2>1
<1> QED BY <1>3, <1>5, <1>6, <1>8, <1>9, <1>10 DEF DataInv, Ready

-----------------------------------------------------------------------------
(* The writer's conversation with the server.                              *)

\* A step of one writer's connection or of the server process at its other end: the rows of
\* a COPY are stored whole, if at all.
Talks(w) ==
  /\ UNCHANGED <<opened, open, rows, outcome, encoder, made, buffer, offset, pool, queue, job>>
  /\ up' \in [Writers -> BOOLEAN] /\ wire' \in [Writers -> Seq(View)]
  /\ copying' \in [Writers -> Batches \cup {None}] /\ got' \in [Writers -> Seq(Cell)]
  /\ phase' \in [Writers -> {"idle", "ensure", "copy", "ack", "error", "broken"}]
  /\ \A v \in Writers : v # w => /\ phase'[v] = phase[v] /\ wire'[v] = wire[v]
                                 /\ copying'[v] = copying[v] /\ got'[v] = got[v]
  /\ phase'[w] = "idle" <=> phase[w] = "idle"
  /\ phase'[w] = "ensure" <=> phase[w] = "ensure"
  /\ phase'[w] = "copy" => phase[w] = "copy"
  /\ phase'[w] = "ack" => phase[w] = "ack" \/ table'[job[w]] # <<>>
  /\ \/ table' = table
     \/ /\ job[w] # None
        /\ table' = [table EXCEPT ![job[w]] = Payload(job[w], rows[job[w]])]
  /\ (NoCopy(w) \/ CopyWaits(w) \/ CopyFlows(w))'

LEMMA PayloadType ==
  ASSUME NEW b \in Batches, NEW n \in 0..MaxBatchRows
  PROVE  Payload(b, n) \in Seq(Cell) /\ Payload(b, n) # <<>>
<1>1. Written(b, n) \in Seq(Cell) /\ Payload(b, n) = Written(b, n) \o <<Trailer>>
  BY WrittenType
<1>2. <<Trailer>> \in Seq(Cell) /\ Len(<<Trailer>>) = 1
  BY CellsAreCells
<1> QED BY <1>1, <1>2

LEMMA TalkSteps ==
  ASSUME TypeInv, EncoderInv, HolderInv, DataInv, NEW w \in Writers, Talks(w)
  PROVE  TypeInv' /\ EncoderInv' /\ HolderInv' /\ DataInv'
<1>1. /\ UNCHANGED <<opened, open, rows, outcome, encoder, made, buffer, offset, pool, queue, job>>
      /\ up' \in [Writers -> BOOLEAN] /\ wire' \in [Writers -> Seq(View)]
      /\ copying' \in [Writers -> Batches \cup {None}] /\ got' \in [Writers -> Seq(Cell)]
      /\ phase' \in [Writers -> {"idle", "ensure", "copy", "ack", "error", "broken"}]
  BY DEF Talks
<1>2. \A v \in Writers : v # w => /\ phase'[v] = phase[v] /\ wire'[v] = wire[v]
                                  /\ copying'[v] = copying[v] /\ got'[v] = got[v]
  BY DEF Talks
<1>3. /\ phase'[w] = "idle" <=> phase[w] = "idle"
      /\ phase'[w] = "ensure" <=> phase[w] = "ensure"
      /\ phase'[w] = "copy" => phase[w] = "copy"
      /\ phase'[w] = "ack" => phase[w] = "ack" \/ table'[job[w]] # <<>>
  BY DEF Talks
<1>4. job[w] # None => /\ job[w] \in Batches /\ job[w] \in Live /\ job[w] # open
                       /\ rows[job[w]] \in 0..MaxBatchRows
  BY JobIsLive, Types
<1>5. /\ table' \in [Batches -> Seq(Cell)]
      /\ \A b \in Batches : table'[b] = table[b] \/ /\ b = job[w] /\ b # None
                                                    /\ table'[b] = Payload(b, rows[b])
  <2>1. CASE table' = table
    BY <2>1, Types
  <2>2. CASE /\ job[w] # None
             /\ table' = [table EXCEPT ![job[w]] = Payload(job[w], rows[job[w]])]
    <3>1. Payload(job[w], rows[job[w]]) \in Seq(Cell)
      BY <1>4, <2>2, PayloadType
    <3>2. table \in [Batches -> Seq(Cell)]
      BY Types
    <3> QED BY <1>4, <2>2, <3>1, <3>2
  <2> QED BY <2>1, <2>2 DEF Talks
<1>6. Live' = Live
  BY <1>1 DEF Live
<1>7. TypeInv'
  <2>1. TypeOK'
    BY <1>1, <1>5, Types DEF TypeOK
  <2>2. \A v \in Writers : phase'[v] = "idle" <=> job'[v] = None
    BY <1>1, <1>2, <1>3, Types
  <2> QED BY <1>1, <1>5, <2>1, <2>2, Types DEF TypeInv
<1>8. EncoderInv'
  BY <1>1, <1>6 DEF EncoderInv, EncodersHeldOnce
<1>9. HolderInv'
  BY <1>1, <1>6 DEF HolderInv, Holders
<1>10. DataInv'
  <2>1. \A b \in Live' : (\A v \in Writers : job'[v] = b => phase'[v] = "ensure") => Ready(b)'
    <3>1. \A v \in Writers : phase'[v] = "ensure" <=> phase[v] = "ensure"
      BY <1>2, <1>3
    <3>2. \A b \in Live : (\A v \in Writers : job[v] = b => phase[v] = "ensure") => Ready(b)
      BY DEF DataInv, Ready
    <3>3. \A b \in Live : Ready(b)' <=> Ready(b)
      BY <1>1 DEF Ready, Holds
    <3> QED BY <1>1, <1>6, <3>1, <3>2, <3>3
  <2>2. \A v \in Writers : phase'[v] = "copy" => Holds(job[v], Payload(job[v], rows[job[v]]))'
    <3>1. ASSUME NEW v \in Writers, phase'[v] = "copy"
          PROVE  Holds(job[v], Payload(job[v], rows[job[v]]))'
      <4>1. Holds(job[v], Payload(job[v], rows[job[v]]))
        BY <1>2, <1>3, <3>1 DEF DataInv
      <4>2. Has(buffer'[encoder'[job'[v]]], offset'[encoder'[job'[v]]],
                Payload(job'[v], rows'[job'[v]]))
        BY <1>1, <4>1 DEF Holds
      <4> QED BY <4>2 DEF Holds
    <3> QED BY <3>1
  <2>3. \A v \in Writers : phase'[v] = "ack" => table'[job'[v]] # <<>>
    <3>1. ASSUME NEW v \in Writers, phase'[v] = "ack"
          PROVE  table'[job'[v]] # <<>>
      <4>1. phase[v] = "ack" => table[job[v]] # <<>>
        BY DEF DataInv
      <4>2. job[v] \in Batches
        BY <1>1, <1>2, <1>3, <1>7, <3>1, JobIsLive, Types DEF TypeInv
      <4>3. rows[job[v]] \in 0..MaxBatchRows
        BY <4>2, Types
      <4>4. Payload(job[v], rows[job[v]]) # <<>>
        BY <4>2, <4>3, PayloadType
      <4> QED BY <1>1, <1>2, <1>3, <1>5, <3>1, <4>1, <4>2, <4>4
    <3> QED BY <3>1
  <2>4. \A b \in Batches : table'[b] # <<>> => b <= opened' /\ b # open'
    <3>1. \A b \in Batches : table[b] # <<>> => b <= opened /\ b # open
      BY DEF DataInv
    <3>2. job[w] # None => job[w] <= opened
      BY <1>4 DEF EncoderInv
    <3> QED BY <1>1, <1>4, <1>5, <3>1, <3>2
  <2>5. StoredIntact'
    <3>1. \A b \in Batches : table[b] # <<>> => table[b] = Payload(b, rows[b])
      BY DEF DataInv, StoredIntact
    <3>2. \A b \in Batches : outcome[b] = "resolved" /\ rows[b] > 0 => table[b] # <<>>
      BY DEF DataInv, StoredIntact
    <3>3. \A b \in Batches : Payload(b, rows[b]) # <<>>
      BY PayloadType, Types
    <3>4. \A b \in Batches : table'[b] # <<>> => table'[b] = Payload(b, rows'[b])
      BY <1>1, <1>5, <3>1
    <3>5. \A b \in Batches : outcome'[b] = "resolved" /\ rows'[b] > 0 => table'[b] # <<>>
      BY <1>1, <1>5, <3>2, <3>3
    <3>6. \A b \in Batches : Payload(b, rows[b])' = Payload(b, rows'[b])
      BY DEF Payload, RowText
    <3> QED BY <3>4, <3>5, <3>6 DEF StoredIntact
  <2>6. \A v \in Writers : (NoCopy(v) \/ CopyWaits(v) \/ CopyFlows(v))'
    <3>1. ASSUME NEW v \in Writers, v # w
          PROVE  (NoCopy(v) \/ CopyWaits(v) \/ CopyFlows(v))'
      <4>1. NoCopy(v) \/ CopyWaits(v) \/ CopyFlows(v)
        BY DEF DataInv
      <4>2. /\ phase'[v] = "copy" <=> phase[v] = "copy"
            /\ wire'[v] = wire[v] /\ copying'[v] = copying[v] /\ got'[v] = got[v]
        BY <1>2, <3>1
      <4>3. /\ job'[v] = job[v] /\ rows'[job[v]] = rows[job[v]]
            /\ encoder'[job[v]] = encoder[job[v]] /\ encoder[job[v]] \notin {}
        BY <1>1
      <4> QED BY <1>7, <4>1, <4>2, <4>3, SameViewsRefl, CopyKept
    <3>2. (NoCopy(w) \/ CopyWaits(w) \/ CopyFlows(w))'
      BY DEF Talks
    <3> QED BY <3>1, <3>2
  <2> QED BY <2>1, <2>2, <2>3, <2>4, <2>5, <2>6 DEF DataInv, Ready
<1> QED BY <1>7, <1>8, <1>9, <1>10

LEMMA ConnLostSteps ==
  ASSUME TypeInv, EncoderInv, HolderInv, DataInv, NEW w \in Writers, ConnLost(w)
  PROVE  TypeInv' /\ EncoderInv' /\ HolderInv' /\ DataInv'
<1>1. /\ up' = [up EXCEPT ![w] = FALSE]
      /\ phase' = [phase EXCEPT ![w] = IF @ \in {"copy", "ack", "error"} THEN "broken" ELSE @]
      /\ wire' = [wire EXCEPT ![w] = <<>>]
      /\ copying' = [copying EXCEPT ![w] = None]
      /\ got' = [got EXCEPT ![w] = <<>>]
      /\ UNCHANGED <<opened, open, rows, outcome, encoder, made, buffer, offset, pool, queue,
                     job, table>>
  BY DEF ConnLost, batchVars, heapVars
<1>2. <<>> \in Seq(View) /\ <<>> \in Seq(Cell)
  OBVIOUS
<1>3. /\ wire' \in [Writers -> Seq(View)] /\ wire'[w] = <<>>
      /\ \A v \in Writers : v # w => wire'[v] = wire[v]
  BY <1>1, <1>2, Types
<1>4. /\ got' \in [Writers -> Seq(Cell)] /\ got'[w] = <<>>
      /\ \A v \in Writers : v # w => got'[v] = got[v]
  BY <1>1, <1>2, Types
<1>5. /\ copying' \in [Writers -> Batches \cup {None}] /\ copying'[w] = None
      /\ \A v \in Writers : v # w => copying'[v] = copying[v]
  BY <1>1, Types
<1>6. /\ phase' \in [Writers -> {"idle", "ensure", "copy", "ack", "error", "broken"}]
      /\ phase'[w] \in {"idle", "ensure", "broken"}
      /\ phase'[w] = "idle" <=> phase[w] = "idle"
      /\ phase'[w] = "ensure" <=> phase[w] = "ensure"
      /\ \A v \in Writers : v # w => phase'[v] = phase[v]
  BY <1>1, Types
<1>7. NoCopy(w)'
  BY <1>3, <1>4, <1>5, <1>6 DEF NoCopy
<1>8. up' \in [Writers -> BOOLEAN]
  BY <1>1, Types
<1>9. Talks(w)
  BY <1>1, <1>3, <1>4, <1>5, <1>6, <1>7, <1>8 DEF Talks
<1> QED BY <1>9, TalkSteps

\* What the server process has given up may have been on its way.
LEMMA ServerAbortSteps ==
  ASSUME TypeInv, EncoderInv, HolderInv, DataInv, NEW w \in Writers, ServerAbort(w)
  PROVE  TypeInv' /\ EncoderInv' /\ HolderInv' /\ DataInv'
<1>1. /\ copying[w] # None
      /\ copying' = [copying EXCEPT ![w] = None]
      /\ got' = [got EXCEPT ![w] = <<>>]
      /\ phase' = [phase EXCEPT ![w] = IF job[w] = copying[w] /\ @ = "copy" THEN "error" ELSE @]
      /\ UNCHANGED <<opened, open, rows, outcome, encoder, made, buffer, offset, pool, queue,
                     job, up, wire, table>>
  BY DEF ServerAbort, Reply, batchVars, heapVars
<1>2. CopyFlows(w)
  BY <1>1 DEF DataInv, NoCopy, CopyWaits
<1>3. phase[w] = "copy" /\ copying[w] = job[w]
  BY <1>2 DEF CopyFlows
<1>4. \A i \in 1..Len(wire[w]) : Stale(wire[w][i])
  BY <1>2 DEF CopyFlows
<1>5. <<>> \in Seq(Cell)
  OBVIOUS
<1>6. /\ got' \in [Writers -> Seq(Cell)] /\ got'[w] = <<>>
      /\ \A v \in Writers : v # w => got'[v] = got[v]
  BY <1>1, <1>5, Types
<1>7. /\ copying' \in [Writers -> Batches \cup {None}] /\ copying'[w] = None
      /\ \A v \in Writers : v # w => copying'[v] = copying[v]
  BY <1>1, Types
<1>8. /\ phase' \in [Writers -> {"idle", "ensure", "copy", "ack", "error", "broken"}]
      /\ phase'[w] = "error" /\ \A v \in Writers : v # w => phase'[v] = phase[v]
  BY <1>1, <1>3, Types
<1>9. NoCopy(w)'
  BY <1>1, <1>4, <1>6, <1>7, <1>8 DEF NoCopy, Stale
<1>10. Talks(w)
  BY <1>1, <1>3, <1>6, <1>7, <1>8, <1>9, Types DEF Talks
<1> QED BY <1>10, TalkSteps

\* The server stores what it has read when the socket has nothing more of it: the payload.
LEMMA ServerCommitSteps ==
  ASSUME TypeInv, EncoderInv, HolderInv, DataInv, NEW w \in Writers, ServerCommit(w)
  PROVE  TypeInv' /\ EncoderInv' /\ HolderInv' /\ DataInv'
<1>1. /\ copying[w] # None
      /\ \A i \in DOMAIN wire[w] : wire[w][i].batch # copying[w]
      /\ table' = [table EXCEPT ![copying[w]] = got[w]]
      /\ copying' = [copying EXCEPT ![w] = None]
      /\ got' = [got EXCEPT ![w] = <<>>]
      /\ phase' = [phase EXCEPT ![w] = IF job[w] = copying[w] /\ @ = "copy" THEN "ack" ELSE @]
      /\ UNCHANGED <<opened, open, rows, outcome, encoder, made, buffer, offset, pool, queue,
                     job, up, wire>>
  BY DEF ServerCommit, Reply, batchVars, heapVars
<1>2. CopyFlows(w)
  BY <1>1 DEF DataInv, NoCopy, CopyWaits
<1>3. phase[w] = "copy" /\ copying[w] = job[w]
  BY <1>2 DEF CopyFlows
<1>4. wire[w] \in Seq(View) /\ DOMAIN wire[w] = 1..Len(wire[w])
  BY Types
<1>5. wire[w] = <<>> /\ got[w] = Payload(job[w], rows[job[w]])
  <2>1. ~(Len(wire[w]) = 1 /\ Current(w, wire[w][1]))
    BY <1>1, <1>3, <1>4 DEF Current
  <2> QED BY <1>2, <2>1 DEF CopyFlows
<1>6. job[w] \in Batches /\ job[w] # None /\ rows[job[w]] \in 0..MaxBatchRows
  BY <1>1, <1>3, JobIsLive, Types
<1>7. table' = [table EXCEPT ![job[w]] = Payload(job[w], rows[job[w]])]
  BY <1>1, <1>3, <1>5
<1>8. table'[job[w]] # <<>>
  BY <1>6, <1>7, PayloadType, Types
<1>9. <<>> \in Seq(Cell)
  OBVIOUS
<1>10. /\ got' \in [Writers -> Seq(Cell)] /\ got'[w] = <<>>
       /\ \A v \in Writers : v # w => got'[v] = got[v]
  BY <1>1, <1>9, Types
<1>11. /\ copying' \in [Writers -> Batches \cup {None}] /\ copying'[w] = None
       /\ \A v \in Writers : v # w => copying'[v] = copying[v]
  BY <1>1, Types
<1>12. /\ phase' \in [Writers -> {"idle", "ensure", "copy", "ack", "error", "broken"}]
       /\ phase'[w] = "ack" /\ \A v \in Writers : v # w => phase'[v] = phase[v]
  BY <1>1, <1>3, Types
<1>13. NoCopy(w)'
  BY <1>1, <1>5, <1>10, <1>11, <1>12 DEF NoCopy
<1>14. Talks(w)
  BY <1>1, <1>3, <1>6, <1>7, <1>8, <1>10, <1>11, <1>12, <1>13, Types DEF Talks
<1> QED BY <1>14, TalkSteps

\* The network takes k cells of the first view that a socket has to send.
Sent(s, k, new) ==
  \/ /\ s[1].sent + k = s[1].size /\ Len(new) = Len(s) - 1
     /\ \A i \in 1..Len(new) : new[i] = s[i + 1]
  \/ /\ s[1].sent + k < s[1].size /\ Len(new) = Len(s)
     /\ new[1] = [s[1] EXCEPT !.sent = @ + k]
     /\ \A i \in 2..Len(new) : new[i] = s[i]

LEMMA FirstReplaced ==
  ASSUME NEW S, NEW s \in Seq(S), s # <<>>, NEW x \in S
  PROVE  LET new == <<x>> \o Tail(s)
         IN /\ new \in Seq(S) /\ Len(new) = Len(s) /\ new[1] = x
            /\ \A i \in 2..Len(new) : new[i] = s[i]
<1> DEFINE t == Tail(s)
           one == <<x>>
<1>1. /\ Len(s) \in Nat \ {0} /\ t \in Seq(S) /\ Len(t) = Len(s) - 1
      /\ \A i \in 1..Len(t) : t[i] = s[i + 1]
  BY HeadTailProperties
<1>2. one \in Seq(S) /\ Len(one) = 1 /\ one[1] = x
  OBVIOUS
<1> HIDE DEF t, one
<1> DEFINE new == one \o t
<1>3. /\ new \in Seq(S) /\ Len(new) = Len(one) + Len(t)
      /\ \A i \in 1..Len(one) + Len(t) :
           new[i] = IF i <= Len(one) THEN one[i] ELSE t[i - Len(one)]
  BY <1>1, <1>2, ConcatProperties
<1> HIDE DEF new
<1>4. Len(new) = Len(s) /\ new[1] = x
  BY <1>1, <1>2, <1>3
<1>5. \A i \in 2..Len(new) : /\ i - 1 \in 1..Len(t) /\ i - 1 + 1 = i /\ ~(i <= 1)
                             /\ i \in 1..Len(one) + Len(t)
  BY <1>1, <1>2, <1>4
<1>6. \A i \in 2..Len(new) : new[i] = s[i]
  BY <1>1, <1>2, <1>3, <1>5
<1> QED BY <1>3, <1>4, <1>6 DEF new, one, t

LEMMA MoreSent ==
  ASSUME NEW v \in View, NEW k \in Nat
  PROVE  [v EXCEPT !.sent = @ + k] \in View
<1>1. v.sent + k \in Nat
  BY DEF View
<1> DEFINE n == v.sent + k
<1> HIDE DEF n
<1>2. [v EXCEPT !.sent = n] \in View
  BY <1>1 DEF View, n
<1> QED BY <1>2 DEF n

Takes(s, k, new) ==
  /\ k \in 1..Head(s).size - Head(s).sent
  /\ new = IF Head(s).sent + k = Head(s).size
           THEN Tail(s) ELSE <<[Head(s) EXCEPT !.sent = @ + k]>> \o Tail(s)

LEMMA SendsFirst ==
  ASSUME NEW s \in Seq(View), s # <<>>, NEW k, NEW new, Takes(s, k, new)
  PROVE  /\ new \in Seq(View) /\ Sent(s, k, new)
         /\ Head(s) = s[1] /\ s[1] \in View /\ k \in Nat \ {0} /\ s[1].sent + k <= s[1].size
<1>1. /\ Head(s) = s[1] /\ s[1] \in View /\ Len(s) \in Nat \ {0}
      /\ Tail(s) \in Seq(View) /\ Len(Tail(s)) = Len(s) - 1
      /\ \A i \in 1..Len(Tail(s)) : Tail(s)[i] = s[i + 1]
  BY HeadTailProperties
<1>2. s[1].sent \in Nat /\ s[1].size \in Nat
  BY <1>1 DEF View
<1>3. k \in 1..s[1].size - s[1].sent
  BY <1>1 DEF Takes
<1>4. k \in Nat /\ k \in Nat \ {0} /\ s[1].sent + k <= s[1].size
  <2>1. \A x, z \in Nat : k \in 1..z - x => k \in Nat /\ k \in Nat \ {0} /\ x + k <= z
    OBVIOUS
  <2> QED BY <1>2, <1>3, <2>1
<1>5. CASE s[1].sent + k = s[1].size
  <2>1. new = Tail(s)
    BY <1>1, <1>5 DEF Takes
  <2> QED BY <1>1, <1>4, <1>5, <2>1 DEF Sent
<1>6. CASE s[1].sent + k # s[1].size
  <2> DEFINE x == [s[1] EXCEPT !.sent = @ + k]
  <2>1. new = <<x>> \o Tail(s)
    BY <1>1, <1>6 DEF Takes
  <2>2. x \in View
    BY <1>1, <1>4, MoreSent
  <2>3. s[1].sent + k < s[1].size
    BY <1>2, <1>4, <1>6
  <2> HIDE DEF x
  <2>4. /\ new \in Seq(View) /\ Len(new) = Len(s) /\ new[1] = x
        /\ \A i \in 2..Len(new) : new[i] = s[i]
    BY <2>1, <2>2, FirstReplaced
  <2> QED BY <1>1, <1>4, <2>3, <2>4 DEF Sent, x
<1> QED BY <1>5, <1>6

\* What is sent of a buffer that begins with a text is the text's.
LEMMA SentIsText ==
  ASSUME NEW cells \in Seq(Cell), NEW at, NEW text \in Seq(Cell), Has(cells, at, text),
         NEW i \in 1..Len(text), NEW j \in i..Len(text)
  PROVE  SubSeq(cells, i, j) = SubSeq(text, i, j)
<1>1. /\ i \in Int /\ j \in Int /\ i <= j /\ Len(text) \in Nat
      /\ \A m \in i..j : m \in 1..Len(text)
  OBVIOUS
<1>2. \A m \in i..j : cells[m] = text[m] /\ text[m] \in Cell
  BY <1>1 DEF Has
<1> DEFINE S == SubSeq(cells, i, j)
           T == SubSeq(text, i, j)
<1>3. /\ S \in Seq(Cell) /\ Len(S) = IF i <= j THEN j - i + 1 ELSE 0
      /\ \A m \in 1..j - i + 1 : S[m] = cells[i + m - 1]
  BY <1>1, <1>2, SubSeqProperties
<1>4. /\ T \in Seq(Cell) /\ Len(T) = IF i <= j THEN j - i + 1 ELSE 0
      /\ \A m \in 1..j - i + 1 : T[m] = text[i + m - 1]
  BY <1>1, <1>2, SubSeqProperties
<1>5. \A m \in 1..j - i + 1 : i + m - 1 \in i..j
  BY <1>1
<1> HIDE DEF S, T
<1>6. Len(S) = j - i + 1 /\ Len(T) = j - i + 1
  BY <1>1, <1>3, <1>4
<1>7. \A m \in 1..Len(S) : S[m] = T[m]
  BY <1>2, <1>3, <1>4, <1>5, <1>6
<1>8. S = T
  BY <1>3, <1>4, <1>6, <1>7, SeqEqual
<1> QED BY <1>8 DEF S, T

\* What was read is continued by what is sent next.
LEMMA ReadsOn ==
  ASSUME NEW cells \in Seq(Cell), NEW at, NEW text \in Seq(Cell), Has(cells, at, text),
         NEW x \in Nat, NEW k \in Nat \ {0}, x + k <= Len(text)
  PROVE  /\ SubSeq(text, 1, x) \o SubSeq(cells, x + 1, x + k) = SubSeq(text, 1, x + k)
         /\ SubSeq(text, 1, x + k) \in Seq(Cell)
<1>1. /\ x + 1 \in 1..Len(text) /\ x + k \in x + 1..Len(text) /\ Len(text) \in Nat
      /\ 1 \in 1..Len(text) + 1 /\ x \in 1 - 1..Len(text) /\ x + k \in x..Len(text)
  OBVIOUS
<1>2. SubSeq(cells, x + 1, x + k) = SubSeq(text, x + 1, x + k)
  BY <1>1, SentIsText
<1>3. SubSeq(text, 1, x) \o SubSeq(text, x + 1, x + k) = SubSeq(text, 1, x + k)
  BY <1>1, ConcatAdjacentSubSeq
<1>4. SubSeq(text, 1, x + k) \in Seq(Cell)
  <2>1. x + k \in Int /\ \A i \in 1..x + k : i \in 1..Len(text)
    BY <1>1
  <2>2. \A i \in 1..x + k : text[i] \in Cell
    BY <2>1
  <2> QED BY <2>1, <2>2, SubSeqProperties
<1> QED BY <1>2, <1>3, <1>4

\* A view that was given up goes on being sent, and stays so until it is gone.
LEMMA StaleStays ==
  ASSUME NEW s \in Seq(View), s # <<>>, NEW k, NEW new, Takes(s, k, new), Stale(s[1])
  PROVE  \E d \in {0, 1} : /\ Len(new) = Len(s) - d
                           /\ \A i \in 1..Len(new) : \/ new[i] = s[i + d]
                                                     \/ i = 1 /\ d = 0 /\ Stale(new[i])
<1>1. /\ new \in Seq(View) /\ Sent(s, k, new)
      /\ s[1] \in View /\ k \in Nat \ {0} /\ s[1].sent + k <= s[1].size
  BY SendsFirst
<1>2. s[1].sent \in Nat /\ s[1].size \in Nat /\ Len(s) \in Nat
  BY <1>1 DEF View
<1>3. CASE /\ s[1].sent + k < s[1].size /\ Len(new) = Len(s)
           /\ new[1] = [s[1] EXCEPT !.sent = @ + k]
           /\ \A i \in 2..Len(new) : new[i] = s[i]
  <2>1. new[1].sent = s[1].sent + k /\ new[1].size = s[1].size
    BY <1>1, <1>3 DEF View
  <2>2. s[1].sent + k > 0
    BY <1>1, <1>2
  <2>3. Stale(new[1])
    BY <1>3, <2>1, <2>2 DEF Stale
  <2>4. \A i \in 1..Len(new) : i = 1 \/ (i \in 2..Len(new) /\ i + 0 = i)
    BY <1>2, <1>3
  <2>5. Len(new) = Len(s) - 0
    BY <1>2, <1>3
  <2> QED BY <1>3, <2>3, <2>4, <2>5
<1>4. CASE Len(new) = Len(s) - 1 /\ \A i \in 1..Len(new) : new[i] = s[i + 1]
  BY <1>4
<1> QED BY <1>1, <1>3, <1>4 DEF Sent

\* A socket sends to the end what no COPY reads, and the payload of the COPY to the server.
LEMMA SendSteps ==
  ASSUME TypeInv, EncoderInv, HolderInv, DataInv, NEW w \in Writers, Send(w)
  PROVE  TypeInv' /\ EncoderInv' /\ HolderInv' /\ DataInv'
<1> DEFINE s == wire[w]
           v == Head(s)
           b == job[w]
           text == Payload(b, rows[b])
<1>1. s \in Seq(View) /\ s # <<>> /\ got[w] \in Seq(Cell) /\ Len(s) \in Nat \ {0}
  <2>1. s \in Seq(View) /\ s # <<>> /\ got[w] \in Seq(Cell)
    BY Types DEF Send
  <2> HIDE DEF s
  <2> QED BY <2>1
<1>2. PICK k, new :
        /\ Takes(s, k, new) /\ wire' = [wire EXCEPT ![w] = new]
        /\ v.sent = 0 => copying[w] = None
        /\ copying' = [copying EXCEPT ![w] = IF v.sent = 0 THEN v.batch ELSE @]
        /\ got' = IF copying'[w] # v.batch THEN got
                  ELSE [got EXCEPT ![w] = @ \o SubSeq(ViewCells(v), v.sent + 1, v.sent + k)]
  BY DEF Send, Takes
<1>3. UNCHANGED <<opened, open, rows, outcome, encoder, made, buffer, offset, pool, queue, job,
                  phase, up, table>>
  BY DEF Send, batchVars, heapVars, writerVars
<1> HIDE DEF s
<1>4. /\ new \in Seq(View) /\ Sent(s, k, new) /\ v = s[1] /\ v \in View /\ k \in Nat \ {0}
      /\ v.sent + k <= v.size
  BY <1>1, <1>2, SendsFirst
<1>5. v.sent \in Nat /\ v.size \in Nat /\ v.batch \in Batches
  BY <1>4 DEF View
<1> HIDE DEF v
<1>6. /\ wire' \in [Writers -> Seq(View)] /\ wire'[w] = new
      /\ \A u \in Writers : u # w => wire'[u] = wire[u]
  BY <1>2, <1>4, Types
<1>7. /\ copying' \in [Writers -> Batches \cup {None}]
      /\ copying'[w] = IF v.sent = 0 THEN v.batch ELSE copying[w]
      /\ \A u \in Writers : u # w => copying'[u] = copying[u]
  BY <1>2, <1>5, Types
<1>8. ASSUME got'[w] \in Seq(Cell), (NoCopy(w) \/ CopyWaits(w) \/ CopyFlows(w))'
      PROVE  TypeInv' /\ EncoderInv' /\ HolderInv' /\ DataInv'
  <2>1. got' \in [Writers -> Seq(Cell)] /\ \A u \in Writers : u # w => got'[u] = got[u]
    BY <1>2, <1>8, Types
  <2>2. Talks(w)
    BY <1>3, <1>6, <1>7, <1>8, <2>1, Types DEF Talks
  <2> QED BY <2>2, TalkSteps
<1>9. CASE Stale(s[1]) /\ copying[w] = None
  <2>1. copying'[w] = None /\ got'[w] = got[w]
    <3>1. v.sent # 0
      BY <1>4, <1>5, <1>9 DEF Stale
    <3>2. copying'[w] = None /\ None # v.batch
      BY <1>5, <1>7, <1>9, <3>1, NoneIsNone
    <3> QED BY <1>2, <3>2
  <2>2. PICK d \in {0, 1} : /\ Len(new) = Len(s) - d
                            /\ \A i \in 1..Len(new) : \/ new[i] = s[i + d]
                                                      \/ i = 1 /\ d = 0 /\ Stale(new[i])
    BY <1>1, <1>2, <1>9, StaleStays
  <2>3. \A i \in 1..Len(new) : i + d \in 1..Len(s)
    BY <1>1, <2>2
  <2>4. CASE NoCopy(w)
    <3>1. \A i \in 1..Len(s) : Stale(s[i])
      BY <2>4 DEF NoCopy, s
    <3>2. \A i \in 1..Len(new) : Stale(new[i])
      BY <2>2, <2>3, <3>1
    <3>3. NoCopy(w)'
      BY <1>3, <1>6, <2>1, <2>4, <3>2 DEF NoCopy
    <3> QED BY <1>1, <1>8, <2>1, <3>3
  <2>5. CASE CopyWaits(w)
    <3> DEFINE l == Len(s)
               n == Len(new)
    <3>1. /\ phase[w] = "copy" /\ got[w] = <<>>
          /\ Current(w, s[l]) /\ s[l].sent = 0 /\ \A i \in 1..l : i # l => Stale(s[i])
      BY <2>5 DEF CopyWaits, s
    <3>2. l # 1
      BY <1>9, <3>1 DEF Stale
    <3>3. n \in Nat \ {0} /\ n + d = l /\ (n = 1 => d # 0) /\ n \in 1..n
          /\ \A i \in 1..n : i # n => i + d # l
      <4>1. l \in Nat \ {0} /\ n = l - d /\ d \in {0, 1}
        BY <1>1, <2>2
      <4> HIDE DEF l, n
      <4> QED BY <3>2, <4>1
    <3>4. new[n] = s[l]
      BY <2>2, <3>3
    <3>5. \A i \in 1..n : i # n => Stale(new[i])
      BY <2>2, <2>3, <3>1, <3>3
    <3>6. CopyWaits(w)'
      <4>1. Current(w, wire[w][Len(wire[w])])' /\ wire'[w][Len(wire'[w])].sent = 0
        BY <1>3, <1>6, <3>1, <3>4 DEF Current
      <4> HIDE DEF l
      <4> QED BY <1>3, <1>6, <2>1, <3>1, <3>3, <3>5, <4>1 DEF CopyWaits
    <3> QED BY <1>1, <1>8, <2>1, <3>6
  <2>6. ~CopyFlows(w)
    <3>1. CopyFlows(w) => copying[w] # None
      BY Types, NoneIsNone DEF CopyFlows
    <3> QED BY <1>9, <3>1
  <2> QED BY <2>4, <2>5, <2>6 DEF DataInv
<1>10. CASE ~(Stale(s[1]) /\ copying[w] = None)
  <2>1. /\ phase[w] = "copy" /\ Len(s) = 1 /\ Current(w, v)
        /\ \/ v.sent = 0 /\ got[w] = <<>>
           \/ copying[w] = b /\ v.sent > 0 /\ got[w] = SubSeq(text, 1, v.sent)
    <3>1. CASE NoCopy(w)
      BY <1>1, <1>10, <3>1 DEF NoCopy, s
    <3>2. CASE CopyWaits(w)
      <4>1. /\ phase[w] = "copy" /\ copying[w] = None /\ got[w] = <<>>
            /\ Current(w, s[Len(s)]) /\ s[Len(s)].sent = 0
            /\ \A i \in 1..Len(s) : i # Len(s) => Stale(s[i])
        BY <3>2 DEF CopyWaits, s
      <4>2. Len(s) = 1
        <5>1. ~Stale(s[1])
          BY <1>10, <4>1
        <5>2. Len(s) # 1 => 1 \in 1..Len(s) /\ 1 # Len(s)
          BY <1>1
        <5> QED BY <4>1, <5>1, <5>2
      <4> QED BY <1>4, <4>1, <4>2
    <3>3. CASE CopyFlows(w)
      <4> HIDE DEF text
      <4>1. /\ phase[w] = "copy" /\ copying[w] = b /\ Len(s) = 1 /\ Current(w, s[1])
            /\ Stale(s[1]) /\ got[w] = SubSeq(text, 1, s[1].sent)
        BY <1>1, <3>3 DEF CopyFlows, s, text
      <4> QED BY <1>4, <4>1 DEF Stale
    <3> QED BY <3>1, <3>2, <3>3 DEF DataInv
  <2>2. b # None /\ b \in Batches /\ encoder[b] \in Encoders /\ rows[b] \in 0..MaxBatchRows
    BY <2>1, JobIsLive, Types
  <2>3. /\ v.batch = b /\ v.source = encoder[b] /\ v.size = Len(text)
    BY <2>1 DEF Current
  <2>4. Has(buffer[encoder[b]], offset[encoder[b]], text)
    BY <2>1 DEF DataInv, Holds
  <2>5. ViewCells(v) = buffer[encoder[b]] /\ buffer[encoder[b]] \in Seq(Cell)
    BY <2>2, <2>3, NoneIsNone, Types DEF ViewCells
  <2>6. text \in Seq(Cell)
    BY <2>2, PayloadType
  <2> HIDE DEF text, b
  <2>7. got[w] = SubSeq(text, 1, v.sent)
    <3>1. CASE v.sent = 0 /\ got[w] = <<>>
      <4>1. SubSeq(text, 1, 0) = <<>>
        BY SubSeqEmpty
      <4> QED BY <3>1, <4>1
    <3> QED BY <2>1, <3>1
  <2>8. copying'[w] = b
    BY <1>7, <2>1, <2>3
  <2>9. got'[w] = got[w] \o SubSeq(ViewCells(v), v.sent + 1, v.sent + k)
    BY <1>2, <2>3, <2>8, Types
  <2>10. got'[w] = SubSeq(text, 1, v.sent + k) /\ got'[w] \in Seq(Cell)
    <3> DEFINE cells == ViewCells(v)
               at == offset[encoder[b]]
               x == v.sent
    <3>1. cells \in Seq(Cell) /\ Has(cells, at, text)
      BY <2>4, <2>5
    <3>2. x \in Nat /\ k \in Nat \ {0} /\ x + k <= Len(text)
      BY <1>4, <1>5, <2>3
    <3> HIDE DEF cells, at, x
    <3>3. /\ SubSeq(text, 1, x) \o SubSeq(cells, x + 1, x + k) = SubSeq(text, 1, x + k)
          /\ SubSeq(text, 1, x + k) \in Seq(Cell)
      BY <2>6, <3>1, <3>2, ReadsOn
    <3> QED BY <2>7, <2>9, <3>3 DEF cells, x
  <2>11. CASE v.sent + k = v.size /\ Len(new) = Len(s) - 1
    <3>1. new = <<>>
      <4>1. Len(new) = 0
        BY <2>1, <2>11
      <4> QED BY <1>4, <4>1
    <3>2. got'[w] = text
      BY <2>3, <2>6, <2>10, <2>11, SubSeqFull
    <3>3. CopyFlows(w)'
      BY <1>3, <1>6, <2>1, <2>8, <3>1, <3>2 DEF CopyFlows, text, b
    <3> QED BY <1>8, <2>10, <3>3
  <2>12. CASE /\ v.sent + k < v.size /\ Len(new) = Len(s)
              /\ new[1] = [v EXCEPT !.sent = @ + k]
    <3>1. /\ new[1].batch = b /\ new[1].source = encoder[b] /\ new[1].size = Len(text)
          /\ new[1].sent = v.sent + k
      BY <1>4, <2>3, <2>12 DEF View
    <3>2. Stale(new[1])
      <4>1. v.sent + k > 0 /\ v.sent + k < Len(text)
        BY <1>4, <1>5, <2>3, <2>12
      <4> QED BY <3>1, <4>1 DEF Stale
    <3>3. Current(w, wire[w][1])'
      BY <1>3, <1>6, <3>1 DEF Current, text, b
    <3>4. CopyFlows(w)'
      BY <1>3, <1>6, <2>1, <2>8, <2>10, <2>12, <3>1, <3>2, <3>3 DEF CopyFlows, text, b
    <3> QED BY <1>8, <2>10, <3>4
  <2> QED BY <1>4, <2>11, <2>12 DEF Sent
<1> QED BY <1>9, <1>10

\* finish() and the COPY: the view is of the batch's payload.
LEMMA StartCopySteps ==
  ASSUME TypeInv, EncoderInv, HolderInv, DataInv, NEW w \in Writers, StartCopy(w)
  PROVE  TypeInv' /\ EncoderInv' /\ HolderInv' /\ DataInv'
<1> DEFINE b == job[w]
           e == encoder[b]
           at == offset[e]
           cells == Finished(buffer[e], at)
           changed == IF Len(cells) # Len(buffer[e]) THEN {e} ELSE {}
           new == Detached(changed)
           view == [batch |-> b, source |-> e, kept |-> <<>>, sent |-> 0, size |-> at + 1]
<1>1. /\ phase[w] = "ensure"
      /\ buffer' = [buffer EXCEPT ![e] = cells]
      /\ offset' = [offset EXCEPT ![e] = @ + 1]
      /\ wire' = IF up[w] THEN [new EXCEPT ![w] = Append(@, view)] ELSE new
      /\ phase' = [phase EXCEPT ![w] = IF up[w] THEN "copy" ELSE "broken"]
      /\ UNCHANGED <<opened, open, rows, outcome, encoder, made, pool, queue, job, up,
                     copying, got, table>>
  BY DEF StartCopy, batchVars, serverVars
<1>2. b \in Live /\ b # open /\ b \in Batches /\ e \in Encoders /\ b # None
  BY <1>1, JobIsLive, Types
<1>3. \A v \in Writers : job[v] = b => v = w
  BY <1>2 DEF HolderInv, Holders
<1>4. Has(buffer[e], at, Written(b, rows[b]))
  <2>1. \A v \in Writers : job[v] = b => phase[v] = "ensure"
    BY <1>1, <1>3
  <2> QED BY <1>2, <2>1 DEF DataInv, Holds
<1>5. /\ buffer[e] \in Seq(Cell) /\ Len(buffer[e]) > 0 /\ at \in 0..Len(buffer[e])
      /\ rows[b] \in 0..MaxBatchRows /\ at \in Nat
  <2>1. e <= made
    BY <1>2 DEF EncoderInv
  <2> QED BY <1>2, <2>1, Types DEF EncoderInv
<1>6. /\ cells \in Seq(Cell) /\ Len(cells) > 0 /\ at + 1 \in 0..Len(cells)
      /\ Has(cells, at + 1, Payload(b, rows[b]))
  <2> HIDE DEF b, e, at
  <2> QED BY <1>2, <1>4, <1>5, FinishedAppends
<1>7. changed \in SUBSET Encoders /\ changed \subseteq {e}
  BY <1>2
<1>8. new \in [Writers -> Seq(View)] /\ SameViews(wire, new, changed)
  <2> HIDE DEF changed
  <2> QED BY <1>7, DetachedKeeps
<1>9. view \in View
  <2>1. <<>> \in Seq(Cell) /\ at + 1 \in Nat /\ 0 \in Nat
    BY <1>5
  <2> QED BY <1>2, <2>1 DEF View
<1>10. at + 1 \in Nat
  BY <1>5
<1> HIDE DEF e, cells, changed, new, view, b
<1>11. /\ buffer' \in [Encoders -> Seq(Cell)] /\ buffer'[e] = cells
       /\ offset' \in [Encoders -> Nat] /\ offset'[e] = at + 1
       /\ \A d \in Encoders : d # e => buffer'[d] = buffer[d] /\ offset'[d] = offset[d]
  BY <1>1, <1>2, <1>6, <1>10, Types
<1> HIDE DEF at
<1>12. \A d \in Encoders : offset'[d] \in 0..Len(buffer'[d])
  BY <1>6, <1>11, Types
<1>13. /\ wire' \in [Writers -> Seq(View)]
       /\ \A v \in Writers : v # w => wire'[v] = new[v]
       /\ up[w] => wire'[w] = Append(new[w], view)
       /\ ~up[w] => wire'[w] = new[w]
  <2>1. Append(new[w], view) \in Seq(View)
    BY <1>8, <1>9
  <2>2. [new EXCEPT ![w] = Append(@, view)] \in [Writers -> Seq(View)]
    BY <1>8, <2>1
  <2> QED BY <1>1, <1>8, <2>2
<1>14. /\ phase' \in [Writers -> {"idle", "ensure", "copy", "ack", "error", "broken"}]
       /\ phase'[w] = IF up[w] THEN "copy" ELSE "broken"
       /\ \A v \in Writers : v # w => phase'[v] = phase[v]
  BY <1>1, Types
<1>15. Live' = Live
  BY <1>1 DEF Live
<1>16. TypeInv'
  <2>1. TypeOK'
    BY <1>1, <1>11, <1>12, <1>14, Types DEF TypeOK
  <2>2. \A v \in Writers : phase'[v] = "idle" <=> job'[v] = None
    BY <1>1, <1>14, Types
  <2> QED BY <1>1, <1>11, <1>13, <2>1, <2>2, Types DEF TypeInv
<1>17. EncoderInv'
  <2>1. \A d \in Encoders : d <= made' => Len(buffer'[d]) > 0
    BY <1>1, <1>6, <1>11 DEF EncoderInv
  <2> QED BY <1>1, <1>15, <2>1 DEF EncoderInv, EncodersHeldOnce
<1>18. HolderInv'
  BY <1>1, <1>15 DEF HolderInv, Holders
<1>19. \A c \in Live : c # b => encoder[c] # e /\ encoder[c] \in Encoders
  <2>1. \A c \in Live : c \in Batches /\ encoder[c] # None /\ encoder[c] \in Encoders
    BY Types DEF Live
  <2> QED BY <1>2, <2>1 DEF EncoderInv, EncodersHeldOnce, e
<1>20. \A v \in Writers : v # w /\ phase[v] \in {"copy", "ack"} =>
                            job[v] # b /\ job[v] \in Live /\ job[v] # None
  BY <1>3, JobIsLive, Types
<1>21. DataInv'
  <2>1. \A c \in Live' : (\A v \in Writers : job'[v] = c => phase'[v] = "ensure") => Ready(c)'
    <3>1. ASSUME NEW c \in Live, \A v \in Writers : job[v] = c => phase'[v] = "ensure"
          PROVE  Ready(c)'
      <4>1. c # b
        BY <1>2, <1>14, <3>1 DEF b
      <4>2. \A v \in Writers : job[v] = c => phase[v] = "ensure"
        BY <1>14, <3>1, <4>1 DEF b
      <4>3. Ready(c)
        BY <4>2 DEF DataInv, Ready
      <4>4. Has(buffer'[encoder'[c]], offset'[encoder'[c]], Written(c, rows'[c]))
        BY <1>1, <1>11, <1>19, <4>1, <4>3 DEF Ready, Holds
      <4> QED BY <4>4 DEF Ready, Holds
    <3> QED BY <1>1, <1>15, <3>1
  <2>2. \A v \in Writers : phase'[v] = "copy" => Holds(job[v], Payload(job[v], rows[job[v]]))'
    <3>1. ASSUME NEW v \in Writers, phase'[v] = "copy"
          PROVE  Has(buffer'[encoder'[job'[v]]], offset'[encoder'[job'[v]]],
                     Payload(job'[v], rows'[job'[v]]))
      <4>1. CASE v = w
        BY <1>1, <1>6, <1>11, <4>1 DEF b, e
      <4>2. CASE v # w
        <5>1. Has(buffer[encoder[job[v]]], offset[encoder[job[v]]], Payload(job[v], rows[job[v]]))
          BY <1>14, <3>1, <4>2 DEF DataInv, Holds
        <5>2. encoder[job[v]] # e /\ encoder[job[v]] \in Encoders
          BY <1>14, <1>19, <1>20, <3>1, <4>2
        <5> QED BY <1>1, <1>11, <5>1, <5>2
      <4> QED BY <4>1, <4>2
    <3> QED BY <3>1 DEF Holds
  <2>3. \A v \in Writers : phase'[v] = "ack" => table'[job'[v]] # <<>>
    BY <1>1, <1>14 DEF DataInv
  <2>4. \A c \in Batches : table'[c] # <<>> => c <= opened' /\ c # open'
    BY <1>1 DEF DataInv
  <2>5. StoredIntact'
    BY <1>1 DEF DataInv, StoredIntact
  <2>6. \A v \in Writers : (NoCopy(v) \/ CopyWaits(v) \/ CopyFlows(v))'
    <3>1. ASSUME NEW v \in Writers, v # w
          PROVE  (NoCopy(v) \/ CopyWaits(v) \/ CopyFlows(v))'
      <4>1. NoCopy(v) \/ CopyWaits(v) \/ CopyFlows(v)
        BY DEF DataInv
      <4>2. /\ phase'[v] = "copy" <=> phase[v] = "copy"
            /\ wire'[v] = new[v] /\ copying'[v] = copying[v] /\ got'[v] = got[v]
        BY <1>1, <1>13, <1>14, <3>1
      <4>3. phase[v] = "copy" => /\ job'[v] = job[v] /\ rows'[job[v]] = rows[job[v]]
                                 /\ encoder'[job[v]] = encoder[job[v]]
                                 /\ encoder[job[v]] \notin changed
        BY <1>1, <1>7, <1>19, <1>20, <3>1
      <4> QED BY <1>8, <1>16, <4>1, <4>2, <4>3, CopyKept
    <3>2. (NoCopy(w) \/ CopyWaits(w) \/ CopyFlows(w))'
      <4>1. /\ copying[w] = None /\ got[w] = <<>>
            /\ \A i \in 1..Len(wire[w]) : Stale(wire[w][i])
        BY <1>1 DEF DataInv, NoCopy, CopyWaits, CopyFlows
      <4> DEFINE l == Len(wire[w])
      <4>2. /\ l \in Nat /\ new[w] \in Seq(View) /\ Len(new[w]) = l
            /\ \A i \in 1..l : Stale(new[w][i])
        <5>1. wire[w] \in Seq(View)
          BY Types
        <5>2. l \in Nat
          BY <5>1
        <5> HIDE DEF l
        <5>3. /\ Len(new[w]) = l
              /\ \A i \in 1..l : /\ new[w][i].sent = wire[w][i].sent
                                 /\ new[w][i].size = wire[w][i].size
          BY <1>8 DEF SameViews, l
        <5>4. \A i \in 1..l : Stale(wire[w][i])
          BY <4>1 DEF l
        <5> QED BY <1>8, <5>2, <5>3, <5>4 DEF Stale
      <4> HIDE DEF l
      <4>3. CASE ~up[w]
        <5>1. NoCopy(w)'
          BY <1>1, <1>13, <1>14, <4>1, <4>2, <4>3 DEF NoCopy
        <5> QED BY <5>1
      <4>4. CASE up[w]
        <5>1. /\ Len(wire'[w]) = l + 1 /\ wire'[w][l + 1] = view
              /\ \A i \in 1..l : wire'[w][i] = new[w][i]
          BY <1>9, <1>13, <4>2, <4>4, AppendProperties
        <5>2. \A i \in 1..l + 1 : i # l + 1 => i \in 1..l
          BY <4>2
        <5>3. view.size = Len(Payload(b, rows[b]))
          BY <1>6 DEF Has, view
        <5>4. Current(w, wire[w][Len(wire[w])])' /\ wire'[w][Len(wire'[w])].sent = 0
          BY <1>1, <5>1, <5>3 DEF Current, view, b, e
        <5>5. l + 1 > 0
          BY <4>2
        <5>6. CopyWaits(w)'
          BY <1>1, <1>14, <4>1, <4>2, <4>4, <5>1, <5>2, <5>4, <5>5 DEF CopyWaits
        <5> QED BY <5>6
      <4> QED BY <4>3, <4>4
    <3> QED BY <3>1, <3>2
  <2> QED BY <2>1, <2>2, <2>3, <2>4, <2>5, <2>6 DEF DataInv, Ready
<1> QED BY <1>16, <1>17, <1>18, <1>21

-----------------------------------------------------------------------------
(* The theorems.                                                           *)

Inv == TypeInv /\ EncoderInv /\ HolderInv /\ DataInv

LEMMA InitInv == Init => Inv
<1> SUFFICES ASSUME Init PROVE Inv
  OBVIOUS
<1>1. /\ opened = 0 /\ open = None /\ rows = [b \in Batches |-> 0]
      /\ outcome = [b \in Batches |-> "none"] /\ encoder = [b \in Batches |-> None]
      /\ made = 0 /\ buffer = [e \in Encoders |-> <<>>] /\ offset = [e \in Encoders |-> 0]
      /\ pool = <<>> /\ queue = <<>> /\ job = [w \in Writers |-> None]
      /\ phase = [w \in Writers |-> "idle"] /\ up = [w \in Writers |-> TRUE]
      /\ wire = [w \in Writers |-> <<>>] /\ copying = [w \in Writers |-> None]
      /\ got = [w \in Writers |-> <<>>] /\ table = [b \in Batches |-> <<>>]
  BY DEF Init
<1>2. NumBatches \in Nat /\ MaxBatchRows \in Nat
  BY BuffersAssumption
<1>3. /\ <<>> \in Seq(Cell) /\ Len(<<>>) = 0 /\ <<>> \in Seq(View) /\ <<>> \in Seq(Encoders)
      /\ <<>> \in Seq(Batches)
  OBVIOUS
<1>4. /\ buffer \in [Encoders -> Seq(Cell)] /\ offset \in [Encoders -> Nat]
      /\ wire \in [Writers -> Seq(View)]
      /\ got \in [Writers -> Seq(Cell)] /\ table \in [Batches -> Seq(Cell)]
  BY <1>1, <1>3
<1>5. TypeOK
  <2>1. \A e \in Encoders : buffer[e] \in Seq(Cell) /\ offset[e] \in 0..Len(buffer[e])
    BY <1>1, <1>3
  <2> QED BY <1>1, <1>2, <1>3, <1>4, <2>1 DEF TypeOK
<1>6. TypeInv
  BY <1>1, <1>4, <1>5 DEF TypeInv
<1>7. Live = {}
  BY <1>1 DEF Live
<1>8. \A b \in Batches : b \in Nat /\ b > 0 /\ ~(b <= 0)
  BY <1>2 DEF Batches
<1>9. \A e \in Encoders : e \in Nat /\ e > 0 /\ ~(e <= 0)
  BY <1>2 DEF Encoders
<1>10. EncodersHeldOnce
  BY <1>1 DEF EncodersHeldOnce, IsInjective, ToSet
<1>11. EncoderInv
  <2>1. ToSet(pool) = {}
    BY <1>1 DEF ToSet
  <2>2. \A b \in Batches : encoder[b] <= made
    BY <1>1 DEF None
  <2> QED BY <1>1, <1>7, <1>8, <1>9, <1>10, <2>1, <2>2 DEF EncoderInv
<1>12. HolderInv
  BY <1>1, <1>7 DEF HolderInv, Holders
<1>13. \A w \in Writers : NoCopy(w)
  BY <1>1, <1>3 DEF NoCopy
<1>14. StoredIntact
  BY <1>1 DEF StoredIntact
<1>15. DataInv
  BY <1>1, <1>7, <1>13, <1>14 DEF DataInv
<1> QED BY <1>6, <1>11, <1>12, <1>15 DEF Inv

\* Every step keeps the invariant.
LEMMA NextInv == Inv /\ [Next]_vars => Inv'
<1> SUFFICES ASSUME TypeInv, EncoderInv, HolderInv, DataInv, [Next]_vars
             PROVE  TypeInv' /\ EncoderInv' /\ HolderInv' /\ DataInv'
  BY DEF Inv
<1>1. ASSUME NEW n \in 0..MaxBatchRows, AppendChunk(n)
      PROVE  TypeInv' /\ EncoderInv' /\ HolderInv' /\ DataInv'
  <2>1. open # None => Ready(open)
    <3>1. ASSUME open # None
          PROVE  open \in Live /\ \A w \in Writers : job[w] # open
      <4>1. open \in Live /\ \A w \in Writers : job[w] # None => job[w] \in Live \ {open}
        BY <3>1 DEF HolderInv, Holders
      <4> QED BY <3>1, <4>1
    <3> QED BY <3>1 DEF DataInv, Ready
  <2> QED BY <1>1, <2>1, AppendSteps, DataKept
<1>2. ASSUME \E T : Kept(T) /\ T \cap Live' = {}, TypeInv', HolderInv'
      PROVE  DataInv'
  <2>1. PICK T : Kept(T) /\ T \cap Live' = {}
    BY <1>2
  <2>2. \A c \in T : c \in Live' => Ready(c)'
    BY <2>1
  <2> QED BY <1>2, <2>1, <2>2, DataKept
<1>3. CASE FlushOpen
  BY <1>2, <1>3, FlushOpenSteps
<1>4. CASE Watchdog
  BY <1>2, <1>4, WatchdogSteps
<1>5. ASSUME NEW w \in Writers, WriterStep(w)
      PROVE  TypeInv' /\ EncoderInv' /\ HolderInv' /\ DataInv'
  <2>1. CASE StartCopy(w)
    BY <2>1, StartCopySteps
  <2>2. CASE CopyDone(w)
    <3>1. phase[w] = "ack" /\ EndCopy(w, "resolved")
      BY <2>2 DEF CopyDone
    <3>2. table[job[w]] # <<>>
      BY <3>1 DEF DataInv
    <3>3. TypeInv' /\ EncoderInv' /\ HolderInv' /\ \E T : Kept(T) /\ T \cap Live' = {}
      BY <3>1, <3>2, EndCopySteps
    <3> QED BY <1>2, <3>3
  <2>3. CASE CopyFailed(w)
    <3>1. phase[w] \in {"ack", "error", "broken"} /\ EndCopy(w, "rejected")
      BY <2>3 DEF CopyFailed
    <3>2. TypeInv' /\ EncoderInv' /\ HolderInv' /\ \E T : Kept(T) /\ T \cap Live' = {}
      BY <3>1, EndCopySteps
    <3> QED BY <1>2, <3>2
  <2>4. CASE ConnLost(w)
    BY <2>4, ConnLostSteps
  <2>5. CASE Reconnected(w)
    BY <1>2, <2>5, ReconnectedSteps
  <2>6. CASE Send(w)
    BY <2>6, SendSteps
  <2>7. CASE ServerCommit(w)
    BY <2>7, ServerCommitSteps
  <2>8. CASE ServerAbort(w)
    BY <2>8, ServerAbortSteps
  <2> QED BY <1>5, <2>1, <2>2, <2>3, <2>4, <2>5, <2>6, <2>7, <2>8 DEF WriterStep
<1>6. CASE UNCHANGED vars
  <2>1. UNCHANGED <<opened, open, rows, outcome, encoder, made, buffer, offset, pool, queue, job,
                    phase, up, wire, copying, got, table>>
    BY <1>6 DEF vars, batchVars, heapVars, writerVars, serverVars
  <2>2. Live' = Live
    BY <2>1 DEF Live
  <2>3. TypeInv'
    BY <2>1 DEF TypeInv, TypeOK
  <2>4. HolderInv'
    BY <2>1, <2>2 DEF HolderInv, Holders
  <2>5. EncoderInv'
    BY <2>1, <2>2 DEF EncoderInv, EncodersHeldOnce
  <2>6. Kept({})
    <3>1. SameViews(wire, wire', {})
      BY <2>1, SameViewsRefl
    <3> QED BY <2>1, <2>2, <3>1 DEF Kept
  <2> QED BY <1>2, <2>3, <2>4, <2>5, <2>6
<1> QED BY <1>1, <1>3, <1>4, <1>5, <1>6 DEF Next

LEMMA SpecInv == Spec => []Inv
BY InitInv, NextInv, PTL DEF Spec

\* Types: offsets stay within their buffers however these grow and shrink.
THEOREM BuffersTypeCorrect == Spec => []TypeOK
<1>1. Inv => TypeOK
  BY DEF Inv, TypeInv
<1> QED BY <1>1, SpecInv, PTL

\* releaseEncoder(), whoever calls it, leaves every encoder in the pool once or with the one
\* batch it belongs to: two batches never write over each other's rows.
THEOREM EncodersHaveOneHolder == Spec => []EncodersHeldOnce
<1>1. Inv => EncodersHeldOnce
  BY DEF Inv, EncoderInv
<1> QED BY <1>1, SpecInv, PTL

\* What the table gets of a batch is its own rows, each once and in order, though finish()
\* gives the socket a view of storage that is used again; and a batch whose requests are
\* told 200 is there.
THEOREM StoredRowsAreIntact == Spec => []StoredIntact
<1>1. Inv => StoredIntact
  BY DEF Inv, DataInv
<1> QED BY <1>1, SpecInv, PTL

=============================================================================
