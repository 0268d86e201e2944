----------------------------- MODULE RingProofs -----------------------------
(***************************************************************************)
(* The command ring is safe for any number of producers, any capacity and  *)
(* any length of record, as long as all records have the same length.      *)
(* (With records of several lengths a pad may take the place of a longer   *)
(* record, and read may take the length of that record for the pad's.)     *)
(***************************************************************************)
EXTENDS RingBuffer, TLAPS

\* The length of all records.
Size == CHOOSE n \in RecordSizes : TRUE
OneSize == RecordSizes = {Size}

\* The units at which a record or a pad starts, in every lap.
Starts == {i \in Units : i % Size = 0}
Start(at) == at \in Nat /\ Index(at) \in Starts

\* The length of what starts at a unit, or at a position.
ExtentOf(i) == IF i + Size <= Capacity THEN Size ELSE Capacity - i
Extent(at) == ExtentOf(Index(at))

\* Everything before it has been read, if not yet given back to producers.
Reached == IF read.pc = "idle" THEN head ELSE read.current

\* The claim of w goes from First(w) to before Upper(w).
First(w) == IF w.pc = "pad_type" THEN w.tail ELSE RecordAt(w)
Upper(w) == w.tail + Needed(w)

\* The payload of the record at position at, or all of the record, is there.
PayloadAt(at) ==
    \A i \in Units : Index(at) < i /\ i < Index(at) + Size =>
        buffer[i].type = PAYLOAD /\ buffer[i].at = at
RecordWritten(at) ==
    /\ Index(at) + Size <= Capacity
    /\ buffer[Index(at)].len = Size
    /\ buffer[Index(at)].at = at
    /\ PayloadAt(at)

IsFilling(w) == w.pc \in {"pad_type", "pad_length", "payload", "length", "commit"}

PositionInv ==
    /\ Start(head) /\ Start(tail)
    /\ head <= Reached /\ Reached <= tail /\ tail <= head + Capacity

\* What read has seen of the record it stands on.
ReadInv ==
    /\ read.pc # "idle" =>
         /\ Start(read.current) /\ Start(read.tail)
         /\ read.current <= read.tail /\ read.tail <= tail
    /\ read.pc \in {"length", "deliver"} =>
         /\ read.current < read.tail
         /\ read.type # UNCOMMITTED
         /\ ReadCell.type = read.type
    /\ read.pc = "deliver" => read.len \in {0, Extent(read.current)}
    /\ read.pc = "deliver" /\ read.type # MSG_TYPE_PADDING => read.len = Size

\* What a producer with local variables w knows: of its loads, and of its
\* claim.
WriterInv(w) ==
    /\ w.pc # "idle" => w.len = Size /\ w.type \in MsgTypes
    /\ w.pc \in {"load_head", "full", "claim"} => Start(w.tail) /\ w.tail <= tail
    /\ w.pc = "full" => w.head # w.tail
    /\ w.pc = "claim" => w.head <= head /\ Upper(w) <= w.head + Capacity
    /\ w.pc \in {"pad_type", "pad_length"} => Wraps(w)
    /\ IsFilling(w) => Start(w.tail) /\ Reached <= First(w) /\ Upper(w) <= tail
    /\ w.pc \in {"length", "commit"} => PayloadAt(RecordAt(w))
    /\ w.pc = "commit" => RecordWritten(RecordAt(w))

Apart(w, v) == IsFilling(w) /\ IsFilling(v) => Upper(w) <= First(v) \/ Upper(v) <= First(w)

\* No start holds payload, and its length can only be the one.
StartsInv ==
    \A i \in Starts : buffer[i].type # PAYLOAD /\ buffer[i].len \in {0, ExtentOf(i)}

\* Within a lap from where read stands, a start whose type is not zero has
\* been claimed, nobody is still filling it, and its record is complete.
CommittedInv ==
    \A at \in Reached .. Reached + Capacity - 1 :
        Start(at) /\ buffer[Index(at)].type # UNCOMMITTED =>
            /\ at < tail
            /\ \A q \in Producers : IsFilling(write[q]) =>
                 at < First(write[q]) \/ Upper(write[q]) <= at
            /\ buffer[Index(at)].type # MSG_TYPE_PADDING => RecordWritten(at)

RingInv ==
    /\ TypeOK
    /\ PositionInv
    /\ ReadInv
    /\ \A p \in Producers : WriterInv(write[p])
    /\ \A p, q \in Producers : p = q \/ Apart(write[p], write[q])
    /\ StartsInv
    /\ CommittedInv

-----------------------------------------------------------------------------
(* Positions and units. *)

\* A multiple grows with its factor, by at least n.
LEMMA Product ==
    ASSUME NEW a \in Int, NEW b \in Int, NEW n \in Nat, a < b
    PROVE  a * n + n <= b * n /\ a * n \in Int /\ b * n \in Int
<1>1. b - a - 1 \in Nat /\ (b - a - 1) * n \in Nat  BY SMT
<1>2. (b - a - 1) * n = b * n - a * n - n  BY SMT
<1>3. a * n \in Int /\ b * n \in Int  OBVIOUS
<1> QED  BY <1>1, <1>2, <1>3

\* Quotient and remainder.
LEMMA Division ==
    ASSUME NEW x \in Nat, NEW n \in Nat \ {0}
    PROVE  x \div n \in Nat /\ x % n \in 0 .. n - 1 /\ x = (x \div n) * n + (x % n)
BY SMT

\* There is only one remainder.
LEMMA Remainder ==
    ASSUME NEW q \in Nat, NEW n \in Nat \ {0}, NEW r \in 0 .. n - 1, NEW x \in Nat,
           x = q * n + r
    PROVE  x % n = r
<1> DEFINE d == x \div n
           m == x % n
<1>1. d \in Nat /\ m \in 0 .. n - 1 /\ x = d * n + m  BY Division, Zenon
<1> HIDE DEF d, m
<1>2. ASSUME d < q PROVE FALSE
  <2>1. d * n + n <= q * n /\ d * n \in Int /\ q * n \in Int  BY <1>1, <1>2, Product
  <2> QED  BY <1>1, <2>1
<1>3. ASSUME q < d PROVE FALSE
  <2>1. q * n + n <= d * n /\ d * n \in Int /\ q * n \in Int  BY <1>1, <1>3, Product
  <2> QED  BY <1>1, <2>1
<1>4. d = q  BY <1>1, <1>2, <1>3
<1>5. q * n \in Int  OBVIOUS
<1>6. m = r  BY <1>1, <1>4, <1>5
<1> QED  BY <1>6 DEF m

\* A multiple leaves none.
LEMMA Multiple ==
    ASSUME NEW q \in Nat, NEW n \in Nat \ {0}, NEW x \in Nat, x = q * n
    PROVE  x % n = 0
<1> DEFINE z == 0
<1>1. z \in 0 .. n - 1 /\ x = q * n + z  OBVIOUS
<1> HIDE DEF z
<1>2. x % n = z  BY <1>1, Remainder
<1> QED  BY <1>2 DEF z

\* The unit of a position, of one further on in the same lap, and of the first
\* position of the next lap.
LEMMA IndexStep ==
    ASSUME NEW at \in Nat
    PROVE  /\ Index(at) \in Units
           /\ \A k \in Nat : Index(at) + k < Capacity => Index(at + k) = Index(at) + k
           /\ Contiguous(at) \in 1 .. Capacity
           /\ Index(at + Contiguous(at)) = 0
<1> USE CapacityAssumption
<1> DEFINE q == at \div Capacity
           i == Index(at)
<1>1. q \in Nat /\ i \in 0 .. Capacity - 1 /\ at = q * Capacity + i
  BY Division, Zenon DEF Index
<1> HIDE DEF q, i
<1>2. q * Capacity \in Int /\ (q + 1) * Capacity = q * Capacity + Capacity
  BY <1>1
<1>3. ASSUME NEW k \in Nat, i + k < Capacity PROVE Index(at + k) = i + k
  <2>1. at + k = q * Capacity + (i + k)  BY <1>1, <1>2
  <2>2. at + k \in Nat /\ i + k \in 0 .. Capacity - 1  BY <1>1, <1>3
  <2> HIDE DEF Index
  <2> QED  BY <1>1, <2>1, <2>2, Remainder DEF Index
<1>4. Contiguous(at) \in 1 .. Capacity /\ Contiguous(at) = Capacity - i
  BY <1>1 DEF Contiguous, i
<1>5. Index(at + (Capacity - i)) = 0
  <2> DEFINE x == at + (Capacity - i)
             r == q + 1
  <2>1. x = r * Capacity /\ x \in Nat /\ r \in Nat
    BY <1>1, <1>2
  <2> HIDE DEF x, r
  <2>2. x % Capacity = 0  BY <2>1, Multiple
  <2> QED  BY <2>2 DEF Index, x
<1> QED  BY <1>1, <1>3, <1>4, <1>5 DEF Units, i

\* Two positions less than a lap apart have different units.
LEMMA IndexApart ==
    ASSUME NEW a \in Nat, NEW b \in Nat, a < b, b < a + Capacity
    PROVE  Index(a) # Index(b)
<1> USE CapacityAssumption
<1> DEFINE c == a + Contiguous(a)
<1>1. Index(a) \in 0 .. Capacity - 1 /\ Contiguous(a) = Capacity - Index(a)
  BY IndexStep DEF Units, Contiguous
<1>2. CASE Index(a) + (b - a) < Capacity
  <2>1. b - a \in Nat /\ a + (b - a) = b  OBVIOUS
  <2>2. Index(b) = Index(a) + (b - a)  BY <1>2, <2>1, IndexStep
  <2> QED  BY <1>1, <2>2
<1>3. CASE Index(a) + (b - a) >= Capacity
  <2> DEFINE k == b - c
  <2>1. c \in Nat /\ c + k = b /\ k \in Nat /\ k < Index(a)
    BY <1>1, <1>3
  <2>2. Index(c) = 0  BY IndexStep
  <2> HIDE DEF c, k
  <2>3. \A j \in Nat : Index(c) + j < Capacity => Index(c + j) = Index(c) + j
    BY <2>1, IndexStep
  <2>4. Index(c + k) = 0 + k  BY <1>1, <2>1, <2>2, <2>3
  <2> QED  BY <1>1, <2>1, <2>4
<1> QED  BY <1>1, <1>2, <1>3

\* A position one lap on has the same unit.
LEMMA IndexLap ==
    ASSUME NEW at \in Nat
    PROVE  Index(at + Capacity) = Index(at)
<1> USE CapacityAssumption
<1> DEFINE c == at + Contiguous(at)
           i == Index(at)
<1>1. i \in 0 .. Capacity - 1 /\ Contiguous(at) = Capacity - i
  BY IndexStep DEF Units, Contiguous
<1>2. c \in Nat /\ c + i = at + Capacity  BY <1>1
<1>3. Index(c) = 0  BY IndexStep
<1> HIDE DEF c, i
<1>4. \A k \in Nat : Index(c) + k < Capacity => Index(c + k) = Index(c) + k
  BY <1>2, IndexStep
<1>5. i \in Nat /\ Index(c) + i < Capacity /\ Index(c) + i = i  BY <1>1, <1>3
<1>6. Index(c + i) = i  BY <1>4, <1>5
<1> QED  BY <1>2, <1>6 DEF i

-----------------------------------------------------------------------------
(* Where records start. *)

\* The length of the records.
LEMMA SizeType ==
    ASSUME OneSize
    PROVE  Size \in Nat \ {0} /\ Size <= Capacity /\ Size \in RecordSizes
BY CapacityAssumption, RecordAssumption DEF OneSize

\* Starts are Size apart, from the first unit to the last that fits.
LEMMA StartsSpaced ==
    ASSUME OneSize
    PROVE  /\ 0 \in Starts /\ Starts \subseteq Units
           /\ \A i \in Starts : i + Size < Capacity => i + Size \in Starts
           /\ \A i, j \in Starts : i < j => i + Size <= j
<1> USE CapacityAssumption, SizeType
<1>1. 0 \in Starts /\ Starts \subseteq Units  BY DEF Starts, Units
<1>2. ASSUME NEW i \in Starts
      PROVE  i \in Nat /\ i \div Size \in Nat /\ i = (i \div Size) * Size
  <2> DEFINE q == i \div Size
             r == i % Size
  <2>1. i \in Nat /\ r = 0  BY DEF Starts, Units
  <2>2. q \in Nat /\ i = q * Size + r  BY <2>1, Division, Zenon
  <2> HIDE DEF q, r
  <2>3. i = q * Size  BY <2>1, <2>2
  <2> QED  BY <2>1, <2>2, <2>3 DEF q
<1>3. ASSUME NEW i \in Starts, i + Size < Capacity PROVE i + Size \in Starts
  <2> DEFINE q == i \div Size
             r == q + 1
             x == i + Size
  <2>1. q \in Nat /\ i \in Nat /\ i = q * Size  BY <1>2
  <2> HIDE DEF q
  <2>2. x = r * Size /\ x \in Nat /\ r \in Nat
    BY <2>1
  <2> HIDE DEF x, r
  <2>3. x % Size = 0  BY <2>2, Multiple, Zenon
  <2> QED  BY <1>3, <2>1, <2>3 DEF Starts, Units, x
<1>4. ASSUME NEW i \in Starts, NEW j \in Starts, i < j PROVE i + Size <= j
  <2> DEFINE q == i \div Size
             r == j \div Size
  <2>1. q \in Nat /\ i = q * Size /\ r \in Nat /\ j = r * Size  BY <1>2
  <2> HIDE DEF q, r
  <2>2. q < r
    <3>1. ASSUME r < q PROVE FALSE
      <4>1. r * Size + Size <= q * Size /\ r * Size \in Int /\ q * Size \in Int
        BY <2>1, <3>1, Product
      <4> QED  BY <1>4, <2>1, <4>1
    <3> QED  BY <1>4, <2>1, <3>1
  <2>3. q * Size + Size <= r * Size  BY <2>1, <2>2, Product
  <2> QED  BY <2>1, <2>3
<1> QED  BY <1>1, <1>3, <1>4

\* What starts at a start ends at the next one, and keeps within the region.
LEMMA NextStart ==
    ASSUME OneSize, NEW at, Start(at)
    PROVE  /\ Extent(at) \in 1 .. Size
           /\ Index(at) + Extent(at) <= Capacity
           /\ Start(at + Extent(at))
<1> USE CapacityAssumption, SizeType
<1>1. at \in Nat /\ Index(at) \in Starts /\ Index(at) \in 0 .. Capacity - 1
  BY StartsSpaced DEF Start, Units
<1>2. /\ Contiguous(at) = Capacity - Index(at)
      /\ Index(at + Contiguous(at)) = 0
      /\ \A k \in Nat : Index(at) + k < Capacity => Index(at + k) = Index(at) + k
  BY <1>1, IndexStep DEF Contiguous
<1>3. CASE Index(at) + Size < Capacity
  <2>1. Index(at + Size) = Index(at) + Size  BY <1>2, <1>3
  <2>2. Index(at) + Size \in Starts  BY <1>1, <1>3, StartsSpaced
  <2> QED  BY <1>1, <1>3, <2>1, <2>2 DEF Extent, ExtentOf, Start
<1>4. CASE Index(at) + Size >= Capacity
  <2>1. Extent(at) = Contiguous(at)  BY <1>1, <1>2, <1>4 DEF Extent, ExtentOf
  <2>2. Start(at + Contiguous(at))  BY <1>1, <1>2, StartsSpaced DEF Start
  <2> QED  BY <1>1, <1>2, <1>4, <2>1, <2>2
<1> QED  BY <1>1, <1>3, <1>4

\* Nothing starts in the middle of it.
LEMMA StartsApart ==
    ASSUME OneSize, NEW a, NEW b, Start(a), Start(b), a < b
    PROVE  a + Extent(a) <= b
<1> USE CapacityAssumption, SizeType
<1> DEFINE k == b - a
<1> SUFFICES ASSUME b < a + Extent(a) PROVE FALSE
  BY NextStart DEF Start
<1>1. /\ a \in Nat /\ b \in Nat /\ Extent(a) \in 1 .. Size
      /\ Index(a) \in Starts /\ Index(b) \in Starts
      /\ Index(a) \in 0 .. Capacity - 1
      /\ Index(a) + Extent(a) <= Capacity
  BY NextStart, StartsSpaced DEF Start, Units
<1>2. \A j \in Nat : Index(a) + j < Capacity => Index(a + j) = Index(a) + j
  BY <1>1, IndexStep
<1>3. k \in Nat /\ k > 0 /\ a + k = b /\ k < Extent(a)  BY <1>1
<1> HIDE DEF k
<1>4. Index(b) = Index(a) + k  BY <1>1, <1>2, <1>3
<1>5. Index(a) + Size <= Index(b)  BY <1>1, <1>3, <1>4, StartsSpaced
<1> QED  BY <1>1, <1>3, <1>4, <1>5

\* A claim that begins at a start: the record follows on a pad or is at the
\* start itself, keeps within the region, and ends at a start.
LEMMA ClaimShape ==
    ASSUME OneSize, NEW w, Start(w.tail), w.len = Size
    PROVE  /\ Start(RecordAt(w)) /\ Start(Upper(w))
           /\ Index(RecordAt(w)) + Size <= Capacity
           /\ Extent(RecordAt(w)) = Size
           /\ Upper(w) = RecordAt(w) + Size
           /\ Needed(w) \in 1 .. Capacity
           /\ w.tail <= RecordAt(w)
           /\ ~Wraps(w) => RecordAt(w) = w.tail
           /\ Wraps(w) => /\ RecordAt(w) = w.tail + Extent(w.tail)
                          /\ Extent(w.tail) = Contiguous(w.tail)
                          /\ w.tail < RecordAt(w)
<1> USE CapacityAssumption, SizeType
<1> DEFINE t == w.tail
           i == Index(t)
<1>1. /\ t \in Nat /\ i \in Starts /\ i \in 0 .. Capacity - 1
      /\ Contiguous(t) = Capacity - i
      /\ Index(t + Contiguous(t)) = 0
  BY StartsSpaced, IndexStep, Zenon DEF Start, Units, Contiguous
<1>2. Wraps(w) <=> i + Size > Capacity
  BY <1>1 DEF Wraps
<1>3. /\ Extent(t) = IF i + Size <= Capacity THEN Size ELSE Capacity - i
      /\ Start(t + Extent(t))
  BY NextStart DEF Extent, ExtentOf
<1>4. CASE ~Wraps(w)
  <2>1. RecordAt(w) = t /\ Needed(w) = Size  BY <1>4 DEF RecordAt, Needed
  <2> HIDE DEF i, t
  <2> QED  BY <1>1, <1>2, <1>3, <1>4, <2>1 DEF Upper, t, i
<1>5. CASE Wraps(w)
  <2> DEFINE r == t + Contiguous(t)
  <2>1. RecordAt(w) = r /\ Needed(w) = Contiguous(t) + Size  BY <1>5 DEF RecordAt, Needed
  <2>2. r \in Nat /\ Index(r) = 0 /\ Start(r)
    BY <1>1, StartsSpaced DEF Start
  <2>3. Extent(r) = Size  BY <2>2 DEF Extent, ExtentOf
  <2>4. Start(r + Size)  BY <2>2, <2>3, NextStart
  <2>5. i > 0 /\ i >= Size
    <3>1. i > 0  BY <1>1, <1>2, <1>5
    <3> QED  BY <1>1, <3>1, StartsSpaced
  <2>6. Upper(w) = r + Size  BY <1>1, <2>1 DEF Upper
  <2>7. Extent(t) = Contiguous(t)  BY <1>1, <1>2, <1>3, <1>5
  <2>8. Contiguous(t) \in 1 .. Capacity - Size  BY <1>1, <2>5
  <2> QED  BY <1>1, <1>5, <2>1, <2>2, <2>3, <2>4, <2>6, <2>7, <2>8
<1> QED  BY <1>4, <1>5

-----------------------------------------------------------------------------
(* Invariance. *)

\* The types of the positions.
LEMMA RingTypes ==
    ASSUME RingInv
    PROVE  /\ head \in Nat /\ tail \in Nat /\ Reached \in Nat
           /\ read.current \in Nat /\ read.tail \in Nat /\ read.len \in Nat
           /\ tail <= Reached + Capacity
           /\ \A p \in Producers :
                write[p].tail \in Nat /\ write[p].len \in Nat /\ write[p].head \in Nat
BY CapacityAssumption DEF RingInv, TypeOK, PositionInv, Reached

\* The claim of a producer that is filling it.
LEMMA FillerFacts ==
    ASSUME OneSize, RingInv, NEW p \in Producers, IsFilling(write[p])
    PROVE  /\ write[p].len = Size /\ Start(write[p].tail)
           /\ Start(RecordAt(write[p]))
           /\ Index(RecordAt(write[p])) + Size <= Capacity
           /\ Upper(write[p]) = RecordAt(write[p]) + Size
           /\ Start(First(write[p]))
           /\ Reached <= First(write[p]) /\ First(write[p]) < Upper(write[p])
           /\ First(write[p]) < Reached + Capacity
           /\ First(write[p]) \in Nat /\ Upper(write[p]) \in Nat
           /\ Upper(write[p]) <= tail
<1> DEFINE w == write[p]
<1>1. w.pc # "idle" /\ WriterInv(w)  BY DEF RingInv, IsFilling
<1>2. w.len = Size /\ Start(w.tail) /\ Reached <= First(w) /\ Upper(w) <= tail
  BY <1>1 DEF WriterInv
<1>3. /\ Start(RecordAt(w)) /\ Index(RecordAt(w)) + Size <= Capacity
      /\ Upper(w) = RecordAt(w) + Size /\ w.tail <= RecordAt(w)
  BY <1>2, ClaimShape
<1>4. Start(First(w)) /\ First(w) < Upper(w)
  BY <1>2, <1>3, SizeType DEF First, Start
<1>5. First(w) \in Nat /\ Upper(w) \in Nat  BY <1>3, <1>4, SizeType DEF Start
<1>6. Reached \in Nat /\ tail \in Nat /\ tail <= Reached + Capacity  BY RingTypes
<1>7. First(w) < Reached + Capacity
  BY <1>2, <1>4, <1>5, <1>6, CapacityAssumption
<1> QED  BY <1>2, <1>3, <1>4, <1>5, <1>7

\* What producer p may change while it fills its claim.
LEMMA FillStep ==
    ASSUME OneSize, RingInv, NEW p \in Producers, IsFilling(write[p]), TypeOK',
           \A q \in Producers \ {p} : write'[q] = write[q],
           UNCHANGED <<head, tail, read>>,
           WriterInv(write[p])', StartsInv',
           IsFilling(write'[p]) => /\ First(write[p]) <= First(write'[p])
                                   /\ Upper(write'[p]) = Upper(write[p]),
           \A i \in Starts : i = Index(First(write[p])) \/ buffer'[i].type = buffer[i].type,
           \A at : /\ Start(at) /\ Index(at) # Index(First(write[p]))
                   /\ Index(at) + Size <= Capacity
                   => /\ PayloadAt(at) => PayloadAt(at)'
                      /\ RecordWritten(at) => RecordWritten(at)',
           buffer'[Index(First(write[p]))].type # UNCOMMITTED =>
               /\ IsFilling(write'[p]) => First(write[p]) < First(write'[p])
               /\ buffer'[Index(First(write[p]))].type # MSG_TYPE_PADDING =>
                    \A at : at = First(write[p]) => RecordWritten(at)'
    PROVE  RingInv'
<1> DEFINE f == First(write[p])
           u == Upper(write[p])
<1>1. /\ Start(f) /\ f \in Nat /\ Reached <= f /\ f < u /\ f < Reached + Capacity
      /\ u \in Nat /\ u <= tail
  BY FillerFacts DEF Start
<1>2. Reached' = Reached /\ Reached \in Nat /\ tail \in Nat /\ tail <= Reached + Capacity
  BY RingTypes DEF Reached
<1>3. PositionInv'
  BY <1>2 DEF RingInv, PositionInv, Start
<1>4. \A at \in Reached .. Reached + Capacity - 1 : at # f => Index(at) # Index(f)
  BY <1>1, <1>2, IndexApart, CapacityAssumption, SMTT(40)
<1> HIDE DEF f, u
<1>5. ReadInv'
  <2>1. ASSUME read.pc \in {"length", "deliver"} PROVE ReadCell'.type = ReadCell.type
    <3>1. /\ Reached = read.current /\ Start(read.current)
          /\ ReadCell.type # UNCOMMITTED
      BY <2>1 DEF RingInv, ReadInv, Reached
    <3>2. Reached \in Reached .. Reached + Capacity - 1
      BY <1>2, CapacityAssumption
    <3>3. read.current < f \/ u <= read.current
      BY <3>1, <3>2 DEF RingInv, CommittedInv, ReadCell, f, u
    <3>4. Index(read.current) \in Starts /\ Index(read.current) # Index(f)
      BY <1>1, <1>2, <1>4, <3>1, <3>2, <3>3, SMTT(40) DEF Start
    <3> QED  BY <3>4 DEF ReadCell, f
  <2> QED  BY <2>1 DEF RingInv, ReadInv, Start, Extent
<1>6. ASSUME NEW q \in Producers, q # p PROVE WriterInv(write[q])'
  <2>1. write'[q] = write[q] /\ WriterInv(write[q])
    BY <1>6 DEF RingInv
  <2>2. ASSUME write[q].pc \in {"length", "commit"}
        PROVE  /\ PayloadAt(RecordAt(write[q])) => PayloadAt(RecordAt(write[q]))'
               /\ RecordWritten(RecordAt(write[q])) => RecordWritten(RecordAt(write[q]))'
    <3> DEFINE r == RecordAt(write[q])
    <3>1. IsFilling(write[q]) /\ First(write[q]) = r
      BY <2>2 DEF IsFilling, First
    <3>2. /\ Start(r) /\ Reached <= r /\ r < Reached + Capacity /\ r < Upper(write[q])
          /\ Index(r) + Size <= Capacity /\ r \in Nat /\ Upper(write[q]) \in Nat
      BY <3>1, FillerFacts, SMTT(40) DEF Start
    <3>3. u <= r \/ Upper(write[q]) <= f
      BY <1>6, <3>1 DEF RingInv, Apart, f, u
    <3>4. r # f  BY <1>1, <3>2, <3>3
    <3>5. RecordAt(write[q])' = r  BY <2>1
    <3> HIDE DEF r
    <3>6. Index(r) # Index(f)  BY <1>2, <1>4, <3>2, <3>4, CapacityAssumption
    <3>7. (PayloadAt(r) => PayloadAt(RecordAt(write[q]))')
          /\ (RecordWritten(r) => RecordWritten(RecordAt(write[q]))')
      BY <3>2, <3>5, <3>6 DEF f, RecordWritten, PayloadAt
    <3> QED  BY <3>7 DEF r
  <2> QED  BY <1>2, <2>1, <2>2, SMTT(40) DEF WriterInv, Start, Upper, First, Wraps, IsFilling
<1>7. ASSUME NEW q \in Producers, NEW r \in Producers, q # r
      PROVE  Apart(write[q], write[r])'
  <2>1. ASSUME IsFilling(write'[p]) PROVE First(write'[p]) \in Nat
    <3>1. Start(write'[p].tail) /\ write'[p].len = Size
      BY <2>1 DEF WriterInv, IsFilling, Start
    <3> QED  BY <3>1, ClaimShape, SMTT(40) DEF First, Start
  <2>2. ASSUME NEW s \in Producers, s # p, IsFilling(write[s])
        PROVE  First(write[s]) \in Nat /\ Upper(write[s]) \in Nat
    BY <2>2, FillerFacts, SMTT(40)
  <2>3. Apart(write[q], write[r])  BY <1>7, SMTT(40) DEF RingInv
  <2>7. ASSUME NEW s \in Producers, s # p, IsFilling(write'[p]), IsFilling(write[s]),
               u <= First(write[s]) \/ Upper(write[s]) <= f
        PROVE  u <= First(write[s]) \/ Upper(write[s]) <= First(write'[p])
    <3> DEFINE g == First(write'[p])
    <3>1. g \in Nat /\ f <= g  BY <2>1, <2>7 DEF f
    <3> HIDE DEF g
    <3>2. Upper(write[s]) <= f => Upper(write[s]) <= g  BY <1>1, <2>2, <2>7, <3>1
    <3> QED  BY <2>7, <3>2 DEF g
  <2>4. CASE q = p
    <3>1. write'[r] = write[r] /\ r # p  BY <1>7, <2>4
    <3> QED  BY <2>3, <2>4, <2>7, <3>1 DEF Apart, f, u
  <2>5. CASE r = p
    <3>1. write'[q] = write[q] /\ q # p  BY <1>7, <2>5
    <3> QED  BY <2>3, <2>5, <2>7, <3>1 DEF Apart, f, u
  <2>6. CASE q # p /\ r # p
    BY <2>3, <2>6 DEF Apart
  <2> QED  BY <2>4, <2>5, <2>6
<1>8. CommittedInv'
  <2> SUFFICES ASSUME NEW at \in Reached .. Reached + Capacity - 1, Start(at),
                      buffer'[Index(at)].type # UNCOMMITTED
               PROVE  /\ at < tail
                      /\ \A q \in Producers : IsFilling(write'[q]) =>
                           at < First(write'[q]) \/ Upper(write'[q]) <= at
                      /\ buffer'[Index(at)].type # MSG_TYPE_PADDING => RecordWritten(at)'
    BY <1>2 DEF CommittedInv, Start
  <2>0. at \in Nat /\ Index(at) \in Starts  BY DEF Start
  <2>1. CASE at = f
    <3>1. at < tail  BY <1>1, <1>2, <2>1
    <3>2. IsFilling(write'[p]) => at < First(write'[p])
      BY <2>1 DEF f
    <3>3. ASSUME NEW q \in Producers, q # p, IsFilling(write'[q])
          PROVE  at < First(write'[q]) \/ Upper(write'[q]) <= at
      <4>1. write'[q] = write[q] /\ First(write[q]) \in Nat  BY <3>3, FillerFacts
      <4>2. u <= First(write[q]) \/ Upper(write[q]) <= f
        BY <3>3, <4>1 DEF RingInv, Apart, f, u
      <4> QED  BY <1>1, <2>1, <4>1, <4>2
    <3> QED  BY <2>1, <3>1, <3>2, <3>3 DEF f
  <2>2. CASE at # f
    <3>1. Index(at) # Index(f)  BY <1>4, <2>2
    <3>2. buffer'[Index(at)].type = buffer[Index(at)].type
      BY <2>0, <3>1 DEF f
    <3>3. /\ at < tail
          /\ \A q \in Producers : IsFilling(write[q]) =>
               at < First(write[q]) \/ Upper(write[q]) <= at
          /\ buffer[Index(at)].type # MSG_TYPE_PADDING => RecordWritten(at)
      BY <3>2, SMTT(40) DEF RingInv, CommittedInv
    <3>4. buffer'[Index(at)].type # MSG_TYPE_PADDING => RecordWritten(at)'
      <4>1. RecordWritten(at) => Index(at) + Size <= Capacity  BY DEF RecordWritten
      <4> QED  BY <3>1, <3>2, <3>3, <4>1, SMTT(40) DEF f
    <3>5. ASSUME IsFilling(write'[p])
          PROVE  at < First(write'[p]) \/ Upper(write'[p]) <= at
      <4>1. Start(write'[p].tail) /\ write'[p].len = Size
        BY <3>5, SMTT(40) DEF WriterInv, IsFilling, Start
      <4>2. First(write'[p]) \in Nat  BY <4>1, ClaimShape, SMTT(40) DEF First, Start
      <4>3. at < f \/ u <= at  BY <3>3, SMTT(40) DEF f, u
      <4> QED  BY <1>1, <2>0, <3>5, <4>2, <4>3 DEF f, u
    <3>6. ASSUME NEW q \in Producers, q # p, IsFilling(write'[q])
          PROVE  at < First(write'[q]) \/ Upper(write'[q]) <= at
      BY <3>3, <3>6
    <3> QED  BY <3>3, <3>4, <3>5, <3>6
  <2> QED  BY <2>1, <2>2
<1> QED  BY <1>3, <1>5, <1>6, <1>7, <1>8 DEF RingInv

\* The local variables of write.
Locals ==
    [pc : {"idle", "load_tail", "load_head", "full", "claim", "pad_type", "pad_length",
           "payload", "length", "commit"},
     type : Nat, len : Nat, tail : Nat, head : Nat]

\* A step that only changes the local variables of one producer keeps the types.
LEMMA LocalTyped ==
    ASSUME TypeOK, NEW p \in Producers, NEW w,
           write' = [write EXCEPT ![p] = w],
           write[p] \in Locals => w \in Locals,
           UNCHANGED <<buffer, head, tail, read>>
    PROVE  TypeOK'
<1>1. write \in [Producers -> Locals]  BY DEF TypeOK, Locals
<1>2. write' \in [Producers -> Locals]  BY <1>1
<1> QED  BY <1>2 DEF TypeOK, Locals

\* A producer that takes no step still knows what it knew.
LEMMA WriterKeeps ==
    ASSUME NEW q \in Producers, WriterInv(write[q]), write'[q] = write[q], head' = head,
           write[q].tail <= tail => write[q].tail <= tail',
           IsFilling(write[q]) =>
               /\ Reached <= First(write[q]) => Reached' <= First(write[q])
               /\ Upper(write[q]) <= tail => Upper(write[q]) <= tail',
           \A at : (PayloadAt(at)' <=> PayloadAt(at)) /\ (RecordWritten(at)' <=> RecordWritten(at))
    PROVE  WriterInv(write[q])'
<1>1. write[q].pc \in {"load_head", "full", "claim"} =>
        Start(write[q].tail) /\ write[q].tail <= tail'
  BY DEF WriterInv
<1>2. IsFilling(write[q]) =>
        Start(write[q].tail) /\ Reached' <= First(write[q]) /\ Upper(write[q]) <= tail'
  BY SMTT(40) DEF WriterInv
<1>3. /\ write[q].pc \in {"length", "commit"} => PayloadAt(RecordAt(write[q]))'
      /\ write[q].pc = "commit" => RecordWritten(RecordAt(write[q]))'
  BY SMTT(40) DEF WriterInv
<1>4. /\ write[q].pc # "idle" => write[q].len = Size /\ write[q].type \in MsgTypes
      /\ write[q].pc = "full" => write[q].head # write[q].tail
      /\ write[q].pc = "claim" =>
           write[q].head <= head' /\ Upper(write[q]) <= write[q].head + Capacity
      /\ write[q].pc \in {"pad_type", "pad_length"} => Wraps(write[q])
  BY DEF WriterInv
<1> DEFINE v == write'[q]
<1>5. v = write[q] /\ RecordAt(v) = RecordAt(write[q])  OBVIOUS
<1>6. /\ v.pc # "idle" => v.len = Size /\ v.type \in MsgTypes
      /\ v.pc \in {"load_head", "full", "claim"} => Start(v.tail) /\ v.tail <= tail'
      /\ v.pc = "full" => v.head # v.tail
      /\ v.pc = "claim" => v.head <= head' /\ Upper(v) <= v.head + Capacity
      /\ v.pc \in {"pad_type", "pad_length"} => Wraps(v)
      /\ IsFilling(v) => Start(v.tail) /\ Reached' <= First(v) /\ Upper(v) <= tail'
  BY <1>1, <1>2, <1>4, <1>5
<1>7. /\ v.pc \in {"length", "commit"} => PayloadAt(RecordAt(write[q]))'
      /\ v.pc = "commit" => RecordWritten(RecordAt(write[q]))'
  BY <1>3, <1>5
<1> QED  BY <1>6, <1>7, Zenon DEF WriterInv

\* A step of producer p outside its claims, which changes nothing shared.
LEMMA LocalStep ==
    ASSUME RingInv, NEW p \in Producers, TypeOK',
           \A q \in Producers \ {p} : write'[q] = write[q],
           UNCHANGED <<buffer, head, tail, read>>,
           ~IsFilling(write'[p]), WriterInv(write[p])'
    PROVE  RingInv'
<1>1. Reached' = Reached  BY SMTT(40) DEF Reached
<1>2. PositionInv' /\ ReadInv' /\ StartsInv'
  BY <1>1, SMTT(40) DEF RingInv, PositionInv, ReadInv, StartsInv, ReadCell, Start, Extent
<1>3. ASSUME NEW q \in Producers, q # p PROVE WriterInv(write[q])'
  <2>1. WriterInv(write[q]) /\ write'[q] = write[q]  BY <1>3 DEF RingInv
  <2>2. \A at : (PayloadAt(at)' <=> PayloadAt(at)) /\ (RecordWritten(at)' <=> RecordWritten(at))
    BY DEF RecordWritten, PayloadAt
  <2> QED  BY <1>1, <2>1, <2>2, WriterKeeps, SMTT(40)
<1>4. \A q, r \in Producers : q = r \/ Apart(write[q], write[r])'
  BY SMTT(40) DEF RingInv, Apart
<1>5. CommittedInv'
  BY <1>1 DEF RingInv, CommittedInv, RecordWritten, PayloadAt, Start
<1> QED  BY <1>2, <1>3, <1>4, <1>5 DEF RingInv

\* The steps of write before and instead of a claim.
LEMMA BeforeClaim ==
    ASSUME OneSize, RingInv, NEW p \in Producers,
           \/ \E type \in MsgTypes, n \in RecordSizes : WriteBegin(p, type, n)
           \/ LoadTail(p) \/ LoadHead(p) \/ ReturnFull(p) \/ ClaimFails(p)
    PROVE  RingInv'
<1> USE CapacityAssumption
<1>1. ASSUME NEW type \in MsgTypes, NEW n \in RecordSizes, WriteBegin(p, type, n)
      PROVE  RingInv'
  <2>1. n = Size /\ n \in Nat /\ type \in Nat
    BY SizeType, MsgTypesAssumption, SMTT(40) DEF OneSize
  <2>2. TypeOK'  BY <1>1, <2>1, ZenonT(40) DEF WriteBegin, WriteIdle, RingInv, TypeOK
  <2>3. write'[p].pc = "load_tail" /\ write'[p].len = n /\ write'[p].type = type
    BY <1>1, ZenonT(40) DEF WriteBegin, WriteIdle, RingInv, TypeOK
  <2>4. \A q \in Producers \ {p} : write'[q] = write[q]
    BY <1>1, ZenonT(40) DEF WriteBegin, RingInv, TypeOK
  <2>5. WriterInv(write[p])' /\ ~IsFilling(write'[p])
    BY <2>1, <2>3 DEF WriterInv, IsFilling
  <2> QED  BY <1>1, <2>2, <2>4, <2>5, LocalStep, Zenon DEF WriteBegin
<1>2. CASE LoadTail(p)
  <2>1. TypeOK'
    <3>1. /\ write' = [write EXCEPT ![p].pc = "load_head", ![p].tail = tail]
          /\ UNCHANGED <<buffer, head, tail, read>> /\ tail \in Nat
      BY <1>2, RingTypes DEF LoadTail
    <3>2. write' = [write EXCEPT ![p] = [write[p] EXCEPT !.pc = "load_head", !.tail = tail]]
      BY <3>1, Zenon
    <3>3. \A b \in Locals, n \in Nat : [b EXCEPT !.pc = "load_head", !.tail = n] \in Locals
      BY Zenon DEF Locals
    <3> QED  BY <3>1, <3>2, <3>3, LocalTyped, Zenon DEF RingInv
  <2>2. /\ write'[p].pc = "load_head" /\ write'[p].len = write[p].len
        /\ write'[p].type = write[p].type
        /\ write'[p].tail = tail
    BY <1>2 DEF LoadTail, RingInv, TypeOK
  <2>3. \A q \in Producers \ {p} : write'[q] = write[q]
    BY <1>2 DEF LoadTail, RingInv, TypeOK
  <2>4. WriterInv(write[p])' /\ ~IsFilling(write'[p])
    BY <1>2, <2>2, RingTypes DEF LoadTail, RingInv, PositionInv, WriterInv, IsFilling, Start
  <2> QED  BY <1>2, <2>1, <2>3, <2>4, LocalStep, Zenon DEF LoadTail
<1>3. CASE LoadHead(p)
  <2> DEFINE w == write[p]
             v == write'[p]
  <2>0. PICK x \in {"full", "claim"} :
          /\ write' = [write EXCEPT ![p].pc = x, ![p].head = head]
          /\ UNCHANGED <<buffer, head, tail, read>>
    BY <1>3, Zenon DEF LoadHead
  <2>1. TypeOK'
    <3>1. write' = [write EXCEPT ![p] = [write[p] EXCEPT !.pc = x, !.head = head]]
      BY <2>0, Zenon
    <3>2. \A b \in Locals, n \in Nat : [b EXCEPT !.pc = x, !.head = n] \in Locals
      BY Zenon DEF Locals
    <3> QED  BY <2>0, <3>1, <3>2, LocalTyped, RingTypes, Zenon DEF RingInv
  <2>2. /\ v.pc = IF Needed(w) > Capacity - (w.tail - head) THEN "full" ELSE "claim"
        /\ v.len = w.len /\ v.tail = w.tail /\ v.head = head /\ v.type = w.type
    BY <1>3 DEF LoadHead, RingInv, TypeOK
  <2>3. \A q \in Producers \ {p} : write'[q] = write[q]
    BY <1>3 DEF LoadHead, RingInv, TypeOK
  <2>4. w.len = Size /\ Start(w.tail) /\ w.tail <= tail /\ w.type \in MsgTypes
    BY <1>3, SMTT(40) DEF LoadHead, RingInv, WriterInv
  <2>5. Needed(w) \in 1 .. Capacity /\ Needed(v) = Needed(w)
    BY <2>2, <2>4, ClaimShape, SMTT(40) DEF Needed, Wraps
  <2>6. head \in Nat /\ w.tail \in Nat  BY RingTypes
  <2>7. head' = head /\ tail' = tail  BY <1>3, SMTT(40) DEF LoadHead
  <2>8. WriterInv(write[p])' /\ ~IsFilling(write'[p])
    <3> DEFINE n == Needed(w)
               t == w.tail
    <3>1. n \in 1 .. Capacity /\ t \in Nat /\ head \in Nat /\ Upper(v) = t + n
      BY <2>2, <2>5, <2>6 DEF Upper
    <3> HIDE DEF n, t
    <3>2. n > Capacity - (t - head) => head # t  BY <3>1
    <3>3. ~(n > Capacity - (t - head)) => t + n <= head + Capacity  BY <3>1
    <3>4. v.pc \in {"full", "claim"}  BY <2>2
    <3>5. /\ v.pc = "full" => v.head # v.tail
          /\ v.pc = "claim" => v.head <= head /\ Upper(v) <= v.head + Capacity
      BY <2>2, <3>1, <3>2, <3>3 DEF n, t
    <3>6. /\ v.len = Size /\ v.type \in MsgTypes /\ Start(v.tail) /\ v.tail <= tail
      BY <2>2, <2>4
    <3> QED  BY <2>7, <3>4, <3>5, <3>6, SMTT(40) DEF WriterInv, IsFilling
  <2> QED  BY <1>3, <2>1, <2>3, <2>8, LocalStep, Zenon DEF LoadHead
<1>4. CASE ReturnFull(p)
  <2>1. TypeOK'  BY <1>4 DEF ReturnFull, WriteIdle, RingInv, TypeOK
  <2>2. write'[p].pc = "idle"
    BY <1>4 DEF ReturnFull, WriteIdle, RingInv, TypeOK
  <2>3. \A q \in Producers \ {p} : write'[q] = write[q]
    BY <1>4, SMTT(40) DEF ReturnFull, RingInv, TypeOK
  <2>4. WriterInv(write[p])' /\ ~IsFilling(write'[p])
    BY <2>2 DEF WriterInv, IsFilling
  <2> QED  BY <1>4, <2>1, <2>3, <2>4, LocalStep DEF ReturnFull
<1>5. CASE ClaimFails(p)
  <2>1. TypeOK'  BY <1>5 DEF ClaimFails, RingInv, TypeOK
  <2>2. /\ write'[p].pc = "load_tail" /\ write'[p].len = write[p].len
        /\ write'[p].type = write[p].type
    BY <1>5 DEF ClaimFails, RingInv, TypeOK
  <2>3. \A q \in Producers \ {p} : write'[q] = write[q]
    BY <1>5 DEF ClaimFails, RingInv, TypeOK
  <2>4. WriterInv(write[p])' /\ ~IsFilling(write'[p])
    BY <1>5, <2>2 DEF ClaimFails, RingInv, WriterInv, IsFilling
  <2> QED  BY <1>5, <2>1, <2>3, <2>4, LocalStep DEF ClaimFails
<1> QED  BY <1>1, <1>2, <1>3, <1>4, <1>5, SMTT(40)

\* The compare-and-exchange on tail: head cannot have moved back since it was
\* loaded, and whoever claimed before claimed below tail.
LEMMA ClaimStep ==
    ASSUME OneSize, RingInv, NEW p \in Producers, ClaimTail(p)
    PROVE  RingInv'
<1> USE CapacityAssumption
<1> DEFINE w == write[p]
           v == write'[p]
<1>1. /\ w.pc = "claim" /\ w.len = Size /\ Start(w.tail) /\ tail = w.tail
      /\ w.type \in MsgTypes
      /\ w.head <= head /\ Upper(w) <= w.head + Capacity
  BY DEF ClaimTail, RingInv, WriterInv
<1>2. /\ v.pc = IF Wraps(w) THEN "pad_type" ELSE "payload"
      /\ v.len = w.len /\ v.tail = w.tail /\ v.type = w.type
      /\ \A q \in Producers \ {p} : write'[q] = write[q]
  BY DEF ClaimTail, RingInv, TypeOK
<1>3. /\ Upper(v) = Upper(w) /\ (Wraps(v) <=> Wraps(w)) /\ RecordAt(v) = RecordAt(w)
  BY <1>2 DEF Upper, Needed, Wraps, RecordAt
<1>4. /\ Start(RecordAt(w)) /\ Start(Upper(w)) /\ Upper(w) = RecordAt(w) + Size
      /\ tail <= RecordAt(w)
  BY <1>1, ClaimShape, SMTT(40)
<1>5. IsFilling(v) /\ First(v) \in Nat /\ tail <= First(v) /\ First(v) < Upper(v)
  <2>1. IsFilling(v)  BY <1>2 DEF IsFilling
  <2>2. First(v) = tail \/ First(v) = RecordAt(w)  BY <1>1, <1>2, <1>3 DEF First
  <2>3. tail \in Nat /\ RecordAt(w) \in Nat  BY <1>1, <1>4 DEF Start
  <2>4. tail < Upper(w) /\ RecordAt(w) < Upper(w)  BY <1>4, <2>3, SizeType
  <2> QED  BY <1>3, <1>4, <2>1, <2>2, <2>3, <2>4
<1>6. tail' = Upper(w) /\ UNCHANGED <<buffer, head, read>> /\ Reached' = Reached
  BY DEF ClaimTail, Upper, Reached
<1>7. /\ head \in Nat /\ tail \in Nat /\ Reached \in Nat /\ w.head \in Nat
      /\ Upper(w) \in Nat /\ head <= Reached /\ Reached <= tail
  BY <1>4, RingTypes, SizeType DEF RingInv, PositionInv, Start
<1>8. TypeOK'  BY <1>6, <1>7 DEF ClaimTail, RingInv, TypeOK
<1>9. tail < tail'  BY <1>4, <1>6, <1>7, SizeType DEF Start
<1>10. PositionInv'
  BY <1>1, <1>4, <1>6, <1>7, <1>9 DEF RingInv, PositionInv, Start
<1>11. ReadInv'
  <2>1. ReadInv /\ read' = read /\ ReadCell' = ReadCell
    BY <1>6 DEF RingInv, ReadCell
  <2>2. read.pc # "idle" => read.tail <= tail'
    BY <1>6, <1>7, <1>9, <2>1, RingTypes DEF ReadInv
  <2> QED  BY <2>1, <2>2 DEF ReadInv
<1>12. StartsInv'  BY <1>6, SMTT(40) DEF RingInv, StartsInv
<1>13. WriterInv(write[p])'
  <2>1. Reached' <= First(v) /\ Upper(v) <= tail'
    BY <1>3, <1>5, <1>6, <1>7
  <2>2. v.pc = "pad_type" => Wraps(v)  BY <1>2, <1>3
  <2>3. v.pc \in {"pad_type", "payload"} /\ v.len = Size /\ v.type \in MsgTypes /\ Start(v.tail)
    BY <1>1, <1>2, SMTT(40)
  <2> QED  BY <2>1, <2>2, <2>3 DEF WriterInv, IsFilling
<1>14. ASSUME NEW q \in Producers, q # p PROVE WriterInv(write[q])'
  <2>1. write'[q] = write[q] /\ WriterInv(write[q])
    BY <1>2, <1>14 DEF RingInv
  <2>2. IsFilling(write[q]) => Upper(write[q]) \in Nat  BY FillerFacts
  <2>3. write[q].tail \in Nat  BY RingTypes
  <2>4. /\ write[q].tail <= tail => write[q].tail <= tail'
        /\ IsFilling(write[q]) /\ Upper(write[q]) <= tail => Upper(write[q]) <= tail'
    BY <1>6, <1>7, <1>9, <2>2, <2>3
  <2>5. \A at : (PayloadAt(at)' <=> PayloadAt(at)) /\ (RecordWritten(at)' <=> RecordWritten(at))
    BY <1>6 DEF RecordWritten, PayloadAt
  <2>6. head' = head /\ Reached' = Reached  BY <1>6
  <2> QED  BY <2>1, <2>4, <2>5, <2>6, WriterKeeps
<1>15. ASSUME NEW q \in Producers, q # p, IsFilling(write[q])
       PROVE  Upper(write[q]) <= First(v) /\ First(write[q]) \in Nat
  BY <1>5, <1>7, <1>15, FillerFacts
<1>16. ASSUME NEW q \in Producers, NEW r \in Producers, q # r
       PROVE  Apart(write[q], write[r])'
  <2>1. CASE q = p  BY <1>2, <1>15, <1>16, <2>1 DEF Apart
  <2>2. CASE r = p  BY <1>2, <1>15, <1>16, <2>2 DEF Apart
  <2>3. CASE q # p /\ r # p  BY <1>2, <1>16, <2>3, SMTT(40) DEF RingInv, Apart
  <2> QED  BY <2>1, <2>2, <2>3
<1>17. CommittedInv'
  <2> SUFFICES ASSUME NEW at \in Reached .. Reached + Capacity - 1, Start(at),
                      buffer[Index(at)].type # UNCOMMITTED
               PROVE  /\ at < tail'
                      /\ \A q \in Producers : IsFilling(write'[q]) =>
                           at < First(write'[q]) \/ Upper(write'[q]) <= at
                      /\ buffer[Index(at)].type # MSG_TYPE_PADDING => RecordWritten(at)'
    BY <1>6 DEF CommittedInv, Start
  <2>1. /\ at < tail
        /\ \A q \in Producers : IsFilling(write[q]) =>
             at < First(write[q]) \/ Upper(write[q]) <= at
        /\ buffer[Index(at)].type # MSG_TYPE_PADDING => RecordWritten(at)
    BY SMTT(40) DEF RingInv, CommittedInv
  <2>2. at < tail' /\ at < First(write'[p])
    BY <1>5, <1>7, <1>9, <2>1, <1>6
  <2>3. RecordWritten(at) => RecordWritten(at)'
    BY <1>6 DEF RecordWritten, PayloadAt
  <2> QED  BY <1>2, <2>1, <2>2, <2>3
<1> QED  BY <1>8, <1>10, <1>11, <1>12, <1>13, <1>14, <1>16, <1>17 DEF RingInv

\* What is claimed has no type yet.
LEMMA ClaimedIsZero ==
    ASSUME OneSize, RingInv, NEW p \in Producers, IsFilling(write[p])
    PROVE  buffer[Index(First(write[p]))].type = UNCOMMITTED
<1> DEFINE f == First(write[p])
<1>1. /\ Start(f) /\ f \in Nat /\ Reached <= f /\ f < Reached + Capacity
      /\ Upper(write[p]) \in Nat /\ f < Upper(write[p])
  BY FillerFacts
<1>2. f \in Reached .. Reached + Capacity - 1
  BY <1>1, RingTypes, CapacityAssumption
<1> QED  BY <1>1, <1>2 DEF RingInv, CommittedInv

\* A change of one start does not concern the records at the others.
LEMMA OtherStart ==
    ASSUME OneSize, NEW j \in Starts, \A i \in Units : i = j \/ buffer'[i] = buffer[i]
    PROVE  \A at : Start(at) /\ Index(at) # j =>
             /\ PayloadAt(at) => PayloadAt(at)'
             /\ RecordWritten(at) => RecordWritten(at)'
<1> SUFFICES ASSUME NEW at, Start(at), Index(at) # j
             PROVE  /\ PayloadAt(at) => PayloadAt(at)'
                    /\ RecordWritten(at) => RecordWritten(at)'
  OBVIOUS
<1>1. Index(at) \in Starts /\ Index(at) \in Units /\ j \in Nat /\ Index(at) \in Nat
  BY StartsSpaced, CapacityAssumption DEF Start, Units
<1>2. ~(Index(at) < j /\ j < Index(at) + Size)
  BY <1>1, StartsSpaced, SizeType
<1>3. PayloadAt(at) => PayloadAt(at)'
  BY <1>2, SMTT(40) DEF PayloadAt
<1> QED  BY <1>1, <1>3 DEF RecordWritten

\* msg_type of a pad, after which read may pass it.
LEMMA PadTypeStep ==
    ASSUME OneSize, RingInv, NEW p \in Producers, WritePadType(p)
    PROVE  RingInv'
<1> USE CapacityAssumption
<1> DEFINE w == write[p]
           v == write'[p]
           j == Index(w.tail)
<1>1. IsFilling(w) /\ First(w) = w.tail /\ w.pc = "pad_type"
  BY SMTT(40) DEF WritePadType, IsFilling, First
<1>2. w.type \in MsgTypes /\ Wraps(w)
  BY <1>1, Zenon DEF RingInv, WriterInv
<1>3. /\ w.len = Size /\ Start(w.tail) /\ w.tail \in Nat /\ j \in Starts /\ j \in Units
      /\ Reached <= w.tail /\ Upper(w) <= tail
  BY <1>1, FillerFacts, StartsSpaced DEF Start
<1>4. w.tail < RecordAt(w) /\ RecordAt(w) \in Nat  BY <1>2, <1>3, ClaimShape DEF Start
<1>5. /\ v.pc = "pad_length" /\ v.len = w.len /\ v.tail = w.tail /\ v.type = w.type
      /\ \A q \in Producers \ {p} : write'[q] = write[q]
  BY DEF WritePadType, RingInv, TypeOK
<1>6. /\ buffer'[j].type = MSG_TYPE_PADDING /\ buffer'[j].len = buffer[j].len
      /\ \A i \in Units : i = j \/ buffer'[i] = buffer[i]
  BY <1>3 DEF WritePadType, RingInv, TypeOK, Cells
<1>7. TypeOK'
  BY <1>3, SMTT(40) DEF WritePadType, RingInv, TypeOK, Cells, MSG_TYPE_PADDING
<1>8. /\ RecordAt(v) = RecordAt(w) /\ Upper(v) = Upper(w) /\ (Wraps(v) <=> Wraps(w))
      /\ First(v) = RecordAt(w) /\ IsFilling(v)
  BY <1>5 DEF RecordAt, Upper, Needed, Wraps, First, IsFilling
<1>9. UNCHANGED <<head, tail, read>> /\ Reached' = Reached /\ Reached \in Nat
  BY RingTypes, SMTT(40) DEF WritePadType, Reached
<1>10. WriterInv(write[p])'
  <2>1. /\ v.len = Size /\ v.type \in MsgTypes /\ Start(v.tail)
        /\ Upper(v) <= tail'
        /\ v.pc = "pad_length" => Wraps(v)
    BY <1>2, <1>3, <1>5, <1>8, <1>9
  <2>2. Reached' <= First(v)
    <3>1. Reached <= RecordAt(w)  BY <1>3, <1>4, <1>9
    <3> QED  BY <1>8, <1>9, <3>1, SMTT(40)
  <2> QED  BY <1>5, <1>8, <2>1, <2>2, SMTT(40) DEF WriterInv
<1>11. StartsInv'
  <2>1. buffer'[j].type # PAYLOAD  BY <1>6 DEF MSG_TYPE_PADDING, PAYLOAD
  <2>2. ASSUME NEW i \in Starts
        PROVE  buffer'[i].type # PAYLOAD /\ buffer'[i].len \in {0, ExtentOf(i)}
    <3>1. i \in Units  BY StartsSpaced
    <3>2. buffer[i].type # PAYLOAD /\ buffer[i].len \in {0, ExtentOf(i)}
      BY DEF RingInv, StartsInv
    <3> QED  BY <1>6, <2>1, <3>1, <3>2
  <2> QED  BY <2>2 DEF StartsInv
<1>12. \A at : Start(at) /\ Index(at) # j =>
             /\ PayloadAt(at) => PayloadAt(at)'
             /\ RecordWritten(at) => RecordWritten(at)'
  BY <1>3, <1>6, OtherStart
<1>13. \A i \in Starts : i = j \/ buffer'[i].type = buffer[i].type
  BY <1>6, StartsSpaced
<1>14. First(w) < First(v) /\ First(w) <= First(v) /\ j = Index(First(w))
  <2>1. First(w) = w.tail /\ First(v) = RecordAt(w)  BY <1>1, <1>8
  <2>2. First(w) < First(v) /\ First(w) <= First(v)  BY <1>3, <1>4, <2>1, SMTT(40)
  <2> QED  BY <2>1, <2>2
<1> HIDE DEF j
<1> QED
  BY <1>1, <1>5, <1>6, <1>7, <1>8, <1>9, <1>10, <1>11, <1>12, <1>13, <1>14, FillStep, Zenon

\* Its length, with which read may have passed it already if the pad of an
\* earlier lap left it there.
LEMMA PadLengthStep ==
    ASSUME OneSize, RingInv, NEW p \in Producers, WritePadLength(p)
    PROVE  RingInv'
<1> USE CapacityAssumption
<1> DEFINE w == write[p]
           v == write'[p]
           j == Index(w.tail)
<1>1. IsFilling(w) /\ First(w) = RecordAt(w) /\ w.pc = "pad_length"
  BY SMTT(40) DEF WritePadLength, IsFilling, First
<1>2. w.type \in MsgTypes /\ Wraps(w)
  BY <1>1, SMTT(40) DEF RingInv, WriterInv
<1>3. /\ w.len = Size /\ Start(w.tail) /\ w.tail \in Nat /\ j \in Starts /\ j \in Units
      /\ Reached <= RecordAt(w) /\ Upper(w) <= tail
  BY <1>1, FillerFacts, StartsSpaced DEF Start
<1>4. /\ ExtentOf(j) = Contiguous(w.tail) /\ Contiguous(w.tail) \in 1 .. Capacity
      /\ j + Size > Capacity /\ RecordAt(w) \in Nat
  <2>1. Extent(w.tail) = Contiguous(w.tail) /\ Start(RecordAt(w))
    BY <1>2, <1>3, ClaimShape
  <2>2. Contiguous(w.tail) \in 1 .. Capacity  BY <1>3, IndexStep
  <2>3. Contiguous(w.tail) = Capacity - j  BY DEF Contiguous
  <2>4. Size > Contiguous(w.tail)  BY <1>2, <1>3 DEF Wraps
  <2>5. j \in Nat  BY <1>3 DEF Units
  <2> HIDE DEF j
  <2>6. j + Size > Capacity  BY <2>2, <2>3, <2>4, <2>5, SizeType
  <2> QED  BY <2>1, <2>2, <2>6, SMTT(40) DEF Extent, Start, j
<1>5. /\ v.pc = "payload" /\ v.len = w.len /\ v.tail = w.tail /\ v.type = w.type
      /\ \A q \in Producers \ {p} : write'[q] = write[q]
  BY DEF WritePadLength, RingInv, TypeOK
<1>6. /\ buffer'[j].type = buffer[j].type /\ buffer'[j].len = Contiguous(w.tail)
      /\ \A i \in Units : i = j \/ buffer'[i] = buffer[i]
  BY <1>3 DEF WritePadLength, RingInv, TypeOK, Cells
<1>7. TypeOK'
  <2>1. buffer' = [buffer EXCEPT ![j].len = Contiguous(w.tail)] /\ buffer \in [Units -> Cells]
    BY DEF WritePadLength, RingInv, TypeOK
  <2>2. Contiguous(w.tail) \in 0 .. Capacity  BY <1>4
  <2> HIDE DEF w, j
  <2>3. buffer' \in [Units -> Cells]  BY <1>3, <2>1, <2>2 DEF Cells
  <2> QED  BY <2>3 DEF WritePadLength, RingInv, TypeOK
<1>8. /\ RecordAt(v) = RecordAt(w) /\ Upper(v) = Upper(w)
      /\ First(v) = RecordAt(w) /\ IsFilling(v)
  BY <1>5 DEF RecordAt, Upper, Needed, Wraps, First, IsFilling
<1>9. UNCHANGED <<head, tail, read>> /\ Reached' = Reached /\ Reached \in Nat
  BY RingTypes, SMTT(40) DEF WritePadLength, Reached
<1>10. WriterInv(write[p])'
  <2>1. /\ v.len = Size /\ v.type \in MsgTypes /\ Start(v.tail)
        /\ Upper(v) <= tail' /\ Reached' <= First(v)
    BY <1>2, <1>3, <1>4, <1>5, <1>8, <1>9, SMTT(40)
  <2> QED  BY <1>5, <1>8, <2>1, SMTT(40) DEF WriterInv
<1>11. StartsInv'
  BY <1>4, <1>6, StartsSpaced, SMTT(40) DEF RingInv, StartsInv
<1>12. \A at : Start(at) /\ Index(at) + Size <= Capacity =>
             /\ PayloadAt(at) => PayloadAt(at)'
             /\ RecordWritten(at) => RecordWritten(at)'
  <2>1. \A at : Index(at) + Size <= Capacity => Index(at) # j
    BY <1>3, <1>4, SizeType DEF Units
  <2> QED  BY <1>3, <1>6, <2>1, OtherStart
<1>13. \A i \in Starts : buffer'[i].type = buffer[i].type
  BY <1>6, StartsSpaced
<1>14. buffer'[Index(First(w))].type = UNCOMMITTED
  BY <1>1, <1>13, ClaimedIsZero, FillerFacts DEF Start
<1>15. First(w) = First(v) /\ First(v) \in Nat  BY <1>1, <1>4, <1>8
<1>16. First(w) <= First(v)  BY <1>15, SMTT(40)
<1> QED
  BY <1>1, <1>5, <1>7, <1>8, <1>9, <1>10, <1>11, <1>12, <1>13, <1>14, <1>16, FillStep, Zenon

\* The payload, behind the header of the record.
LEMMA PayloadStep ==
    ASSUME OneSize, RingInv, NEW p \in Producers, WritePayload(p)
    PROVE  RingInv'
<1> USE CapacityAssumption
<1> DEFINE w == write[p]
           v == write'[p]
           r == RecordAt(w)
           j == Index(r)
<1>1. IsFilling(w) /\ First(w) = r /\ w.pc = "payload"
  BY SMTT(40) DEF WritePayload, IsFilling, First
<1>2. w.type \in MsgTypes
  BY <1>1, ZenonT(40) DEF RingInv, WriterInv
<1>3. /\ w.len = Size /\ Start(w.tail) /\ Start(r) /\ r \in Nat /\ j \in Starts /\ j \in Units
      /\ Reached <= r /\ Upper(w) <= tail /\ j + Size <= Capacity
  BY <1>1, FillerFacts, StartsSpaced DEF Start
<1>4. Size \in Nat \ {0} /\ j \in Nat /\ Starts \subseteq Units
  BY <1>3, SizeType, StartsSpaced DEF Units
<1>5. /\ v.pc = "length" /\ v.len = w.len /\ v.tail = w.tail /\ v.type = w.type
      /\ \A q \in Producers \ {p} : write'[q] = write[q]
  BY DEF WritePayload, RingInv, TypeOK
<1>6. buffer' = [i \in Units |-> IF j < i /\ i < j + Size
                                 THEN [type |-> PAYLOAD, len |-> 0, at |-> r]
                                 ELSE buffer[i]]
  BY <1>3 DEF WritePayload
<1>7. TypeOK'
  <2>1. [type |-> PAYLOAD, len |-> 0, at |-> r] \in Cells  BY <1>3 DEF Cells
  <2>2. buffer' \in [Units -> Cells]  BY <1>6, <2>1 DEF RingInv, TypeOK
  <2> QED  BY <2>2 DEF WritePayload, RingInv, TypeOK
<1>8. /\ RecordAt(v) = r /\ Upper(v) = Upper(w)
      /\ First(v) = r /\ IsFilling(v)
  BY <1>5 DEF RecordAt, Upper, Needed, Wraps, First, IsFilling
<1>9. UNCHANGED <<head, tail, read>> /\ Reached' = Reached /\ Reached \in Nat
  BY RingTypes, SMTT(40) DEF WritePayload, Reached
<1>10. \A i \in Units : ~(j < i /\ i < j + Size) => buffer'[i] = buffer[i]
  BY <1>6, SMTT(40)
<1>11. \A i \in Starts : buffer'[i] = buffer[i]
  <2>1. \A i \in Starts : ~(j < i /\ i < j + Size)
    BY <1>3, <1>4, StartsSpaced DEF Units
  <2> QED  BY <1>4, <1>10, <2>1
<1> HIDE DEF j, r
<1>12. StartsInv'
  BY <1>11, SMTT(40) DEF RingInv, StartsInv
<1>13. \A at : at = r => PayloadAt(at)'
  BY <1>6, SMTT(40) DEF PayloadAt, j
<1>14. WriterInv(write[p])'
  <2>1. RecordAt(write'[p]) = r /\ PayloadAt(RecordAt(write[p]))'
    BY <1>8, <1>13
  <2> QED  BY <1>2, <1>3, <1>5, <1>8, <1>9, <2>1 DEF WriterInv, Start, IsFilling
<1>15. \A at : Start(at) /\ Index(at) # j /\ Index(at) + Size <= Capacity =>
             /\ PayloadAt(at) => PayloadAt(at)'
             /\ RecordWritten(at) => RecordWritten(at)'
  <2> SUFFICES ASSUME NEW at, Start(at), Index(at) # j, Index(at) + Size <= Capacity
               PROVE  /\ PayloadAt(at) => PayloadAt(at)'
                      /\ RecordWritten(at) => RecordWritten(at)'
    OBVIOUS
  <2>0. Index(at) \in Starts  BY DEF Start
  <2> DEFINE k == Index(at)
  <2>1. k \in Starts /\ k \in Nat
    <3>1. k \in Units  BY <1>4, <2>0
    <3> HIDE DEF k
    <3> QED  BY <2>0, <3>1 DEF Units, k
  <2>2. Index(at) + Size <= j \/ j + Size <= Index(at)
    BY <1>3, <1>4, <2>1, StartsSpaced
  <2>3. \A i \in Units : Index(at) < i /\ i < Index(at) + Size => buffer'[i] = buffer[i]
    BY <1>4, <1>10, <2>1, <2>2 DEF Units
  <2>4. PayloadAt(at) => PayloadAt(at)'  BY <2>3 DEF PayloadAt
  <2> QED  BY <1>11, <2>1, <2>4 DEF RecordWritten
<1>16. buffer'[Index(First(w))].type = UNCOMMITTED /\ j = Index(First(w))
  BY <1>1, <1>3, <1>11, ClaimedIsZero DEF j
<1>17. First(w) <= First(v)  BY <1>1, <1>3, <1>8, SMTT(40)
<1> QED
  BY <1>1, <1>5, <1>7, <1>8, <1>9, <1>11, <1>12, <1>14, <1>15, <1>16, <1>17, FillStep, Zenon

\* record_length, the first word of the header.
LEMMA LengthStep ==
    ASSUME OneSize, RingInv, NEW p \in Producers, WriteLength(p)
    PROVE  RingInv'
<1> USE CapacityAssumption
<1> DEFINE w == write[p]
           v == write'[p]
           r == RecordAt(w)
           j == Index(r)
<1>1. IsFilling(w) /\ First(w) = r /\ w.pc = "length"
  BY SMTT(40) DEF WriteLength, IsFilling, First
<1>2. w.type \in MsgTypes /\ PayloadAt(r)
  BY <1>1, ZenonT(40) DEF RingInv, WriterInv
<1>3. /\ w.len = Size /\ Start(w.tail) /\ Start(r) /\ r \in Nat /\ j \in Starts /\ j \in Units
      /\ Reached <= r /\ Upper(w) <= tail /\ j + Size <= Capacity
  BY <1>1, FillerFacts, StartsSpaced DEF Start
<1>4. Size \in Nat \ {0} /\ Size <= Capacity /\ Starts \subseteq Units
  BY SizeType, StartsSpaced
<1>5. /\ v.pc = "commit" /\ v.len = w.len /\ v.tail = w.tail /\ v.type = w.type
      /\ \A q \in Producers \ {p} : write'[q] = write[q]
  BY DEF WriteLength, RingInv, TypeOK
<1>6. /\ buffer' = [buffer EXCEPT ![j].len = Size, ![j].at = r]
      /\ buffer \in [Units -> Cells]
  BY <1>3 DEF WriteLength, RingInv, TypeOK
<1>8. /\ RecordAt(v) = r /\ Upper(v) = Upper(w)
      /\ First(v) = r /\ IsFilling(v)
  BY <1>5 DEF RecordAt, Upper, Needed, Wraps, First, IsFilling
<1>9. UNCHANGED <<head, tail, read>> /\ Reached' = Reached /\ Reached \in Nat
  BY RingTypes DEF WriteLength, Reached
<1> HIDE DEF r
<1>10. First(w) <= First(v) /\ j = Index(First(w))
  <2>1. First(w) = r /\ First(v) = r /\ r \in Nat  BY <1>1, <1>3, <1>8
  <2>2. First(w) <= First(v)  BY <2>1
  <2> QED  BY <2>1, <2>2
<1> HIDE DEF j
<1>7. TypeOK'
  <2> DEFINE c == [buffer[j] EXCEPT !.len = Size, !.at = r]
  <2>1. buffer' = [buffer EXCEPT ![j] = c]  BY <1>3, <1>6, Zenon
  <2>0. buffer[j] \in Cells  BY <1>3, <1>6
  <2>2. c \in Cells
    <3>1. \A b \in Cells, s \in 0 .. Capacity, a \in Nat :
            [b EXCEPT !.len = s, !.at = a] \in Cells
      BY Zenon DEF Cells
    <3>2. Size \in 0 .. Capacity  BY <1>4
    <3> QED  BY <1>3, <2>0, <3>1, <3>2, Zenon
  <2> HIDE DEF c
  <2>3. buffer' \in [Units -> Cells]  BY <1>6, <2>1, <2>2, Zenon
  <2> QED  BY <2>3 DEF WriteLength, RingInv, TypeOK
<1>11. /\ buffer'[j].type = buffer[j].type /\ buffer'[j].len = Size /\ buffer'[j].at = r
       /\ \A i \in Units : i = j \/ buffer'[i] = buffer[i]
  BY <1>3, <1>6 DEF Cells
<1>12. ExtentOf(j) = Size  BY <1>3 DEF ExtentOf
<1>13. StartsInv'
  BY <1>4, <1>11, <1>12 DEF RingInv, StartsInv
<1>14. \A at : at = r => PayloadAt(at)' /\ RecordWritten(at)'
  BY <1>2, <1>3, <1>11, SMTT(40) DEF PayloadAt, RecordWritten, j, Units
<1>15. WriterInv(write[p])'
  <2>1. /\ RecordAt(write'[p]) = r /\ PayloadAt(RecordAt(write[p]))'
        /\ RecordWritten(RecordAt(write[p]))'
    BY <1>8, <1>14, SMTT(40)
  <2> QED  BY <1>2, <1>3, <1>5, <1>8, <1>9, <2>1, SMTT(40) DEF WriterInv, Start, IsFilling
<1>16. \A at : Start(at) /\ Index(at) # j =>
             /\ PayloadAt(at) => PayloadAt(at)'
             /\ RecordWritten(at) => RecordWritten(at)'
  BY <1>3, <1>11, OtherStart
<1>17. \A i \in Starts : buffer'[i].type = buffer[i].type
  BY <1>4, <1>11
<1>18. buffer'[Index(First(w))].type = UNCOMMITTED
  BY <1>1, <1>3, <1>10, <1>17, ClaimedIsZero, SMTT(40)
<1> QED
  BY <1>1, <1>5, <1>7, <1>8, <1>9, <1>10, <1>13, <1>15, <1>16, <1>17, <1>18, FillStep, Zenon

\* msg_type, which lets read see the record.
LEMMA TypeStep ==
    ASSUME OneSize, RingInv, NEW p \in Producers, WriteType(p)
    PROVE  RingInv'
<1> USE CapacityAssumption
<1> DEFINE w == write[p]
           v == write'[p]
           r == RecordAt(w)
           j == Index(r)
<1>1. IsFilling(w) /\ First(w) = r /\ w.pc = "commit"
  BY SMTT(40) DEF WriteType, IsFilling, First
<1>2. w.type \in MsgTypes /\ w.type \in Nat /\ RecordWritten(r)
  BY <1>1, MsgTypesAssumption, ZenonT(40) DEF RingInv, WriterInv
<1>3. /\ Start(r) /\ r \in Nat /\ j \in Starts /\ j \in Units
  BY <1>1, FillerFacts, StartsSpaced DEF Start
<1>5. /\ v.pc = "idle"
      /\ \A q \in Producers \ {p} : write'[q] = write[q]
  BY DEF WriteType, WriteIdle, RingInv, TypeOK
<1>6. /\ buffer' = [buffer EXCEPT ![j].type = w.type]
      /\ buffer \in [Units -> Cells]
  BY DEF WriteType, RingInv, TypeOK
<1>9. UNCHANGED <<head, tail, read>>
  BY DEF WriteType
<1>10. j = Index(First(w))  BY <1>1
<1> HIDE DEF j, r
<1>7. TypeOK'
  <2>1. buffer' \in [Units -> Cells]  BY <1>2, <1>3, <1>6 DEF Cells
  <2> QED  BY <2>1 DEF WriteType, WriteIdle, RingInv, TypeOK
<1>11. /\ buffer'[j].type = w.type /\ buffer'[j].len = buffer[j].len
       /\ buffer'[j].at = buffer[j].at
       /\ \A i \in Units : i = j \/ buffer'[i] = buffer[i]
  BY <1>3, <1>6 DEF Cells
<1>13. StartsInv'
  <2>1. buffer'[j].type # PAYLOAD  BY <1>2, <1>11 DEF PAYLOAD
  <2>2. ASSUME NEW i \in Starts
        PROVE  buffer'[i].type # PAYLOAD /\ buffer'[i].len \in {0, ExtentOf(i)}
    <3>1. i \in Units  BY StartsSpaced
    <3>2. buffer[i].type # PAYLOAD /\ buffer[i].len \in {0, ExtentOf(i)}
      BY DEF RingInv, StartsInv
    <3> QED  BY <1>11, <2>1, <3>1, <3>2
  <2> QED  BY <2>2 DEF StartsInv
<1>14. \A at : at = r => RecordWritten(at)'
  BY <1>2, <1>3, <1>11, SMTT(40) DEF PayloadAt, RecordWritten, j, Units
<1>15. WriterInv(write[p])' /\ ~IsFilling(write'[p])
  BY <1>5 DEF WriterInv, IsFilling
<1>16. \A at : Start(at) /\ Index(at) # j =>
             /\ PayloadAt(at) => PayloadAt(at)'
             /\ RecordWritten(at) => RecordWritten(at)'
  BY <1>3, <1>11, OtherStart
<1>17. \A i \in Starts : i = j \/ buffer'[i].type = buffer[i].type
  BY <1>11, StartsSpaced
<1> QED
  BY <1>1, <1>5, <1>7, <1>9, <1>10, <1>13, <1>14, <1>15, <1>16, <1>17, FillStep, Zenon

-----------------------------------------------------------------------------
(* read. *)

\* A step of read that moves no record and no cursor.
LEMMA CursorStep ==
    ASSUME RingInv, TypeOK', UNCHANGED <<buffer, tail, write>>,
           Reached' = Reached, head <= head', head' <= Reached, Start(head'), ReadInv'
    PROVE  RingInv'
<1> USE CapacityAssumption
<1>1. /\ head \in Nat /\ tail \in Nat /\ head' \in Nat /\ Reached \in Nat
      /\ Reached <= tail /\ tail <= head + Capacity
  BY RingTypes DEF RingInv, TypeOK, PositionInv
<1>2. PositionInv'
  <2>1. head' <= Reached' /\ Reached' <= tail' /\ tail' <= head' + Capacity
    <3>1. tail' = tail /\ Reached' = Reached /\ head <= head' /\ head' <= Reached  OBVIOUS
    <3> DEFINE a == Reached
               b == Reached'
    <3>2. a = b /\ a \in Nat /\ a <= tail /\ head' <= a  BY <1>1, <3>1
    <3> HIDE DEF a, b
    <3>3. head' <= b /\ b <= tail'  BY <3>1, <3>2
    <3>4. tail' <= head' + Capacity
      <4> DEFINE h == head'
      <4>1. h \in Nat /\ head <= h  BY <1>1, <3>1
      <4> HIDE DEF h
      <4>2. tail <= h + Capacity  BY <1>1, <4>1
      <4> QED  BY <3>1, <4>2 DEF h
    <3> QED  BY <3>3, <3>4 DEF b
  <2>2. Start(tail)' /\ Start(head)'  BY SMTT(40) DEF RingInv, PositionInv, Start
  <2> QED  BY <2>1, <2>2 DEF PositionInv
<1>3. ASSUME NEW p \in Producers PROVE WriterInv(write[p])'
  <2>1. WriterInv(write[p]) /\ write' = write /\ write[p].head \in Nat
    BY DEF RingInv, TypeOK
  <2>2. write[p].pc = "claim" => write[p].head <= head'
    <3> DEFINE h == head'
    <3>1. h \in Nat /\ head <= h  BY <1>1, SMTT(40)
    <3>2. write[p].pc = "claim" => write[p].head <= head  BY <2>1 DEF WriterInv
    <3> HIDE DEF h
    <3>3. write[p].pc = "claim" => write[p].head <= h  BY <1>1, <2>1, <3>1, <3>2
    <3> QED  BY <3>3 DEF h
  <2>3. \A at : (PayloadAt(at)' <=> PayloadAt(at)) /\ (RecordWritten(at)' <=> RecordWritten(at))
    BY SMTT(40) DEF PayloadAt, RecordWritten
  <2> QED  BY <2>1, <2>2, <2>3, Zenon DEF WriterInv
<1>4. StartsInv' /\ CommittedInv'
  BY DEF RingInv, StartsInv, CommittedInv, RecordWritten, PayloadAt
<1>5. \A p, q \in Producers : p = q \/ Apart(write[p], write[q])'
  BY DEF RingInv, Apart
<1> QED  BY <1>2, <1>3, <1>4, <1>5 DEF RingInv

\* The steps of read but the delivery of a record.
LEMMA ReadStep ==
    ASSUME OneSize, RingInv,
           ReadBegin \/ ReadType \/ ReadLength \/ ReadAll \/ StoreHead
    PROVE  RingInv'
<1> USE CapacityAssumption
<1>1. /\ head \in Nat /\ tail \in Nat /\ Reached \in Nat
      /\ head <= Reached /\ Reached <= tail /\ tail <= Reached + Capacity
      /\ Start(head) /\ Start(tail)
  BY RingTypes DEF RingInv, PositionInv
<1>2. CASE ReadBegin
  <2>1. TypeOK'  BY <1>2, Zenon DEF ReadBegin, ReadIdle, RingInv, TypeOK, UNCOMMITTED
  <2>2. Reached' = Reached  BY <1>2 DEF ReadBegin, ReadIdle, Reached
  <2>3. ReadInv'
    <3>1. read'.pc = "type" /\ read'.current = head /\ read'.tail = tail /\ tail' = tail
      BY <1>2 DEF ReadBegin, ReadIdle
    <3>2. head <= tail  BY <1>1
    <3> QED  BY <1>1, <3>1, <3>2 DEF ReadInv
  <2> QED  BY <1>1, <1>2, <2>1, <2>2, <2>3, CursorStep DEF ReadBegin
<1>3. CASE ReadType
  <2>1. read.pc = "type" /\ Start(read.current) /\ Reached = read.current
    BY <1>3, Zenon DEF ReadType, RingInv, ReadInv, Reached
  <2>2. Index(read.current) \in Starts /\ Starts \subseteq Units
    BY <2>1, StartsSpaced DEF Start
  <2>3. ReadCell \in Cells /\ ReadCell.type # PAYLOAD
    BY <2>2 DEF ReadCell, RingInv, TypeOK, StartsInv
  <2>4. TypesRead(ReadCell) = {ReadCell.type}
    BY <2>3 DEF TypesRead
  <2>5. PICK pc \in {"store", "length"} :
          /\ read' = [read EXCEPT !.pc = pc, !.type = ReadCell.type]
          /\ pc = "length" => ReadCell.type # UNCOMMITTED
          /\ UNCHANGED <<buffer, head, tail, write>>
          /\ read.current # read.tail
    BY <1>3, <2>4, Zenon DEF ReadType
  <2>6. TypeOK'
    <3>1. ReadCell.type \in MsgTypes \cup {UNCOMMITTED, MSG_TYPE_PADDING}
      BY <2>3 DEF Cells
    <3> QED  BY <2>5, <3>1, Zenon DEF RingInv, TypeOK
  <2>7. /\ read'.pc = pc /\ read'.type = ReadCell.type /\ read'.current = read.current
        /\ read'.tail = read.tail /\ ReadCell' = ReadCell
        /\ read.current \in Nat /\ read.tail \in Nat /\ read.current <= read.tail
    BY <2>1, <2>5 DEF RingInv, TypeOK, ReadCell, ReadInv
  <2>8. Reached' = Reached  BY <2>1, <2>5, <2>7 DEF Reached
  <2>9. ReadInv'
    <3>1. read.current < read.tail  BY <2>5, <2>7
    <3>2. /\ Start(read.current) /\ Start(read.tail) /\ read.tail <= tail
      BY <2>1 DEF RingInv, ReadInv
    <3> QED  BY <2>5, <2>7, <3>1, <3>2 DEF ReadInv
  <2> QED  BY <1>1, <2>5, <2>6, <2>8, <2>9, CursorStep
<1>4. CASE ReadLength
  <2>1. /\ read.pc = "length" /\ Start(read.current) /\ Reached = read.current
        /\ read.current < read.tail /\ ReadCell.type = read.type /\ read.type # UNCOMMITTED
        /\ read.tail <= tail /\ Start(read.tail)
    BY <1>4, Zenon DEF ReadLength, RingInv, ReadInv, Reached
  <2>2. Index(read.current) \in Starts /\ Starts \subseteq Units
    BY <2>1, StartsSpaced DEF Start
  <2>3. /\ ReadCell \in Cells /\ ReadCell.type # PAYLOAD
        /\ ReadCell.len \in {0, Extent(read.current)}
    BY <2>2 DEF ReadCell, RingInv, TypeOK, StartsInv, Extent
  <2>4. LengthsRead(ReadCell) = {ReadCell.len}
    BY <2>3 DEF LengthsRead
  <2>5. /\ read' = [read EXCEPT !.pc = "deliver", !.len = ReadCell.len]
        /\ UNCHANGED <<buffer, head, tail, write>>
    BY <1>4, <2>4, Zenon DEF ReadLength
  <2>6. TypeOK'
    <3>1. ReadCell.len \in Nat  BY <2>3 DEF Cells
    <3> QED  BY <2>5, <3>1, Zenon DEF RingInv, TypeOK
  <2>7. /\ read'.pc = "deliver" /\ read'.type = read.type /\ read'.current = read.current
        /\ read'.tail = read.tail /\ read'.len = ReadCell.len /\ ReadCell' = ReadCell
    BY <2>5 DEF RingInv, TypeOK, ReadCell
  <2>8. Reached' = Reached  BY <2>1, <2>5, <2>7 DEF Reached
  <2>9. read.type # MSG_TYPE_PADDING => ReadCell.len = Size
    <3>1. Reached \in Reached .. Reached + Capacity - 1  BY <1>1, SMTT(40)
    <3>2. read.type # MSG_TYPE_PADDING => RecordWritten(Reached)
      BY <2>1, <3>1 DEF RingInv, CommittedInv, ReadCell
    <3> QED  BY <2>1, <3>2 DEF RecordWritten, ReadCell
  <2>10. ReadInv'
    <3>1. Extent(read.current)' = Extent(read.current)
      BY <2>7 DEF Extent
    <3>2. read.current <= read.tail
      BY <2>1 DEF RingInv, TypeOK
    <3> QED  BY <2>1, <2>3, <2>5, <2>7, <2>9, <3>1, <3>2 DEF ReadInv
  <2> QED  BY <1>1, <2>5, <2>6, <2>8, <2>10, CursorStep
<1>5. CASE ReadAll
  <2>1. TypeOK'  BY <1>5 DEF ReadAll, RingInv, TypeOK
  <2>2. Reached' = Reached  BY <1>5 DEF ReadAll, Reached, RingInv, TypeOK
  <2>3. ReadInv'  BY <1>5 DEF ReadAll, RingInv, ReadInv, TypeOK
  <2> QED  BY <1>1, <1>5, <2>1, <2>2, <2>3, CursorStep DEF ReadAll
<1>6. CASE StoreHead
  <2>1. TypeOK'  BY <1>6 DEF StoreHead, ReadIdle, RingInv, TypeOK, UNCOMMITTED
  <2>2. Reached' = Reached /\ head' = Reached  BY <1>6 DEF StoreHead, ReadIdle, Reached
  <2>3. ReadInv'  BY <1>6, SMTT(40) DEF StoreHead, ReadIdle, ReadInv
  <2>4. Start(Reached)  BY <1>6 DEF StoreHead, RingInv, ReadInv, Reached
  <2> QED  BY <1>1, <1>6, <2>1, <2>2, <2>3, <2>4, CursorStep, SMTT(40) DEF StoreHead
<1> QED  BY <1>2, <1>3, <1>4, <1>5, <1>6, SMTT(40)

\* The delivery of a record: the unit it started in is cleared, and the next
\* lap's record may now be written there.
LEMMA DeliverStep ==
    ASSUME OneSize, RingInv, Deliver
    PROVE  RingInv'
<1> USE CapacityAssumption
<1> DEFINE c == read.current
           n == read.len
           j == Index(c)
<1>1. /\ Start(c) /\ Start(read.tail) /\ c < read.tail /\ read.tail <= tail
      /\ read.type # UNCOMMITTED /\ buffer[j].type = read.type
      /\ n \in {0, Extent(c)} /\ Reached = c
  BY SMTT(40) DEF Deliver, RingInv, ReadInv, ReadCell, Reached
<1>2. /\ c \in Nat /\ n \in Nat /\ j \in Starts /\ j \in Units
      /\ head \in Nat /\ tail \in Nat /\ read.tail \in Nat
      /\ head <= c /\ tail <= c + Capacity /\ tail <= head + Capacity
  BY <1>1, RingTypes, StartsSpaced DEF Start, RingInv, PositionInv
<1>3. Extent(c) \in Nat /\ Start(c + Extent(c)) /\ c + Extent(c) <= read.tail
  BY <1>1, NextStart, StartsApart
<1>4. /\ buffer' = [buffer EXCEPT ![j].type = UNCOMMITTED]
      /\ buffer \in [Units -> Cells]
      /\ read'.pc = "type" /\ read'.current = c + n /\ read'.tail = read.tail
      /\ UNCHANGED <<head, tail, write>>
  BY DEF Deliver, RingInv, TypeOK
<1>5. Reached' = c + n  BY <1>4, SMTT(40) DEF Reached
<1> DEFINE d == c + n
           W == Reached'
<1>6. /\ d \in Nat /\ c <= d /\ Start(d) /\ d <= read.tail /\ d <= tail
  BY <1>1, <1>2, <1>3
<1>7. /\ buffer'[j].type = UNCOMMITTED /\ buffer'[j].len = buffer[j].len
      /\ \A i \in Units : i = j \/ buffer'[i] = buffer[i]
  BY <1>2, <1>4 DEF Cells
<1>8. TypeOK'
  <2>1. \A b \in Cells : [b EXCEPT !.type = UNCOMMITTED] \in Cells  BY DEF Cells
  <2>2. buffer' \in [Units -> Cells]  BY <1>2, <1>4, <2>1
  <2>3. read' \in [pc : {"idle", "type", "length", "deliver", "store"}, current : Nat,
                  tail : Nat, type : MsgTypes \cup {UNCOMMITTED, MSG_TYPE_PADDING}, len : Nat]
    <3>1. read' = [read EXCEPT !.pc = "type", !.current = d]  BY DEF Deliver
    <3> HIDE DEF d
    <3> QED  BY <1>6, <3>1, Zenon DEF RingInv, TypeOK
  <2> QED  BY <1>4, <2>2, <2>3 DEF RingInv, TypeOK
<1>9. PositionInv'
  <2>1. head <= d /\ d <= tail  BY <1>2, <1>6
  <2> HIDE DEF d
  <2>2. head' <= Reached' /\ Reached' <= tail' /\ tail' <= head' + Capacity
    BY <1>2, <1>4, <1>5, <2>1 DEF d
  <2> QED  BY <1>4, <2>2 DEF RingInv, PositionInv, Start
<1>10. ReadInv'
  BY <1>1, <1>4, <1>6 DEF ReadInv
<1>11. StartsInv'
  BY <1>2, <1>7, StartsSpaced DEF RingInv, StartsInv, UNCOMMITTED, PAYLOAD
<1>12. \A at : Start(at) /\ Index(at) # j =>
             /\ PayloadAt(at) => PayloadAt(at)'
             /\ RecordWritten(at) => RecordWritten(at)'
  BY <1>2, <1>7, OtherStart
<1>13. \A at \in c .. c + Capacity - 1 : at # c => Index(at) # j
  BY <1>2, IndexApart
<1>14. ASSUME NEW q \in Producers, IsFilling(write[q])
       PROVE  d <= First(write[q]) /\ Index(RecordAt(write[q])) # j
  <2> DEFINE f == First(write[q])
             r == RecordAt(write[q])
             u == Upper(write[q])
  <2>1. /\ Start(f) /\ f \in Nat /\ u \in Nat /\ c <= f /\ f < u /\ u <= tail
        /\ Start(r) /\ r \in Nat /\ u = r + Size
    BY <1>1, <1>14, FillerFacts DEF Start
  <2>2. c \in Reached .. Reached + Capacity - 1
    <3> HIDE DEF c
    <3>1. c \in c .. c + Capacity - 1  BY <1>2, SMTT(40)
    <3> QED  BY <1>1, <3>1
  <2>3. c < f \/ u <= c
    BY <1>1, <1>14, <2>2, SMTT(40) DEF RingInv, CommittedInv
  <2>4. f <= r
    <3>1. r = f \/ f = write[q].tail  BY SMTT(40) DEF First
    <3>2. write[q].tail <= r
      BY <1>14, FillerFacts, ClaimShape
    <3> QED  BY <2>1, <3>1, <3>2
  <2> HIDE DEF f, r, u
  <2>5. c < f  BY <1>2, <2>1, <2>3
  <2>6. c + Extent(c) <= f  BY <1>1, <2>1, <2>5, StartsApart
  <2>7. d <= f
    <3>1. CASE n = 0  BY <1>2, <2>1, <2>5, <3>1
    <3>2. CASE n = Extent(c)  BY <2>6, <3>2
    <3> QED  BY <1>1, <3>1, <3>2
  <2>8. c < r /\ r < c + Capacity
    BY <1>2, <2>1, <2>4, <2>5, SizeType
  <2>9. Index(r) # j  BY <1>2, <1>13, <2>1, <2>8
  <2> QED  BY <2>7, <2>9, SMTT(40) DEF f, r
<1>15. ASSUME NEW q \in Producers PROVE WriterInv(write[q])'
  <2>1. WriterInv(write[q]) /\ write' = write  BY <1>4 DEF RingInv
  <2>2. IsFilling(write[q]) => Reached' <= First(write[q])  BY <1>5, <1>14, SMTT(40)
  <2>3. IsFilling(write[q]) => /\ Start(RecordAt(write[q]))
                               /\ Index(RecordAt(write[q])) # j
    BY <1>14, FillerFacts
  <2>4. \A at : at = RecordAt(write[q]) /\ IsFilling(write[q]) =>
             /\ PayloadAt(at) => PayloadAt(at)'
             /\ RecordWritten(at) => RecordWritten(at)'
    BY <1>12, <2>3
  <2>5. RecordAt(write'[q]) = RecordAt(write[q])  BY <2>1, SMTT(40)
  <2>6. write[q].pc \in {"length", "commit"} => PayloadAt(RecordAt(write[q]))'
    BY <2>1, <2>4, <2>5, ZenonT(40) DEF WriterInv, IsFilling
  <2>7. write[q].pc = "commit" => RecordWritten(RecordAt(write[q]))'
    BY <2>1, <2>4, <2>5 DEF WriterInv, IsFilling
  <2> QED  BY <1>4, <2>1, <2>2, <2>6, <2>7 DEF WriterInv
<1>16. \A p, q \in Producers : p = q \/ Apart(write[p], write[q])'
  BY <1>4 DEF RingInv, Apart
<1>17. CommittedInv'
  <2> SUFFICES ASSUME NEW at \in Nat, d <= at, at < d + Capacity, Start(at),
                      buffer'[Index(at)].type # UNCOMMITTED
               PROVE  /\ at < tail
                      /\ \A q \in Producers : IsFilling(write[q]) =>
                           at < First(write[q]) \/ Upper(write[q]) <= at
                      /\ buffer'[Index(at)].type # MSG_TYPE_PADDING => RecordWritten(at)'
    BY <1>4, <1>5, <1>6 DEF CommittedInv, Start
  <2>1. Index(at) # j /\ Index(at) \in Units
    BY <1>7, StartsSpaced DEF Start
  <2>2. ASSUME at >= c + Capacity PROVE FALSE
    <3> DEFINE b == at - Capacity
    <3>1. b \in Nat /\ c <= b /\ b < d /\ b + Capacity = at  BY <1>2, <1>6, <2>2
    <3> HIDE DEF b
    <3>2. Index(b) = Index(at)  BY <3>1, IndexLap
    <3>3. Start(b)  BY <3>1, <3>2 DEF Start
    <3>4. b # c  BY <2>1, <3>2
    <3>5. c + Extent(c) <= b  BY <1>1, <1>2, <3>1, <3>3, <3>4, StartsApart, SMTT(40)
    <3> QED  BY <1>1, <1>2, <1>3, <3>1, <3>4, <3>5
  <2>3. at \in Reached .. Reached + Capacity - 1  BY <1>1, <1>2, <1>6, <2>2, SMTT(40)
  <2>4. buffer'[Index(at)] = buffer[Index(at)]  BY <1>7, <2>1, SMTT(40)
  <2>5. /\ at < tail
        /\ \A q \in Producers : IsFilling(write[q]) =>
             at < First(write[q]) \/ Upper(write[q]) <= at
        /\ buffer[Index(at)].type # MSG_TYPE_PADDING => RecordWritten(at)
    BY <2>3, <2>4 DEF RingInv, CommittedInv
  <2> QED  BY <1>12, <2>1, <2>4, <2>5
<1> QED  BY <1>8, <1>9, <1>10, <1>11, <1>15, <1>16, <1>17 DEF RingInv

\* The ring of an empty file.
LEMMA RingInit ==
    ASSUME OneSize, Init
    PROVE  RingInv
<1> USE CapacityAssumption
<1>1. TypeOK
  <2>1. buffer \in [Units -> Cells]  BY DEF Init, Cells, UNCOMMITTED
  <2>2. WriteIdle \in Locals  BY DEF WriteIdle, Locals
  <2>3. write \in [Producers -> Locals]  BY <2>2 DEF Init
  <2> QED  BY <2>1, <2>3 DEF Init, TypeOK, Locals, ReadIdle, UNCOMMITTED
<1>2. Start(0)
  <2>1. Index(0) = 0  BY Remainder DEF Index
  <2> QED  BY <2>1, StartsSpaced DEF Start
<1>3. PositionInv /\ ReadInv
  BY <1>2, SMTT(40) DEF Init, PositionInv, ReadInv, Reached, ReadIdle
<1>4. \A p \in Producers : WriterInv(write[p]) /\ ~IsFilling(write[p])
  BY Zenon DEF Init, WriterInv, IsFilling, WriteIdle
<1>5. \A p, q \in Producers : Apart(write[p], write[q])
  BY <1>4 DEF Apart
<1>6. \A i \in Units : buffer[i].type = UNCOMMITTED /\ buffer[i].len = 0
  BY DEF Init
<1>7. StartsInv
  BY <1>6, StartsSpaced DEF StartsInv, UNCOMMITTED, PAYLOAD
<1>8. CommittedInv
  BY <1>6, StartsSpaced DEF CommittedInv, Start
<1> QED  BY <1>1, <1>3, <1>4, <1>5, <1>7, <1>8 DEF RingInv

\* Every step of write and of read keeps the invariant.
LEMMA RingStep ==
    ASSUME OneSize, RingInv, [Next]_vars
    PROVE  RingInv'
<1>1. CASE Consumer
  BY <1>1, ReadStep, DeliverStep DEF Consumer
<1>2. ASSUME NEW p \in Producers, Producer(p) PROVE RingInv'
  BY <1>2, BeforeClaim, ClaimStep, PadTypeStep, PadLengthStep, PayloadStep, LengthStep,
     TypeStep DEF Producer, Fill
<1>3. CASE UNCHANGED vars
  <2>1. UNCHANGED <<buffer, head, tail, write, read>>  BY <1>3 DEF vars
  <2>2. TypeOK' /\ Reached' = Reached  BY <2>1, SMTT(40) DEF RingInv, TypeOK, Reached
  <2>3. ReadInv'
    BY <2>1 DEF RingInv, ReadInv, ReadCell
  <2>4. head <= head' /\ head' <= Reached /\ Start(head')
    <3>1. head \in Nat /\ head <= Reached /\ Start(head)
      BY RingTypes DEF RingInv, PositionInv
    <3> QED  BY <2>1, <3>1
  <2> QED  BY <2>1, <2>2, <2>3, <2>4, CursorStep
<1> QED  BY <1>1, <1>2, <1>3 DEF Next

\* The inductive invariant holds in every reachable state.
THEOREM RingInvariant == ASSUME OneSize PROVE Spec => []RingInv
<1>1. Init => RingInv  BY RingInit
<1>2. RingInv /\ [Next]_vars => RingInv'  BY RingStep
<1> QED  BY <1>1, <1>2, PTL DEF Spec

-----------------------------------------------------------------------------
(* What the invariant says of write and read. *)

\* Producers have exclusive access to what they claimed, as the safety comments
\* of write say.
THEOREM ExclusiveClaims == ASSUME OneSize PROVE Spec => []ClaimsExclusive
<1>1. RingInv => ClaimsExclusive
  <2> SUFFICES ASSUME RingInv PROVE ClaimsExclusive  OBVIOUS
  <2>1. /\ head \in Nat /\ tail \in Nat /\ Reached \in Nat /\ head <= Reached
        /\ tail <= head + Capacity
    BY RingTypes, SMTT(40) DEF RingInv, PositionInv
  <2>2. ASSUME NEW p \in Producers, Filling(p)
        PROVE  /\ IsFilling(write[p])
               /\ Claim(p) = First(write[p]) .. Upper(write[p]) - 1
               /\ First(write[p]) \in Nat /\ Upper(write[p]) \in Nat
               /\ Reached <= First(write[p]) /\ Upper(write[p]) <= tail
    <3>1. IsFilling(write[p])  BY <2>2 DEF Filling, IsFilling
    <3>2. Claim(p) = First(write[p]) .. Upper(write[p]) - 1
      <4> DEFINE w == write[p]
      <4>0. w.len = Size /\ Start(w.tail)  BY <3>1, FillerFacts
      <4>1. w.tail \in Nat /\ Needed(w) \in Nat
        <5>1. Needed(w) \in 1 .. Capacity  BY <4>0, ClaimShape
        <5> QED  BY <4>0, <5>1, SMTT(40) DEF Start
      <4>2. w.tail + (Needed(w) - 1) = Upper(w) - 1  BY <4>1 DEF Upper
      <4> QED  BY <4>2, Zenon DEF Claim, First
    <3> QED  BY <3>1, <3>2, FillerFacts
  <2>3. ASSUME NEW p \in Producers, Filling(p)
        PROVE  Claim(p) \subseteq head .. tail - 1
    BY <2>1, <2>2, <2>3
  <2>4. ASSUME NEW p \in Producers, NEW q \in Producers \ {p}, Filling(p), Filling(q)
        PROVE  Claim(p) \cap Claim(q) = {}
    <3>1. Upper(write[p]) <= First(write[q]) \/ Upper(write[q]) <= First(write[p])
      BY <2>2, <2>4 DEF RingInv, Apart
    <3> QED  BY <2>2, <2>4, <3>1
  <2>5. tail - head <= Capacity  BY <2>1, CapacityAssumption
  <2> QED  BY <2>3, <2>4, <2>5 DEF ClaimsExclusive
<1> QED  BY <1>1, RingInvariant, PTL

\* The handler is only called with a complete record, the one written for the
\* position read has come to.
THEOREM CommittedReads == ASSUME OneSize PROVE Spec => []ReadsCommitted
<1>1. RingInv => ReadsCommitted
  <2> SUFFICES ASSUME RingInv, read.pc = "deliver", read.type # MSG_TYPE_PADDING
               PROVE  /\ ReadCell = [type |-> read.type, len |-> read.len, at |-> read.current]
                      /\ \A i \in 1 .. read.len - 1 :
                           /\ buffer[Index(read.current + i)].type = PAYLOAD
                           /\ buffer[Index(read.current + i)].at = read.current
    BY DEF ReadsCommitted
  <2> USE CapacityAssumption
  <2> DEFINE c == read.current
  <2>1. /\ Start(c) /\ read.type # UNCOMMITTED /\ ReadCell.type = read.type
        /\ read.len = Size /\ Reached = c
    BY DEF RingInv, ReadInv, Reached
  <2>2. c \in Nat /\ Index(c) \in Units /\ Index(c) \in Nat
    BY <2>1, IndexStep DEF Start, Units
  <2>3. c \in Reached .. Reached + Capacity - 1  BY <2>1, <2>2, SMTT(40)
  <2>4. RecordWritten(c)
    BY <2>1, <2>3 DEF RingInv, CommittedInv, ReadCell
  <2>5. ReadCell = [type |-> read.type, len |-> read.len, at |-> c]
    <3>1. ReadCell \in Cells /\ ReadCell.len = Size /\ ReadCell.at = c
      BY <2>2, <2>4 DEF RingInv, TypeOK, ReadCell, RecordWritten
    <3> QED  BY <2>1, <3>1 DEF Cells
  <2>6. ASSUME NEW i \in 1 .. read.len - 1
        PROVE  buffer[Index(c + i)].type = PAYLOAD /\ buffer[Index(c + i)].at = c
    <3>1. /\ i \in Nat /\ 0 < i /\ i < Size /\ Index(c) + Size <= Capacity
      BY <2>1, <2>4, SizeType DEF RecordWritten
    <3>2. \A k \in Nat : Index(c) + k < Capacity => Index(c + k) = Index(c) + k
      BY <2>2, IndexStep
    <3>3. Index(c) + i < Capacity  BY <2>2, <3>1, SizeType
    <3>4. Index(c + i) = Index(c) + i  BY <3>1, <3>2, <3>3
    <3>5. Index(c) + i \in Units /\ Index(c) < Index(c) + i /\ Index(c) + i < Index(c) + Size
      BY <2>2, <3>1, <3>3, SizeType, SMTT(40) DEF Units
    <3> QED  BY <2>4, <3>4, <3>5 DEF RecordWritten, PayloadAt
  <2> QED  BY <2>5, <2>6
<1> QED  BY <1>1, RingInvariant, PTL

\* write reports the ring full only when it has seen unread records in it.
THEOREM FullIsUnread == ASSUME OneSize PROVE Spec => []FullMeansUnread
<1>1. RingInv => FullMeansUnread
  BY Zenon DEF RingInv, WriterInv, FullMeansUnread
<1> QED  BY <1>1, RingInvariant, PTL
=============================================================================
