-------------------------- MODULE RefinementProofs --------------------------
(***************************************************************************)
(* ConcurrentPublication implements NetworkPublication, for every term     *)
(* length, frame size and scan limit that BoundariesAssumption allows.     *)
(* What IInv leaves out and the mapping needs is StepsInv: units not yet   *)
(* written are blank, what made offer go ahead still holds when it         *)
(* commits, and a scan stands where a walk over the log would stand.       *)
(* The same invariant then shows that the publisher leaves alone what was  *)
(* scanned and is not yet flushed, unless it leaves a term with a pad.     *)
(***************************************************************************)
EXTENDS PublicationRefinement, SenderFlush, PublicationProofs, WellFoundedInduction

USE DEF PARTITION_COUNT

-----------------------------------------------------------------------------
(* What the mapping relies on. *)

\* Offer has not written unit o of the active term since it was cleaned.
Untouched(o) ==
    /\ term_offset <= o
    /\ offer.pc \in {"payload", "pad_commit", "rotate"} => term_offset < o
    /\ offer.pc \in {"commit", "advance"} => term_offset + offer.len <= o

\* rotate_term left nothing there.
BlankInv == \A o \in Offsets : Untouched(o) => Cell(active_term_id, o) = Empty

\* The frame of an offer, and the conditions it went ahead on.
GuardInv ==
    /\ offer.pc \in {"header", "payload", "commit", "advance"} => offer.len \in FrameSizes
    /\ offer.pc \in {"header", "payload", "commit", "pad_header", "pad_commit", "rotate"} =>
         pub_position - sender_position < max_ahead
    /\ offer.pc \in {"pad_header", "pad_commit"} =>
         \E n \in FrameSizes : term_offset + n > TermLength

\* scan_frames goes on over the frame at o: it began at a and may scan limit.
Passes(part, a, limit, o) ==
    /\ o < TermLength
    /\ o - a < limit
    /\ part[o].len > 0
    /\ o + part[o].len <= TermLength

\* scan_frames comes from offset a to b: every set of offsets that has a, and
\* with an offset the next, has b.
Walks(part, a, limit, b) ==
    \A S \in SUBSET (0 .. TermLength) :
        /\ a \in S
        /\ \A o \in S : Passes(part, a, limit, o) => o + part[o].len \in S
        => b \in S

\* A scan has come from sender_position over whole frames, is limited to what
\* is published, and stops at its limit only.
WalkInv ==
    scan.pc # "idle" =>
        /\ 0 < scan.limit
        /\ sender_position + scan.limit <= pub_position
        /\ scan.pc = "store" => scan.limit <= scan.scanned
        /\ Walks(log[partition_index(ScanTerm)], OffsetOf(sender_position), scan.limit,
                 ScanOffset)

StepsInv == IInv /\ BlankInv /\ GuardInv /\ WalkInv

-----------------------------------------------------------------------------
(* Induction, and what scan_frames returns. *)

\* Every non-empty set of natural numbers has a least element.
LEMMA LeastNat ==
    ASSUME NEW T, T \subseteq Nat, T # {}
    PROVE  \E n \in T : \A m \in T : n <= m
<1> DEFINE R == OpToRel(<, Nat)
<1>1. IsWellFoundedOn(R, Nat)  BY NatLessThanWellFounded, Zenon
<1>2. \A x, y \in Nat : x < y => <<x, y>> \in R  BY DEF OpToRel
<1> HIDE DEF R
<1>3. PICK x \in T : \A y \in T : ~ (<<y, x>> \in R)  BY <1>1, WFMin, Zenon
<1>4. ASSUME NEW m \in T PROVE x <= m
  <2>1. x \in Nat /\ m \in Nat  OBVIOUS
  <2>2. ~(m < x)  BY <1>2, <1>3, <2>1, Zenon
  <2> QED  BY <2>1, <2>2
<1> QED  BY <1>4

\* f gives, for the offsets from n on, where scan_frames ends that comes there.
Ends(part, a, limit, n) ==
    {f \in [n .. TermLength -> 0 .. TermLength] :
       \A o \in n .. TermLength :
          f[o] = IF Passes(part, a, limit, o) THEN f[o + part[o].len] ELSE o}

\* The recursion of scan_frames has a solution: each frame leads further.
LEMMA WalkDefined ==
    ASSUME NEW part \in [Offsets -> Cells], NEW a \in Nat, NEW limit \in Nat
    PROVE  Ends(part, a, limit, 0) # {}
<1> USE TermLengthAssumption
<1> DEFINE P(o) == Passes(part, a, limit, o)
           E(n) == Ends(part, a, limit, n)
           T == {k \in 0 .. TermLength : E(TermLength - k) = {}}
<1>1. \A o \in 0 .. TermLength : P(o) =>
        o < TermLength /\ part[o].len \in Nat /\ 0 < part[o].len /\ o + part[o].len <= TermLength
  BY DEF Passes, Offsets, Cells
<1>2. \A n \in 0 .. TermLength : \A f : f \in E(n) <=>
        /\ f \in [n .. TermLength -> 0 .. TermLength]
        /\ \A o \in n .. TermLength : f[o] = IF P(o) THEN f[o + part[o].len] ELSE o
  BY DEF Ends
<1> HIDE DEF P, E
<1>3. E(TermLength) # {}
  <2> DEFINE f == [o \in TermLength .. TermLength |-> o]
  <2>1. f \in [TermLength .. TermLength -> 0 .. TermLength]  OBVIOUS
  <2>2. \A o \in TermLength .. TermLength : f[o] = IF P(o) THEN f[o + part[o].len] ELSE o
    BY <1>1
  <2> HIDE DEF f
  <2>3. TermLength \in 0 .. TermLength  OBVIOUS
  <2>4. f \in E(TermLength)  BY <1>2, <2>1, <2>2, <2>3, Zenon
  <2> QED  BY <2>4
<1>4. ASSUME NEW n \in 0 .. TermLength - 1, E(n + 1) # {} PROVE E(n) # {}
  <2>1. PICK f : f \in E(n + 1)  BY <1>4
  <2>2. /\ f \in [n + 1 .. TermLength -> 0 .. TermLength]
        /\ \A o \in n + 1 .. TermLength : f[o] = IF P(o) THEN f[o + part[o].len] ELSE o
    <3>1. n + 1 \in 0 .. TermLength  OBVIOUS
    <3> QED  BY <1>2, <2>1, <3>1
  <2> DEFINE g == [o \in n .. TermLength |->
                     IF o # n THEN f[o] ELSE IF P(n) THEN f[n + part[n].len] ELSE n]
  <2>3. P(n) => n + part[n].len \in n + 1 .. TermLength  BY <1>1
  <2>4. g \in [n .. TermLength -> 0 .. TermLength]
    <3> SUFFICES ASSUME NEW o \in n .. TermLength PROVE g[o] \in 0 .. TermLength
      OBVIOUS
    <3>1. CASE o = n  BY <2>2, <2>3, <3>1
    <3>2. CASE o # n  BY <2>2, <3>2
    <3> QED  BY <3>1, <3>2
  <2>5. ASSUME NEW o \in n .. TermLength
        PROVE  g[o] = IF P(o) THEN g[o + part[o].len] ELSE o
    <3>1. P(o) => o + part[o].len \in n + 1 .. TermLength  BY <1>1
    <3>2. P(o) => g[o + part[o].len] = f[o + part[o].len]  BY <3>1
    <3>3. CASE o = n  BY <3>2, <3>3
    <3>4. CASE o # n
      <4>1. o \in n + 1 .. TermLength /\ g[o] = f[o]  BY <3>4
      <4> QED  BY <2>2, <3>2, <4>1
    <3> QED  BY <3>3, <3>4
  <2> HIDE DEF g
  <2>6. n \in 0 .. TermLength  OBVIOUS
  <2> QED  BY <1>2, <2>4, <2>5, <2>6, Zenon
<1>5. T = {}
  <2> SUFFICES ASSUME T # {} PROVE FALSE  OBVIOUS
  <2>1. T \subseteq Nat  OBVIOUS
  <2>2. PICK k \in T : \A m \in T : k <= m  BY <2>1, LeastNat, Zenon
  <2>3. k \in 0 .. TermLength /\ E(TermLength - k) = {}  OBVIOUS
  <2>4. k # 0  BY <1>3, <2>3
  <2> DEFINE n == TermLength - k
  <2>5. k - 1 \in 0 .. TermLength /\ ~(k <= k - 1)  BY <2>3, <2>4
  <2>6. E(TermLength - (k - 1)) # {}  BY <2>2, <2>5
  <2>7. TermLength - (k - 1) = n + 1 /\ n \in 0 .. TermLength - 1  BY <2>3, <2>4
  <2> QED  BY <1>4, <2>3, <2>6, <2>7
<1>6. TermLength \in 0 .. TermLength /\ TermLength - TermLength = 0  OBVIOUS
<1>7. E(0) # {}  BY <1>5, <1>6
<1> QED  BY <1>7 DEF E

\* scan_frames ends where its walk comes to an offset it does not pass.
LEMMA ScanIsWalk ==
    ASSUME NEW part \in [Offsets -> Cells], NEW a \in 0 .. TermLength, NEW limit \in Nat,
           NEW b \in 0 .. TermLength, Walks(part, a, limit, b), ~Passes(part, a, limit, b)
    PROVE  Atomic!scan_frames(part, a, limit) = b
<1> USE TermLengthAssumption
<1> DEFINE Solves(f) == f = [o \in 0 .. TermLength |->
                               IF Passes(part, a, limit, o) THEN f[o + part[o].len] ELSE o]
           walk == CHOOSE f : Solves(f)
<1>1. \E f : Solves(f)
  <2>1. PICK f : f \in Ends(part, a, limit, 0)  BY WalkDefined
  <2> QED  BY <2>1 DEF Ends
<1>2. Solves(walk)  BY <1>1, Zenon
<1>3. Atomic!scan_frames(part, a, limit) = walk[a]
  BY DEF Atomic!scan_frames, Passes
<1> HIDE DEF walk
<1> DEFINE S == {o \in 0 .. TermLength : walk[o] = walk[a]}
<1>4. ASSUME NEW o \in S, Passes(part, a, limit, o) PROVE o + part[o].len \in S
  <2>1. o + part[o].len \in 0 .. TermLength
    BY <1>4, SMTT(40) DEF Passes, Offsets, Cells
  <2>2. walk[o] = walk[o + part[o].len]  BY <1>2, <1>4
  <2> QED  BY <2>1, <2>2
<1>5. S \in SUBSET (0 .. TermLength) /\ a \in S  OBVIOUS
<1> HIDE DEF S
<1>6. b \in S  BY <1>4, <1>5 DEF Walks
<1>7. walk[b] = walk[a]  BY <1>6 DEF S
<1>8. walk[b] = b  BY <1>2
<1> QED  BY <1>3, <1>7, <1>8

-----------------------------------------------------------------------------
(* StepsInv is inductive. *)

\* What Store does to every partition.
LEMMA StoreCells ==
    ASSUME IInv, NEW S, NEW c, Store(S, c)
    PROVE  \A p \in Partitions, o \in Offsets :
             log'[p][o] = IF p = partition_index(active_term_id) /\ o \in S
                          THEN c ELSE log[p][o]
<1>1. log \in [Partitions -> [Offsets -> Cells]]  BY DEF IInv, TypeOK
<1>2. partition_index(active_term_id) \in Partitions  BY PublisherTypes
<1> QED  BY <1>1, <1>2 DEF Store

\* What the Release store of frame_length does to every partition.
LEMMA CommitCells ==
    ASSUME IInv, NEW length, Commit(length), term_offset < TermLength
    PROVE  \A p \in Partitions, o \in Offsets :
             log'[p][o] = IF p = partition_index(active_term_id) /\ o = term_offset
                          THEN [log[p][o] EXCEPT !.len = length] ELSE log[p][o]
<1>1. log \in [Partitions -> [Offsets -> Cells]]  BY DEF IInv, TypeOK
<1>2. partition_index(active_term_id) \in Partitions /\ term_offset \in Offsets
  BY PublisherTypes DEF Offsets
<1> QED  BY <1>1, <1>2 DEF Commit

\* What rotate_term does to every partition.
LEMMA RotateCells ==
    ASSUME IInv, rotate_term
    PROVE  \A p \in Partitions, o \in Offsets :
             log'[p][o] = IF p = partition_index(active_term_id + 1) THEN Empty ELSE log[p][o]
<1>1. log \in [Partitions -> [Offsets -> Cells]]  BY DEF IInv, TypeOK
<1>2. partition_index(active_term_id + 1) \in Partitions
  BY PublisherTypes, PartitionType
<1> QED  BY <1>1, <1>2 DEF rotate_term, CleanPartition

\* A step of offer inside the active term that leaves its log after what it
\* wrote, and leaves less of it untouched, keeps it blank.
LEMMA BlankKept ==
    ASSUME BlankInv, active_term_id' = active_term_id,
           \A o \in Offsets : Untouched(o)' => Untouched(o) /\ Cell(active_term_id, o)' = Cell(active_term_id, o)
    PROVE  BlankInv'
<1>1. ASSUME NEW o \in Offsets, Untouched(o)' PROVE Cell(active_term_id, o)' = Empty
  BY <1>1 DEF BlankInv
<1> QED  BY <1>1 DEF BlankInv

\* The units that offer has not reached are blank.
LEMMA BlankStep ==
    ASSUME StepsInv, [Next]_vars PROVE BlankInv'
<1> USE DEF StepsInv
<1>1. /\ active_term_id \in Nat /\ term_offset \in Nat /\ TermLength \in Nat
      /\ term_offset <= TermLength /\ offer.len \in Nat
      /\ partition_index(active_term_id) \in Partitions
      /\ offer = [pc |-> offer.pc, len |-> offer.len]
      /\ \A o \in Offsets : o \in Nat /\ o < TermLength
  BY PublisherTypes DEF Offsets
<1>2. offer.pc \in {"header", "payload", "commit", "advance"} => 0 < offer.len
  BY DEF IInv, OfferInv
<1>3. ASSUME NEW n \in FrameSizes, OfferBegin(n) \/ OfferTermFull(n) PROVE BlankInv'
  <2>1. \A o \in Offsets : Untouched(o)' => Untouched(o)
    BY <1>1, <1>3 DEF Untouched, OfferBegin, OfferTermFull
  <2>2. UNCHANGED <<log, active_term_id>>  BY <1>3 DEF OfferBegin, OfferTermFull
  <2> QED  BY <2>1, <2>2, BlankKept DEF Cell
<1>4. CASE WriteHeader \/ WritePadHeader
  <2>1. \A o \in Offsets : Untouched(o)' => Untouched(o) /\ o # term_offset
    BY <1>1, <1>4 DEF Untouched, WriteHeader, WritePadHeader
  <2>2. \A o \in Offsets : o # term_offset => Cell(active_term_id, o)' = Cell(active_term_id, o)
    <3>1. PICK c : Store({term_offset}, c)  BY <1>4 DEF WriteHeader, WritePadHeader
    <3>2. active_term_id' = active_term_id  BY <1>4 DEF WriteHeader, WritePadHeader
    <3> QED  BY <1>1, <3>1, <3>2, StoreCells DEF Cell
  <2> QED  BY <1>4, <2>1, <2>2, BlankKept DEF WriteHeader, WritePadHeader
<1>5. CASE WritePayload
  <2> DEFINE S == term_offset + 1 .. term_offset + offer.len - 1
  <2>1. \A o \in Offsets : Untouched(o)' => Untouched(o) /\ o \notin S
    BY <1>1, <1>2, <1>5 DEF Untouched, WritePayload
  <2>2. Store(S, Body(WritePosition)) /\ active_term_id' = active_term_id
    BY <1>5 DEF WritePayload
  <2> HIDE DEF S
  <2>3. \A o \in Offsets : o \notin S => Cell(active_term_id, o)' = Cell(active_term_id, o)
    BY <1>1, <2>2, StoreCells DEF Cell
  <2> QED  BY <2>1, <2>2, <2>3, BlankKept
<1>6. CASE CommitFrame \/ CommitPad
  <2>1. \A o \in Offsets : Untouched(o)' => Untouched(o) /\ o # term_offset
    BY <1>1, <1>2, <1>6 DEF Untouched, CommitFrame, CommitPad
  <2>2. Commit(offer.len) /\ active_term_id' = active_term_id
    BY <1>6 DEF CommitFrame, CommitPad
  <2>3. term_offset < TermLength
    BY <1>1, <1>2, <1>6, BoundariesAssumption DEF IInv, OfferInv, CommitFrame, CommitPad
  <2>4. \A o \in Offsets : o # term_offset => Cell(active_term_id, o)' = Cell(active_term_id, o)
    BY <1>1, <2>2, <2>3, CommitCells, Zenon DEF Cell
  <2> QED  BY <2>1, <2>2, <2>4, BlankKept
<1>7. CASE Advance
  <2>1. \A o \in Offsets : Untouched(o)' => Untouched(o)
    BY <1>1, <1>2, <1>7 DEF Untouched, Advance, Idle
  <2>2. UNCHANGED <<log, active_term_id>>  BY <1>7 DEF Advance
  <2> QED  BY <2>1, <2>2, BlankKept DEF Cell
<1>8. CASE rotate_term
  <2>1. active_term_id' = active_term_id + 1 /\ partition_index(active_term_id + 1) \in Partitions
    BY <1>1, <1>8, PartitionType DEF rotate_term
  <2>2. \A o \in Offsets : Cell(active_term_id, o)' = Empty
    BY <1>8, <2>1, RotateCells DEF Cell
  <2> QED  BY <2>2 DEF BlankInv
<1>9. CASE Sender \/ UNCHANGED vars
  <2>1. UNCHANGED <<log, active_term_id, term_offset, offer>>
    BY <1>9, Zenon DEF Sender, ScanBegin, ScanLoad, ScanEmit, ScanStop, ScanStore, pubVars, vars
  <2> QED  BY <2>1 DEF BlankInv, Untouched, Cell
<1> QED  BY <1>3, <1>4, <1>5, <1>6, <1>7, <1>8, <1>9 DEF Next, Publisher, Write

\* The conditions on which offer went ahead still hold: only the sender moves
\* in between, and it moves on.
LEMMA GuardStep ==
    ASSUME StepsInv, [Next]_vars PROVE GuardInv'
<1> USE DEF StepsInv
<1>1. /\ pub_position \in Nat /\ sender_position \in Nat /\ max_ahead \in Int
      /\ scan.scanned \in Nat
      /\ offer = [pc |-> offer.pc, len |-> offer.len]
  BY PublisherTypes, SenderTypes DEF IInv, TypeOK, max_ahead
<1>2. ASSUME NEW n \in FrameSizes, OfferBegin(n) PROVE GuardInv'
  BY <1>1, <1>2 DEF OfferBegin, BackPressured, GuardInv, max_ahead
<1>3. ASSUME NEW n \in FrameSizes, OfferTermFull(n) PROVE GuardInv'
  BY <1>1, <1>3 DEF OfferTermFull, BackPressured, GuardInv, max_ahead
<1>4. CASE Write
  <2>1. CASE WriteHeader  BY <1>1, <2>1 DEF WriteHeader, GuardInv, max_ahead
  <2>2. CASE WritePayload  BY <1>1, <2>2 DEF WritePayload, GuardInv, max_ahead
  <2>3. CASE CommitFrame  BY <1>1, <2>3 DEF CommitFrame, GuardInv, max_ahead
  <2>4. CASE Advance  BY <2>4 DEF Advance, Idle, GuardInv
  <2>5. CASE WritePadHeader  BY <1>1, <2>5 DEF WritePadHeader, GuardInv, max_ahead
  <2>6. CASE CommitPad  BY <1>1, <2>6 DEF CommitPad, GuardInv, max_ahead
  <2>7. CASE rotate_term  BY <2>7 DEF rotate_term, Idle, GuardInv
  <2> QED  BY <1>4, <2>1, <2>2, <2>3, <2>4, <2>5, <2>6, <2>7 DEF Write
<1>5. CASE Sender \/ UNCHANGED vars
  <2>1. /\ UNCHANGED <<offer, term_offset, pub_position>>
        /\ sender_position' = sender_position \/ sender_position' = sender_position + scan.scanned
    BY <1>5, Zenon DEF Sender, ScanBegin, ScanLoad, ScanEmit, ScanStop, ScanStore, ScanPosition,
                pubVars, vars
  <2>2. pub_position - sender_position < max_ahead =>
          pub_position' - sender_position' < max_ahead
    BY <1>1, <2>1
  <2> QED  BY <2>1, <2>2, SMTT(40) DEF GuardInv, max_ahead
<1> QED  BY <1>2, <1>3, <1>4, <1>5 DEF Next, Publisher

\* A walk only depends on the units before its limit.
LEMMA WalksKept ==
    ASSUME NEW part, NEW other, NEW a \in Nat, NEW limit \in Nat, NEW b,
           Walks(part, a, limit, b),
           \A o \in 0 .. TermLength : o < TermLength /\ o - a < limit => other[o] = part[o]
    PROVE  Walks(other, a, limit, b)
<1> SUFFICES ASSUME NEW S \in SUBSET (0 .. TermLength), a \in S,
                    \A o \in S : Passes(other, a, limit, o) => o + other[o].len \in S
             PROVE  b \in S
  BY DEF Walks
<1>1. ASSUME NEW o \in S, Passes(part, a, limit, o) PROVE o + part[o].len \in S
  <2>1. other[o] = part[o]  BY <1>1 DEF Passes
  <2> QED  BY <1>1, <2>1 DEF Passes
<1> QED  BY <1>1 DEF Walks

\* Where a scan in progress is, in the terms of WalksKept.
LEMMA ScanTypes ==
    ASSUME IInv
    PROVE  /\ ScanTerm \in Nat /\ OffsetOf(sender_position) \in Nat
           /\ OffsetOf(sender_position) \in 0 .. TermLength
           /\ scan.limit \in Nat /\ scan.scanned \in Nat
           /\ ScanOffset = OffsetOf(sender_position) + scan.scanned
           /\ ScanOffset \in 0 .. TermLength
           /\ partition_index(ScanTerm) \in Partitions
           /\ log[partition_index(ScanTerm)] \in [Offsets -> Cells]
<1>1. TypeOK  BY DEF IInv
<1>2. ScanOffset \in 0 .. TermLength  BY BoundariesAssumption DEF IInv, ScanInv
<1>3. partition_index(ScanTerm) \in Partitions  BY <1>1, SenderTypes, PartitionType
<1> QED  BY <1>1, <1>2, <1>3, SenderTypes, TermLengthAssumption DEF TypeOK

\* Before its limit a scan stands on a committed frame that ends in its term.
LEMMA FrameAhead ==
    ASSUME IInv, scan.pc # "idle", scan.scanned < scan.limit
    PROVE  /\ ScanOffset \in Offsets
           /\ ScanCell.kind # "body" /\ ScanCell.len > 0
           /\ ScanOffset + ScanCell.len <= TermLength
<1>1. /\ ScanOffset \in Offsets /\ ScanCell = Cell(ScanTerm, ScanOffset)
      /\ WholeFrame(ScanTerm, ScanOffset)
  BY ScanOnFrame
<1>2. /\ ScanCell.kind \in {"data", "pad"} /\ ScanCell.len > 0
      /\ ScanOffset + ScanCell.len \in Boundaries
  BY <1>1 DEF WholeFrame
<1>3. \A b \in Boundaries : b <= TermLength  BY BoundariesAssumption, TermLengthAssumption
<1> QED  BY <1>1, <1>2, <1>3

\* offer changes nothing before the write cursor in a term that stays in the
\* log: it stores at and after the cursor, and rotate_term cleans another.
LEMMA PublisherKeeps ==
    ASSUME StepsInv, Publisher, NEW t \in Nat, NEW o \in Offsets, Written(t, o),
           active_term_id' < t + 4
    PROVE  Cell(t, o)' = Cell(t, o)
<1> DEFINE s == partition_index(t)
           T == active_term_id
<1>1. /\ T \in Nat /\ term_offset \in Nat /\ TermLength \in Nat /\ s \in Partitions
      /\ o \in Nat /\ offer.len \in Nat
  BY PublisherTypes, PartitionType DEF StepsInv, Offsets
<1>2. T' = T \/ (rotate_term /\ T' = T + 1)
  BY DEF Publisher, Write, OfferBegin, OfferTermFull, WriteHeader, WritePayload,
         CommitFrame, Advance, WritePadHeader, CommitPad, rotate_term
<1>3. t <= T /\ T < t + 4 /\ (t = T => o < term_offset)
  BY <1>1, <1>2 DEF Written
<1>4. s = partition_index(T) => o < term_offset
  BY <1>1, <1>3, PartitionsDiffer
<1>5. ASSUME NEW S, NEW c, Store(S, c), \A i \in S : i >= term_offset
      PROVE  log'[s][o] = log[s][o]
  <2>1. s = partition_index(T) => o \notin S  BY <1>1, <1>4, <1>5
  <2> QED  BY <1>1, <1>5, <2>1, StoreCells DEF StepsInv
<1>6. ASSUME Commit(offer.len), term_offset < TermLength
      PROVE  log'[s][o] = log[s][o]
  <2>1. s = partition_index(T) => o # term_offset  BY <1>1, <1>4
  <2> QED  BY <1>1, <1>6, <2>1, CommitCells, Zenon DEF StepsInv
<1>7. log'[s][o] = log[s][o]
  <2>1. CASE WriteHeader \/ WritePadHeader
    BY <1>1, <1>5, <2>1 DEF WriteHeader, WritePadHeader
  <2>2. CASE WritePayload
    <3>1. \A i \in term_offset + 1 .. term_offset + offer.len - 1 : i >= term_offset  BY <1>1
    <3> QED  BY <1>5, <2>2, <3>1, Zenon DEF WritePayload
  <2>3. CASE CommitFrame \/ CommitPad
    <3>1. term_offset < TermLength
      BY <1>1, <2>3, BoundariesAssumption
         DEF StepsInv, IInv, OfferInv, CommitFrame, CommitPad
    <3> QED  BY <1>6, <2>3, <3>1 DEF CommitFrame, CommitPad
  <2>4. CASE rotate_term
    <3>1. T' = T + 1  BY <2>4 DEF rotate_term
    <3>2. T + 1 \in Nat /\ t < T + 1 /\ T + 1 < t + 4  BY <1>1, <1>3, <3>1
    <3>3. s # partition_index(T + 1)  BY <3>2, PartitionsDiffer
    <3> QED  BY <1>1, <2>4, <3>3, RotateCells DEF StepsInv
  <2>5. CASE log' = log  BY <2>5
  <2> QED
    BY <2>1, <2>2, <2>3, <2>4, <2>5
       DEF Publisher, Write, OfferBegin, OfferTermFull, Advance
<1> QED  BY <1>7 DEF Cell, partition_index

\* So nothing changes that a scan in progress may walk over.
LEMMA PublisherKeepsWalk ==
    ASSUME StepsInv, Publisher, scan.pc # "idle", NEW o \in Offsets,
           o - OffsetOf(sender_position) < scan.limit
    PROVE  log'[partition_index(ScanTerm)][o] = log[partition_index(ScanTerm)][o]
<1> DEFINE T == active_term_id
<1>1. /\ T \in Nat /\ term_offset \in Nat /\ TermLength \in Nat /\ o \in Nat
      /\ ScanTerm \in Nat /\ OffsetOf(sender_position) \in Nat /\ scan.limit \in Nat
  BY PublisherTypes, ScanTypes DEF StepsInv, Offsets
<1>2. /\ T < ScanTerm + 4 /\ ScanTerm <= T
      /\ ScanTerm = T => o < term_offset
  BY <1>1 DEF StepsInv, IInv, ScanInv
<1>3. Written(ScanTerm, o)  BY <1>1, <1>2 DEF Written
<1>4. T' = T \/ (T' = T + 1 /\ T <= ScanTerm + 2)
  BY DEF Publisher, Write, OfferBegin, OfferTermFull, WriteHeader, WritePayload,
         CommitFrame, Advance, WritePadHeader, CommitPad, rotate_term, StepsInv, IInv, OfferInv
<1>5. T' < ScanTerm + 4  BY <1>1, <1>2, <1>4
<1>6. \A t \in Nat : Written(t, o) /\ T' < t + 4 => log'[partition_index(t)][o] = log[partition_index(t)][o]
  BY PublisherKeeps DEF Cell, partition_index
<1> QED  BY <1>1, <1>3, <1>5, <1>6

\* pub_position does not move back.
LEMMA PositionGrows ==
    ASSUME IInv, Publisher PROVE pub_position <= pub_position' /\ pub_position' \in Nat
<1>1. /\ active_term_id \in Nat /\ term_offset \in Nat /\ offer.len \in Nat
      /\ pub_position \in Nat /\ TermLength \in Nat
  BY PublisherTypes DEF IInv, TypeOK
<1>2. CASE Advance
  <2>1. active_term_id * TermLength \in Nat  BY <1>1
  <2>2. pub_position <= active_term_id * TermLength + term_offset
    BY <1>1, <2>1 DEF IInv, OfferInv, compute_position
  <2>3. pub_position' = active_term_id * TermLength + (term_offset + offer.len)
    BY <1>2 DEF Advance, compute_position
  <2> QED  BY <1>1, <2>1, <2>2, <2>3
<1>3. CASE pub_position' = pub_position  BY <1>1, <1>3
<1> QED
  BY <1>2, <1>3 DEF Publisher, Write, OfferBegin, OfferTermFull, WriteHeader, WritePayload,
                    CommitFrame, WritePadHeader, CommitPad, rotate_term

\* The scan follows the walk of scan_frames.
LEMMA WalkStep ==
    ASSUME StepsInv, [Next]_vars, IInv' PROVE WalkInv'
<1> DEFINE a == OffsetOf(sender_position)
           part == log[partition_index(ScanTerm)]
<1>1. /\ a \in Nat /\ a \in 0 .. TermLength /\ scan.limit \in Nat /\ scan.scanned \in Nat
      /\ ScanOffset = a + scan.scanned /\ part \in [Offsets -> Cells]
      /\ sender_position \in Nat /\ pub_position \in Nat /\ TermLength \in Nat
      /\ ScanOffset \in 0 .. TermLength
  BY ScanTypes, PublisherTypes DEF StepsInv, IInv, TypeOK
<1>2. CASE Publisher
  <2>1. UNCHANGED <<sender_position, scan>>
    BY <1>2 DEF Publisher, Write, OfferBegin, OfferTermFull, WriteHeader, WritePayload,
                CommitFrame, Advance, WritePadHeader, CommitPad, rotate_term
  <2>2. /\ a' = a /\ ScanTerm' = ScanTerm /\ ScanOffset' = ScanOffset
        /\ partition_index(ScanTerm)' = partition_index(ScanTerm)
    BY <2>1 DEF ScanTerm, ScanOffset, TermOf, OffsetOf, partition_index
  <2>3. pub_position <= pub_position' /\ pub_position' \in Nat
    BY <1>2, PositionGrows DEF StepsInv
  <2>4. ASSUME scan.pc # "idle"
        PROVE  Walks(log'[partition_index(ScanTerm)], a, scan.limit, ScanOffset)
    <3>1. Walks(part, a, scan.limit, ScanOffset)  BY <2>4 DEF StepsInv, WalkInv
    <3>2. \A o \in 0 .. TermLength : o < TermLength /\ o - a < scan.limit =>
            log'[partition_index(ScanTerm)][o] = part[o]
      BY <1>1, <1>2, <2>4, PublisherKeepsWalk DEF Offsets
    <3> HIDE DEF part, a
    <3> QED  BY <1>1, <3>1, <3>2, WalksKept, SMTT(40)
  <2>5. scan.pc # "idle" =>
          /\ 0 < scan.limit /\ sender_position + scan.limit <= pub_position'
          /\ scan.pc = "store" => scan.limit <= scan.scanned
    BY <1>1, <2>3 DEF StepsInv, WalkInv
  <2> QED  BY <2>1, <2>2, <2>4, <2>5 DEF WalkInv
<1>3. ASSUME NEW limit \in ScanLimits, ScanBegin(limit) PROVE WalkInv'
  <2> DEFINE m == ScanLimit(limit)
  <2>1. limit \in Nat /\ limit > 0 /\ pub_position - sender_position > 0 /\ a < TermLength
    BY <1>3, ScanLimitsAssumption, SenderTypes DEF ScanBegin, StepsInv, IInv
  <2>2. 0 < m /\ m \in Nat /\ sender_position + m <= pub_position
    BY <1>1, <2>1 DEF ScanLimit, Lesser
  <2>3. /\ scan' = [ScanIdle EXCEPT !.pc = "load", !.limit = m]
        /\ UNCHANGED <<log, pub_position, sender_position>>
    BY <1>3 DEF ScanBegin, pubVars
  <2>4. scan'.pc = "load" /\ scan'.limit = m /\ scan'.scanned = 0
    BY <2>3 DEF ScanIdle
  <2>5. a' = a /\ part' = part /\ ScanOffset' = a
    BY <1>1, <2>3, <2>4 DEF ScanTerm, ScanOffset, TermOf, OffsetOf, partition_index
  <2>6. Walks(part, a, m, a)  BY DEF Walks
  <2> HIDE DEF m, a, part
  <2>7. Walks(part', a', scan'.limit, ScanOffset')  BY <2>4, <2>5, <2>6
  <2> QED  BY <2>2, <2>3, <2>4, <2>7 DEF WalkInv, a, part
<1>4. ASSUME scan.pc # "idle", scan'.pc # "idle", scan'.limit = scan.limit,
             UNCHANGED <<log, pub_position, sender_position>>,
             scan'.pc = "store" => scan.limit <= scan'.scanned,
             Walks(part, a, scan.limit, a + scan'.scanned)
      PROVE  WalkInv'
  <2>1. /\ a' = a /\ part' = part /\ ScanOffset' = a + scan'.scanned
    BY <1>4 DEF ScanTerm, ScanOffset, TermOf, OffsetOf, partition_index
  <2>2. 0 < scan.limit /\ sender_position + scan.limit <= pub_position
    BY <1>4 DEF StepsInv, WalkInv
  <2> HIDE DEF a, part
  <2>3. Walks(part', a', scan'.limit, ScanOffset')  BY <1>4, <2>1
  <2> QED  BY <1>4, <2>2, <2>3 DEF WalkInv, a, part
<1>5. CASE ScanLoad
  <2>1. /\ scan.pc = "load" /\ scan'.pc = "emit" /\ scan'.limit = scan.limit
        /\ scan'.scanned = scan.scanned
        /\ UNCHANGED <<log, pub_position, sender_position>>
    BY <1>5 DEF ScanLoad, pubVars, StepsInv, IInv, TypeOK
  <2>2. Walks(part, a, scan.limit, a + scan'.scanned)
    BY <1>1, <2>1 DEF StepsInv, WalkInv
  <2> QED  BY <1>4, <2>1, <2>2
<1>6. CASE ScanEmit
  <2>1. /\ scan.pc = "emit" /\ scan'.pc = "load" /\ scan'.limit = scan.limit
        /\ scan'.scanned = scan.scanned + scan.len
        /\ UNCHANGED <<log, pub_position, sender_position>>
    BY <1>6, SMTT(40) DEF ScanEmit, pubVars, StepsInv, IInv, TypeOK
  <2>2. /\ scan.scanned < scan.limit /\ scan.len = part[ScanOffset].len
        /\ scan.len \in Nat
    BY <2>1, SenderTypes DEF StepsInv, IInv, ScanInv, Cell
  <2>3. /\ ScanOffset \in Offsets /\ part[ScanOffset].len > 0
        /\ ScanOffset + part[ScanOffset].len <= TermLength
    BY <2>1, <2>2, FrameAhead DEF StepsInv, ScanCell
  <2>4. Passes(part, a, scan.limit, ScanOffset)
    BY <1>1, <2>2, <2>3 DEF Passes, Offsets
  <2>5. Walks(part, a, scan.limit, ScanOffset)
    BY <2>1 DEF StepsInv, WalkInv
  <2> HIDE DEF a, part
  <2>6. Walks(part, a, scan.limit, ScanOffset + part[ScanOffset].len)
    BY <2>4, <2>5 DEF Walks
  <2>7. ScanOffset + part[ScanOffset].len = a + scan'.scanned
    BY <1>1, <2>1, <2>2
  <2> QED  BY <1>4, <2>1, <2>6, <2>7
<1>7. CASE ScanStop
  <2>1. /\ scan.pc = "load" /\ scan'.pc = "store" /\ scan'.limit = scan.limit
        /\ scan'.scanned = scan.scanned
        /\ UNCHANGED <<log, pub_position, sender_position>>
    BY <1>7 DEF ScanStop, pubVars, StepsInv, IInv, TypeOK
  <2>2. scan.limit <= scan.scanned
    <3> SUFFICES ASSUME scan.scanned < scan.limit PROVE FALSE  BY <1>1
    <3>1. /\ ScanOffset \in Offsets /\ ScanCell.kind # "body"
          /\ ScanCell.len > 0 /\ ScanOffset + ScanCell.len <= TermLength
      BY <2>1, FrameAhead DEF StepsInv
    <3>2. FrameLengths(ScanCell) = {ScanCell.len}  BY <3>1 DEF FrameLengths
    <3>3. \E length \in FrameLengths(ScanCell) :
            ~(0 < length /\ ScanOffset + length <= TermLength)
      BY <1>1, <1>7 DEF ScanStop
    <3> QED  BY <3>1, <3>2, <3>3
  <2>3. Walks(part, a, scan.limit, a + scan'.scanned)
    BY <1>1, <2>1 DEF StepsInv, WalkInv
  <2> QED  BY <1>4, <2>1, <2>2, <2>3
<1>8. CASE ScanStore  BY <1>8 DEF ScanStore, ScanIdle, WalkInv
<1>9. CASE UNCHANGED vars
  <2>1. UNCHANGED <<log, pub_position, sender_position, scan>>  BY <1>9 DEF vars
  <2> QED
    BY <2>1 DEF StepsInv, WalkInv, ScanTerm, ScanOffset, TermOf, OffsetOf, partition_index
<1> QED  BY <1>2, <1>3, <1>5, <1>6, <1>7, <1>8, <1>9, SMTT(40) DEF Next, Sender

\* StepsInv holds at first, and every step keeps it.
LEMMA StepsInductive ==
    /\ Init => StepsInv
    /\ StepsInv /\ [Next]_vars => StepsInv'
<1>1. ASSUME Init PROVE StepsInv
  <2>1. IInv  BY <1>1, InitIInv
  <2>2. partition_index(0) \in Partitions  BY PartitionType
  <2>3. BlankInv
    BY <1>1, <2>2 DEF Init, BlankInv, Cell, CleanPartition
  <2> QED  BY <1>1, <2>1, <2>3 DEF Init, Idle, ScanIdle, StepsInv, GuardInv, WalkInv
<1>2. ASSUME StepsInv, [Next]_vars PROVE StepsInv'
  <2>1. IInv'  BY <1>2, NextIInv DEF StepsInv
  <2> QED  BY <1>2, <2>1, BlankStep, GuardStep, WalkStep DEF StepsInv
<1> QED  BY <1>1, <1>2

-----------------------------------------------------------------------------
(* Every step maps to a step of NetworkPublication or to none. *)

\* NetworkPublication has the log's geometry.
LEMMA SameGeometry ==
    /\ Atomic!Partitions = Partitions /\ Atomic!Offsets = Offsets
    /\ Atomic!Empty = Empty /\ Atomic!CleanPartition = CleanPartition
    /\ \A t, o : Atomic!compute_position(t, o) = compute_position(t, o)
    /\ \A t : Atomic!partition_index(t) = partition_index(t)
    /\ \A k, p : Atomic!Header(k, p) = Header(k, p)
    /\ \A p : Atomic!Body(p) = Body(p)
    /\ \A p : Atomic!TermOf(p) = TermOf(p) /\ Atomic!OffsetOf(p) = OffsetOf(p)
    /\ \A a, b : Atomic!Lesser(a, b) = Lesser(a, b)
BY DEF Atomic!Partitions, Atomic!Offsets, Atomic!Empty, Atomic!CleanPartition,
       Atomic!compute_position, Atomic!partition_index, Atomic!Header, Atomic!Body,
       Atomic!TermOf, Atomic!OffsetOf, Atomic!Lesser, Atomic!PARTITION_COUNT,
       Partitions, Offsets, Empty, CleanPartition, compute_position, partition_index,
       Header, Body, TermOf, OffsetOf, Lesser

\* A log is its cells.
LEMMA SameLog ==
    ASSUME NEW f, NEW g,
           f = [p \in Partitions |-> [o \in Offsets |-> f[p][o]]],
           g = [p \in Partitions |-> [o \in Offsets |-> g[p][o]]],
           \A p \in Partitions, o \in Offsets : f[p][o] = g[p][o]
    PROVE  f = g
<1>1. ASSUME NEW p \in Partitions PROVE [o \in Offsets |-> f[p][o]] = [o \in Offsets |-> g[p][o]]
  OBVIOUS
<1> QED  BY <1>1

\* The log that the mapping shows, unit by unit.
LEMMA AtomicCells ==
    /\ AtomicLog = [p \in Partitions |-> [o \in Offsets |-> AtomicLog[p][o]]]
    /\ \A p \in Partitions, o \in Offsets :
         AtomicLog[p][o] =
           IF Uncommitted(p, o) \/ (Rotating /\ p = partition_index(active_term_id + 1))
           THEN Empty ELSE log[p][o]
BY DEF AtomicLog

\* The initial states map to initial states.
LEMMA InitMaps == Init => Atomic!Init
<1> SUFFICES ASSUME Init PROVE Atomic!Init  OBVIOUS
<1>1. AtomicLog = [p \in Partitions |-> CleanPartition]
  BY DEF Init, Idle, AtomicLog, Uncommitted, Rotating, CleanPartition
<1>2. AtomicTerm = 0 /\ AtomicOffset = 0 /\ AtomicPosition = 0 /\ sender_position = 0
  BY DEF Init, Idle, Rotating, AtomicTerm, AtomicOffset, AtomicPosition
<1> QED  BY <1>1, <1>2, SameGeometry DEF Atomic!Init

\* A step that shows nothing.
LEMMA Invisible ==
    ASSUME UNCHANGED <<AtomicTerm, AtomicOffset, AtomicPosition, sender_position>>,
           \A p \in Partitions, o \in Offsets : AtomicLog'[p][o] = AtomicLog[p][o]
    PROVE  UNCHANGED Atomic!vars
<1>1. AtomicLog' = AtomicLog
  <2>1. AtomicLog' = [p \in Partitions |-> [o \in Offsets |-> AtomicLog'[p][o]]]
    BY DEF AtomicLog
  <2> DEFINE f == AtomicLog'
             g == AtomicLog
  <2>2. g = [p \in Partitions |-> [o \in Offsets |-> g[p][o]]]  BY AtomicCells
  <2>3. \A p \in Partitions, o \in Offsets : f[p][o] = g[p][o]  OBVIOUS
  <2> HIDE DEF f, g
  <2>4. f = g  BY <2>1, <2>2, <2>3, SameLog DEF f
  <2> QED  BY <2>4 DEF f, g
<1> QED  BY <1>1 DEF Atomic!vars

\* The cells that the mapping shows after a step.
LEMMA AtomicCellsNext ==
    /\ AtomicLog' = [p \in Partitions |-> [o \in Offsets |-> AtomicLog'[p][o]]]
    /\ \A p \in Partitions, o \in Offsets :
         AtomicLog'[p][o] =
           IF Uncommitted(p, o)' \/ (Rotating' /\ p = partition_index(active_term_id' + 1))
           THEN Empty ELSE log'[p][o]
BY DEF AtomicLog, partition_index

\* Units that are not committed show as blank, and are either blank or behind
\* the mapping.
LEMMA BlankShown ==
    ASSUME StepsInv, NEW o \in Offsets, term_offset <= o,
           offer.pc \in {"idle", "header", "payload", "commit", "pad_header", "pad_commit"}
    PROVE  AtomicLog[partition_index(active_term_id)][o] = Empty
<1> DEFINE p == partition_index(active_term_id)
<1>1. p \in Partitions /\ ~Rotating  BY PublisherTypes DEF StepsInv, Rotating
<1>2. CASE offer.pc \in {"payload", "commit", "pad_commit"}
  BY <1>1, <1>2, AtomicCells DEF Uncommitted
<1>3. CASE offer.pc \in {"idle", "header", "pad_header"}
  <2>1. log[p][o] = Empty  BY <1>3 DEF StepsInv, BlankInv, Untouched, Cell
  <2> QED  BY <1>1, <1>3, <2>1, AtomicCells DEF Uncommitted
<1> QED  BY <1>2, <1>3

\* The steps of offer before a commit show nothing.
LEMMA WritesInvisible ==
    ASSUME StepsInv, StepsInv', WriteHeader \/ WritePayload \/ WritePadHeader
    PROVE  UNCHANGED Atomic!vars
<1> DEFINE T == partition_index(active_term_id)
<1>1. /\ UNCHANGED <<active_term_id, term_offset, pub_position, sender_position>>
      /\ offer.pc \in {"header", "payload", "pad_header"}
      /\ offer'.pc \in {"payload", "commit", "pad_commit"}
  BY PublisherTypes DEF WriteHeader, WritePayload, WritePadHeader, StepsInv
<1>2. UNCHANGED <<AtomicTerm, AtomicOffset, AtomicPosition, sender_position>>
  BY <1>1 DEF AtomicTerm, AtomicOffset, AtomicPosition, Rotating
<1>3. T \in Partitions /\ term_offset \in Nat /\ offer.len \in Nat  BY PublisherTypes DEF StepsInv
<1>4. ASSUME NEW p \in Partitions, NEW o \in Offsets PROVE AtomicLog'[p][o] = AtomicLog[p][o]
  <2>1. ~Rotating /\ ~Rotating'  BY <1>1 DEF Rotating
  <2>2. CASE p = T /\ term_offset <= o
    <3>1. AtomicLog[p][o] = Empty  BY <1>1, <2>2, BlankShown
    <3>2. Uncommitted(p, o)'  BY <1>1, <2>2 DEF Uncommitted, partition_index
    <3> QED  BY <3>1, <3>2, AtomicCellsNext
  <2>3. CASE p # T \/ ~(term_offset <= o)
    <3>1. ~Uncommitted(p, o) /\ ~Uncommitted(p, o)'
      BY <1>1, <2>3 DEF Uncommitted, partition_index
    <3>2. PICK S, c : Store(S, c) /\ \A i \in S : term_offset <= i
      <4>1. CASE WritePayload
        BY <1>3, <4>1 DEF WritePayload
      <4>2. CASE WriteHeader \/ WritePadHeader
        BY <1>3, <4>2 DEF WriteHeader, WritePadHeader
      <4> QED  BY <4>1, <4>2
    <3>3. log'[p][o] = log[p][o]
      BY <2>3, <3>2, StoreCells DEF StepsInv
    <3> QED  BY <2>1, <3>1, <3>3, AtomicCells, AtomicCellsNext
  <2> QED  BY <2>2, <2>3
<1> QED  BY <1>2, <1>4, Invisible

\* The store to frame_length is the whole of NetworkPublication's offer.
LEMMA CommitIsOffer ==
    ASSUME StepsInv, StepsInv', CommitFrame
    PROVE  Atomic!Offer(offer.len)
<1> DEFINE T == partition_index(active_term_id)
           n == offer.len
           w == WritePosition
<1>1. /\ UNCHANGED <<active_term_id, term_offset, pub_position, sender_position>>
      /\ offer.pc = "commit" /\ offer'.pc = "advance" /\ offer'.len = n /\ Commit(n)
  BY PublisherTypes DEF CommitFrame, StepsInv
<1>2. /\ T \in Partitions /\ term_offset \in Nat /\ n \in Nat /\ TermLength \in Nat
      /\ active_term_id \in Nat
  BY PublisherTypes DEF StepsInv
<1>3. 0 < n /\ term_offset + n <= TermLength /\ term_offset < TermLength
  BY <1>1, <1>2, BoundariesAssumption DEF StepsInv, IInv, OfferInv
<1>4. /\ AtomicTerm = active_term_id /\ AtomicTerm' = active_term_id
      /\ AtomicOffset = term_offset /\ AtomicOffset' = term_offset + n
      /\ AtomicPosition = pub_position
      /\ AtomicPosition' = compute_position(active_term_id, term_offset + n)
  BY <1>1 DEF AtomicTerm, AtomicOffset, AtomicPosition, Rotating, compute_position
<1>5. ~Atomic!BackPressured
  <2>1. pub_position - sender_position < TermLength * 3
    BY <1>1 DEF StepsInv, GuardInv, max_ahead
  <2>2. pub_position \in Nat /\ sender_position \in Nat /\ TermLength * 3 \in Nat
    BY <1>2 DEF StepsInv, IInv, TypeOK
  <2> QED  BY <1>4, <2>1, <2>2 DEF Atomic!BackPressured, Atomic!PARTITION_COUNT
<1> DEFINE frame == [o \in Offsets |->
                       IF o = term_offset THEN [Header("data", w) EXCEPT !.len = n]
                       ELSE IF term_offset < o /\ o < term_offset + n THEN Body(w)
                       ELSE AtomicLog[T][o]]
           g == [AtomicLog EXCEPT ![T] = frame]
<1>6. ASSUME NEW p \in Partitions, NEW o \in Offsets PROVE AtomicLog'[p][o] = g[p][o]
  <2>1. AtomicLog'[p][o] = log'[p][o]
    BY <1>1, AtomicCellsNext DEF Uncommitted, Rotating
  <2>2. log'[p][o] = IF p = T /\ o = term_offset
                     THEN [log[p][o] EXCEPT !.len = n] ELSE log[p][o]
    BY <1>1, <1>3, CommitCells DEF StepsInv
  <2>3. g[p][o] = IF p = T THEN frame[o] ELSE AtomicLog[p][o]
    BY AtomicCells
  <2>4. AtomicLog[p][o] = IF p = T /\ term_offset <= o THEN Empty ELSE log[p][o]
    BY <1>1, AtomicCells DEF Uncommitted, Rotating
  <2>5. CASE p # T \/ o < term_offset
    BY <1>2, <2>1, <2>2, <2>3, <2>4, <2>5 DEF Offsets
  <2>6. CASE p = T /\ o = term_offset
    <3>1. log[p][o] = Header("data", w)
      BY <1>1, <2>6 DEF StepsInv, IInv, WritingInv, Cell
    <3> QED  BY <2>1, <2>2, <2>3, <2>6, <3>1, SMTT(40)
  <2>7. CASE p = T /\ term_offset < o /\ o < term_offset + n
    <3>1. log[p][o] = Body(w)
      BY <1>1, <2>7 DEF StepsInv, IInv, WritingInv, Cell
    <3> QED  BY <1>2, <2>1, <2>2, <2>3, <2>7, <3>1, SMTT(40) DEF Offsets
  <2>8. CASE p = T /\ term_offset + n <= o
    <3>1. term_offset < o  BY <1>2, <1>3, <2>8 DEF Offsets
    <3>2. log[p][o] = Empty
      BY <1>1, <1>2, <2>8, <3>1 DEF StepsInv, BlankInv, Untouched, Cell, Offsets
    <3> QED  BY <1>2, <2>1, <2>2, <2>3, <2>4, <2>8, <3>1, <3>2 DEF Offsets
  <2> QED  BY <1>2, <2>5, <2>6, <2>7, <2>8 DEF Offsets
<1>7. AtomicLog' = g
  <2>1. g = [p \in Partitions |-> [o \in Offsets |-> g[p][o]]]
    BY <1>2, AtomicCells, Zenon
  <2> DEFINE f == AtomicLog'
  <2>2. f = [p \in Partitions |-> [o \in Offsets |-> f[p][o]]]  BY AtomicCellsNext
  <2>3. \A p \in Partitions, o \in Offsets : f[p][o] = g[p][o]  BY <1>6
  <2> HIDE DEF f, g
  <2>4. f = g  BY <2>1, <2>2, <2>3, SameLog
  <2> QED  BY <2>4 DEF f
<1>8. Atomic!append_frame(n)
  BY <1>4, <1>7, SameGeometry, Zenon DEF Atomic!append_frame, WritePosition
<1> QED  BY <1>1, <1>2, <1>3, <1>4, <1>5, <1>8, SameGeometry DEF Atomic!Offer

\* The end of a term: the pad, if there is a tail to pad, and the rotation,
\* whose cleaned partition already shows as blank.
LEMMA RotationIsTermFull ==
    ASSUME StepsInv, NEW n \in FrameSizes, term_offset + n > TermLength,
           pub_position - sender_position < max_ahead, active_term_id < MaxTerm,
           UNCHANGED <<active_term_id, term_offset, pub_position, sender_position>>,
           offer.pc \in {"idle", "pad_commit"}, offer'.pc = "rotate",
           \A p \in Partitions, o \in Offsets :
             log'[p][o] = IF p = partition_index(active_term_id) /\ o = term_offset
                          THEN [Header("pad", WritePosition) EXCEPT !.len = TermLength - term_offset]
                          ELSE log[p][o]
    PROVE  Atomic!OfferTermFull(n)
<1> DEFINE T == partition_index(active_term_id)
           U == partition_index(active_term_id + 1)
           pad == [Header("pad", WritePosition) EXCEPT !.len = TermLength - term_offset]
           part == [o \in Offsets |-> IF o = term_offset THEN pad ELSE AtomicLog[T][o]]
           g == [[AtomicLog EXCEPT ![T] = part] EXCEPT ![U] = CleanPartition]
<1>1. /\ T \in Partitions /\ term_offset \in Nat /\ TermLength \in Nat
      /\ active_term_id \in Nat
  BY PublisherTypes DEF StepsInv
<1>2. U \in Partitions /\ U # T
  BY <1>1, PartitionType, PartitionsDiffer
<1>3. /\ AtomicTerm = active_term_id /\ AtomicTerm' = active_term_id + 1
      /\ AtomicOffset = term_offset /\ AtomicOffset' = 0
      /\ AtomicPosition = pub_position /\ AtomicPosition' = pub_position
  BY DEF AtomicTerm, AtomicOffset, AtomicPosition, Rotating
<1>4. ~Atomic!BackPressured
  <2>1. pub_position \in Nat /\ sender_position \in Nat /\ TermLength * 3 \in Nat
    BY <1>1 DEF StepsInv, IInv, TypeOK
  <2> QED  BY <1>3, <2>1 DEF max_ahead, Atomic!BackPressured, Atomic!PARTITION_COUNT
<1>5. ASSUME NEW p \in Partitions, NEW o \in Offsets PROVE AtomicLog'[p][o] = g[p][o]
  <2>1. AtomicLog'[p][o] = IF p = U THEN Empty ELSE log'[p][o]
    BY AtomicCellsNext DEF Uncommitted, Rotating
  <2>2. g[p][o] = IF p = U THEN Empty ELSE IF p = T THEN part[o] ELSE AtomicLog[p][o]
    BY <1>1, <1>2, AtomicCells DEF CleanPartition
  <2>3. ~Rotating  BY DEF Rotating
  <2>4. CASE p = U  BY <2>1, <2>2, <2>4
  <2>5. CASE p # U /\ p = T /\ o = term_offset  BY <2>1, <2>2, <2>5
  <2>6. CASE p # U /\ p = T /\ term_offset < o
    <3>1. AtomicLog[p][o] = Empty  BY <1>1, <2>6, BlankShown DEF Offsets
    <3>2. log[p][o] = Empty
      BY <1>1, <2>6 DEF StepsInv, BlankInv, Untouched, Cell, Offsets
    <3> QED  BY <1>1, <2>1, <2>2, <2>6, <3>1, <3>2 DEF Offsets
  <2>7. CASE p # U /\ (p # T \/ o < term_offset)
    <3>1. AtomicLog[p][o] = log[p][o]
      BY <1>1, <2>3, <2>7, AtomicCells DEF Uncommitted, Offsets
    <3> QED  BY <1>1, <2>1, <2>2, <2>7, <3>1 DEF Offsets
  <2> QED  BY <1>1, <2>4, <2>5, <2>6, <2>7 DEF Offsets
<1>6. AtomicLog' = g
  <2>1. g = [p \in Partitions |-> [o \in Offsets |-> g[p][o]]]
    <3>1. g = [p \in Partitions |->
                 IF p = U THEN CleanPartition ELSE IF p = T THEN part ELSE AtomicLog[p]]
      BY <1>1, <1>2, AtomicCells, Zenon
    <3>2. ASSUME NEW p \in Partitions PROVE g[p] = [o \in Offsets |-> g[p][o]]
      <4>1. g[p] = IF p = U THEN CleanPartition ELSE IF p = T THEN part ELSE AtomicLog[p]
        BY <3>1
      <4>2. AtomicLog[p] = [o \in Offsets |-> AtomicLog[p][o]]  BY AtomicCells
      <4>3. part = [o \in Offsets |-> part[o]]  OBVIOUS
      <4> HIDE DEF g, part
      <4> QED  BY <4>1, <4>2, <4>3 DEF CleanPartition
    <3> HIDE DEF part, T, U
    <3> QED  BY <3>1, <3>2, Zenon
  <2> DEFINE f == AtomicLog'
  <2>2. f = [p \in Partitions |-> [o \in Offsets |-> f[p][o]]]  BY AtomicCellsNext
  <2>3. \A p \in Partitions, o \in Offsets : f[p][o] = g[p][o]  BY <1>5
  <2> HIDE DEF f, g
  <2>4. f = g  BY <2>1, <2>2, <2>3, SameLog
  <2> QED  BY <2>4 DEF f
<1>7. AtomicLog' = Atomic!clean_partition(Atomic!write_pad_frame(AtomicLog), AtomicTerm + 1)
  <2>1. Atomic!write_pad_frame(AtomicLog) = [AtomicLog EXCEPT ![T] = part]
    BY <1>3, SameGeometry, Zenon DEF Atomic!write_pad_frame, WritePosition
  <2>2. \A l : Atomic!clean_partition(l, AtomicTerm + 1) = [l EXCEPT ![U] = CleanPartition]
    BY <1>3, SameGeometry, Zenon DEF Atomic!clean_partition
  <2> HIDE DEF part
  <2> QED  BY <1>6, <2>1, <2>2, Zenon
<1> QED  BY <1>1, <1>3, <1>4, <1>7 DEF Atomic!OfferTermFull

\* The store to the pad's frame_length is the whole of TermFull.
LEMMA CommitPadIsTermFull ==
    ASSUME StepsInv, CommitPad
    PROVE  \E n \in FrameSizes : Atomic!OfferTermFull(n)
<1>1. /\ UNCHANGED <<active_term_id, term_offset, pub_position, sender_position>>
      /\ offer.pc = "pad_commit" /\ offer'.pc = "rotate" /\ Commit(offer.len)
  BY PublisherTypes DEF CommitPad, StepsInv
<1>2. /\ offer.len = TermLength - term_offset /\ active_term_id < MaxTerm
      /\ term_offset < TermLength /\ pub_position - sender_position < max_ahead
  BY <1>1 DEF StepsInv, IInv, OfferInv, GuardInv
<1>3. log[partition_index(active_term_id)][term_offset] = Header("pad", WritePosition)
  BY <1>1 DEF StepsInv, IInv, WritingInv, Cell
<1>4. PICK n \in FrameSizes : term_offset + n > TermLength
  BY <1>1 DEF StepsInv, GuardInv
<1>5. \A p \in Partitions, o \in Offsets :
        log'[p][o] = IF p = partition_index(active_term_id) /\ o = term_offset
                     THEN [Header("pad", WritePosition) EXCEPT !.len = TermLength - term_offset]
                     ELSE log[p][o]
  <2>1. \A p \in Partitions, o \in Offsets :
          log'[p][o] = IF p = partition_index(active_term_id) /\ o = term_offset
                       THEN [log[p][o] EXCEPT !.len = offer.len] ELSE log[p][o]
    BY <1>1, <1>2, CommitCells DEF StepsInv
  <2> QED  BY <1>2, <1>3, <2>1, Zenon
<1> QED  BY <1>1, <1>2, <1>4, <1>5, RotationIsTermFull

\* offer of a frame that does not fit shows at once when there is no tail.
LEMMA TermFullMaps ==
    ASSUME StepsInv, NEW n \in FrameSizes, OfferTermFull(n)
    PROVE  Atomic!OfferTermFull(n) \/ UNCHANGED Atomic!vars
<1>1. /\ UNCHANGED <<log, active_term_id, term_offset, pub_position, sender_position>>
      /\ offer.pc = "idle" /\ active_term_id < MaxTerm /\ term_offset + n > TermLength
      /\ offer'.pc = IF term_offset < TermLength THEN "pad_header" ELSE "rotate"
  BY DEF OfferTermFull
<1>2. /\ term_offset \in Nat /\ term_offset <= TermLength /\ TermLength \in Nat
      /\ \A o \in Offsets : o \in Nat /\ o < TermLength
  BY PublisherTypes DEF StepsInv, Offsets
<1>3. CASE term_offset < TermLength
  <2>1. offer'.pc = "pad_header"  BY <1>1, <1>3
  <2>2. UNCHANGED <<AtomicTerm, AtomicOffset, AtomicPosition, sender_position>>
    BY <1>1, <2>1 DEF AtomicTerm, AtomicOffset, AtomicPosition, Rotating
  <2>3. \A p \in Partitions, o \in Offsets : AtomicLog'[p][o] = AtomicLog[p][o]
    BY <1>1, <2>1, AtomicCells, AtomicCellsNext DEF Uncommitted, Rotating
  <2> QED  BY <2>2, <2>3, Invisible
<1>4. CASE ~(term_offset < TermLength)
  <2>1. offer'.pc = "rotate" /\ \A o \in Offsets : o # term_offset  BY <1>1, <1>2, <1>4
  <2>2. pub_position - sender_position < max_ahead
    <3>1. pub_position \in Nat /\ sender_position \in Nat /\ max_ahead \in Nat
      BY <1>2 DEF StepsInv, IInv, TypeOK, max_ahead
    <3> QED  BY <3>1 DEF OfferTermFull, BackPressured
  <2>3. \A p \in Partitions, o \in Offsets :
          log'[p][o] = IF p = partition_index(active_term_id) /\ o = term_offset
                       THEN [Header("pad", WritePosition) EXCEPT !.len = TermLength - term_offset]
                       ELSE log[p][o]
    BY <1>1, <2>1
  <2> QED  BY <1>1, <2>1, <2>2, <2>3, RotationIsTermFull
<1> QED  BY <1>3, <1>4

\* The steps of offer after a commit, and its begin, show nothing.
LEMMA RestInvisible ==
    ASSUME StepsInv, (\E n \in FrameSizes : OfferBegin(n)) \/ Advance \/ rotate_term
    PROVE  UNCHANGED Atomic!vars
<1>1. CASE \E n \in FrameSizes : OfferBegin(n)
  <2>1. /\ UNCHANGED <<log, active_term_id, term_offset, pub_position, sender_position>>
        /\ offer.pc = "idle" /\ offer'.pc = "header"
    BY <1>1 DEF OfferBegin
  <2>2. UNCHANGED <<AtomicTerm, AtomicOffset, AtomicPosition, sender_position>>
    BY <2>1 DEF AtomicTerm, AtomicOffset, AtomicPosition, Rotating
  <2>3. \A p \in Partitions, o \in Offsets : AtomicLog'[p][o] = AtomicLog[p][o]
    BY <2>1, AtomicCells, AtomicCellsNext, SMTT(40) DEF Uncommitted, Rotating
  <2> QED  BY <2>2, <2>3, Invisible
<1>2. CASE Advance
  <2>1. /\ UNCHANGED <<log, active_term_id, sender_position>>
        /\ offer.pc = "advance" /\ offer'.pc = "idle"
        /\ term_offset' = term_offset + offer.len
        /\ pub_position' = compute_position(active_term_id, term_offset + offer.len)
    BY <1>2 DEF Advance, Idle
  <2>2. UNCHANGED <<AtomicTerm, AtomicOffset, AtomicPosition, sender_position>>
    BY <2>1 DEF AtomicTerm, AtomicOffset, AtomicPosition, Rotating
  <2>3. \A p \in Partitions, o \in Offsets : AtomicLog'[p][o] = AtomicLog[p][o]
    BY <2>1, AtomicCells, AtomicCellsNext DEF Uncommitted, Rotating
  <2> QED  BY <2>2, <2>3, Invisible
<1>3. CASE rotate_term
  <2>1. /\ UNCHANGED <<pub_position, sender_position>>
        /\ offer.pc = "rotate" /\ offer'.pc = "idle"
        /\ active_term_id' = active_term_id + 1 /\ term_offset' = 0
    BY <1>3 DEF rotate_term, Idle
  <2>2. UNCHANGED <<AtomicTerm, AtomicOffset, AtomicPosition, sender_position>>
    BY <2>1 DEF AtomicTerm, AtomicOffset, AtomicPosition, Rotating
  <2>3. \A p \in Partitions, o \in Offsets : AtomicLog'[p][o] = AtomicLog[p][o]
    BY <1>3, <2>1, AtomicCells, AtomicCellsNext, RotateCells DEF StepsInv, Uncommitted, Rotating
  <2> QED  BY <2>2, <2>3, Invisible
<1> QED  BY <1>1, <1>2, <1>3

\* The store to sender_position is the whole of NetworkPublication's scan, of
\* what was published when this one began.
LEMMA StoreIsScan ==
    ASSUME StepsInv, ScanStore
    PROVE  scan.limit \in 1 .. TermLength /\ Atomic!sender_scan(scan.limit)
<1> DEFINE a == OffsetOf(sender_position)
           s == partition_index(ScanTerm)
           m == scan.limit
<1>1. /\ UNCHANGED <<log, active_term_id, term_offset, pub_position, offer>>
      /\ scan.pc = "store" /\ sender_position' = sender_position + scan.scanned
  BY DEF ScanStore, pubVars, ScanPosition
<1>2. /\ ScanTerm \in Nat /\ a \in Nat /\ a \in 0 .. TermLength /\ m \in Nat
      /\ scan.scanned \in Nat /\ ScanOffset = a + scan.scanned
      /\ ScanOffset \in 0 .. TermLength /\ s \in Partitions
      /\ log[s] \in [Offsets -> Cells]
  BY ScanTypes DEF StepsInv
<1>3. /\ 0 < m /\ sender_position + m <= pub_position /\ m <= scan.scanned
      /\ Walks(log[s], a, m, ScanOffset)
  BY <1>1 DEF StepsInv, WalkInv
<1>4. /\ a + m <= TermLength /\ active_term_id < ScanTerm + 4 /\ ScanTerm <= active_term_id
      /\ ScanTerm = active_term_id => a + m <= term_offset
  <2>1. active_term_id \in Nat  BY PublisherTypes DEF StepsInv
  <2>2. ScanInv /\ scan.pc # "idle"  BY <1>1 DEF StepsInv, IInv
  <2>3. /\ a + m <= TermLength /\ active_term_id < ScanTerm + 4
        /\ ScanTerm < active_term_id \/ ScanTerm = active_term_id
        /\ ScanTerm = active_term_id => a + m <= term_offset
    BY <2>2 DEF ScanInv
  <2> QED  BY <1>2, <2>1, <2>3
<1>5. /\ active_term_id \in Nat /\ term_offset \in Nat /\ TermLength \in Nat
      /\ offer.len \in Nat /\ pub_position \in Nat /\ sender_position \in Nat
  BY PublisherTypes DEF StepsInv, IInv, TypeOK
<1>6. m \in 1 .. TermLength  BY <1>2, <1>3, <1>4, <1>5
<1>7. AtomicPosition \in Nat /\ pub_position <= AtomicPosition
  <2>1. CASE offer.pc = "advance"
    <3>1. active_term_id * TermLength \in Nat  BY <1>5
    <3>2. pub_position <= active_term_id * TermLength + term_offset
      BY <1>5, <3>1 DEF StepsInv, IInv, OfferInv, compute_position
    <3>3. AtomicPosition = active_term_id * TermLength + (term_offset + offer.len)
      BY <2>1 DEF AtomicPosition, compute_position
    <3> QED  BY <1>5, <3>1, <3>2, <3>3
  <2>2. CASE offer.pc # "advance"  BY <1>5, <2>2 DEF AtomicPosition
  <2> QED  BY <2>1, <2>2
<1>8. Atomic!ScanLimit(m) = m
  <2>1. m <= AtomicPosition - sender_position /\ m <= TermLength - a
    BY <1>2, <1>3, <1>4, <1>5, <1>7
  <2>2. Lesser(Lesser(m, AtomicPosition - sender_position), TermLength - a) = m
    BY <1>2, <1>5, <1>7, <2>1 DEF Lesser
  <2> QED  BY <2>2, SameGeometry DEF Atomic!ScanLimit
<1>9. ASSUME NEW o \in 0 .. TermLength, o < TermLength, o - a < m
      PROVE  AtomicLog[s][o] = log[s][o]
  <2>1. o \in Offsets  BY <1>5, <1>9 DEF Offsets
  <2>2. s = partition_index(active_term_id) => o < term_offset
    BY <1>2, <1>4, <1>5, <1>9, PartitionsDiffer
  <2>3. Rotating => s # partition_index(active_term_id + 1)
    <3> SUFFICES ASSUME Rotating PROVE s # partition_index(active_term_id + 1)  OBVIOUS
    <3>1. active_term_id <= ScanTerm + 2  BY DEF Rotating, StepsInv, IInv, OfferInv
    <3>2. /\ active_term_id + 1 \in Nat /\ ScanTerm < active_term_id + 1
          /\ active_term_id + 1 < ScanTerm + 4
      BY <1>2, <1>4, <1>5, <3>1
    <3> QED  BY <1>2, <3>2, PartitionsDiffer
  <2>4. ~Uncommitted(s, o)  BY <1>5, <2>1, <2>2 DEF Uncommitted, Offsets
  <2> QED  BY <1>2, <2>1, <2>3, <2>4, AtomicCells
<1>10. Walks(AtomicLog[s], a, m, ScanOffset)
  <2> DEFINE other == AtomicLog[s]
             part == log[s]
  <2>1. \A o \in 0 .. TermLength : o < TermLength /\ o - a < m => other[o] = part[o]
    BY <1>9
  <2>2. Walks(part, a, m, ScanOffset)  BY <1>3
  <2> HIDE DEF other, part, a, m
  <2>3. Walks(other, a, m, ScanOffset)  BY <1>2, <2>1, <2>2, WalksKept, SMTT(40)
  <2> QED  BY <2>3 DEF other
<1>11. AtomicLog[s] \in [Offsets -> Cells]
  BY <1>2, SMTT(40) DEF AtomicLog, Empty, Cells
<1>12. ~Passes(AtomicLog[s], a, m, ScanOffset)
  BY <1>2, <1>3 DEF Passes
<1>13. Atomic!scan_frames(AtomicLog[s], a, m) = ScanOffset
  <2> HIDE DEF a, s, m
  <2> QED  BY <1>2, <1>10, <1>11, <1>12, ScanIsWalk, SMTT(40)
<1>14. sender_position' = compute_position(ScanTerm, ScanOffset)
  <2>1. sender_position = compute_position(ScanTerm, a) /\ ScanTerm * TermLength \in Nat
    BY <1>2, <1>5, SenderTypes, SMTT(40) DEF StepsInv, IInv
  <2> QED  BY <1>1, <1>2, <1>5, <2>1, SMTT(40) DEF compute_position
<1>15. sender_position' = Atomic!ScannedTo(m)
  BY <1>8, <1>13, <1>14, SameGeometry, SMTT(40) DEF Atomic!ScannedTo, Atomic!ScanTerm, ScanTerm
<1>16. AtomicPosition - sender_position > 0  BY <1>2, <1>3, <1>5, <1>7, SMTT(40)
<1>17. UNCHANGED <<AtomicLog, AtomicTerm, AtomicOffset, AtomicPosition>>
  BY <1>1 DEF AtomicLog, AtomicTerm, AtomicOffset, AtomicPosition, Uncommitted, Rotating
<1> QED  BY <1>6, <1>15, <1>16, <1>17 DEF Atomic!sender_scan

\* Every step maps to a step of NetworkPublication or to none.
LEMMA NextMaps ==
    ASSUME StepsInv, StepsInv', [Next]_vars
    PROVE  [Atomic!Next]_(Atomic!vars)
<1>1. ASSUME NEW n \in FrameSizes, OfferBegin(n) \/ OfferTermFull(n)
      PROVE  [Atomic!Next]_(Atomic!vars)
  BY <1>1, RestInvisible, TermFullMaps DEF Atomic!Next
<1>2. CASE Write
  <2>1. CASE WriteHeader \/ WritePayload \/ WritePadHeader  BY <2>1, WritesInvisible
  <2>2. CASE CommitFrame
    <3>1. offer.len \in FrameSizes  BY <2>2 DEF CommitFrame, StepsInv, GuardInv
    <3> QED  BY <2>2, <3>1, CommitIsOffer DEF Atomic!Next
  <2>3. CASE CommitPad  BY <2>3, CommitPadIsTermFull DEF Atomic!Next
  <2>4. CASE Advance \/ rotate_term  BY <2>4, RestInvisible
  <2> QED  BY <1>2, <2>1, <2>2, <2>3, <2>4 DEF Write
<1>3. CASE Sender
  <2>1. CASE ScanStore  BY <2>1, StoreIsScan, SMTT(40) DEF Atomic!Next
  <2>2. CASE ~ScanStore
    <3>1. UNCHANGED <<log, pubVars, sender_position>>
      BY <1>3, <2>2, Zenon DEF Sender, ScanBegin, ScanLoad, ScanEmit, ScanStop
    <3> QED
      BY <3>1, SMTT(40) DEF pubVars, Atomic!vars, AtomicLog, AtomicTerm, AtomicOffset, AtomicPosition,
                  Uncommitted, Rotating
  <2> QED  BY <2>1, <2>2
<1>4. CASE UNCHANGED vars
  BY <1>4 DEF vars, Atomic!vars, AtomicLog, AtomicTerm, AtomicOffset, AtomicPosition,
              Uncommitted, Rotating
<1> QED  BY <1>1, <1>2, <1>3, <1>4 DEF Next, Publisher

\* offer and sender_scan, step by step and interleaved, are whole offers and
\* whole scans: the lock-free publication implements the single-threaded one.
THEOREM OfferAndScanAreAtomic == Spec => IsAtomic
<1>1. Spec => []StepsInv  BY StepsInductive, PTL DEF Spec
<1>2. Init => Atomic!Init  BY InitMaps
<1>3. StepsInv /\ StepsInv' /\ [Next]_vars => [Atomic!Next]_(Atomic!vars)  BY NextMaps
<1> QED  BY <1>1, <1>2, <1>3, PTL DEF Spec, IsAtomic, Atomic!Spec

-----------------------------------------------------------------------------
(* The frames of a flush. *)

\* A committed data frame for position p is behind the write cursor.
Sent(p) ==
    /\ Written(TermOf(p), OffsetOf(p))
    /\ Cell(TermOf(p), OffsetOf(p)).len > 0
    /\ Cell(TermOf(p), OffsetOf(p)).kind = "data"

\* A scan has only submitted frames of its own term, and sender_position is
\* at most the start of the next.  Those frames are in the log until the
\* publisher is four terms on, which takes a pad.
FlushInv ==
    /\ offer.pc = "rotate" /\ term_offset < TermLength =>
         Cell(active_term_id, term_offset).kind = "pad"
    /\ \A p \in unflushed :
         /\ p \in Nat
         /\ \/ TermOf(p) = ScanTerm
            \/ /\ scan.pc = "idle"
               /\ TermOf(p) + 1 = ScanTerm
               /\ OffsetOf(sender_position) = 0
         /\ active_term_id < TermOf(p) + PARTITION_COUNT => Sent(p)
         /\ active_term_id >= TermOf(p) + PARTITION_COUNT => LeftWithPad

\* An unflushed frame that is behind the write cursor is whole.
LEMMA SentIsIntact ==
    ASSUME IInv, NEW p \in Nat, Sent(p), active_term_id < TermOf(p) + 4
    PROVE  Intact(p)
<1> DEFINE t == TermOf(p)
           o == OffsetOf(p)
<1>1. t \in Nat /\ o \in Offsets /\ p = compute_position(t, o)  BY PositionSplit
<1>2. active_term_id \in Nat /\ TermLength \in Nat /\ o \in Nat
  BY <1>1, PublisherTypes DEF Offsets
<1>3. t \in Window  BY <1>1, <1>2, SMTT(40) DEF Sent, Written, Window
<1>4. WholeFrame(t, o)  BY <1>1, <1>3, SMTT(40) DEF IInv, ChainInv, Linked, Sent
<1>5. o + Cell(t, o).len <= TermLength /\ Cell(t, o).len \in Nat
  <2>1. Cell(t, o) \in Cells
    BY <1>1, <1>3, WindowPartitions DEF IInv, TypeOK, Cell
  <2>2. Cell(t, o).len \in Nat  BY <2>1, SMTT(40) DEF Cells
  <2>3. o + Cell(t, o).len \in Boundaries  BY <1>4, SMTT(40) DEF WholeFrame
  <2>4. \A b \in Boundaries : b <= TermLength  BY BoundariesAssumption, TermLengthAssumption, SMTT(40)
  <2> QED  BY <2>2, <2>3, <2>4
<1>6. ASSUME NEW i \in o + 1 .. o + Cell(t, o).len - 1 PROVE Cell(t, i) = Body(p)
  <2>1. i \in Offsets /\ o < i /\ i < o + Cell(t, o).len  BY <1>2, <1>5, SMTT(40) DEF Offsets
  <2> QED  BY <1>1, <1>4, <2>1 DEF WholeFrame, Sent
<1>7. Cell(t, o).kind = "data" /\ Cell(t, o).pos = p /\ Cell(t, o).len > 0
  BY <1>1, <1>4 DEF WholeFrame, Sent
<1> QED  BY <1>6, <1>7 DEF Intact, Cell

\* With the inductive invariant, what the runs check.
LEMMA FlushInvKeeps ==
    ASSUME IInv, FlushInv PROVE UnflushedKept
<1> SUFFICES ASSUME ~LeftWithPad, NEW p \in unflushed PROVE Intact(p)
  BY DEF UnflushedKept
<1>1. p \in Nat /\ ~(active_term_id >= TermOf(p) + 4) /\ TermOf(p) \in Nat
  BY PositionSplit DEF FlushInv
<1>2. active_term_id < TermOf(p) + 4  BY <1>1, PublisherTypes
<1>3. Sent(p)  BY <1>2 DEF FlushInv
<1> QED  BY <1>1, <1>2, <1>3, SentIsIntact

\* While offer rotates away from a term it padded, the pad is there.
LEMMA PadStep ==
    ASSUME StepsInv, FlushInv, [Next]_vars, offer'.pc = "rotate", term_offset' < TermLength
    PROVE  Cell(active_term_id, term_offset)'.kind = "pad"
<1>1. offer = [pc |-> offer.pc, len |-> offer.len] /\ partition_index(active_term_id) \in Partitions
  BY PublisherTypes DEF StepsInv
<1>2. CASE CommitPad
  <2>1. /\ UNCHANGED <<active_term_id, term_offset>> /\ offer.pc = "pad_commit" /\ Commit(offer.len)
    BY <1>2, SMTT(40) DEF CommitPad
  <2>2. Cell(active_term_id, term_offset) = Header("pad", WritePosition) /\ term_offset < TermLength
    BY <2>1 DEF StepsInv, IInv, WritingInv, OfferInv
  <2>3. term_offset \in Offsets  BY <2>2, PublisherTypes DEF StepsInv, Offsets
  <2>4. Cell(active_term_id, term_offset)' =
          [Cell(active_term_id, term_offset) EXCEPT !.len = offer.len]
    BY <1>1, <2>1, <2>2, <2>3, CommitCells, SMTT(40) DEF Cell, StepsInv
  <2> QED  BY <2>2, <2>4 DEF Header
<1>3. CASE \E n \in FrameSizes : OfferTermFull(n)  BY <1>3 DEF OfferTermFull
<1>4. CASE Sender \/ UNCHANGED vars
  <2>1. UNCHANGED <<log, offer, term_offset, active_term_id>>
    BY <1>4, ZenonT(40) DEF Sender, ScanBegin, ScanLoad, ScanEmit, ScanStop, ScanStore, pubVars, vars
  <2> QED  BY <2>1, SMTT(40) DEF FlushInv, Cell
<1> QED
  BY <1>1, <1>2, <1>3, <1>4, SMTT(40) DEF Next, Publisher, Write, OfferBegin, WriteHeader, WritePayload,
     CommitFrame, Advance, WritePadHeader, rotate_term, Idle

\* Frames that were sent stay while their term is in the log.
LEMMA SentStays ==
    ASSUME StepsInv, Publisher, NEW p \in Nat, Sent(p), active_term_id' < TermOf(p) + 4
    PROVE  Sent(p)'
<1> DEFINE t == TermOf(p)
           o == OffsetOf(p)
<1>1. t \in Nat /\ o \in Offsets /\ active_term_id \in Nat /\ term_offset \in Nat /\ o \in Nat
      /\ offer.len \in Nat
  BY PositionSplit, PublisherTypes DEF StepsInv, Offsets
<1>2. Written(t, o)  BY DEF Sent
<1>3. Cell(t, o)' = Cell(t, o)  BY <1>1, <1>2, PublisherKeeps
<1>4. \/ active_term_id' = active_term_id /\ term_offset' = term_offset
      \/ active_term_id' = active_term_id /\ term_offset' = term_offset + offer.len
      \/ active_term_id' = active_term_id + 1
  BY DEF Publisher, Write, OfferBegin, OfferTermFull, WriteHeader, WritePayload,
         CommitFrame, Advance, WritePadHeader, CommitPad, rotate_term
<1>5. Written(t, o)'  BY <1>1, <1>2, <1>4 DEF Written
<1>6. TermOf(p)' = t /\ OffsetOf(p)' = o  BY DEF TermOf, OffsetOf
<1> QED  BY <1>3, <1>5, <1>6 DEF Sent, Cell, Written, partition_index, TermOf, OffsetOf

\* The publisher comes to clean a term with unflushed frames only with a pad:
\* without one, back-pressure stops it at the end of the term before.
LEMMA PublisherFlush ==
    ASSUME StepsInv, FlushInv, Publisher, NEW p \in unflushed
    PROVE  /\ active_term_id' < TermOf(p) + 4 => Sent(p)'
           /\ active_term_id' >= TermOf(p) + 4 => LeftWithPad'
<1> DEFINE t == TermOf(p)
           T == active_term_id
<1>1. /\ p \in Nat /\ t \in Nat /\ T \in Nat /\ TermLength \in Nat /\ TermLength > 0
      /\ term_offset \in Nat /\ term_offset <= TermLength /\ ScanTerm \in Nat
      /\ pub_position \in Nat /\ sender_position \in Nat
  BY PositionSplit, PublisherTypes, ScanTypes DEF FlushInv, StepsInv, IInv, TypeOK
<1>2. /\ T < t + 4 => Sent(p)
      /\ T >= t + 4 => LeftWithPad
      /\ t = ScanTerm \/ (t + 1 = ScanTerm /\ OffsetOf(sender_position) = 0)
  BY DEF FlushInv
<1>3. CASE T' = T
  <2>1. T' < t + 4 => Sent(p)'  BY <1>1, <1>2, <1>3, SentStays, SMTT(40)
  <2>2. ASSUME T' >= t + 4 PROVE LeftWithPad'
    <3>1. LeftWithPad  BY <1>2, <1>3, <2>2, SMTT(40)
    <3>2. PICK o \in Offsets : log[partition_index(T - 1)][o].kind = "pad"
      BY <3>1 DEF LeftWithPad
    <3>3. T - 1 \in Nat /\ Written(T - 1, o) /\ T' < (T - 1) + 4
      BY <1>1, <1>3, <2>2 DEF Written
    <3>4. \A u \in Nat : Written(u, o) /\ T' < u + 4 =>
            log'[partition_index(u)][o] = log[partition_index(u)][o]
      BY PublisherKeeps DEF Cell, partition_index
    <3>5. log'[partition_index(T' - 1)][o].kind = "pad"
      BY <1>3, <3>2, <3>3, <3>4, SMTT(40)
    <3> QED  BY <3>5 DEF LeftWithPad, partition_index
  <2> QED  BY <2>1, <2>2
<1>4. CASE rotate_term
  <2>1. T' = T + 1 /\ offer.pc = "rotate"  BY <1>4 DEF rotate_term
  <2>2. T <= ScanTerm + 2 /\ term_offset > 0 /\ pub_position = compute_position(T, term_offset)
    BY <2>1 DEF StepsInv, IInv, OfferInv
  <2>3. T <= t + 3  BY <1>1, <1>2, <2>2
  <2>4. T' < t + 4 => Sent(p)'
    BY <1>1, <1>2, <2>1, <2>3, SentStays, SMTT(40)
  <2>5. ASSUME T' >= t + 4 PROVE LeftWithPad'
    <3>1. T = t + 3 /\ ScanTerm = t + 1 /\ OffsetOf(sender_position) = 0
      BY <1>1, <1>2, <2>1, <2>2, <2>3, <2>5, SMTT(40)
    <3>2. sender_position = (t + 1) * TermLength
      BY <1>1, <3>1, SenderTypes DEF StepsInv, IInv, compute_position
    <3>3. pub_position = (t + 3) * TermLength + term_offset
      BY <2>2, <3>1 DEF compute_position
    <3>4. pub_position - sender_position < TermLength * 3
      BY <2>1 DEF StepsInv, GuardInv, max_ahead
    <3>5. /\ (t + 3) * TermLength = t * TermLength + 3 * TermLength
          /\ (t + 1) * TermLength = t * TermLength + TermLength
          /\ t * TermLength \in Nat
      BY <1>1, SMTT(40)
    <3>6. term_offset < TermLength  BY <1>1, <3>2, <3>3, <3>4, <3>5, SMTT(40)
    <3>7. Cell(T, term_offset).kind = "pad" /\ term_offset \in Offsets
      BY <1>1, <2>1, <3>6 DEF FlushInv, Offsets
    <3>8. partition_index(T) \in Partitions /\ partition_index(T) # partition_index(T + 1)
      BY <1>1, PartitionType, PartitionsDiffer, SMTT(40)
    <3>9. log'[partition_index(T)][term_offset].kind = "pad"
      BY <1>4, <3>7, <3>8, RotateCells DEF StepsInv, Cell
    <3>10. T' - 1 = T  BY <1>1, <2>1
    <3>11. log'[partition_index(T' - 1)][term_offset].kind = "pad"  BY <3>9, <3>10
    <3> QED  BY <3>7, <3>11 DEF LeftWithPad, partition_index
  <2> QED  BY <2>4, <2>5
<1> QED
  BY <1>3, <1>4, SMTT(40) DEF Publisher, Write, OfferBegin, OfferTermFull, WriteHeader, WritePayload,
         CommitFrame, Advance, WritePadHeader, CommitPad

\* Where sender_scan stands is a position of its term.
LEMMA ScanPositionSplit ==
    ASSUME IInv, ScanOffset < TermLength
    PROVE  /\ ScanPosition \in Nat /\ TermOf(ScanPosition) = ScanTerm
           /\ OffsetOf(ScanPosition) = ScanOffset
<1>1. /\ ScanTerm \in Nat /\ OffsetOf(sender_position) \in Nat /\ scan.scanned \in Nat
      /\ ScanOffset = OffsetOf(sender_position) + scan.scanned /\ ScanOffset \in Nat
      /\ TermLength \in Nat
  BY ScanTypes, PublisherTypes
<1>2. sender_position = compute_position(ScanTerm, OffsetOf(sender_position))
  BY SenderTypes DEF IInv
<1>3. ScanTerm * TermLength \in Nat  BY <1>1
<1>4. ScanPosition = compute_position(ScanTerm, ScanOffset)
  BY <1>1, <1>2, <1>3 DEF ScanPosition, compute_position
<1>5. ScanOffset \in Offsets  BY <1>1 DEF Offsets
<1> QED  BY <1>1, <1>4, <1>5, PositionJoin

\* The store to sender_position ends a scan in its term or at the next's start.
LEMMA StoreTerm ==
    ASSUME IInv, ScanStore
    PROVE  \/ ScanTerm' = ScanTerm
           \/ ScanTerm' = ScanTerm + 1 /\ OffsetOf(sender_position)' = 0
<1>1. /\ ScanTerm \in Nat /\ OffsetOf(sender_position) \in Nat /\ scan.scanned \in Nat
      /\ ScanOffset = OffsetOf(sender_position) + scan.scanned /\ ScanOffset \in Nat
      /\ TermLength \in Nat /\ TermLength > 0 /\ ScanOffset <= TermLength
  BY ScanTypes, PublisherTypes
<1>2. sender_position' = ScanPosition  BY DEF ScanStore
<1>3. CASE ScanOffset < TermLength
  <2>1. TermOf(ScanPosition) = ScanTerm  BY <1>3, ScanPositionSplit
  <2> QED  BY <1>2, <2>1 DEF ScanTerm, TermOf
<1>4. CASE ScanOffset = TermLength
  <2>1. sender_position = compute_position(ScanTerm, OffsetOf(sender_position))
    BY SenderTypes DEF IInv
  <2>2. ScanTerm * TermLength \in Nat
        /\ (ScanTerm + 1) * TermLength = ScanTerm * TermLength + TermLength
    BY <1>1
  <2>3. ScanPosition = compute_position(ScanTerm + 1, 0)
    BY <1>1, <1>4, <2>1, <2>2 DEF ScanPosition, compute_position
  <2>4. ScanTerm + 1 \in Nat /\ 0 \in Offsets  BY <1>1 DEF Offsets
  <2>5. TermOf(ScanPosition) = ScanTerm + 1 /\ OffsetOf(ScanPosition) = 0
    BY <2>3, <2>4, PositionJoin
  <2> QED  BY <1>2, <2>5 DEF ScanTerm, TermOf, OffsetOf
<1> QED  BY <1>1, <1>3, <1>4

\* A step that leaves the log and the publisher alone leaves the frames.
LEMMA SenderFlushes ==
    ASSUME StepsInv, FlushInv, UNCHANGED <<log, pubVars>>, NEW p \in unflushed
    PROVE  /\ active_term_id' < TermOf(p) + 4 => Sent(p)'
           /\ active_term_id' >= TermOf(p) + 4 => LeftWithPad'
<1>1. UNCHANGED <<log, active_term_id, term_offset>>  BY DEF pubVars
<1>2. Sent(p)' <=> Sent(p)
  BY <1>1 DEF Sent, Written, Cell, TermOf, OffsetOf, partition_index
<1>3. LeftWithPad' <=> LeftWithPad
  BY <1>1 DEF LeftWithPad, partition_index
<1> QED  BY <1>1, <1>2, <1>3 DEF FlushInv

\* Every step of do_send and of offer keeps FlushInv.
LEMMA FlushStep ==
    ASSUME StepsInv, FlushInv, [FlushNext]_flushVars PROVE FlushInv'
<1>1. [Next]_vars
  BY DEF FlushNext, flushVars, DoSend, DoSendBegin, SendData, Flush, Next, Sender
<1>2. offer'.pc = "rotate" /\ term_offset' < TermLength =>
        Cell(active_term_id, term_offset)'.kind = "pad"
  BY <1>1, PadStep
<1>3. ScanTerm \in Nat  BY ScanTypes DEF StepsInv
<1> DEFINE At(p) == \/ TermOf(p) = ScanTerm
                    \/ /\ scan.pc = "idle"
                       /\ TermOf(p) + 1 = ScanTerm
                       /\ OffsetOf(sender_position) = 0
           Kept(p) == /\ active_term_id' < TermOf(p) + 4 => Sent(p)'
                      /\ active_term_id' >= TermOf(p) + 4 => LeftWithPad'
           NextAt(p) == \/ TermOf(p) = ScanTerm'
                        \/ /\ scan'.pc = "idle"
                           /\ TermOf(p) + 1 = ScanTerm'
                           /\ OffsetOf(sender_position') = 0
<1>4. \A p \in unflushed : p \in Nat /\ At(p)  BY DEF FlushInv
<1>5. ASSUME \A p \in unflushed' : p \in Nat /\ NextAt(p) /\ Kept(p) PROVE FlushInv'
  BY <1>2, <1>5 DEF FlushInv, TermOf, OffsetOf
<1>6. ASSUME UNCHANGED <<scan, sender_position>> PROVE \A p : At(p) => NextAt(p)
  BY <1>6 DEF ScanTerm, TermOf, OffsetOf
<1>7. CASE Publisher /\ UNCHANGED unflushed
  <2>1. UNCHANGED <<scan, sender_position>>
    BY <1>7 DEF Publisher, Write, OfferBegin, OfferTermFull, WriteHeader, WritePayload,
                CommitFrame, Advance, WritePadHeader, CommitPad, rotate_term
  <2>2. \A p \in unflushed : Kept(p)  BY <1>7, PublisherFlush
  <2> HIDE DEF At, NextAt, Kept
  <2> QED  BY <1>4, <1>5, <1>6, <1>7, <2>1, <2>2, SMTT(40)
<1>8. CASE DoSendBegin
  <2>1. unflushed' = {}  BY <1>8 DEF DoSendBegin
  <2> HIDE DEF At, NextAt, Kept
  <2> QED  BY <1>5, <2>1
<1>9. CASE SendData
  <2>1. /\ scan.pc = "emit" /\ scan'.pc = "load"
        /\ UNCHANGED <<log, pubVars, sender_position>>
    BY <1>9 DEF SendData, ScanEmit, StepsInv, IInv, TypeOK
  <2>2. ASSUME NEW p \in unflushed PROVE p \in Nat /\ NextAt(p) /\ Kept(p)
    BY <1>4, <2>1, SenderFlushes, SMTT(40) DEF ScanTerm, TermOf
  <2>3. ASSUME NEW p, p = ScanPosition, ScanCell.kind # "pad"
        PROVE  p \in Nat /\ NextAt(p) /\ Kept(p)
    <3>1. scan.scanned < scan.limit  BY <2>1 DEF StepsInv, IInv, ScanInv
    <3>2. /\ ScanOffset \in Offsets /\ Written(ScanTerm, ScanOffset)
          /\ ScanCell = Cell(ScanTerm, ScanOffset) /\ WholeFrame(ScanTerm, ScanOffset)
      BY <2>1, <3>1, ScanOnFrame DEF StepsInv
    <3>3. ScanOffset < TermLength  BY <3>2, TermLengthAssumption DEF Offsets
    <3>4. p \in Nat /\ TermOf(p) = ScanTerm /\ OffsetOf(p) = ScanOffset
      BY <2>3, <3>3, ScanPositionSplit DEF StepsInv
    <3>5. Cell(ScanTerm, ScanOffset).kind = "data" /\ Cell(ScanTerm, ScanOffset).len > 0
      BY <2>3, <3>2 DEF WholeFrame
    <3>6. Sent(p)  BY <3>2, <3>4, <3>5 DEF Sent
    <3>7. UNCHANGED <<log, active_term_id, term_offset>>  BY <2>1, SMTT(40) DEF pubVars
    <3>8. Sent(p)'
      BY <3>6, <3>7, SMTT(40) DEF Sent, Written, Cell, TermOf, OffsetOf, partition_index
    <3>9. active_term_id < ScanTerm + 4 /\ active_term_id \in Nat
      BY PublisherTypes DEF StepsInv, IInv, ScanInv
    <3>10. Kept(p)  BY <1>3, <3>4, <3>7, <3>8, <3>9, SMTT(40)
    <3>11. NextAt(p)  BY <2>1, <3>4 DEF ScanTerm, TermOf
    <3> QED  BY <3>4, <3>10, <3>11, SMTT(40)
  <2>4. \A p \in unflushed' : p \in unflushed \/ (p = ScanPosition /\ ScanCell.kind # "pad")
    BY <1>9 DEF SendData
  <2> HIDE DEF At, NextAt, Kept
  <2> QED  BY <1>5, <2>2, <2>3, <2>4
<1>10. CASE (ScanLoad \/ ScanStop) /\ UNCHANGED unflushed
  <2>1. /\ scan.pc # "idle" /\ UNCHANGED <<log, pubVars, sender_position>>
    BY <1>10, Zenon DEF ScanLoad, ScanStop
  <2>2. \A p \in unflushed : NextAt(p) /\ Kept(p)
    BY <1>4, <2>1, SenderFlushes DEF ScanTerm, TermOf
  <2> HIDE DEF At, NextAt, Kept
  <2> QED  BY <1>4, <1>5, <1>10, <2>2, SMTT(40)
<1>11. CASE ScanStore /\ UNCHANGED unflushed
  <2>1. /\ scan.pc # "idle" /\ scan'.pc = "idle" /\ UNCHANGED <<log, pubVars>>
    BY <1>11 DEF ScanStore, ScanIdle
  <2>2. \A p \in unflushed : Kept(p)  BY <2>1, SenderFlushes
  <2>3. \A p \in unflushed : TermOf(p) = ScanTerm  BY <1>4, <2>1
  <2>4. \/ ScanTerm' = ScanTerm
        \/ ScanTerm' = ScanTerm + 1 /\ OffsetOf(sender_position') = 0
    BY <1>11, StoreTerm DEF StepsInv, OffsetOf
  <2>5. \A p \in unflushed : NextAt(p)  BY <2>1, <2>3, <2>4
  <2> HIDE DEF At, NextAt, Kept
  <2> QED  BY <1>4, <1>5, <1>11, <2>2, <2>5
<1>12. CASE Flush
  <2>1. unflushed' = {}  BY <1>12 DEF Flush
  <2> HIDE DEF At, NextAt, Kept
  <2> QED  BY <1>5, <2>1
<1>13. CASE UNCHANGED flushVars
  <2>1. UNCHANGED <<log, pubVars, sender_position, scan, unflushed>>
    BY <1>13 DEF flushVars, vars, pubVars
  <2>2. \A p \in unflushed : Kept(p)  BY <2>1, SenderFlushes
  <2> HIDE DEF At, NextAt, Kept
  <2> QED  BY <1>4, <1>5, <1>6, <2>1, <2>2
<1> QED
  BY <1>7, <1>8, <1>9, <1>10, <1>11, <1>12, <1>13, SMTT(40) DEF FlushNext, DoSend

\* A frame that was submitted is in the log, whole, until the flush, unless
\* the publisher has left a term with a pad.
THEOREM FlushedFramesKept == FlushSpec => []UnflushedKept
<1>1. FlushInit => StepsInv /\ FlushInv
  BY StepsInductive DEF FlushInit, Init, Idle, FlushInv
<1>2. [FlushNext]_flushVars => [Next]_vars
  BY DEF FlushNext, flushVars, DoSend, DoSendBegin, SendData, Flush, Next, Sender
<1>3. StepsInv /\ FlushInv /\ [FlushNext]_flushVars => (StepsInv /\ FlushInv)'
  BY <1>2, StepsInductive, FlushStep
<1>4. StepsInv /\ FlushInv => UnflushedKept  BY FlushInvKeeps DEF StepsInv
<1> QED  BY <1>1, <1>3, <1>4, PTL DEF FlushSpec
=============================================================================
