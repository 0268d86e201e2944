-------------------------- MODULE PublicationProofs --------------------------
(***************************************************************************)
(* IInv is an inductive invariant of ConcurrentPublication, and implies    *)
(* that the publisher never laps the sender and that sender_scan emits     *)
(* exactly the published frames.                                           *)
(***************************************************************************)
EXTENDS PublicationInvariant, TLAPS

USE DEF PARTITION_COUNT

-----------------------------------------------------------------------------
(* Positions and partitions. *)

\* A product with the term length grows with the term.
LEMMA ProductMonotone ==
    ASSUME NEW a \in Int, NEW b \in Int, a < b
    PROVE  a * TermLength + TermLength <= b * TermLength
<1>1. (b - a - 1) * TermLength >= 0
  BY TermLengthAssumption, SMT
<1>2. (b - a - 1) * TermLength = b * TermLength - a * TermLength - TermLength
  BY TermLengthAssumption, SMT
<1>3. a * TermLength \in Int /\ b * TermLength \in Int
  BY TermLengthAssumption
<1> QED BY <1>1, <1>2, <1>3, TermLengthAssumption

\* position >> shift and position & mask take a position apart.
LEMMA PositionSplit ==
    ASSUME NEW p \in Nat
    PROVE  /\ TermOf(p) \in Nat
           /\ OffsetOf(p) \in Offsets
           /\ p = compute_position(TermOf(p), OffsetOf(p))
BY TermLengthAssumption, SMT DEF TermOf, OffsetOf, Offsets, compute_position

\* ... and compute_position puts it together again.
LEMMA PositionJoin ==
    ASSUME NEW t \in Nat, NEW o \in Offsets
    PROVE  /\ compute_position(t, o) \in Nat
           /\ TermOf(compute_position(t, o)) = t
           /\ OffsetOf(compute_position(t, o)) = o
<1> DEFINE p == t * TermLength + o
           q == TermOf(p)
           r == OffsetOf(p)
<1>0. t * TermLength \in Nat /\ p \in Nat
  BY TermLengthAssumption DEF Offsets
<1>1. q \in Nat /\ r \in Offsets /\ p = q * TermLength + r
  BY <1>0, PositionSplit DEF compute_position
<1> HIDE DEF q, r
<1>2. q * TermLength \in Int
  BY <1>1, TermLengthAssumption
<1>3. ASSUME q < t PROVE FALSE
  <2>1. q * TermLength + TermLength <= t * TermLength
    BY <1>1, <1>3, ProductMonotone
  <2> QED BY <1>0, <1>1, <1>2, <2>1, TermLengthAssumption DEF Offsets
<1>4. ASSUME t < q PROVE FALSE
  <2>1. t * TermLength + TermLength <= q * TermLength
    BY <1>1, <1>4, ProductMonotone
  <2> QED BY <1>0, <1>1, <1>2, <2>1, TermLengthAssumption DEF Offsets
<1>5. q = t
  BY <1>1, <1>3, <1>4
<1>6. r = o
  BY <1>0, <1>1, <1>2, <1>5 DEF Offsets
<1> QED BY <1>0, <1>5, <1>6 DEF compute_position, q, r

\* Two of four consecutive terms never share a partition.
LEMMA PartitionsDiffer ==
    ASSUME NEW t \in Nat, NEW u \in Nat, t < u, u < t + 4
    PROVE  partition_index(t) # partition_index(u)
BY SMT DEF partition_index

\* partition_index names one of the four partitions.
LEMMA PartitionType ==
    ASSUME NEW t \in Nat PROVE partition_index(t) \in Partitions
BY SMT DEF partition_index, Partitions

\* Where the sender stands, as a term and an offset.
LEMMA SenderTypes ==
    ASSUME TypeOK
    PROVE  /\ ScanTerm \in Nat
           /\ OffsetOf(sender_position) \in Nat
           /\ OffsetOf(sender_position) < TermLength
           /\ ScanOffset \in Nat
           /\ sender_position = compute_position(ScanTerm, OffsetOf(sender_position))
           /\ scan.scanned \in Nat /\ scan.limit \in Nat /\ scan.len \in Nat
           /\ ScanOffset = OffsetOf(sender_position) + scan.scanned
<1>1. sender_position \in Nat /\ scan.scanned \in Nat /\ scan.limit \in Nat /\ scan.len \in Nat
  BY DEF TypeOK
<1>2. /\ TermOf(sender_position) \in Nat
      /\ OffsetOf(sender_position) \in Offsets
      /\ sender_position = compute_position(TermOf(sender_position), OffsetOf(sender_position))
  BY <1>1, PositionSplit
<1>3. OffsetOf(sender_position) \in Nat /\ OffsetOf(sender_position) < TermLength
  BY <1>2, TermLengthAssumption DEF Offsets
<1> QED BY <1>1, <1>2, <1>3 DEF ScanTerm, ScanOffset

-----------------------------------------------------------------------------
(* The log. *)

\* A frame stays whole as long as its cells are left alone.
LEMMA WholeFrameKept ==
    ASSUME NEW t \in Nat, NEW o \in Offsets,
           WholeFrame(t, o),
           Cell(t, o)' = Cell(t, o),
           \A i \in Offsets : o < i /\ i < o + Cell(t, o).len => Cell(t, i)' = Cell(t, i)
    PROVE  WholeFrame(t, o)'
BY DEF WholeFrame, compute_position

\* What is before the write cursor survives the stores of offer, which all
\* go to the active term at or after the cursor.
LEMMA StoresKeepFrames ==
    ASSUME IInv,
           UNCHANGED <<active_term_id, term_offset, sender_position, scan>>,
           \A t \in Window, o \in Offsets : Written(t, o) => Cell(t, o)' = Cell(t, o)
    PROVE  ChainInv' /\ ScanInv'
<1> USE DEF IInv
<1>0. /\ active_term_id \in Nat /\ term_offset \in Nat /\ sender_position \in Nat
      /\ scan.scanned \in Nat /\ Window' = Window
      /\ \A t, o : Written(t, o)' <=> Written(t, o)
      /\ TermLength \in Nat /\ 0 \in Offsets
      /\ log \in [Partitions -> [Offsets -> Cells]]
  BY TermLengthAssumption DEF TypeOK, Window, Written, Offsets
<1>1. ChainInv'
  <2> SUFFICES ASSUME NEW t \in Window, NEW o \in Offsets
               PROVE  /\ Written(t, 0) => (Cell(t, 0).len > 0)'
                      /\ Linked(t, o)'
    BY <1>0 DEF ChainInv
  <2>1. Written(t, 0) => (Cell(t, 0).len > 0)'
    BY <1>0 DEF ChainInv
  <2>2. ASSUME Written(t, o), (Cell(t, o).len > 0)'
        PROVE  Linked(t, o)'
    <3>1. t \in Nat /\ t <= active_term_id /\ partition_index(t) \in Partitions
      BY <1>0, PartitionType DEF Window
    <3>2. Cell(t, o)' = Cell(t, o) /\ Cell(t, o).len > 0 /\ Cell(t, o).len \in Nat
      BY <1>0, <2>2, <3>1 DEF Cell, Cells
    <3>3. Linked(t, o)
      BY <2>2, <3>2 DEF ChainInv
    <3>4. ASSUME NEW i \in Offsets, o < i, i < o + Cell(t, o).len
          PROVE  Cell(t, i)' = Cell(t, i)
      <4>1. Written(t, i)
        BY <1>0, <2>2, <3>1, <3>2, <3>3, <3>4 DEF Written, Offsets, Linked
      <4> QED BY <4>1
    <3>5. WholeFrame(t, o)'
      BY <2>2, <3>1, <3>2, <3>3, <3>4, WholeFrameKept DEF Linked
    <3>6. o + Cell(t, o).len < TermLength => o + Cell(t, o).len \in Offsets
      BY <1>0, <3>2 DEF Offsets
    <3> DEFINE next == o + Cell(t, o).len
    <3>7. next' = next
      BY <3>2
    <3>8. next < TermLength /\ Written(t, next) => (Cell(t, next).len > 0)'
      <4> SUFFICES ASSUME next < TermLength, Written(t, next)
                   PROVE  (Cell(t, next).len > 0)'
        OBVIOUS
      <4>1. Cell(t, next).len > 0
        BY <2>2, <3>2, <3>3 DEF Linked
      <4>2. log'[partition_index(t)][next] = log[partition_index(t)][next]
        BY <3>6 DEF Cell
      <4> QED BY <3>7, <4>1, <4>2 DEF Cell
    <3> QED BY <1>0, <2>2, <3>2, <3>3, <3>5, <3>7, <3>8 DEF Linked
  <2>3. Linked(t, o)'
    BY <1>0, <2>2 DEF Linked
  <2> QED BY <2>1, <2>3
<1>2. ScanInv'
  <2>1. ScanTerm \in Nat /\ ScanOffset \in Nat
    BY SenderTypes
  <2>2. /\ ScanOffset' = ScanOffset /\ ScanTerm' = ScanTerm
        /\ OffsetOf(sender_position)' = OffsetOf(sender_position)
    BY DEF ScanOffset, ScanTerm, OffsetOf, TermOf
  <2>3. ASSUME ScanOffset < TermLength, Written(ScanTerm, ScanOffset)
        PROVE  Cell(ScanTerm, ScanOffset)' = Cell(ScanTerm, ScanOffset)
    <3>1. ScanTerm \in Window /\ ScanOffset \in Offsets
      BY <1>0, <2>1, <2>3 DEF ScanInv, Window, Offsets, Written
    <3>2. \A t \in Window, o \in Offsets : Written(t, o) => log'[partition_index(t)][o] = log[partition_index(t)][o]
      BY DEF Cell
    <3> QED BY <2>2, <2>3, <3>1, <3>2 DEF Cell
  <2>4. ASSUME scan.pc = "emit" PROVE ScanOffset < TermLength /\ Written(ScanTerm, ScanOffset)
    BY <1>0, <2>4, SenderTypes DEF ScanInv, Written
  <2> QED BY <1>0, <2>2, <2>3, <2>4 DEF ScanInv
<1> QED BY <1>1, <1>2

-----------------------------------------------------------------------------
(* offer, step by step. *)

\* The publisher's cursor and positions are naturals, within the term.
LEMMA PublisherTypes ==
    ASSUME IInv
    PROVE  /\ active_term_id \in Nat /\ active_term_id <= MaxTerm
           /\ term_offset \in Nat /\ term_offset <= TermLength
           /\ TermLength \in Nat /\ TermLength > 0
           /\ partition_index(active_term_id) \in Partitions
           /\ WritePosition \in Nat
           /\ offer.len \in Nat
           /\ offer = [pc |-> offer.pc, len |-> offer.len]
           /\ \A n \in FrameSizes : n \in Nat /\ n > 0 /\ n <= TermLength
<1>1. /\ active_term_id \in Nat /\ active_term_id <= MaxTerm
      /\ term_offset \in Nat /\ term_offset <= TermLength
      /\ TermLength \in Nat /\ TermLength > 0
  BY TermLengthAssumption, MaxTermAssumption DEF IInv, TypeOK
<1>2. active_term_id * TermLength \in Nat
  BY <1>1
<1> QED
  BY <1>1, <1>2, PartitionType, FrameSizesAssumption, BoundariesAssumption, SMTT(40)
     DEF IInv, TypeOK, WritePosition, compute_position

\* Only the control state of offer changes when it passes its guards.
LEMMA OfferBeginInv ==
    ASSUME IInv, NEW n \in FrameSizes, OfferBegin(n) PROVE IInv'
<1>1. /\ offer' = [pc |-> "header", len |-> n]
      /\ offer.pc = "idle"
      /\ UNCHANGED <<log, active_term_id, term_offset, pub_position, sender_position, scan>>
      /\ term_offset + n <= TermLength
  BY DEF OfferBegin
<1>2. offer'.pc = "header" /\ offer'.len = n
  BY <1>1
<1>3. n \in Nat /\ n > 0
  BY PublisherTypes
<1>4. TypeOK'
  BY <1>1, <1>3 DEF IInv, TypeOK
<1>5. term_offset + n \in Boundaries
  BY <1>1, BoundariesAssumption DEF IInv, OfferInv
<1>6. OfferInv'
  BY <1>1, <1>2, <1>3, <1>5 DEF IInv, OfferInv, compute_position
<1>7. ~Unadvanced /\ ~Unadvanced'
  BY <1>1, <1>2 DEF Unadvanced
<1>8. WritingInv' /\ FreshInv'
  BY <1>1, <1>2, <1>7 DEF IInv, WritingInv, FreshInv, Cell
<1>9. ChainInv' /\ ScanInv'
  BY <1>1, StoresKeepFrames DEF Cell
<1> QED BY <1>4, <1>6, <1>8, <1>9 DEF IInv

\* The guard of offer, where the frame does not fit: the sender is past the
\* write offset of the term three earlier, hence at the end of that term.
LEMMA TermFullIsSafe ==
    ASSUME IInv, ~BackPressured,
           NEW n \in FrameSizes, term_offset + n > TermLength
    PROVE  term_offset > 0 /\ active_term_id <= ScanTerm + 2
<1> DEFINE T == active_term_id
           s == ScanTerm
           o == OffsetOf(sender_position)
<1>1. term_offset > 0
  BY PublisherTypes
<1>2. pub_position = T * TermLength + term_offset
  BY <1>1 DEF IInv, OfferInv, compute_position
<1>3. s \in Nat /\ o \in Nat /\ o < TermLength /\ sender_position = s * TermLength + o
  BY SenderTypes DEF IInv, compute_position
<1>4. T \in Nat /\ TermLength \in Nat /\ term_offset \in Nat
  BY PublisherTypes
<1>5. T * TermLength \in Nat /\ s * TermLength \in Nat
  BY <1>3, <1>4
<1>6. T * TermLength + term_offset - (s * TermLength + o) < 3 * TermLength
  BY <1>2, <1>3, <1>4, <1>5 DEF BackPressured, max_ahead
<1>7. ASSUME s + 3 <= T PROVE FALSE
  <2>1. CASE s + 3 = T
    <3>1. T * TermLength = s * TermLength + 3 * TermLength
      BY <1>3, <1>4, <2>1
    <3>2. term_offset < o
      BY <1>3, <1>4, <1>5, <1>6, <3>1
    <3>3. o \in Boundaries /\ term_offset \in Boundaries
      BY DEF IInv, ScanInv, OfferInv
    <3> QED BY <1>3, <1>4, <3>2, <3>3, PublisherTypes, BoundariesAssumption
  <2>2. CASE s + 3 < T
    <3>1. (s + 3) * TermLength + TermLength <= T * TermLength
      BY <1>3, <1>4, <2>2, ProductMonotone
    <3>2. (s + 3) * TermLength = s * TermLength + 3 * TermLength
      BY <1>3, <1>4
    <3> QED BY <1>3, <1>4, <1>5, <1>6, <3>1, <3>2
  <2> QED BY <1>3, <1>4, <1>7, <2>1, <2>2
<1> QED BY <1>1, <1>3, <1>4, <1>7

\* A frame that does not fit: offer goes on to the pad or to rotate_term.
LEMMA OfferTermFullInv ==
    ASSUME IInv, NEW n \in FrameSizes, OfferTermFull(n) PROVE IInv'
<1>1. /\ offer' = [pc |-> IF term_offset < TermLength THEN "pad_header" ELSE "rotate",
                   len |-> TermLength - term_offset]
      /\ offer.pc = "idle"
      /\ active_term_id < MaxTerm
      /\ UNCHANGED <<log, active_term_id, term_offset, pub_position, sender_position, scan>>
  BY DEF OfferTermFull
<1>2. /\ offer'.pc = IF term_offset < TermLength THEN "pad_header" ELSE "rotate"
      /\ offer'.len = TermLength - term_offset
  BY <1>1
<1>3. term_offset > 0 /\ active_term_id <= ScanTerm + 2
  BY TermFullIsSafe DEF OfferTermFull
<1>4. TypeOK'
  BY <1>1, PublisherTypes DEF IInv, TypeOK
<1>5. ScanTerm' = ScanTerm
  BY <1>1 DEF ScanTerm, TermOf
<1>6. OfferInv'
  BY <1>1, <1>2, <1>3, <1>5 DEF IInv, OfferInv, compute_position
<1>7. ~Unadvanced /\ ~Unadvanced'
  BY <1>1, <1>2 DEF Unadvanced
<1>8. WritingInv' /\ FreshInv'
  BY <1>1, <1>2, <1>7 DEF IInv, WritingInv, FreshInv, Cell
<1>9. ChainInv' /\ ScanInv'
  BY <1>1, StoresKeepFrames DEF Cell
<1> QED BY <1>4, <1>6, <1>8, <1>9 DEF IInv

\* The active term has a partition of its own in the window.
LEMMA WindowPartitions ==
    ASSUME IInv, NEW t \in Window
    PROVE  /\ t \in Nat
           /\ partition_index(t) \in Partitions
           /\ t # active_term_id => partition_index(t) # partition_index(active_term_id)
BY PublisherTypes, PartitionType, PartitionsDiffer DEF Window

\* Store changes the cells it names, in the active term, and no others.
LEMMA StoreEffect ==
    ASSUME IInv, NEW S, NEW c \in Cells, Store(S, c)
    PROVE  /\ log' \in [Partitions -> [Offsets -> Cells]]
           /\ \A t \in Window, o \in Offsets :
                Cell(t, o)' = IF t = active_term_id /\ o \in S THEN c ELSE Cell(t, o)
<1>1. log \in [Partitions -> [Offsets -> Cells]]
  BY DEF IInv, TypeOK
<1>2. log' = [log EXCEPT ![partition_index(active_term_id)] =
                [o \in Offsets |-> IF o \in S THEN c ELSE log[partition_index(active_term_id)][o]]]
  BY DEF Store
<1>3. log' \in [Partitions -> [Offsets -> Cells]]
  BY <1>1, <1>2, Zenon
<1>4. ASSUME NEW t \in Window, NEW o \in Offsets
      PROVE  Cell(t, o)' = IF t = active_term_id /\ o \in S THEN c ELSE Cell(t, o)
  BY <1>1, <1>2, PublisherTypes, WindowPartitions DEF Cell
<1> QED BY <1>3, <1>4

\* Commit changes one frame_length word of the active term.
LEMMA CommitEffect ==
    ASSUME IInv, NEW length \in Nat, Commit(length), term_offset < TermLength
    PROVE  /\ log' \in [Partitions -> [Offsets -> Cells]]
           /\ \A t \in Window, o \in Offsets :
                Cell(t, o)' = IF t = active_term_id /\ o = term_offset
                              THEN [Cell(t, o) EXCEPT !.len = length] ELSE Cell(t, o)
<1>1. log \in [Partitions -> [Offsets -> Cells]]
  BY DEF IInv, TypeOK
<1>2. term_offset \in Offsets
  BY PublisherTypes DEF Offsets
<1>3. log' = [log EXCEPT ![partition_index(active_term_id)] =
                [log[partition_index(active_term_id)] EXCEPT ![term_offset] =
                   [log[partition_index(active_term_id)][term_offset] EXCEPT !.len = length]]]
  BY DEF Commit
<1>4. [log[partition_index(active_term_id)][term_offset] EXCEPT !.len = length] \in Cells
  <2>1. log[partition_index(active_term_id)][term_offset] \in Cells
    BY <1>1, <1>2, PublisherTypes
  <2>2. \A c \in Cells : [c EXCEPT !.len = length] \in Cells
    BY DEF Cells
  <2> QED BY <2>1, <2>2
<1>5. log' \in [Partitions -> [Offsets -> Cells]]
  BY <1>1, <1>3, <1>4, Zenon
<1>6. ASSUME NEW t \in Window, NEW o \in Offsets
      PROVE  Cell(t, o)' = IF t = active_term_id /\ o = term_offset
                           THEN [Cell(t, o) EXCEPT !.len = length] ELSE Cell(t, o)
  BY <1>1, <1>2, <1>3, PublisherTypes, WindowPartitions DEF Cell
<1> QED BY <1>5, <1>6

\* A step of offer that stores at or after the write cursor and moves on to
\* the control state pc.
LEMMA StoreInv ==
    ASSUME IInv, NEW pc,
           offer' = [offer EXCEPT !.pc = pc],
           UNCHANGED <<active_term_id, term_offset, pub_position, sender_position, scan>>,
           log' \in [Partitions -> [Offsets -> Cells]],
           \A t \in Window, o \in Offsets :
              t # active_term_id \/ o < term_offset => Cell(t, o)' = Cell(t, o),
           \/ offer.pc \in {"header", "payload", "commit"} /\ pc \in {"payload", "commit", "advance"}
           \/ offer.pc \in {"pad_header", "pad_commit"} /\ pc \in {"pad_commit"}
           \/ offer.pc = "pad_commit" /\ pc = "rotate"
    PROVE  TypeOK' /\ OfferInv' /\ ChainInv' /\ ScanInv'
<1>1. offer'.pc = pc /\ offer'.len = offer.len
  BY PublisherTypes
<1>2. TypeOK'
  BY PublisherTypes DEF IInv, TypeOK
<1>3. ScanTerm' = ScanTerm
  BY DEF ScanTerm, TermOf
<1>4. OfferInv'
  BY <1>1, <1>3 DEF IInv, OfferInv, compute_position
<1>5. \A t \in Window, o \in Offsets : Written(t, o) => Cell(t, o)' = Cell(t, o)
  BY PublisherTypes DEF Written
<1>6. ChainInv' /\ ScanInv'
  BY <1>5, StoresKeepFrames
<1> QED BY <1>2, <1>4, <1>6

\* The term being written is one of those in the log.
LEMMA ActiveInWindow ==
    ASSUME IInv PROVE active_term_id \in Window
BY PublisherTypes DEF Window

\* The header goes to a free unit, with frame_length 0: nothing appears.
LEMMA WriteHeaderInv ==
    ASSUME IInv, WriteHeader PROVE IInv'
<1> DEFINE h == Header("data", WritePosition)
<1>1. h \in Cells /\ h.len = 0
  BY PublisherTypes DEF Header, Cells
<1>2. /\ log' \in [Partitions -> [Offsets -> Cells]]
      /\ \A t \in Window, o \in Offsets :
           Cell(t, o)' = IF t = active_term_id /\ o = term_offset THEN h ELSE Cell(t, o)
  BY <1>1, StoreEffect DEF WriteHeader
<1>3. offer.pc = "header" /\ offer' = [offer EXCEPT !.pc = "payload"]
      /\ UNCHANGED <<active_term_id, term_offset, pub_position, sender_position, scan>>
  BY DEF WriteHeader
<1>4. TypeOK' /\ OfferInv' /\ ChainInv' /\ ScanInv'
  <2>1. \A t \in Window, o \in Offsets :
          t # active_term_id \/ o < term_offset => Cell(t, o)' = Cell(t, o)
    BY <1>2, PublisherTypes
  <2> QED BY <1>2, <1>3, <2>1, StoreInv, Zenon
<1>5. offer'.pc = "payload" /\ ~Unadvanced /\ ~Unadvanced'
  BY <1>3, PublisherTypes DEF Unadvanced
<1>6. term_offset \in Offsets
  BY <1>3, PublisherTypes, BoundariesAssumption DEF IInv, OfferInv, Offsets
<1>7. Cell(active_term_id, term_offset)' = h
  BY <1>2, <1>3, <1>6, ActiveInWindow DEF Cell
<1>8. WritingInv'
  BY <1>3, <1>5, <1>7 DEF WritingInv, WritePosition, compute_position
<1>9. FreshInv'
  BY <1>1, <1>2, <1>3, <1>5, ActiveInWindow DEF IInv, FreshInv, Cell
<1> QED BY <1>4, <1>8, <1>9 DEF IInv

\* The payload goes behind the header, to units not yet committed.
LEMMA WritePayloadInv ==
    ASSUME IInv, WritePayload PROVE IInv'
<1> DEFINE b == Body(WritePosition)
           S == term_offset + 1 .. term_offset + offer.len - 1
<1>1. b \in Cells /\ b.len = 0
  BY PublisherTypes DEF Body, Cells
<1>2. /\ log' \in [Partitions -> [Offsets -> Cells]]
      /\ \A t \in Window, o \in Offsets :
           Cell(t, o)' = IF t = active_term_id /\ o \in S THEN b ELSE Cell(t, o)
  <2>1. Store(S, b)
    BY DEF WritePayload
  <2> HIDE DEF S, b
  <2> QED BY <1>1, <2>1, StoreEffect, ZenonT(30)
<1>3. offer.pc = "payload" /\ offer' = [offer EXCEPT !.pc = "commit"]
      /\ UNCHANGED <<active_term_id, term_offset, pub_position, sender_position, scan>>
  BY DEF WritePayload
<1> HIDE DEF b
<1>4. TypeOK' /\ OfferInv' /\ ChainInv' /\ ScanInv'
  <2>1. \A t \in Window, o \in Offsets :
          t # active_term_id \/ o < term_offset => Cell(t, o)' = Cell(t, o)
    BY <1>2, PublisherTypes DEF Offsets
  <2> QED BY <1>2, <1>3, <2>1, StoreInv, Zenon
<1>5. offer'.pc = "commit" /\ offer'.len = offer.len /\ ~Unadvanced /\ ~Unadvanced'
  BY <1>3, PublisherTypes DEF Unadvanced
<1>6. term_offset \in Offsets
  BY <1>3, PublisherTypes, BoundariesAssumption DEF IInv, OfferInv, Offsets
<1>7. WritingInv'
  <2>1. Cell(active_term_id, term_offset)' = Cell(active_term_id, term_offset)
    BY <1>2, <1>3, <1>6, PublisherTypes, ActiveInWindow DEF Cell
  <2>2. Cell(active_term_id, term_offset) = Header("data", WritePosition)
    BY <1>3 DEF IInv, WritingInv
  <2>3. \A i \in Offsets : term_offset < i /\ i < term_offset + offer.len =>
            (Cell(active_term_id, i) = b)'
    <3>1. b' = b
      BY <1>3 DEF b, WritePosition, compute_position
    <3>2. \A i \in Offsets : Cell(active_term_id, i)' = IF i \in S THEN b ELSE Cell(active_term_id, i)
      BY <1>2, <1>3, ActiveInWindow DEF Cell
    <3>3. \A i \in Offsets : term_offset < i /\ i < term_offset + offer.len => i \in S
      BY PublisherTypes DEF Offsets
    <3> HIDE DEF S
    <3> QED BY <3>1, <3>2, <3>3
  <2> QED BY <1>3, <1>5, <2>1, <2>2, <2>3 DEF WritingInv, WritePosition, compute_position, b
<1>8. FreshInv'
  BY <1>1, <1>2, <1>3, <1>5, ActiveInWindow DEF IInv, FreshInv, Cell
<1> QED BY <1>4, <1>7, <1>8 DEF IInv

\* Once frame_length is stored, a whole frame stands at the write cursor.
LEMMA CommitFrameInv ==
    ASSUME IInv, CommitFrame PROVE IInv'
<1>1. offer.pc = "commit" /\ offer' = [offer EXCEPT !.pc = "advance"]
      /\ UNCHANGED <<active_term_id, term_offset, pub_position, sender_position, scan>>
  BY DEF CommitFrame
<1>2. /\ term_offset \in Offsets /\ term_offset < TermLength
      /\ offer.len \in Nat /\ offer.len > 0
      /\ term_offset + offer.len \in Boundaries
  BY <1>1, PublisherTypes, BoundariesAssumption DEF IInv, OfferInv, Offsets
<1>3. /\ log' \in [Partitions -> [Offsets -> Cells]]
      /\ \A t \in Window, o \in Offsets :
           Cell(t, o)' = IF t = active_term_id /\ o = term_offset
                         THEN [Cell(t, o) EXCEPT !.len = offer.len] ELSE Cell(t, o)
  BY <1>2, CommitEffect DEF CommitFrame
<1>10. \A o \in Offsets :
        Cell(active_term_id, o)' = IF o = term_offset
                                   THEN [Cell(active_term_id, o) EXCEPT !.len = offer.len]
                                   ELSE Cell(active_term_id, o)
  BY <1>1, <1>3, ActiveInWindow DEF Cell
<1>4. TypeOK' /\ OfferInv' /\ ChainInv' /\ ScanInv'
  <2>1. \A t \in Window, o \in Offsets :
          t # active_term_id \/ o < term_offset => Cell(t, o)' = Cell(t, o)
    BY <1>3, PublisherTypes
  <2> QED BY <1>1, <1>3, <2>1, StoreInv, Zenon
<1>5. offer'.pc = "advance" /\ offer'.len = offer.len /\ ~Unadvanced /\ Unadvanced'
  BY <1>1, PublisherTypes DEF Unadvanced
<1>6. /\ Cell(active_term_id, term_offset)' =
           [kind |-> "data", len |-> offer.len, pos |-> WritePosition]
      /\ \A i \in Offsets : term_offset < i /\ i < term_offset + offer.len =>
            Cell(active_term_id, i)' = Body(WritePosition)
  <2>1. Cell(active_term_id, term_offset) = Header("data", WritePosition)
    BY <1>1 DEF IInv, WritingInv
  <2>2. \A i \in Offsets : term_offset < i /\ i < term_offset + offer.len =>
            Cell(active_term_id, i) = Body(WritePosition)
    BY <1>1 DEF IInv, WritingInv
  <2>3. [Header("data", WritePosition) EXCEPT !.len = offer.len] =
           [kind |-> "data", len |-> offer.len, pos |-> WritePosition]
    BY DEF Header
  <2>4. Cell(active_term_id, term_offset)' =
           [kind |-> "data", len |-> offer.len, pos |-> WritePosition]
    BY <1>1, <1>2, <1>3, <2>1, <2>3, ActiveInWindow DEF Cell
  <2>5. ASSUME NEW i \in Offsets, term_offset < i, i < term_offset + offer.len
        PROVE  Cell(active_term_id, i)' = Body(WritePosition)
    BY <1>10, <2>2, <2>5, PublisherTypes
  <2> QED BY <2>4, <2>5
<1>7. WholeFrame(active_term_id, term_offset)' /\ (Cell(active_term_id, term_offset).len = offer.len)'
  BY <1>1, <1>2, <1>5, <1>6 DEF WholeFrame, WritePosition, compute_position, Cell
<1>8. WritingInv'
  BY <1>5, <1>7 DEF WritingInv
<1>9. FreshInv'
  BY <1>10, <1>1, <1>5, PublisherTypes DEF IInv, FreshInv, Offsets
<1> QED BY <1>4, <1>8, <1>9 DEF IInv

\* The header of the pad, like that of a frame.
LEMMA WritePadHeaderInv ==
    ASSUME IInv, WritePadHeader PROVE IInv'
<1> DEFINE h == Header("pad", WritePosition)
<1>1. h \in Cells /\ h.len = 0
  BY PublisherTypes DEF Header, Cells
<1>2. /\ log' \in [Partitions -> [Offsets -> Cells]]
      /\ \A t \in Window, o \in Offsets :
           Cell(t, o)' = IF t = active_term_id /\ o = term_offset THEN h ELSE Cell(t, o)
  BY <1>1, StoreEffect DEF WritePadHeader
<1>3. offer.pc = "pad_header" /\ offer' = [offer EXCEPT !.pc = "pad_commit"]
      /\ UNCHANGED <<active_term_id, term_offset, pub_position, sender_position, scan>>
  BY DEF WritePadHeader
<1>4. TypeOK' /\ OfferInv' /\ ChainInv' /\ ScanInv'
  <2>1. \A t \in Window, o \in Offsets :
          t # active_term_id \/ o < term_offset => Cell(t, o)' = Cell(t, o)
    BY <1>2, PublisherTypes
  <2> QED BY <1>2, <1>3, <2>1, StoreInv, Zenon
<1>5. offer'.pc = "pad_commit" /\ ~Unadvanced /\ ~Unadvanced'
  BY <1>3, PublisherTypes DEF Unadvanced
<1>6. term_offset \in Offsets
  BY <1>3, PublisherTypes DEF IInv, OfferInv, Offsets
<1>7. Cell(active_term_id, term_offset)' = h
  BY <1>2, <1>3, <1>6, ActiveInWindow DEF Cell
<1>8. WritingInv'
  BY <1>3, <1>5, <1>7 DEF WritingInv, WritePosition, compute_position
<1>9. FreshInv'
  BY <1>1, <1>2, <1>3, <1>5, ActiveInWindow DEF IInv, FreshInv, Cell
<1> QED BY <1>4, <1>8, <1>9 DEF IInv

\* Once its length is stored, the pad reaches to the end of the term.
LEMMA CommitPadInv ==
    ASSUME IInv, CommitPad PROVE IInv'
<1>1. offer.pc = "pad_commit" /\ offer' = [offer EXCEPT !.pc = "rotate"]
      /\ UNCHANGED <<active_term_id, term_offset, pub_position, sender_position, scan>>
  BY DEF CommitPad
<1>2. /\ term_offset \in Offsets /\ term_offset < TermLength
      /\ offer.len \in Nat /\ offer.len > 0
      /\ term_offset + offer.len = TermLength
  BY <1>1, PublisherTypes DEF IInv, OfferInv, Offsets
<1>3. /\ log' \in [Partitions -> [Offsets -> Cells]]
      /\ \A t \in Window, o \in Offsets :
           Cell(t, o)' = IF t = active_term_id /\ o = term_offset
                         THEN [Cell(t, o) EXCEPT !.len = offer.len] ELSE Cell(t, o)
  BY <1>2, CommitEffect DEF CommitPad
<1>10. \A o \in Offsets :
        Cell(active_term_id, o)' = IF o = term_offset
                                   THEN [Cell(active_term_id, o) EXCEPT !.len = offer.len]
                                   ELSE Cell(active_term_id, o)
  BY <1>1, <1>3, ActiveInWindow DEF Cell
<1>4. TypeOK' /\ OfferInv' /\ ChainInv' /\ ScanInv'
  <2>1. \A t \in Window, o \in Offsets :
          t # active_term_id \/ o < term_offset => Cell(t, o)' = Cell(t, o)
    BY <1>3, PublisherTypes
  <2> QED BY <1>1, <1>3, <2>1, StoreInv, Zenon
<1>5. offer'.pc = "rotate" /\ offer'.len = offer.len /\ ~Unadvanced /\ Unadvanced'
  BY <1>1, <1>2, PublisherTypes DEF Unadvanced
<1>6. Cell(active_term_id, term_offset)' =
           [kind |-> "pad", len |-> offer.len, pos |-> WritePosition]
  <2>1. Cell(active_term_id, term_offset) = Header("pad", WritePosition)
    BY <1>1 DEF IInv, WritingInv
  <2>2. [Header("pad", WritePosition) EXCEPT !.len = offer.len] =
           [kind |-> "pad", len |-> offer.len, pos |-> WritePosition]
    BY DEF Header
  <2> QED BY <1>1, <1>2, <1>3, <2>1, <2>2, ActiveInWindow DEF Cell
<1>7. WholeFrame(active_term_id, term_offset)' /\ (Cell(active_term_id, term_offset).len = offer.len)'
  BY <1>1, <1>2, <1>5, <1>6, BoundariesAssumption DEF WholeFrame, WritePosition, compute_position, Cell
<1>8. WritingInv'
  BY <1>5, <1>7 DEF WritingInv
<1>9. FreshInv'
  BY <1>10, <1>1, <1>5, PublisherTypes DEF IInv, FreshInv, Offsets
<1> QED BY <1>4, <1>8, <1>9 DEF IInv

\* The cursor moves past the committed frame, which links the frames.
LEMMA AdvanceInv ==
    ASSUME IInv, Advance PROVE IInv'
<1> DEFINE T == active_term_id
           d == term_offset + offer.len
<1>1. /\ offer.pc = "advance" /\ offer' = Idle /\ term_offset' = d
      /\ pub_position' = compute_position(T, d)
      /\ UNCHANGED <<log, active_term_id, sender_position, scan>>
  BY DEF Advance
<1>2. /\ offer.len \in Nat /\ offer.len > 0 /\ d \in Boundaries
      /\ term_offset \in Nat /\ d \in Nat /\ d <= TermLength /\ T \in Nat
      /\ term_offset < TermLength /\ 0 < d
  BY <1>1, PublisherTypes, BoundariesAssumption DEF IInv, OfferInv
<1>3. /\ Unadvanced /\ ~Unadvanced' /\ offer'.pc = "idle" /\ offer'.len = 0
      /\ WholeFrame(T, term_offset) /\ Cell(T, term_offset).len = offer.len
  BY <1>1 DEF Unadvanced, Idle, IInv, WritingInv
<1>4. TypeOK'
  <2>1. T * TermLength + d \in Nat
    BY <1>2, TermLengthAssumption
  <2> QED BY <1>1, <1>2, <2>1 DEF IInv, TypeOK, Idle, compute_position
<1>5. OfferInv'
  BY <1>1, <1>2, <1>3 DEF OfferInv, compute_position
<1>6. /\ \A t, o : Cell(t, o)' = Cell(t, o)
      /\ \A t, o : WholeFrame(t, o) => WholeFrame(t, o)'
      /\ Window' = Window
  BY <1>1 DEF Cell, WholeFrame, Window, compute_position
<1>7. WritingInv' /\ FreshInv'
  BY <1>1, <1>2, <1>3, <1>6 DEF IInv, WritingInv, FreshInv, Offsets
<1>8. ChainInv'
  <2> SUFFICES ASSUME NEW t \in Window, NEW o \in Offsets
               PROVE  /\ Written(t, 0)' => Cell(t, 0).len > 0
                      /\ Linked(t, o)'
    <3>1. 0 \in Offsets
      BY TermLengthAssumption DEF Offsets
    <3> QED BY <1>6, <3>1 DEF ChainInv
  <2>0. Cell(t, o)' = Cell(t, o) /\ (o + Cell(t, o).len)' = o + Cell(t, o).len
    BY <1>1 DEF Cell
  <2>1. t \in Nat /\ t <= T /\ o \in Nat /\ o < TermLength
    BY <1>2, PublisherTypes DEF Window, Offsets
  <2>2. /\ Written(t, 0) => Cell(t, 0).len > 0
        /\ Linked(t, o)
    BY DEF IInv, ChainInv
  <2>3. Cell(t, o).len \in Nat
    BY WindowPartitions DEF IInv, TypeOK, Cell, Cells
  <2>4. CASE t < T
    BY <1>1, <1>2, <1>6, <2>1, <2>2, <2>4 DEF Linked, Written
  <2>5. CASE t = T
    <3>1. Written(t, 0)' => Cell(t, 0).len > 0
      BY <1>1, <1>2, <1>3, <2>2, <2>5 DEF Written
    <3>2. CASE o < term_offset
      BY <1>1, <1>2, <1>3, <1>6, <2>1, <2>2, <2>3, <2>5, <3>2 DEF Linked, Written
    <3>3. CASE o = term_offset
      <4>1. WholeFrame(t, o)' /\ o + Cell(t, o).len = d
        BY <1>3, <1>6, <2>5, <3>3
      <4> QED BY <1>1, <1>2, <2>0, <2>5, <3>1, <4>1 DEF Linked, Written
    <3>4. CASE o > term_offset
      <4>1. Cell(t, o).len = 0
        BY <1>2, <2>1, <2>5, <3>4 DEF IInv, FreshInv
      <4> QED BY <2>0, <3>1, <4>1 DEF Linked
    <3> QED BY <1>2, <2>1, <3>1, <3>2, <3>3, <3>4
  <2> QED BY <1>2, <2>1, <2>4, <2>5
<1>9. ScanInv'
  <2>1. /\ ScanTerm' = ScanTerm /\ ScanOffset' = ScanOffset
        /\ OffsetOf(sender_position)' = OffsetOf(sender_position)
        /\ Cell(ScanTerm, ScanOffset)' = Cell(ScanTerm, ScanOffset)
    BY <1>1 DEF ScanTerm, ScanOffset, TermOf, OffsetOf, Cell
  <2>2. ScanTerm < T \/ (ScanTerm = T /\ ScanOffset <= term_offset)
    BY <1>2 DEF IInv, ScanInv
  <2>3. ASSUME ScanOffset < TermLength, Written(ScanTerm, ScanOffset)'
        PROVE  Cell(ScanTerm, ScanOffset).len > 0
    BY <1>1, <1>2, <1>3, <2>1, <2>2, <2>3, SenderTypes DEF Written, IInv, ScanInv
  <2> QED BY <1>1, <1>2, <2>1, <2>2, <2>3, SenderTypes DEF IInv, ScanInv
<1> QED BY <1>4, <1>5, <1>7, <1>8, <1>9 DEF IInv

\* The partition that is cleaned is none of the window the new active term
\* leaves in the log, nor the one the sender scans.
LEMMA RotateInv ==
    ASSUME IInv, rotate_term PROVE IInv'
<1> DEFINE T == active_term_id
<1>1. /\ offer.pc = "rotate" /\ offer' = Idle /\ term_offset' = 0
      /\ active_term_id' = T + 1
      /\ UNCHANGED <<pub_position, sender_position, scan>>
      /\ log' = [log EXCEPT ![partition_index(T + 1)] = [o \in Offsets |-> Empty]]
  BY DEF rotate_term, CleanPartition
<1>2. /\ T \in Nat /\ T < MaxTerm /\ term_offset \in Nat /\ 0 < term_offset
      /\ term_offset <= TermLength /\ TermLength \in Nat
      /\ offer.len = TermLength - term_offset
      /\ T <= ScanTerm + 2 /\ ScanTerm \in Nat
  BY <1>1, PublisherTypes, SenderTypes DEF IInv, OfferInv
<1>3. /\ offer'.pc = "idle" /\ offer'.len = 0 /\ ~Unadvanced'
      /\ term_offset < TermLength =>
           Unadvanced /\ WholeFrame(T, term_offset) /\ Cell(T, term_offset).len = offer.len
  BY <1>1 DEF Unadvanced, Idle, IInv, WritingInv
<1>4. partition_index(T + 1) \in Partitions
  BY <1>2, PartitionType
<1>5. TypeOK'
  BY <1>1, <1>2, <1>4, MaxTermAssumption DEF IInv, TypeOK, Idle, Empty, Cells
<1>6. OfferInv'
  <2>1. pub_position = T * TermLength + term_offset
    BY <1>2 DEF IInv, OfferInv, compute_position
  <2>2. T * TermLength + TermLength <= (T + 1) * TermLength
    BY <1>2, ProductMonotone
  <2>3. pub_position <= (T + 1) * TermLength + 0
    BY <1>2, <2>1, <2>2
  <2> QED BY <1>1, <1>3, <2>3, BoundariesAssumption DEF OfferInv, compute_position
<1>7. \A t \in Window', o \in Offsets :
        Cell(t, o)' = IF t = T + 1 THEN Empty ELSE Cell(t, o)
  <2> SUFFICES ASSUME NEW t \in Window', NEW o \in Offsets
               PROVE  Cell(t, o)' = IF t = T + 1 THEN Empty ELSE Cell(t, o)
    OBVIOUS
  <2>1. t \in Nat /\ t <= T + 1 /\ T + 1 < t + 4 /\ partition_index(t) \in Partitions
    BY <1>1, <1>2, PartitionType DEF Window
  <2>2. log \in [Partitions -> [Offsets -> Cells]]
    BY DEF IInv, TypeOK
  <2>3. CASE t = T + 1
    BY <1>1, <1>4, <2>2, <2>3 DEF Cell
  <2>4. CASE t # T + 1
    <3>1. partition_index(t) # partition_index(T + 1)
      BY <1>2, <2>1, <2>4, PartitionsDiffer
    <3> QED BY <1>1, <2>1, <2>2, <2>4, <3>1 DEF Cell
  <2> QED BY <2>3, <2>4
<1>8. \A t \in Window' : t # T + 1 => t \in Window /\ t <= T
  BY <1>1, <1>2 DEF Window
<1>9. T + 1 \in Window'
  BY <1>1, <1>2 DEF Window
<1>10. WritingInv' /\ FreshInv'
  BY <1>1, <1>3, <1>7, <1>9 DEF WritingInv, FreshInv, Cell, Empty
<1>11. ChainInv'
  <2> SUFFICES ASSUME NEW t \in Window', NEW o \in Offsets
               PROVE  /\ Written(t, 0)' => (Cell(t, 0).len > 0)'
                      /\ Linked(t, o)'
    <3>1. 0 \in Offsets
      BY TermLengthAssumption DEF Offsets
    <3> QED BY <3>1 DEF ChainInv
  <2>1. CASE t = T + 1
    BY <1>1, <1>2, <2>1 DEF Written, Linked, Offsets
  <2>2. CASE t # T + 1
    <3>1. t \in Window /\ t \in Nat /\ t <= T /\ o \in Nat /\ o < TermLength
      BY <1>2, <1>8, <2>2, WindowPartitions DEF Offsets
    <3>2. /\ Written(t, 0) => Cell(t, 0).len > 0
          /\ Linked(t, o)
      BY <3>1 DEF IInv, ChainInv
    <3>3. \A i \in Offsets : Cell(t, i)' = Cell(t, i)
      BY <1>7, <2>2
    <3>4. Cell(t, 0).len > 0 /\ 0 \in Offsets
      BY <1>2, <3>1, <3>2 DEF Written, Offsets
    <3>5. ASSUME Cell(t, o).len > 0
          PROVE  /\ WholeFrame(t, o)
                 /\ o + Cell(t, o).len < TermLength =>
                      Cell(t, o + Cell(t, o).len).len > 0
      <4>0. Cell(t, o).len \in Nat
        BY <3>1, WindowPartitions DEF IInv, TypeOK, Cell, Cells
      <4>1. CASE t < T
        BY <3>1, <3>2, <3>5, <4>1 DEF Linked, Written
      <4>2. CASE t = T /\ o < term_offset
        <5>1. /\ WholeFrame(t, o) /\ o + Cell(t, o).len <= term_offset
              /\ o + Cell(t, o).len < TermLength /\ o + Cell(t, o).len < term_offset =>
                   Cell(t, o + Cell(t, o).len).len > 0
          BY <3>2, <3>5, <4>2 DEF Linked, Written
        <5> QED BY <1>2, <1>3, <3>1, <4>0, <4>2, <5>1
      <4>3. CASE t = T /\ o = term_offset
        BY <1>2, <1>3, <3>1, <4>3
      <4>4. CASE t = T /\ o > term_offset
        BY <1>2, <3>1, <3>5, <4>4 DEF IInv, FreshInv
      <4> QED BY <1>2, <3>1, <4>1, <4>2, <4>3, <4>4
    <3>6. ASSUME Cell(t, o).len > 0 PROVE WholeFrame(t, o)'
      BY <3>1, <3>3, <3>5, <3>6, WholeFrameKept
    <3>7. Cell(t, o).len \in Nat
      BY <3>1, WindowPartitions DEF IInv, TypeOK, Cell, Cells
    <3>8. ASSUME Cell(t, o).len > 0, o + Cell(t, o).len < TermLength
          PROVE  (Cell(t, o + Cell(t, o).len).len > 0)'
      <4> DEFINE next == o + Cell(t, o).len
      <4>1. next \in Offsets /\ next' = next /\ Cell(t, next).len > 0
        BY <1>2, <3>1, <3>3, <3>5, <3>7, <3>8 DEF Offsets
      <4>2. log'[partition_index(t)][next] = log[partition_index(t)][next]
        BY <3>3, <4>1 DEF Cell
      <4> QED BY <4>1, <4>2 DEF Cell
    <3> QED BY <1>1, <1>2, <3>1, <3>3, <3>4, <3>6, <3>8 DEF Linked
  <2> QED BY <2>1, <2>2
<1>12. ScanInv'
  <2>1. /\ ScanTerm' = ScanTerm /\ ScanOffset' = ScanOffset
        /\ OffsetOf(sender_position)' = OffsetOf(sender_position)
    BY <1>1 DEF ScanTerm, ScanOffset, TermOf, OffsetOf
  <2>2. CASE ScanTerm = T + 1
    <3>1. ScanOffset = 0 /\ scan.pc = "idle"
      BY <1>2, <2>2, SenderTypes DEF IInv, ScanInv
    <3> QED BY <1>1, <1>2, <2>1, <2>2, <3>1 DEF IInv, ScanInv, Written
  <2>3. CASE ScanTerm # T + 1
    <3>1. /\ ScanTerm <= T /\ ScanTerm \in Window'
          /\ ScanTerm = T => ScanOffset <= term_offset
      BY <1>1, <1>2, <2>3 DEF IInv, ScanInv, Window
    <3>2. \A o \in Offsets :
             log'[partition_index(ScanTerm)][o] = log[partition_index(ScanTerm)][o]
      BY <1>7, <2>3, <3>1 DEF Cell
    <3>3. ScanOffset < TermLength =>
            /\ Cell(ScanTerm, ScanOffset)' = Cell(ScanTerm, ScanOffset)
            /\ Cell(ScanTerm, ScanOffset).len > 0
      <4> SUFFICES ASSUME ScanOffset < TermLength
                   PROVE  /\ Cell(ScanTerm, ScanOffset)' = Cell(ScanTerm, ScanOffset)
                          /\ Cell(ScanTerm, ScanOffset).len > 0
        OBVIOUS
      <4>1. ScanOffset \in Offsets
        BY <1>2, SenderTypes DEF Offsets, IInv
      <4>2. Cell(ScanTerm, ScanOffset)' = Cell(ScanTerm, ScanOffset)
        BY <2>1, <3>2, <4>1 DEF Cell
      <4>3. CASE ScanTerm < T \/ ScanOffset < term_offset
        <5>1. Written(ScanTerm, ScanOffset)
          BY <1>2, <3>1, <4>3 DEF Written
        <5> QED BY <4>2, <5>1 DEF IInv, ScanInv
      <4>4. CASE ScanTerm = T /\ ScanOffset = term_offset
        <5>1. Cell(T, term_offset).len > 0
          BY <1>2, <1>3, <4>4
        <5> QED BY <4>2, <4>4, <5>1
      <4> QED BY <1>2, <3>1, <4>2, <4>3, <4>4, SenderTypes DEF IInv
    <3>4. scan.pc = "emit" => ScanOffset < TermLength
      BY <1>2, SenderTypes DEF IInv, ScanInv
    <3> QED BY <1>1, <1>2, <2>1, <3>1, <3>3, <3>4 DEF IInv, ScanInv
  <2> QED BY <2>2, <2>3
<1> QED BY <1>5, <1>6, <1>10, <1>11, <1>12 DEF IInv

-----------------------------------------------------------------------------
(* sender_scan, step by step. *)

\* The sender writes neither the log nor the publisher's cursor, so that
\* only what is said of the scan itself is left to show.
LEMMA SenderKeeps ==
    ASSUME IInv, UNCHANGED <<log, pubVars>>, ScanTerm <= ScanTerm', ScanTerm' \in Nat
    PROVE  OfferInv' /\ WritingInv' /\ FreshInv' /\ ChainInv'
<1>1. UNCHANGED <<log, active_term_id, term_offset, pub_position, offer>>
  BY SMTT(40) DEF pubVars
<1>2. WritingInv' /\ FreshInv'
  BY <1>1 DEF IInv, WritingInv, FreshInv, WholeFrame, Cell, Unadvanced, WritePosition,
              compute_position
<1>3. ChainInv'
  <2>1. /\ Window' = Window
        /\ \A t, o : Cell(t, o)' = Cell(t, o) /\ (Written(t, o)' <=> Written(t, o))
    BY <1>1 DEF Window, Cell, Written
  <2>2. ASSUME NEW t, NEW o PROVE WholeFrame(t, o)' <=> WholeFrame(t, o)
    BY <2>1 DEF WholeFrame
  <2>3. ASSUME NEW t, NEW o PROVE Linked(t, o)' <=> Linked(t, o)
    BY <1>1, <2>1, <2>2 DEF Linked
  <2> QED BY <2>1, <2>3 DEF IInv, ChainInv
<1>4. OfferInv'
  BY <1>1, PublisherTypes, SenderTypes DEF IInv, OfferInv, compute_position
<1> QED BY <1>2, <1>3, <1>4

\* Below its limit the scan stands on a whole frame of its own term.
LEMMA ScanOnFrame ==
    ASSUME IInv, scan.pc # "idle", scan.scanned < scan.limit
    PROVE  /\ ScanTerm \in Window /\ ScanOffset \in Offsets
           /\ Written(ScanTerm, ScanOffset)
           /\ Cell(ScanTerm, ScanOffset).len \in Nat
           /\ Cell(ScanTerm, ScanOffset).len > 0
           /\ WholeFrame(ScanTerm, ScanOffset)
           /\ Linked(ScanTerm, ScanOffset)
           /\ ScanCell = Cell(ScanTerm, ScanOffset)
<1>1. ScanOffset < TermLength /\ ScanOffset \in Offsets
  BY SenderTypes, PublisherTypes DEF IInv, ScanInv, Offsets
<1>2. ScanTerm \in Window /\ Written(ScanTerm, ScanOffset)
  BY SenderTypes, PublisherTypes DEF IInv, ScanInv, Window, Written
<1>3. Cell(ScanTerm, ScanOffset).len > 0
  BY <1>1, <1>2 DEF IInv, ScanInv
<1>4. Linked(ScanTerm, ScanOffset)
  <2>1. \A t \in Window, o \in Offsets : Linked(t, o)
    BY DEF IInv, ChainInv
  <2> QED BY <1>1, <1>2, <2>1
<1>5. WholeFrame(ScanTerm, ScanOffset)
  BY <1>2, <1>3, <1>4 DEF Linked
<1>6. Cell(ScanTerm, ScanOffset).len \in Nat
  BY <1>1, SenderTypes, PartitionType DEF IInv, TypeOK, Cell, Cells
<1> QED BY <1>1, <1>2, <1>3, <1>4, <1>5, <1>6 DEF ScanCell, Cell

\* do_send's clamp keeps the scan at or before the write cursor.
LEMMA ScanBeginInv ==
    ASSUME IInv, NEW limit \in ScanLimits, ScanBegin(limit) PROVE IInv'
<1> DEFINE T == active_term_id
           o == OffsetOf(sender_position)
           m == ScanLimit(limit)
<1>1. /\ scan.pc = "idle" /\ pub_position - sender_position > 0
      /\ scan' = [ScanIdle EXCEPT !.pc = "load", !.limit = m]
      /\ UNCHANGED <<log, pubVars, sender_position>>
  BY DEF ScanBegin
<1>2. /\ T \in Nat /\ ScanTerm \in Nat /\ o \in Nat /\ o < TermLength
      /\ TermLength \in Nat /\ term_offset \in Nat /\ limit \in Nat
      /\ pub_position \in Nat /\ sender_position \in Nat
      /\ sender_position = ScanTerm * TermLength + o
  BY PublisherTypes, SenderTypes, ScanLimitsAssumption DEF IInv, TypeOK, compute_position
<1>3. m \in Nat /\ m <= TermLength - o /\ m <= pub_position - sender_position
  BY <1>1, <1>2 DEF ScanLimit, Lesser
<1> HIDE DEF m
<1>4. /\ scan'.pc = "load" /\ scan'.limit = m /\ scan'.scanned = 0 /\ scan'.len = 0
      /\ scan' \in [pc : {"idle", "load", "emit", "store"},
                    scanned : Nat, limit : Nat, len : Nat]
  BY <1>1, <1>3, Zenon DEF ScanIdle
<1>5. UNCHANGED <<log, active_term_id, term_offset, pub_position, offer, sender_position>>
  BY <1>1 DEF pubVars
<1>6. TypeOK'
  BY <1>4, <1>5 DEF IInv, TypeOK
<1>7. /\ ScanTerm' = ScanTerm /\ o' = o /\ ScanOffset' = ScanOffset
      /\ scan.scanned = 0
      /\ Cell(ScanTerm, ScanOffset)' = Cell(ScanTerm, ScanOffset)
      /\ Written(ScanTerm, ScanOffset)' = Written(ScanTerm, ScanOffset)
  <2>1. scan.scanned = 0
    BY <1>1 DEF IInv, ScanInv
  <2>2. ScanTerm' = ScanTerm /\ o' = o
    BY <1>5 DEF ScanTerm, TermOf, OffsetOf
  <2>3. ScanOffset' = ScanOffset
    BY <1>4, <2>1, <2>2 DEF ScanOffset
  <2> QED BY <1>5, <2>1, <2>2, <2>3 DEF Cell, Written
\* Only published data is scanned, so the limit is before the write cursor.
<1>8. ScanTerm <= T /\ (ScanTerm = T => o + m <= term_offset)
  <2>1. T * TermLength \in Nat /\ ScanTerm * TermLength \in Nat
    BY <1>2
  <2>2. pub_position <= T * TermLength + term_offset
    BY <1>2, <2>1 DEF IInv, OfferInv, compute_position
  <2>3. ASSUME ScanTerm = T PROVE o + m <= term_offset
    BY <1>1, <1>2, <1>3, <2>1, <2>2, <2>3
  <2>4. ASSUME ScanTerm = T + 1 PROVE FALSE
    <3>1. T * TermLength + TermLength <= (T + 1) * TermLength
      BY <1>2, ProductMonotone
    <3>2. term_offset <= TermLength
      BY PublisherTypes
    <3> QED BY <1>1, <1>2, <2>1, <2>2, <2>4, <3>1, <3>2
  <2> QED BY <1>2, <2>3, <2>4 DEF IInv, ScanInv
<1>9. ScanInv'
  BY <1>2, <1>3, <1>4, <1>5, <1>7, <1>8 DEF IInv, ScanInv
<1> QED BY <1>1, <1>2, <1>6, <1>7, <1>9, SenderKeeps DEF IInv

\* The length loaded is that of the frame the scan stands on.
LEMMA ScanLoadInv ==
    ASSUME IInv, ScanLoad PROVE IInv'
<1>1. PICK length \in FrameLengths(ScanCell) :
         /\ length > 0
         /\ ScanOffset + length <= TermLength
         /\ scan' = [scan EXCEPT !.pc = "emit", !.len = length]
  BY Zenon DEF ScanLoad
<1>2. /\ scan.pc = "load" /\ scan.scanned < scan.limit
      /\ UNCHANGED <<log, active_term_id, term_offset, pub_position, offer, sender_position>>
  BY DEF ScanLoad, pubVars
<1>3. length = Cell(ScanTerm, ScanOffset).len /\ length \in Nat
  BY <1>2, ScanOnFrame DEF FrameLengths, WholeFrame
<1>4. /\ scan'.pc = "emit" /\ scan'.len = length
      /\ scan'.scanned = scan.scanned /\ scan'.limit = scan.limit
      /\ scan' \in [pc : {"idle", "load", "emit", "store"},
                    scanned : Nat, limit : Nat, len : Nat]
  BY <1>1, <1>3, Zenon DEF IInv, TypeOK
<1>5. TypeOK'
  BY <1>2, <1>4 DEF IInv, TypeOK
<1>6. /\ ScanTerm' = ScanTerm /\ ScanOffset' = ScanOffset
      /\ OffsetOf(sender_position)' = OffsetOf(sender_position)
      /\ Cell(ScanTerm, ScanOffset)' = Cell(ScanTerm, ScanOffset)
      /\ Written(ScanTerm, ScanOffset)' = Written(ScanTerm, ScanOffset)
  <2>1. ScanTerm' = ScanTerm /\ OffsetOf(sender_position)' = OffsetOf(sender_position)
    BY <1>2 DEF ScanTerm, TermOf, OffsetOf
  <2>2. ScanOffset' = ScanOffset
    BY <1>4, <2>1 DEF ScanOffset
  <2> QED BY <1>2, <2>1, <2>2 DEF Cell, Written
<1>7. ScanInv'
  BY <1>2, <1>3, <1>4, <1>6 DEF IInv, ScanInv
<1>8. UNCHANGED <<log, pubVars>>
  BY <1>2 DEF pubVars
<1> QED BY <1>5, <1>6, <1>7, <1>8, SenderTypes, SenderKeeps DEF IInv

\* Past an emitted frame the scan stands on the next one, or at its limit.
LEMMA ScanEmitInv ==
    ASSUME IInv, ScanEmit PROVE IInv'
<1> DEFINE next == ScanOffset + Cell(ScanTerm, ScanOffset).len
<1>1. /\ scan.pc = "emit"
      /\ scan' = [scan EXCEPT !.pc = "load", !.scanned = scan.scanned + scan.len, !.len = 0]
      /\ UNCHANGED <<log, active_term_id, term_offset, pub_position, offer, sender_position>>
  BY DEF ScanEmit, pubVars
<1>2. scan.scanned < scan.limit /\ scan.len = Cell(ScanTerm, ScanOffset).len
  BY <1>1 DEF IInv, ScanInv
<1>3. /\ scan'.pc = "load" /\ scan'.len = 0 /\ scan'.limit = scan.limit
      /\ scan'.scanned = scan.scanned + scan.len
      /\ scan' \in [pc : {"idle", "load", "emit", "store"},
                    scanned : Nat, limit : Nat, len : Nat]
  <2>1. scan.scanned + scan.len \in Nat
    BY SenderTypes DEF IInv
  <2> QED BY <1>1, <2>1, Zenon DEF IInv, TypeOK
<1>4. TypeOK'
  BY <1>1, <1>3 DEF IInv, TypeOK
<1>5. /\ ScanTerm' = ScanTerm
      /\ OffsetOf(sender_position)' = OffsetOf(sender_position)
      /\ ScanOffset' = next
  <2>1. ScanTerm' = ScanTerm /\ OffsetOf(sender_position)' = OffsetOf(sender_position)
    BY <1>1 DEF ScanTerm, TermOf, OffsetOf
  <2>2. ScanOffset' = OffsetOf(sender_position) + (scan.scanned + scan.len)
    BY <1>3, <2>1 DEF ScanOffset
  <2> QED BY <1>2, <2>1, <2>2, SenderTypes DEF IInv
<1>6. /\ next \in Boundaries
      /\ ScanTerm = active_term_id => next <= term_offset
      /\ next < TermLength /\ Written(ScanTerm, next) => Cell(ScanTerm, next).len > 0
  BY <1>1, <1>2, ScanOnFrame DEF Linked, WholeFrame
<1>7. (Cell(ScanTerm, ScanOffset).len > 0)' <=> Cell(ScanTerm, next).len > 0
  BY <1>1, <1>5 DEF Cell
<1>8. Written(ScanTerm, ScanOffset)' <=> Written(ScanTerm, next)
  BY <1>1, <1>5 DEF Written
<1>9. ScanInv'
  BY <1>1, <1>2, <1>3, <1>5, <1>6, <1>7, <1>8 DEF IInv, ScanInv
<1>10. UNCHANGED <<log, pubVars>>
  BY <1>1 DEF pubVars
<1> QED BY <1>4, <1>5, <1>9, <1>10, SenderTypes, SenderKeeps DEF IInv

\* Stopping changes the control state only.
LEMMA ScanStopInv ==
    ASSUME IInv, ScanStop PROVE IInv'
<1>1. /\ scan.pc = "load" /\ scan' = [scan EXCEPT !.pc = "store"]
      /\ UNCHANGED <<log, active_term_id, term_offset, pub_position, offer, sender_position>>
  BY DEF ScanStop, pubVars
<1>2. /\ scan'.pc = "store" /\ scan'.len = scan.len
      /\ scan'.scanned = scan.scanned /\ scan'.limit = scan.limit
      /\ scan' \in [pc : {"idle", "load", "emit", "store"},
                    scanned : Nat, limit : Nat, len : Nat]
  BY <1>1 DEF IInv, TypeOK
<1>3. TypeOK'
  BY <1>1, <1>2 DEF IInv, TypeOK
<1>4. /\ ScanTerm' = ScanTerm /\ ScanOffset' = ScanOffset
      /\ OffsetOf(sender_position)' = OffsetOf(sender_position)
      /\ Cell(ScanTerm, ScanOffset)' = Cell(ScanTerm, ScanOffset)
      /\ Written(ScanTerm, ScanOffset)' = Written(ScanTerm, ScanOffset)
  <2>1. ScanTerm' = ScanTerm /\ OffsetOf(sender_position)' = OffsetOf(sender_position)
    BY <1>1 DEF ScanTerm, TermOf, OffsetOf
  <2>2. ScanOffset' = ScanOffset
    BY <1>2, <2>1 DEF ScanOffset
  <2> QED BY <1>1, <2>1, <2>2 DEF Cell, Written
<1>5. ScanInv'
  BY <1>1, <1>2, <1>4 DEF IInv, ScanInv
<1>6. UNCHANGED <<log, pubVars>>
  BY <1>1 DEF pubVars
<1> QED BY <1>3, <1>4, <1>5, <1>6, SenderTypes, SenderKeeps DEF IInv

\* The stored position is the scan position, in the next term when the scan
\* reached the end of its own.
LEMMA ScanStoreInv ==
    ASSUME IInv, ScanStore PROVE IInv'
<1> DEFINE T == active_term_id
           s == ScanTerm
           x == ScanOffset
<1>1. /\ scan.pc = "store" /\ scan' = ScanIdle /\ sender_position' = ScanPosition
      /\ UNCHANGED <<log, active_term_id, term_offset, pub_position, offer>>
  BY DEF ScanStore, pubVars
<1>2. /\ scan'.pc = "idle" /\ scan'.scanned = 0
      /\ scan' \in [pc : {"idle", "load", "emit", "store"},
                    scanned : Nat, limit : Nat, len : Nat]
  BY <1>1 DEF ScanIdle
<1>3. /\ T \in Nat /\ s \in Nat /\ x \in Nat /\ x \in Boundaries /\ x <= TermLength
      /\ TermLength \in Nat /\ TermLength > 0 /\ term_offset \in Nat
      /\ term_offset <= TermLength /\ 0 \in Offsets
      /\ T < s + 4
      /\ s < T \/ (s = T /\ x <= term_offset)
  BY <1>1, PublisherTypes, SenderTypes, BoundariesAssumption DEF IInv, ScanInv, Offsets
<1>4. s * TermLength \in Nat /\ sender_position' = s * TermLength + x
  <2>1. s * TermLength \in Nat
    BY <1>3
  <2>2. /\ OffsetOf(sender_position) \in Nat /\ scan.scanned \in Nat
        /\ sender_position = s * TermLength + OffsetOf(sender_position)
        /\ x = OffsetOf(sender_position) + scan.scanned
    BY SenderTypes DEF IInv, compute_position
  <2> QED BY <1>1, <2>1, <2>2 DEF ScanPosition
<1>5. TypeOK'
  BY <1>1, <1>2, <1>3, <1>4 DEF IInv, TypeOK
<1>6. ScanOffset' = OffsetOf(sender_position')
  BY <1>2, <1>4, <1>5, SenderTypes, PositionSplit DEF ScanOffset, Offsets, TypeOK
<1>7. CASE x < TermLength
  <2>1. x \in Offsets
    BY <1>3, <1>7 DEF Offsets
  <2>2. TermOf(s * TermLength + x) = s /\ OffsetOf(s * TermLength + x) = x
    BY <1>3, <2>1, PositionJoin, Zenon DEF compute_position
  <2>3. ScanTerm' = s /\ ScanOffset' = x /\ OffsetOf(sender_position)' = x
    BY <1>4, <1>6, <2>2 DEF ScanTerm, TermOf, OffsetOf
  <2>4. /\ Cell(ScanTerm, ScanOffset)' = Cell(s, x)
        /\ Written(ScanTerm, ScanOffset)' <=> Written(s, x)
    BY <1>1, <2>3 DEF Cell, Written
  <2>5. ScanInv'
    BY <1>1, <1>2, <1>3, <1>7, <2>3, <2>4 DEF IInv, ScanInv
  <2>6. UNCHANGED <<log, pubVars>>
    BY <1>1 DEF pubVars
  <2> QED BY <1>3, <1>5, <2>3, <2>5, <2>6, SenderKeeps DEF IInv
<1>8. CASE x = TermLength
  <2>1. TermOf((s + 1) * TermLength + 0) = s + 1 /\ OffsetOf((s + 1) * TermLength + 0) = 0
    <3>1. s + 1 \in Nat
      BY <1>3
    <3> QED BY <1>3, <3>1, PositionJoin, Zenon DEF compute_position
  <2>2. (s + 1) * TermLength + 0 = s * TermLength + x
    BY <1>3, <1>4, <1>8
  <2>3. ScanTerm' = s + 1 /\ ScanOffset' = 0 /\ OffsetOf(sender_position)' = 0
    BY <1>4, <1>6, <2>1, <2>2 DEF ScanTerm, TermOf, OffsetOf
  <2>4. /\ Cell(ScanTerm, ScanOffset)' = Cell(s + 1, 0)
        /\ Written(ScanTerm, ScanOffset)' <=> Written(s + 1, 0)
    BY <1>1, <2>3 DEF Cell, Written
  <2>5. ASSUME Written(s + 1, 0) PROVE Cell(s + 1, 0).len > 0
    <3>1. s + 1 \in Window
      BY <1>3, <2>5 DEF Window, Written
    <3> QED BY <2>5, <3>1 DEF IInv, ChainInv
  <2>6. ScanInv'
    <3>1. /\ T < (s + 1) + 4
          /\ \/ s + 1 < T
             \/ s + 1 = T /\ 0 <= term_offset
             \/ s + 1 = T + 1 /\ term_offset = TermLength
      BY <1>3, <1>8
    <3> QED BY <1>1, <1>2, <2>3, <2>4, <2>5, <3>1, BoundariesAssumption DEF ScanInv
  <2>7. UNCHANGED <<log, pubVars>>
    BY <1>1 DEF pubVars
  <2> QED BY <1>3, <1>5, <2>3, <2>6, <2>7, SenderKeeps DEF IInv
<1> QED BY <1>3, <1>7, <1>8

-----------------------------------------------------------------------------
(* The invariant and what follows from it. *)

\* The invariant holds of the empty log.
LEMMA InitIInv == Init => IInv
<1> SUFFICES ASSUME Init PROVE IInv
  OBVIOUS
<1>1. TermLength \in Nat /\ TermLength > 0 /\ 0 \in Boundaries
  BY TermLengthAssumption, BoundariesAssumption
<1>2. TypeOK
  BY <1>1, MaxTermAssumption DEF Init, TypeOK, Idle, ScanIdle, CleanPartition, Empty, Cells
<1>3. TermOf(0 * TermLength + 0) = 0 /\ OffsetOf(0 * TermLength + 0) = 0
  BY <1>1, PositionJoin DEF Offsets, compute_position
<1>4. TermOf(0) = 0 /\ OffsetOf(0) = 0 /\ 0 * TermLength + 0 = 0
  BY <1>1, <1>3
<1>5. ScanTerm = 0 /\ ScanOffset = 0 /\ OffsetOf(sender_position) = 0
  BY <1>4 DEF Init, ScanTerm, ScanOffset, ScanIdle
<1>6. OfferInv
  BY <1>1, <1>4 DEF Init, OfferInv, Idle, compute_position
<1>7. WritingInv /\ ~Unadvanced
  BY DEF Init, WritingInv, Unadvanced, Idle
<1>8. \A t \in Nat, o \in Offsets : Cell(t, o).len = 0
  BY PartitionType DEF Init, Cell, CleanPartition, Empty
<1>9. FreshInv
  BY <1>8 DEF Init, FreshInv
<1>10. \A t \in Window : \A o \in Nat : ~Written(t, o)
  BY DEF Init, Window, Written
<1>11. ChainInv
  BY <1>1, <1>10 DEF ChainInv, Linked, Offsets
<1>12. ScanInv
  BY <1>1, <1>5 DEF Init, ScanInv, Written, ScanIdle
<1> QED BY <1>2, <1>6, <1>7, <1>9, <1>11, <1>12 DEF IInv

\* Every step of the publisher and of the sender preserves the invariant.
LEMMA NextIInv == IInv /\ [Next]_vars => IInv'
<1> SUFFICES ASSUME IInv, [Next]_vars PROVE IInv'
  OBVIOUS
<1>1. ASSUME NEW n \in FrameSizes, OfferBegin(n) PROVE IInv'
  BY <1>1, OfferBeginInv
<1>2. ASSUME NEW n \in FrameSizes, OfferTermFull(n) PROVE IInv'
  BY <1>2, OfferTermFullInv
<1>3. CASE WriteHeader
  BY <1>3, WriteHeaderInv
<1>4. CASE WritePayload
  BY <1>4, WritePayloadInv
<1>5. CASE CommitFrame
  BY <1>5, CommitFrameInv
<1>6. CASE Advance
  BY <1>6, AdvanceInv
<1>7. CASE WritePadHeader
  BY <1>7, WritePadHeaderInv
<1>8. CASE CommitPad
  BY <1>8, CommitPadInv
<1>9. CASE rotate_term
  BY <1>9, RotateInv
<1>10. ASSUME NEW limit \in ScanLimits, ScanBegin(limit) PROVE IInv'
  BY <1>10, ScanBeginInv
<1>11. CASE ScanLoad
  BY <1>11, ScanLoadInv
<1>12. CASE ScanEmit
  BY <1>12, ScanEmitInv
<1>13. CASE ScanStop
  BY <1>13, ScanStopInv
<1>14. CASE ScanStore
  BY <1>14, ScanStoreInv
<1>15. CASE UNCHANGED vars
  <2>1. /\ log' = log /\ active_term_id' = active_term_id /\ term_offset' = term_offset
        /\ pub_position' = pub_position /\ sender_position' = sender_position
        /\ offer' = offer /\ scan' = scan
    BY <1>15 DEF vars
  <2>2. TypeOK'
    BY <2>1 DEF IInv, TypeOK
  <2>3. ScanTerm' = ScanTerm /\ ScanTerm \in Nat
    BY <2>1, SenderTypes DEF IInv, ScanTerm, TermOf
  <2>4. OfferInv' /\ WritingInv' /\ FreshInv' /\ ChainInv'
    BY <2>1, <2>3, SenderKeeps, SMTT(40) DEF pubVars
  <2>5. ScanInv'
    BY <2>1 DEF IInv, ScanInv, Written, Cell, Unadvanced, ScanTerm, ScanOffset, TermOf, OffsetOf
  <2> QED BY <2>2, <2>4, <2>5 DEF IInv
<1> QED
  BY <1>1, <1>2, <1>3, <1>4, <1>5, <1>6, <1>7, <1>8, <1>9, <1>10, <1>11, <1>12,
     <1>13, <1>14, <1>15 DEF Next, Publisher, Write, Sender

\* The inductive invariant itself: in particular the frames of the terms in
\* the log are whole and linked from the start of each term to the cursor.
THEOREM FramesLinked == Spec => []IInv
BY InitIInv, NextIInv, PTL DEF Spec

\* Type correctness of the publication's state, for every term length, frame
\* size and scan limit the assumptions allow.
THEOREM TypeCorrect == Spec => []TypeOK
<1>1. IInv => TypeOK
  BY DEF IInv
<1> QED BY <1>1, InitIInv, NextIInv, PTL DEF Spec

\* rotate_term never cleans, and offer never writes, a partition that the
\* sender has still to scan: three terms of back-pressure are enough.
THEOREM PublisherNeverLaps == Spec => []NeverLapped
<1>1. IInv => NeverLapped
  BY PublisherTypes, SenderTypes DEF IInv, ScanInv, NeverLapped
<1> QED BY <1>1, InitIInv, NextIInv, PTL DEF Spec

\* sender_scan emits the published frames, whole, in order and once.
THEOREM SenderEmitsPublished == Spec => []EmitsPublishedFrame
<1>1. IInv => EmitsPublishedFrame
  <2> SUFFICES ASSUME IInv, scan.pc = "emit" PROVE EmitsPublishedFrame
    BY DEF EmitsPublishedFrame
  <2> DEFINE c == Cell(ScanTerm, ScanOffset)
  <2>1. scan.scanned < scan.limit /\ scan.len = c.len
    BY DEF IInv, ScanInv
  <2>2. WholeFrame(ScanTerm, ScanOffset) /\ ScanCell = c /\ c.len \in Nat
    BY <2>1, ScanOnFrame
  <2>3. compute_position(ScanTerm, ScanOffset) = ScanPosition
    <3>1. ScanTerm * TermLength \in Nat
      BY SenderTypes, TermLengthAssumption DEF IInv
    <3> QED BY <3>1, SenderTypes DEF IInv, compute_position, ScanPosition
  <2>4. ASSUME c.kind = "data", NEW i \in ScanOffset + 1 .. ScanOffset + scan.len - 1
        PROVE  log[partition_index(ScanTerm)][i] = Body(ScanPosition)
    <3>1. ScanOffset \in Nat /\ scan.len \in Nat /\ ScanOffset + c.len <= TermLength
      BY <2>2, SenderTypes, BoundariesAssumption DEF IInv, WholeFrame
    <3>2. i \in Offsets /\ ScanOffset < i /\ i < ScanOffset + c.len
      BY <2>1, <3>1, TermLengthAssumption DEF Offsets
    <3> QED BY <2>2, <2>3, <2>4, <3>2 DEF WholeFrame, Cell
  <2> QED BY <2>1, <2>2, <2>3, <2>4 DEF EmitsPublishedFrame, WholeFrame
<1> QED BY <1>1, InitIInv, NextIInv, PTL DEF Spec
=============================================================================
