------------------------- MODULE PublicationInvariant -------------------------
(***************************************************************************)
(* Why ConcurrentPublication is correct, and for which frame sizes: the    *)
(* condition under which three terms of back-pressure are enough, and the  *)
(* inductive invariant that follows from it.                               *)
(***************************************************************************)
EXTENDS ConcurrentPublication

\* The offsets of a term at which a frame can start or end.
CONSTANT Boundaries

(***************************************************************************)
(* offer lets the publisher leave a term at offset b when the sender is    *)
(* past offset b of the term three earlier, whose partition is cleaned     *)
(* next.  That is enough exactly when a frame that does not fit at b       *)
(* leaves no frame boundary between b and the end of a term, for instance  *)
(* when all frames have one size, or none is longer than two units.        *)
(***************************************************************************)
ASSUME BoundariesAssumption ==
    /\ Boundaries \subseteq 0 .. TermLength
    /\ {0, TermLength} \subseteq Boundaries
    /\ \A n \in FrameSizes : n <= TermLength
    /\ \A b \in Boundaries, n \in FrameSizes :
         IF b + n <= TermLength
         THEN b + n \in Boundaries
         ELSE \A c \in Boundaries : c <= b \/ c = TermLength

\* The terms whose frames are in the log.
Window == {t \in 0 .. active_term_id : active_term_id < t + PARTITION_COUNT}

Cell(t, o) == log[partition_index(t)][o]

\* A committed frame of term t starts at o and is all there.
WholeFrame(t, o) ==
    /\ Cell(t, o).kind \in {"data", "pad"}
    /\ Cell(t, o).len > 0
    /\ o + Cell(t, o).len \in Boundaries
    /\ Cell(t, o).pos = compute_position(t, o)
    /\ Cell(t, o).kind = "data" =>
         \A i \in Offsets :
            o < i /\ i < o + Cell(t, o).len => Cell(t, i) = Body(compute_position(t, o))

\* A frame is committed at term_offset and the cursor is not yet past it.
Unadvanced == offer.pc = "advance" \/ (offer.pc = "rotate" /\ term_offset < TermLength)

OfferInv ==
    /\ term_offset \in Boundaries
    /\ IF term_offset > 0
       THEN pub_position = compute_position(active_term_id, term_offset)
       ELSE pub_position <= compute_position(active_term_id, 0)
    /\ offer.pc \in {"header", "payload", "commit", "advance"} =>
         /\ offer.len > 0
         /\ term_offset + offer.len \in Boundaries
    /\ offer.pc \in {"pad_header", "pad_commit", "rotate"} =>
         /\ active_term_id < MaxTerm
         /\ term_offset > 0
         /\ offer.len = TermLength - term_offset
         /\ active_term_id <= ScanTerm + 2
    /\ offer.pc \in {"pad_header", "pad_commit"} => term_offset < TermLength

\* Offset o of term t is before the write cursor.
Written(t, o) == t < active_term_id \/ (t = active_term_id /\ o < term_offset)

\* What offer has written so far at term_offset.
WritingInv ==
    /\ offer.pc \in {"payload", "commit"} =>
         Cell(active_term_id, term_offset) = Header("data", WritePosition)
    /\ offer.pc = "commit" =>
         \A i \in Offsets :
            term_offset < i /\ i < term_offset + offer.len =>
                Cell(active_term_id, i) = Body(WritePosition)
    /\ offer.pc = "pad_commit" =>
         Cell(active_term_id, term_offset) = Header("pad", WritePosition)
    /\ Unadvanced =>
         /\ WholeFrame(active_term_id, term_offset)
         /\ Cell(active_term_id, term_offset).len = offer.len

\* Nothing is committed at or after the write cursor, except that frame.
FreshInv ==
    \A o \in Offsets :
        term_offset <= o /\ (Unadvanced => term_offset < o) =>
            Cell(active_term_id, o).len = 0

\* A committed frame before the write cursor is whole, and leads to the
\* next frame, to the end of its term, or to the write cursor.
Linked(t, o) ==
    LET next == o + Cell(t, o).len IN
    Written(t, o) /\ Cell(t, o).len > 0 =>
        /\ WholeFrame(t, o)
        /\ t = active_term_id => next <= term_offset
        /\ next < TermLength /\ Written(t, next) => Cell(t, next).len > 0

\* Frames start at the start of each term in the window and are linked.
ChainInv ==
    \A t \in Window :
        /\ Written(t, 0) => Cell(t, 0).len > 0
        /\ \A o \in Offsets : Linked(t, o)

\* The scan stands on a frame boundary of a term still in the log, not past
\* the write cursor, and on a frame if it is before the cursor.  When
\* the active term is scanned to its end the next scan is one of the term
\* that offer has not entered yet.
ScanInv ==
    /\ active_term_id < ScanTerm + PARTITION_COUNT
    /\ \/ ScanTerm < active_term_id
       \/ ScanTerm = active_term_id /\ ScanOffset <= term_offset
       \/ /\ ScanTerm = active_term_id + 1
          /\ term_offset = TermLength
          /\ OffsetOf(sender_position) = 0
          /\ scan.pc = "idle"
    /\ OffsetOf(sender_position) \in Boundaries
    /\ ScanOffset \in Boundaries
    /\ ScanOffset < TermLength /\ Written(ScanTerm, ScanOffset) => Cell(ScanTerm, ScanOffset).len > 0
    /\ scan.pc = "idle" => scan.scanned = 0
    /\ scan.pc # "idle" =>
         /\ OffsetOf(sender_position) + scan.limit <= TermLength
         /\ ScanTerm = active_term_id => OffsetOf(sender_position) + scan.limit <= term_offset
    /\ scan.pc = "emit" =>
         /\ scan.scanned < scan.limit
         /\ scan.len = Cell(ScanTerm, ScanOffset).len

\* The inductive invariant of offer, rotate_term and sender_scan: the log
\* behind the write cursor is a chain of whole frames of its own terms, and
\* the scan stands on a link of it.
IInv == TypeOK /\ OfferInv /\ WritingInv /\ FreshInv /\ ChainInv /\ ScanInv
=============================================================================
