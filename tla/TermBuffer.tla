----------------------------- MODULE TermBuffer -----------------------------
(***************************************************************************)
(* The geometry of a log of four term partitions (media/term_buffer.rs)    *)
(* and of positions in it.                                                 *)
(*                                                                         *)
(* Lengths, offsets and positions are counted in units of FRAME_ALIGNMENT  *)
(* (32 bytes, also DATA_HEADER_LENGTH): every frame starts on such a unit  *)
(* and occupies a whole number of them.  Term ids are counted from         *)
(* initial_term_id, so the models cover the first 2^31 terms, where        *)
(* compute_position does not wrap.                                         *)
(***************************************************************************)
EXTENDS Integers

CONSTANT TermLength     \* units in one term partition

ASSUME TermLengthAssumption == TermLength \in Nat \ {0}

PARTITION_COUNT == 4
Partitions      == 0 .. PARTITION_COUNT - 1
Offsets         == 0 .. TermLength - 1

partition_index(term) == term % PARTITION_COUNT

compute_position(term, offset) == term * TermLength + offset

\* position >> position_bits_to_shift and position & term_length_mask.
TermOf(position)   == position \div TermLength
OffsetOf(position) == position % TermLength

(***************************************************************************)
(* A cell is what one unit of the log holds.  "data" and "pad" cells are   *)
(* frame headers; len is the frame_length word of the header, 0 until the  *)
(* frame is committed.  "body" cells are payload.  pos is the position the *)
(* bytes were written for: it identifies the frame, no code reads it.      *)
(***************************************************************************)
Cells == [kind : {"empty", "data", "pad", "body"}, len : Nat, pos : Nat]

Empty           == [kind |-> "empty", len |-> 0, pos |-> 0]
\* A slip: frame_length goes out with the rest of the header.
CommittedHeader(kind, p) == [kind |-> kind, len |-> 1, pos |-> p]

Header(kind, p) == [kind |-> kind, len |-> 0, pos |-> p]
Body(p)         == [kind |-> "body", len |-> 0, pos |-> p]

CleanPartition == [o \in Offsets |-> Empty]

\* What a load of the word at the start of a unit can return.  Payload bytes
\* read as a frame_length can be anything.
FrameLengths(cell) == IF cell.kind = "body" THEN 0 .. TermLength ELSE {cell.len}

Lesser(a, b) == IF a < b THEN a ELSE b
=============================================================================
