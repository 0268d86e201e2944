------------------------ MODULE PublicationRefinement ------------------------
(***************************************************************************)
(* The concurrent publication implements the single-threaded one: seen     *)
(* through the mapping below, every interleaving of offer and sender_scan  *)
(* is a sequence of whole offers and whole scans.  An offer takes effect   *)
(* when its frame_length (of the frame or of the pad) is committed, a scan *)
(* when sender_position is stored.                                         *)
(***************************************************************************)
EXTENDS ConcurrentPublication

\* Units offer has written and not committed are still free.
Uncommitted(p, o) ==
    /\ offer.pc \in {"payload", "commit", "pad_commit"}
    /\ p = partition_index(active_term_id)
    /\ term_offset <= o

Rotating == offer.pc = "rotate"

AtomicLog ==
    [p \in Partitions |-> [o \in Offsets |->
       IF Uncommitted(p, o) \/ (Rotating /\ p = partition_index(active_term_id + 1))
       THEN Empty ELSE log[p][o]]]

AtomicTerm == IF Rotating THEN active_term_id + 1 ELSE active_term_id

AtomicOffset ==
    IF Rotating THEN 0
    ELSE IF offer.pc = "advance" THEN term_offset + offer.len
    ELSE term_offset

AtomicPosition ==
    IF offer.pc = "advance"
    THEN compute_position(active_term_id, term_offset + offer.len)
    ELSE pub_position

Atomic == INSTANCE NetworkPublication WITH
    ScanLimits <- 1 .. TermLength,
    log <- AtomicLog,
    active_term_id <- AtomicTerm,
    term_offset <- AtomicOffset,
    pub_position <- AtomicPosition,
    sender_position <- sender_position

(***************************************************************************)
(* The concurrent publication is indistinguishable from one whose offer    *)
(* and sender_scan never overlap.                                          *)
(***************************************************************************)
IsAtomic == Atomic!Spec
=============================================================================
