-------------------------- MODULE NetworkPublication --------------------------
(***************************************************************************)
(* The publication of media/network_publication.rs: the same log, offered  *)
(* to and scanned by the sender agent's thread alone.  offer and           *)
(* sender_scan are single steps, which also makes it what the concurrent   *)
(* publication promises (module PublicationRefinement).                    *)
(***************************************************************************)
EXTENDS TermBuffer

CONSTANTS
    FrameSizes,     \* aligned lengths of the frames the application offers
    ScanLimits,     \* what flow control and free send slots let do_send scan
    MaxTerm         \* bound: no rotation past this term

VARIABLES
    log, active_term_id, term_offset, pub_position, sender_position

vars == <<log, active_term_id, term_offset, pub_position, sender_position>>

Init ==
    /\ log = [p \in Partitions |-> CleanPartition]
    /\ active_term_id = 0
    /\ term_offset = 0
    /\ pub_position = 0
    /\ sender_position = 0

\* Publisher must not lap the sender by more than three terms.
BackPressured ==
    pub_position - sender_position >= TermLength * (PARTITION_COUNT - 1)

\* RawLog::append_frame of a frame of n units at the write cursor.
append_frame(n) ==
    LET p == compute_position(active_term_id, term_offset) IN
    log' = [log EXCEPT ![partition_index(active_term_id)] =
              [o \in Offsets |->
                 IF o = term_offset THEN [Header("data", p) EXCEPT !.len = n]
                 ELSE IF term_offset < o /\ o < term_offset + n THEN Body(p)
                 ELSE @[o]]]

\* RawLog::write_pad_frame over the tail of the active term, nothing if there
\* is no tail.
write_pad_frame(l) ==
    [l EXCEPT ![partition_index(active_term_id)] =
       [o \in Offsets |->
          IF o = term_offset
          THEN [Header("pad", compute_position(active_term_id, term_offset))
                  EXCEPT !.len = TermLength - term_offset]
          ELSE @[o]]]

clean_partition(l, term) == [l EXCEPT ![partition_index(term)] = CleanPartition]

Offer(n) ==
    /\ ~BackPressured
    /\ term_offset + n <= TermLength
    /\ append_frame(n)
    /\ term_offset' = term_offset + n
    /\ pub_position' = compute_position(active_term_id, term_offset + n)
    /\ UNCHANGED <<active_term_id, sender_position>>

\* TermFull: pad, rotate, AdminAction.
OfferTermFull(n) ==
    /\ ~BackPressured
    /\ term_offset + n > TermLength
    /\ active_term_id < MaxTerm
    /\ log' = clean_partition(write_pad_frame(log), active_term_id + 1)
    /\ active_term_id' = active_term_id + 1
    /\ term_offset' = 0
    /\ UNCHANGED <<pub_position, sender_position>>

ScanTerm == TermOf(sender_position)

\* RawLog::scan_frames: the offset at which a walk over committed frames that
\* starts at offset ends.
scan_frames(part, offset, limit) ==
    LET walk[o \in 0 .. TermLength] ==
          IF /\ o < TermLength
             /\ o - offset < limit
             /\ part[o].len > 0
             /\ o + part[o].len <= TermLength
          THEN walk[o + part[o].len]
          ELSE o
    IN  walk[offset]

ScanLimit(limit) ==
    Lesser(Lesser(limit, pub_position - sender_position),
           TermLength - OffsetOf(sender_position))

ScannedTo(limit) ==
    compute_position(ScanTerm, scan_frames(log[partition_index(ScanTerm)],
                                           OffsetOf(sender_position),
                                           ScanLimit(limit)))

sender_scan(limit) ==
    /\ pub_position - sender_position > 0
    /\ sender_position' = ScannedTo(limit)
    /\ UNCHANGED <<log, active_term_id, term_offset, pub_position>>

Next ==
    \/ \E n \in FrameSizes : Offer(n) \/ OfferTermFull(n)
    \/ \E limit \in ScanLimits : sender_scan(limit)

Spec == Init /\ [][Next]_vars
=============================================================================
