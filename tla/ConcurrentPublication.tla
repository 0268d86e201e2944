------------------------ MODULE ConcurrentPublication ------------------------
(***************************************************************************)
(* The lock-free publication log of media/concurrent_publication.rs: one   *)
(* application thread offers frames into a log of four term partitions,    *)
(* the sender agent scans committed frames out of it.  The two threads     *)
(* share only the log memory and the two position counters.                *)
(***************************************************************************)
EXTENDS TermBuffer

CONSTANTS
    FrameSizes,     \* aligned lengths of the frames the application offers
    ScanLimits,     \* what flow control and free send slots let do_send scan
    MaxTerm         \* bound: no rotation past this term

ASSUME FrameSizesAssumption == FrameSizes \subseteq Nat \ {0}
ASSUME ScanLimitsAssumption == ScanLimits \subseteq Nat \ {0}
ASSUME MaxTermAssumption    == MaxTerm \in Nat

VARIABLES
    log,                \* SharedLogBuffer: partition -> offset -> cell
    active_term_id,     \* publisher: term being written
    term_offset,        \* publisher: next free unit of that term
    pub_position,       \* shared: end of the last published data frame
    sender_position,    \* shared: everything before it has been scanned
    offer,              \* control state of ConcurrentPublication::offer
    scan                \* control state of SenderPublication::sender_scan

pubVars == <<active_term_id, term_offset, pub_position, offer>>
vars    == <<log, active_term_id, term_offset, pub_position, sender_position,
             offer, scan>>

Idle     == [pc |-> "idle", len |-> 0]
ScanIdle == [pc |-> "idle", scanned |-> 0, limit |-> 0, len |-> 0]

Init ==
    /\ log = [p \in Partitions |-> CleanPartition]
    /\ active_term_id = 0
    /\ term_offset = 0
    /\ pub_position = 0
    /\ sender_position = 0
    /\ offer = Idle
    /\ scan = ScanIdle

-----------------------------------------------------------------------------
(* ConcurrentPublication::offer, on the application thread. *)

WritePosition == compute_position(active_term_id, term_offset)

\* Store a cell in the units S of the active term.
Store(S, cell) ==
    log' = [log EXCEPT ![partition_index(active_term_id)] =
              [o \in Offsets |-> IF o \in S THEN cell ELSE @[o]]]

\* The frame_length word alone, in the unit at term_offset.
Commit(length) ==
    log' = [log EXCEPT ![partition_index(active_term_id)][term_offset].len = length]

\* A slip: the publisher may run ahead by the whole log.
WholeLogAhead == TermLength * PARTITION_COUNT

max_ahead == TermLength * (PARTITION_COUNT - 1)

BackPressured == pub_position - sender_position >= max_ahead

\* The frame fits.  offer returns BackPressured, and changes nothing, when
\* this guard fails on the position it loads.
OfferBegin(n) ==
    /\ offer.pc = "idle"
    /\ ~BackPressured
    /\ term_offset + n <= TermLength
    /\ offer' = [pc |-> "header", len |-> n]
    /\ UNCHANGED <<log, active_term_id, term_offset, pub_position, sender_position, scan>>

\* A slip: the term is left without a pad over its tail.
OfferTermFullUnpadded(n) ==
    /\ offer.pc = "idle"
    /\ ~BackPressured
    /\ term_offset + n > TermLength
    /\ active_term_id < MaxTerm
    /\ offer' = [pc |-> "rotate", len |-> TermLength - term_offset]
    /\ UNCHANGED <<log, active_term_id, term_offset, pub_position, sender_position, scan>>

\* The frame does not fit: pad the tail, if there is one, and rotate.
OfferTermFull(n) ==
    /\ offer.pc = "idle"
    /\ ~BackPressured
    /\ term_offset + n > TermLength
    /\ active_term_id < MaxTerm
    /\ offer' = [pc |-> IF term_offset < TermLength THEN "pad_header" ELSE "rotate",
                 len |-> TermLength - term_offset]
    /\ UNCHANGED <<log, active_term_id, term_offset, pub_position, sender_position, scan>>

\* Step 1: the header, with frame_length = 0.
WriteHeader ==
    /\ offer.pc = "header"
    /\ Store({term_offset}, Header("data", WritePosition))
    /\ offer' = [offer EXCEPT !.pc = "payload"]
    /\ UNCHANGED <<active_term_id, term_offset, pub_position, sender_position, scan>>

\* Step 2: the payload.
WritePayload ==
    /\ offer.pc = "payload"
    /\ Store(term_offset + 1 .. term_offset + offer.len - 1, Body(WritePosition))
    /\ offer' = [offer EXCEPT !.pc = "commit"]
    /\ UNCHANGED <<active_term_id, term_offset, pub_position, sender_position, scan>>

\* Step 3: Release store of frame_length.
CommitFrame ==
    /\ offer.pc = "commit"
    /\ Commit(offer.len)
    /\ offer' = [offer EXCEPT !.pc = "advance"]
    /\ UNCHANGED <<active_term_id, term_offset, pub_position, sender_position, scan>>

\* Step 4: advance the cursor, Release store of pub_position.
Advance ==
    /\ offer.pc = "advance"
    /\ term_offset' = term_offset + offer.len
    /\ pub_position' = compute_position(active_term_id, term_offset + offer.len)
    /\ offer' = Idle
    /\ UNCHANGED <<log, active_term_id, sender_position, scan>>

\* Header bytes 4..32 of the pad frame; frame_length is still zero.
WritePadHeader ==
    /\ offer.pc = "pad_header"
    /\ Store({term_offset}, Header("pad", WritePosition))
    /\ offer' = [offer EXCEPT !.pc = "pad_commit"]
    /\ UNCHANGED <<active_term_id, term_offset, pub_position, sender_position, scan>>

CommitPad ==
    /\ offer.pc = "pad_commit"
    /\ Commit(offer.len)
    /\ offer' = [offer EXCEPT !.pc = "rotate"]
    /\ UNCHANGED <<active_term_id, term_offset, pub_position, sender_position, scan>>

\* A slip: the partition is not cleaned when its term is entered.
RotateUncleaned ==
    /\ offer.pc = "rotate"
    /\ active_term_id' = active_term_id + 1
    /\ term_offset' = 0
    /\ offer' = Idle
    /\ UNCHANGED <<log, pub_position, sender_position, scan>>

\* Enter the next term and zero its partition; offer returns AdminAction.
rotate_term ==
    /\ offer.pc = "rotate"
    /\ active_term_id' = active_term_id + 1
    /\ term_offset' = 0
    /\ log' = [log EXCEPT ![partition_index(active_term_id + 1)] = CleanPartition]
    /\ offer' = Idle
    /\ UNCHANGED <<pub_position, sender_position, scan>>

Write == WriteHeader \/ WritePayload \/ CommitFrame \/ Advance
            \/ WritePadHeader \/ CommitPad \/ rotate_term

Publisher == (\E n \in FrameSizes : OfferBegin(n) \/ OfferTermFull(n)) \/ Write

-----------------------------------------------------------------------------
(* SenderPublication::sender_scan, on the sender agent's thread. *)

\* Where the scan stands; it never leaves the term of sender_position.
ScanPosition == sender_position + scan.scanned
ScanTerm     == TermOf(sender_position)
ScanOffset   == OffsetOf(sender_position) + scan.scanned
ScanCell     == log[partition_index(ScanTerm)][ScanOffset]

\* do_send clamps the scan to the published data, then sender_scan to the
\* rest of the term.  The receiver window and the free send slots, which
\* other modules are about, give the first limit.
ScanLimit(limit) ==
    Lesser(Lesser(limit, pub_position - sender_position),
           TermLength - OffsetOf(sender_position))

ScanBegin(limit) ==
    /\ scan.pc = "idle"
    /\ pub_position - sender_position > 0
    /\ scan' = [ScanIdle EXCEPT !.pc = "load", !.limit = ScanLimit(limit)]
    /\ UNCHANGED <<log, pubVars, sender_position>>

\* A committed frame: emit reads its bytes next.
ScanLoad ==
    /\ scan.pc = "load"
    /\ scan.scanned < scan.limit
    /\ \E length \in FrameLengths(ScanCell) :
         /\ length > 0
         /\ ScanOffset + length <= TermLength
         /\ scan' = [scan EXCEPT !.pc = "emit", !.len = length]
    /\ UNCHANGED <<log, pubVars, sender_position>>

ScanEmit ==
    /\ scan.pc = "emit"
    /\ scan' = [scan EXCEPT !.pc = "load", !.scanned = @ + scan.len, !.len = 0]
    /\ UNCHANGED <<log, pubVars, sender_position>>

\* The limit, uncommitted space, or a length that leaves the term.
ScanStop ==
    /\ scan.pc = "load"
    /\ \/ scan.scanned >= scan.limit
       \/ /\ scan.scanned < scan.limit
          /\ \E length \in FrameLengths(ScanCell) :
               ~(0 < length /\ ScanOffset + length <= TermLength)
    /\ scan' = [scan EXCEPT !.pc = "store"]
    /\ UNCHANGED <<log, pubVars, sender_position>>

\* Release store of sender_position.
ScanStore ==
    /\ scan.pc = "store"
    /\ sender_position' = ScanPosition
    /\ scan' = ScanIdle
    /\ UNCHANGED <<log, pubVars>>

Sender == (\E limit \in ScanLimits : ScanBegin(limit))
            \/ ScanLoad \/ ScanEmit \/ ScanStop \/ ScanStore

Next == Publisher \/ Sender

\* The sender agent scans in every duty cycle, and an offer that was begun
\* is finished; nothing obliges the application to offer.
Fairness == WF_vars(Sender) /\ WF_vars(Write)

Spec     == Init /\ [][Next]_vars
FairSpec == Spec /\ Fairness

-----------------------------------------------------------------------------
\* Types of the log and of the two handles; offer never moves term_offset
\* past the end of a term.
TypeOK ==
    /\ log \in [Partitions -> [Offsets -> Cells]]
    /\ active_term_id \in 0 .. MaxTerm
    /\ term_offset \in 0 .. TermLength
    /\ pub_position \in Nat
    /\ sender_position \in Nat
    /\ offer \in [pc : {"idle", "header", "payload", "commit", "advance",
                        "pad_header", "pad_commit", "rotate"}, len : Nat]
    /\ scan \in [pc : {"idle", "load", "emit", "store"},
                 scanned : Nat, limit : Nat, len : Nat]

(***************************************************************************)
(* rotate_term's safety comment: the publisher is at most three terms      *)
(* ahead, so the partition it zeroes and then writes (the one of four      *)
(* terms ago) has been scanned to its end.                                 *)
(***************************************************************************)
NeverLapped == active_term_id - ScanTerm < PARTITION_COUNT

(***************************************************************************)
(* While sender_scan hands a frame to emit, its bytes are those of the     *)
(* frame that offer published for exactly this position, complete, and     *)
(* they are not being cleaned or overwritten.  As scan positions are       *)
(* contiguous this is FIFO delivery: no frame lost, repeated, torn or      *)
(* taken from another term.                                                *)
(***************************************************************************)
EmitsPublishedFrame ==
    scan.pc = "emit" =>
        /\ ScanCell.kind \in {"data", "pad"}
        /\ ScanCell.len = scan.len
        /\ ScanCell.pos = ScanPosition
        /\ ScanCell.kind = "data" =>
             \A o \in ScanOffset + 1 .. ScanOffset + scan.len - 1 :
                log[partition_index(ScanTerm)][o] = Body(ScanPosition)

\* Everything offer reported as published is eventually scanned.
AllOfferedScanned ==
    \A p \in 1 .. (MaxTerm + 1) * TermLength :
        pub_position >= p ~> sender_position >= p
=============================================================================
