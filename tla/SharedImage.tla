----------------------------- MODULE SharedImage -----------------------------
(***************************************************************************)
(* A publication image (media/shared_image.rs): the receiver agent writes  *)
(* the frames that arrive for one session into a log of four partitions    *)
(* (on_data in agent/receiver.rs), a client thread polls them out of it.   *)
(* The two share the log and two positions, and nothing makes the receiver *)
(* wait: no code calls check_back_pressure, and status messages report     *)
(* what was received, not what was polled.                                 *)
(*                                                                         *)
(* The stream consists of frames of one size.  The sender never sends pad  *)
(* frames (do_send skips them), so the tail of a term that a frame does    *)
(* not fit in stays empty here.                                            *)
(***************************************************************************)
EXTENDS TermBuffer

CONSTANTS
    FrameSize,      \* aligned length of the frames of the stream
    Reordering,     \* by how many frames an arrival may be early or late
    PollLimits,     \* fragment limits the client polls with
    MaxTerm         \* bound: no frame of a later term arrives

ASSUME FrameSizeAssumption  == FrameSize \in 1 .. TermLength
ASSUME ReorderingAssumption == Reordering \in Nat
ASSUME PollLimitsAssumption == PollLimits \subseteq Nat \ {0}
ASSUME MaxTermAssumption    == MaxTerm \in Nat

VARIABLES
    log,                    \* SharedLogBuffer: partition -> offset -> cell
    active_term_id,         \* receiver: highest term seen
    receiver_position,      \* shared: end of the highest frame received
    subscriber_position,    \* shared: everything before it was polled
    recv,                   \* control state of on_data
    poll                    \* control state of poll_fragments

vars == <<log, active_term_id, receiver_position, subscriber_position, recv, poll>>

RecvIdle == [pc |-> "idle", at |-> 0, step |-> 0]
PollIdle == [pc |-> "idle", scanned |-> 0, left |-> 0, len |-> 0, skip |-> 0]

Init ==
    /\ log = [p \in Partitions |-> CleanPartition]
    /\ active_term_id = 0
    /\ receiver_position = 0
    /\ subscriber_position = 0
    /\ recv = RecvIdle
    /\ poll = PollIdle

-----------------------------------------------------------------------------
(* The network: frame i of the stream, and which frames may arrive now. *)

FramesPerTerm == TermLength \div FrameSize

FramePosition(i) ==
    compute_position(i \div FramesPerTerm, (i % FramesPerTerm) * FrameSize)

NextFrame == TermOf(receiver_position) * FramesPerTerm
                + OffsetOf(receiver_position) \div FrameSize

\* In order and without loss when Reordering is 0.  Otherwise frames may be
\* skipped (lost, so far), arrive late, or arrive again.
Arrivals == {i \in NextFrame - Reordering .. NextFrame + Reordering :
                i >= 0 /\ TermOf(FramePosition(i)) <= MaxTerm}

-----------------------------------------------------------------------------
(* on_data and ReceiverImage::append_frame, on the receiver's thread. *)

RecvTerm   == TermOf(recv.at)
RecvOffset == OffsetOf(recv.at)

Store(S, cell) ==
    log' = [log EXCEPT ![partition_index(RecvTerm)] =
              [o \in Offsets |-> IF o \in S THEN cell ELSE @[o]]]

\* A frame ahead of the active term rotates first; one that is a whole log
\* behind is dropped.
on_data(i) ==
    LET at == FramePosition(i) IN
    /\ recv.pc = "idle"
    /\ active_term_id - TermOf(at) < PARTITION_COUNT
    /\ recv' = [pc |-> IF TermOf(at) > active_term_id THEN "clean" ELSE "header",
                at |-> at, step |-> 1]
    /\ UNCHANGED <<log, active_term_id, receiver_position, subscriber_position, poll>>

RotationSteps == Lesser(RecvTerm - active_term_id, PARTITION_COUNT)

\* Clean the partitions of the terms that are entered, one after the other.
CleanPartitions ==
    /\ recv.pc = "clean"
    /\ log' = [log EXCEPT ![partition_index(active_term_id + recv.step)] = CleanPartition]
    /\ IF recv.step < RotationSteps
       THEN recv' = [recv EXCEPT !.step = @ + 1] /\ UNCHANGED active_term_id
       ELSE recv' = [recv EXCEPT !.pc = "header"] /\ active_term_id' = RecvTerm
    /\ UNCHANGED <<receiver_position, subscriber_position, poll>>

\* A slip: frame_length goes out with the header, before the payload.
WriteHeaderCommitted ==
    /\ recv.pc = "header"
    /\ Store({RecvOffset}, [Header("data", recv.at) EXCEPT !.len = FrameSize])
    /\ recv' = [recv EXCEPT !.pc = "payload"]
    /\ UNCHANGED <<active_term_id, receiver_position, subscriber_position, poll>>

\* Step 1: the header, with frame_length = 0.
WriteHeader ==
    /\ recv.pc = "header"
    /\ Store({RecvOffset}, Header("data", recv.at))
    /\ recv' = [recv EXCEPT !.pc = "payload"]
    /\ UNCHANGED <<active_term_id, receiver_position, subscriber_position, poll>>

\* Step 2: the payload.
WritePayload ==
    /\ recv.pc = "payload"
    /\ Store(RecvOffset + 1 .. RecvOffset + FrameSize - 1, Body(recv.at))
    /\ recv' = [recv EXCEPT !.pc = "commit"]
    /\ UNCHANGED <<active_term_id, receiver_position, subscriber_position, poll>>

\* Step 3: Release store of frame_length.
CommitFrame ==
    /\ recv.pc = "commit"
    /\ log' = [log EXCEPT ![partition_index(RecvTerm)][RecvOffset].len = FrameSize]
    /\ recv' = [recv EXCEPT !.pc = "advance"]
    /\ UNCHANGED <<active_term_id, receiver_position, subscriber_position, poll>>

\* receiver_position is a high-water mark.
advance_receiver_position ==
    /\ recv.pc = "advance"
    /\ receiver_position' = IF recv.at + FrameSize > receiver_position
                            THEN recv.at + FrameSize ELSE receiver_position
    /\ recv' = RecvIdle
    /\ UNCHANGED <<log, active_term_id, subscriber_position, poll>>

Receiver == (\E i \in Arrivals : on_data(i)) \/ CleanPartitions \/ WriteHeader
               \/ WritePayload \/ CommitFrame \/ advance_receiver_position

-----------------------------------------------------------------------------
(* SubscriberImage::poll_fragments, on the client's thread. *)

PollPosition == subscriber_position + poll.scanned
PollTerm     == TermOf(subscriber_position)
PollOffset   == OffsetOf(subscriber_position) + poll.scanned
PollCell(skip) == log[partition_index(PollTerm)][PollOffset + skip]

Polling == PollOffset < TermLength /\ poll.left > 0

PollBegin(limit) ==
    /\ poll.pc = "idle"
    /\ poll' = [PollIdle EXCEPT !.pc = "load", !.left = limit]
    /\ UNCHANGED <<log, active_term_id, receiver_position, subscriber_position, recv>>

\* Acquire load of frame_length: no frame, a frame, or a length that leaves
\* the term.
LoadLength ==
    /\ poll.pc = "load"
    /\ Polling
    /\ \E length \in FrameLengths(PollCell(0)) :
         poll' = [poll EXCEPT
                    !.pc = IF length = 0 THEN "position"
                           ELSE IF PollOffset + length <= TermLength THEN "deliver"
                           ELSE "store",
                    !.len = length]
    /\ UNCHANGED <<log, active_term_id, receiver_position, subscriber_position, recv>>

\* The handler reads the payload.
Deliver ==
    /\ poll.pc = "deliver"
    /\ poll' = [poll EXCEPT !.pc = "load", !.scanned = @ + poll.len, !.left = @ - 1,
                            !.len = 0]
    /\ UNCHANGED <<log, active_term_id, receiver_position, subscriber_position, recv>>

\* A slip: an uncommitted frame always ends the poll.
NeverAGap ==
    /\ poll.pc = "position"
    /\ poll' = [poll EXCEPT !.pc = "store"]
    /\ UNCHANGED <<log, active_term_id, receiver_position, subscriber_position, recv>>

\* No frame here: a gap if the receiver is ahead, the end of the data if not.
LoadReceiverPosition ==
    /\ poll.pc = "position"
    /\ poll' = IF receiver_position <= PollPosition
               THEN [poll EXCEPT !.pc = "store"]
               ELSE [poll EXCEPT !.pc = "gap", !.skip = 1]
    /\ UNCHANGED <<log, active_term_id, receiver_position, subscriber_position, recv>>

\* Look for the next committed frame of the term, unit by unit.
ScanGap ==
    /\ poll.pc = "gap"
    /\ IF PollOffset + poll.skip < TermLength
       THEN \E length \in FrameLengths(PollCell(poll.skip)) :
              poll' = IF length > 0 THEN [poll EXCEPT !.pc = "skip"]
                                    ELSE [poll EXCEPT !.skip = @ + 1]
       ELSE poll' = [poll EXCEPT !.pc = "skip"]
    /\ UNCHANGED <<log, active_term_id, receiver_position, subscriber_position, recv>>

SkipGap ==
    /\ poll.pc = "skip"
    /\ poll' = [poll EXCEPT !.pc = "load", !.scanned = @ + poll.skip, !.skip = 0]
    /\ UNCHANGED <<log, active_term_id, receiver_position, subscriber_position, recv>>

PollEnd ==
    /\ poll.pc = "load"
    /\ ~Polling
    /\ poll' = [poll EXCEPT !.pc = "store"]
    /\ UNCHANGED <<log, active_term_id, receiver_position, subscriber_position, recv>>

\* Release store of subscriber_position.
StorePosition ==
    /\ poll.pc = "store"
    /\ subscriber_position' = PollPosition
    /\ poll' = PollIdle
    /\ UNCHANGED <<log, active_term_id, receiver_position, recv>>

Subscriber == (\E limit \in PollLimits : PollBegin(limit)) \/ LoadLength \/ Deliver
                 \/ LoadReceiverPosition \/ ScanGap \/ SkipGap \/ PollEnd \/ StorePosition

Next == Receiver \/ Subscriber

Spec == Init /\ [][Next]_vars

\* The client keeps polling, and the receiver finishes the frame it is on.
FairSpec == Spec /\ WF_vars(Subscriber)
                 /\ WF_vars(recv.pc # "idle" /\ Receiver)

-----------------------------------------------------------------------------
\* Types of the image; poll_fragments never moves past the end of the term
\* it polls.
TypeOK ==
    /\ log \in [Partitions -> [Offsets -> Cells]]
    /\ active_term_id \in 0 .. MaxTerm
    /\ receiver_position \in Nat
    /\ subscriber_position \in Nat
    /\ recv \in [pc : {"idle", "clean", "header", "payload", "commit", "advance"},
                 at : Nat, step : 0 .. PARTITION_COUNT]
    /\ poll \in [pc : {"idle", "load", "deliver", "position", "gap", "skip", "store"},
                 scanned : 0 .. TermLength, left : Nat, len : 0 .. TermLength,
                 skip : 0 .. TermLength]

\* The poll stands on the frame received for its position, and all of it is
\* there.  (A duplicate may be writing the same bytes again.)
OnWholeFrame ==
    /\ poll.len = FrameSize
    /\ PollCell(0).kind = "data"
    /\ PollCell(0).pos = PollPosition
    /\ \A i \in 1 .. poll.len - 1 : PollCell(i) = Body(PollPosition)

(***************************************************************************)
(* The commit protocol of append_frame: what poll_fragments hands to the   *)
(* handler from a position where a frame can start is the frame received   *)
(* for exactly this position, and all of it, whatever was lost, late or    *)
(* repeated.                                                               *)
(***************************************************************************)
CommittedWhole == poll.pc = "deliver" /\ PollOffset % FrameSize = 0 => OnWholeFrame

(***************************************************************************)
(* "Lost bytes are not delivered": what poll_fragments skips as a gap has  *)
(* not been received.  This is what the code intends and not what it does: *)
(* a frame committed between LoadLength and LoadReceiverPosition is        *)
(* skipped.                                                                *)
(***************************************************************************)
SkipsOnlyGaps ==
    poll.pc = "skip" =>
        \A i \in 0 .. poll.skip - 1 :
            PollPosition + i < receiver_position => PollCell(i).len = 0

\* A gap was left in the middle of a frame, on payload that looks like a
\* frame_length.
OffFrame == subscriber_position % FrameSize # 0

\* A loss does not wedge the subscriber: it gets past everything received,
\* but for a gap left in the middle of a frame.
CatchesUp ==
    \A p \in 1 .. (MaxTerm + 1) * TermLength :
        receiver_position >= p ~> (subscriber_position >= p \/ OffFrame)
=============================================================================
