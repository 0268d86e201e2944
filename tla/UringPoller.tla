---------------------------- MODULE UringPoller ----------------------------
(***************************************************************************)
(* The io_uring transport poller of media/uring_poller.rs with the send    *)
(* slot pool of media/buffer_pool.rs: who owns every send slot and every   *)
(* receive buffer while an agent submits, the kernel completes and         *)
(* poll_recv reaps.  An agent owns its poller, so the code's steps are     *)
(* atomic towards each other; the kernel runs between any two of them.     *)
(*                                                                         *)
(* Datagrams, addresses and error codes are left out.  A queue entry       *)
(* carries what its user_data carries (the operation and its slot or       *)
(* transport), a completion also the buffer and the MORE flag.             *)
(***************************************************************************)
EXTENDS Naturals, Sequences, FiniteSets, FiniteSetsExt, SequencesExt

CONSTANTS
    NumSlots,        \* uring_send_slots
    NumBuffers,      \* uring_buf_ring_entries
    Transports,      \* the sockets the agent ever registers
    Removable,       \* the ones it may remove again
    SqSize,          \* entries of the submission queue
    CqSize,          \* entries of the completion queue
    CQE_BATCH_SIZE   \* completions one poll_recv harvests

ASSUME PollerAssumption ==
    /\ {NumSlots, NumBuffers, SqSize, CqSize, CQE_BATCH_SIZE} \subseteq Nat \ {0}
    /\ Removable \subseteq Transports

Slots == 1 .. NumSlots
Buffers == 1 .. NumBuffers
NoBuffer == 0

VARIABLES
    send_free,   \* SlotPool.send_free, a stack with its top at the end
    slot_state,  \* SendSlot.state
    transports,  \* the entry of each socket: absent, active or inactive
    sq,          \* entries pushed and not yet submitted
    inflight,    \* the number of sends the kernel holds on each slot
    armed,       \* the kernel's multishot receive of each transport
    cancels,     \* the transports whose cancel request is not yet answered
    cq,          \* completions posted and not yet reaped
    overflowed,  \* the cumulative overflow counter of the queue is not zero
    buf_ring,    \* the buffers the kernel may fill, in ring order
    duty         \* the half of the duty cycle the agent is in

vars == <<send_free, slot_state, transports, sq, inflight, armed, cancels,
          cq, overflowed, buf_ring, duty>>
pool == <<send_free, slot_state>>
kernel == <<inflight, armed, cancels>>
completions == <<cq, overflowed>>

Send(s) == [op |-> "send", slot |-> s]
Recv(t) == [op |-> "recv", transport |-> t]
Cancel(t) == [op |-> "cancel", transport |-> t]
CancelDone == [op |-> "cancel"]
SendDone(s, ok) == [op |-> "send", slot |-> s, ok |-> ok]
RecvDone(t, b, more) ==
    [op |-> "recv", transport |-> t, buffer |-> b, more |-> more]

Entries == {Send(s) : s \in Slots} \cup {Recv(t) : t \in Transports}
             \cup {Cancel(t) : t \in Transports}
Completions ==
    {CancelDone}
      \cup {SendDone(s, ok) : s \in Slots, ok \in BOOLEAN}
      \cup {RecvDone(t, b, more) : t \in Transports,
                                   b \in Buffers \cup {NoBuffer},
                                   more \in BOOLEAN}

Init ==
    /\ send_free = [i \in Slots |-> i]
    /\ slot_state = [s \in Slots |-> "Free"]
    /\ transports = [t \in Transports |-> "absent"]
    /\ sq = <<>>
    /\ inflight = [s \in Slots |-> 0]
    /\ armed = [t \in Transports |-> "idle"]
    /\ cancels = {}
    /\ cq = <<>>
    /\ overflowed = FALSE
    /\ buf_ring = [b \in Buffers |-> b]
    /\ duty = "send"

-----------------------------------------------------------------------------
(***************************************************************************)
(* The kernel.                                                             *)
(***************************************************************************)

\* io_uring_enter: the kernel takes every entry of q.
Submit(q) ==
    LET taken == Range(q)
    IN  /\ sq' = <<>>
        /\ inflight' = [s \in Slots |->
             inflight[s] + Cardinality({i \in DOMAIN q : q[i] = Send(s)})]
        /\ armed' = [t \in Transports |->
             LET now == IF Recv(t) \in taken THEN "armed" ELSE armed[t]
             IN  IF Cancel(t) \in taken /\ now = "armed" THEN "cancelled"
                                                         ELSE now]
        /\ cancels' = cancels \cup {t \in Transports : Cancel(t) \in taken}

\* A completion that finds the queue full is dropped and counted.
Post(c) ==
    IF Len(cq) < CqSize
    THEN cq' = Append(cq, c) /\ UNCHANGED overflowed
    ELSE overflowed' = TRUE /\ UNCHANGED cq

CompleteSend(s, ok) ==
    /\ inflight[s] > 0
    /\ inflight' = [inflight EXCEPT ![s] = @ - 1]
    /\ Post(SendDone(s, ok))
    /\ UNCHANGED <<pool, transports, sq, armed, cancels, buf_ring, duty>>

\* A datagram arrives; the multishot operation goes on or ends with it.
Receive(t, more) ==
    /\ armed[t] = "armed"
    /\ buf_ring # <<>>
    /\ Post(RecvDone(t, Head(buf_ring), more))
    /\ buf_ring' = Tail(buf_ring)
    /\ armed' = IF more THEN armed ELSE [armed EXCEPT ![t] = "idle"]
    /\ UNCHANGED <<pool, transports, sq, inflight, cancels, duty>>

\* ENOBUFS when the ring is empty, ECANCELED when the agent cancelled.
EndReceive(t) ==
    /\ \/ armed[t] = "armed" /\ buf_ring = <<>>
       \/ armed[t] = "cancelled"
    /\ armed' = [armed EXCEPT ![t] = "idle"]
    /\ Post(RecvDone(t, NoBuffer, FALSE))
    /\ UNCHANGED <<pool, transports, sq, inflight, cancels, buf_ring, duty>>

\* A cancel request completes as well; poll_recv passes over it.
AnswerCancel(t) ==
    /\ t \in cancels
    /\ cancels' = cancels \ {t}
    /\ Post(CancelDone)
    /\ UNCHANGED <<pool, transports, sq, inflight, armed, buf_ring, duty>>

-----------------------------------------------------------------------------
(***************************************************************************)
(* Registration.  Both calls submit at once; a full queue makes            *)
(* add_transport fail before it does, with its entry already made.         *)
(***************************************************************************)

AddTransport(t) ==
    /\ duty = "poll"
    /\ transports[t] = "absent"
    /\ transports' = [transports EXCEPT ![t] = "active"]
    /\ IF Len(sq) < SqSize THEN Submit(Append(sq, Recv(t)))
                           ELSE UNCHANGED <<sq, kernel>>
    /\ UNCHANGED <<pool, completions, buf_ring, duty>>

RemoveTransport(t) ==
    /\ duty = "poll"
    /\ t \in Removable
    /\ transports[t] = "active"
    /\ transports' = [transports EXCEPT ![t] = "inactive"]
    /\ Submit(IF Len(sq) < SqSize THEN Append(sq, Cancel(t)) ELSE sq)
    /\ UNCHANGED <<pool, completions, buf_ring, duty>>

-----------------------------------------------------------------------------
(***************************************************************************)
(* submit_send takes the top of the free stack first.  What follows may    *)
(* fail: an inactive transport returns before the slot is prepared, a full *)
(* submission queue after it, and neither puts the slot back.              *)
(***************************************************************************)

\* alloc_send pops the free stack.
AllocSend == Front(send_free)

\* prepare_send fills in the message header of slot s and marks it.
PrepareSend(s) == [slot_state EXCEPT ![s] = "InFlight"]

SubmitSendSqe(t, s) ==
    IF transports[t] = "inactive"
    THEN UNCHANGED <<slot_state, sq>>
    ELSE /\ slot_state' = PrepareSend(s)
         /\ sq' = IF Len(sq) < SqSize THEN Append(sq, Send(s)) ELSE sq

SubmitSend(t) ==
    /\ duty = "send"
    /\ transports[t] # "absent"
    /\ send_free # <<>>
    /\ send_free' = AllocSend
    /\ SubmitSendSqe(t, Last(send_free))
    /\ UNCHANGED <<transports, kernel, completions, buf_ring, duty>>

\* The agent submits what it pushed; not every duty cycle polls afterwards.
Flush(polls) ==
    /\ duty = "send"
    /\ Submit(sq)
    /\ duty' = IF polls THEN "poll" ELSE "send"
    /\ UNCHANGED <<pool, transports, completions, buf_ring>>

-----------------------------------------------------------------------------
(***************************************************************************)
(* poll_recv: harvest a batch, give back slots and buffers, arm ended      *)
(* receives again, recover slots after an overflow, submit.                *)
(***************************************************************************)

Harvested == SubSeq(cq, 1, Min({Len(cq), CQE_BATCH_SIZE}))

\* The loop leaves at the first completion past the batch, which the
\* iterator has already taken off the queue.
Unharvested == SubSeq(cq, CQE_BATCH_SIZE + 2, Len(cq))

\* A slip: the slot of a failed send is not given back.
SlotsOfSuccess(batch) ==
    LET done == SelectSeq(batch, LAMBDA c : c.op = "send" /\ c.ok)
    IN  [i \in DOMAIN done |-> done[i].slot]

\* Every send completion frees its slot, with a result or with an error.
SlotsDone(batch) ==
    LET done == SelectSeq(batch, LAMBDA c : c.op = "send")
    IN  [i \in DOMAIN done |-> done[i].slot]

\* A slip: the datagrams of a removed transport keep their buffers.
BuffersOfActive(batch) ==
    LET done == SelectSeq(batch, LAMBDA c :
                  /\ c.op = "recv"
                  /\ c.buffer # NoBuffer
                  /\ transports[c.transport] = "active")
    IN  [i \in DOMAIN done |-> done[i].buffer]

\* return_buf_local for every completion with a buffer, in batch order.
BuffersDone(batch) ==
    LET done == SelectSeq(batch, LAMBDA c : c.op = "recv" /\ c.buffer # NoBuffer)
    IN  [i \in DOMAIN done |-> done[i].buffer]

\* A slip: only a receive that ran out of buffers is armed again.
RearmsOfEmpty(batch) ==
    LET ended == SelectSeq(batch, LAMBDA c :
                   /\ c.op = "recv"
                   /\ ~c.more
                   /\ c.buffer = NoBuffer
                   /\ transports[c.transport] = "active")
    IN  [i \in DOMAIN ended |-> Recv(ended[i].transport)]

\* A receive without MORE is armed again while its transport is active.
Rearms(batch) ==
    LET ended == SelectSeq(batch, LAMBDA c :
                   /\ c.op = "recv"
                   /\ ~c.more
                   /\ transports[c.transport] = "active")
    IN  [i \in DOMAIN ended |-> Recv(ended[i].transport)]

\* recover_leaked_send_slots: the kernel's counter never goes back to zero.
Leaked(states) ==
    IF overflowed
    THEN SetToSortSeq({s \in Slots : states[s] = "InFlight"}, <)
    ELSE <<>>

\* free_send pushes each slot on the free stack.
FreeSend(slots) == send_free \o slots

PollRecv ==
    /\ duty = "poll"
    /\ LET done   == SlotsDone(Harvested)
           states == [s \in Slots |->
                        IF s \in Range(done) THEN "Free" ELSE slot_state[s]]
           leaked == Leaked(states)
           pushed == sq \o Rearms(Harvested)
           room   == SubSeq(pushed, 1, Min({Len(pushed), SqSize}))
       IN  /\ send_free' = FreeSend(done \o leaked)
           /\ slot_state' = [s \in Slots |->
                IF s \in Range(leaked) THEN "Free" ELSE states[s]]
           /\ IF Rearms(Harvested) # <<>>
              THEN Submit(room)
              ELSE UNCHANGED <<sq, kernel>>
    /\ cq' = Unharvested
    /\ buf_ring' = buf_ring \o BuffersDone(Harvested)
    /\ duty' = "send"
    /\ UNCHANGED <<transports, overflowed>>

-----------------------------------------------------------------------------

Kernel ==
    \/ \E s \in Slots, ok \in BOOLEAN : CompleteSend(s, ok)
    \/ \E t \in Transports, more \in BOOLEAN : Receive(t, more)
    \/ \E t \in Transports : EndReceive(t) \/ AnswerCancel(t)

Agent ==
    \/ \E t \in Transports : AddTransport(t)
    \/ \E t \in Transports : RemoveTransport(t)
    \/ \E t \in Transports : SubmitSend(t)
    \/ \E polls \in BOOLEAN : Flush(polls)
    \/ PollRecv

Next == Kernel \/ Agent

\* The agent's loop keeps flushing, and polls again and again: the sender at
\* the latest after duty_cycle_ratio sends, the receiver in every cycle.
Fairness ==
    /\ WF_vars(\E polls \in BOOLEAN : Flush(polls))
    /\ SF_vars(PollRecv)

Spec == Init /\ [][Next]_vars /\ Fairness

-----------------------------------------------------------------------------
(***************************************************************************)
(* Properties.                                                             *)
(***************************************************************************)

\* The free stack keeps within the capacity it was allocated with, and
\* every queue within the size the ring was set up with.
TypeOK ==
    /\ send_free \in Seq(Slots) /\ Len(send_free) <= NumSlots
    /\ slot_state \in [Slots -> {"Free", "InFlight"}]
    /\ transports \in [Transports -> {"absent", "active", "inactive"}]
    /\ sq \in Seq(Entries) /\ Len(sq) <= SqSize
    /\ inflight \in [Slots -> Nat]
    /\ armed \in [Transports -> {"idle", "armed", "cancelled"}]
    /\ cancels \subseteq Transports
    /\ cq \in Seq(Completions) /\ Len(cq) <= CqSize
    /\ overflowed \in BOOLEAN
    /\ buf_ring \in Seq(Buffers)
    /\ duty \in {"send", "poll"}

Count(q, P(_)) == Cardinality({i \in DOMAIN q : P(q[i])})

\* The sends that refer to slot s: pushed, with the kernel, or completed and
\* not yet reaped.
SendsOf(s) ==
    Count(sq, LAMBDA e : e = Send(s))
      + inflight[s]
      + Count(cq, LAMBDA c : c.op = "send" /\ c.slot = s)

\* A slot handed to submit_send is no longer referenced by an earlier send,
\* queued or in the kernel, and is not free a second time: a reused slot
\* never overwrites the header of a datagram that is still to be sent.
SlotNotShared ==
    \A s \in Slots : Count(send_free, LAMBDA f : f = s) + SendsOf(s) <= 1

\* No send leaves its slot in flight for ever: a completion that will give
\* the slot back is still to come.  (The slot that submit_send takes for an
\* inactive transport is never in flight, and does not come back.)
SlotNotLost == \A s \in Slots : slot_state[s] = "InFlight" => SendsOf(s) >= 1

\* A slot is free or belongs to one send, and comes back from every send.
SlotsAccounted == SlotNotShared /\ SlotNotLost

\* A receive buffer is with the kernel or in a completion still to be
\* reaped, exactly once: poll_recv returns each buffer it consumes once.
BufferNotLost ==
    \A b \in Buffers :
      Count(buf_ring, LAMBDA r : r = b)
        + Count(cq, LAMBDA c : c.op = "recv" /\ c.buffer = b) = 1

\* An active transport whose multishot receive ended is armed again, so that
\* it never stays deaf.
StaysReceiving ==
    \A t \in Transports :
      transports[t] = "active" ~> (armed[t] = "armed" \/ transports[t] = "inactive")
=============================================================================
