-------------------------- MODULE StreamTransfer --------------------------
(***************************************************************************)
(* One stream from a publisher over the sender, a network and the receiver *)
(* (agent/sender.rs, agent/receiver.rs): the Setup handshake, flow control *)
(* by status messages, NAKs and retransmission.                            *)
(*                                                                         *)
(* The log is the one of ConcurrentPublication, seen through positions:    *)
(* all frames have one length that divides a term, so there are no pads,   *)
(* and an offer that rotates the term is merged with its retry.  The image *)
(* is the one of SharedImage, seen through the receiver's bookkeeping.     *)
(* Datagrams are those of one publication; heartbeats and RTTM requests    *)
(* only take send slots, the receiver does not act on them.                *)
(***************************************************************************)
EXTENDS TermBuffer, Sequences, FiniteSets, FiniteSetsExt

CONSTANTS
    FrameLength,     \* units of every frame
    Mtu,             \* units of the largest frame
    ReceiverWindow,  \* receiver_window of the image
    NumSlots,        \* send slots of the sender
    MaxActions,      \* MAX_RETRANSMIT_ACTIONS
    MaxHousekeeping, \* bound: heartbeats and RTTM requests due in one cycle
    Reorders,        \* the network may reorder datagrams
    MaxLosses,       \* bound: datagrams the network may lose
    MaxPosition,     \* bound: where the publisher stops
    MaxInFlight      \* bound: datagrams in flight in each direction

ASSUME StreamAssumption ==
    /\ {FrameLength, Mtu, ReceiverWindow, NumSlots, MaxActions} \subseteq Nat \ {0}
    /\ FrameLength <= Mtu
    /\ TermLength % FrameLength = 0
    /\ Reorders \in BOOLEAN
    /\ {MaxHousekeeping, MaxLosses, MaxPosition, MaxInFlight} \subseteq Nat

Data(p)   == [type |-> "data", pos |-> p, len |-> FrameLength]
Setup(p)  == [type |-> "setup", pos |-> p, len |-> 0]
Sm(p)     == [type |-> "sm", pos |-> p, len |-> ReceiverWindow]
Nak(p, n) == [type |-> "nak", pos |-> p, len |-> n]

\* What is left of a queue when its i-th datagram is taken out.
Without(queue, i) == SubSeq(queue, 1, i - 1) \o SubSeq(queue, i + 1, Len(queue))

VARIABLES
    pub_position,
    sender,     \* PublicationEntry, and the free send slots
    scheduled,  \* the NAKs in the retransmit handler's delay
    lingering,  \* the positions in its linger
    forward,    \* datagrams towards the receiver
    back,       \* datagrams towards the sender
    image,      \* the receiver's ImageEntry
    received,   \* the positions whose frame was written to the image
    unsent,     \* the positions scanned without a slot to send them
    losses      \* datagrams lost so far

vars == <<pub_position, sender, scheduled, lingering, forward, back, image,
          received, unsent, losses>>
handler == <<scheduled, lingering>>

NoImage == [active |-> FALSE, active_term_id |-> 0, expected_term_offset |-> 0,
            consumption_term_id |-> 0, consumption_term_offset |-> 0]

Init ==
    /\ pub_position = 0
    /\ sender = [position |-> 0, limit |-> TermLength, needs_setup |-> TRUE,
                 send_free |-> NumSlots]
    /\ scheduled = {}
    /\ lingering = {}
    /\ forward = <<>>
    /\ back = <<>>
    /\ image = NoImage
    /\ received = {}
    /\ unsent = {}
    /\ losses = 0

-----------------------------------------------------------------------------
(***************************************************************************)
(* The publisher and what its log holds.                                   *)
(***************************************************************************)

BackPressured ==
    pub_position - sender.position >= TermLength * (PARTITION_COUNT - 1)

Offer ==
    /\ ~BackPressured
    /\ pub_position + FrameLength <= MaxPosition
    /\ pub_position' = pub_position + FrameLength
    /\ UNCHANGED <<sender, handler, forward, back, image, received, unsent, losses>>

\* A slip: the frame is looked for in the partition of the active term.
StoredInActive(p) == compute_position(TermOf(pub_position - 1), OffsetOf(p))

\* The position whose frame lies where position p was written, or is to be
\* written: a partition holds the newest term that was begun in it.
StoredAt(p) ==
    LET last == TermOf(pub_position - 1)
    IN  compute_position(last - ((last - TermOf(p)) % PARTITION_COUNT), OffsetOf(p))

-----------------------------------------------------------------------------
(***************************************************************************)
(* The sender.                                                             *)
(***************************************************************************)

\* A slip: the limit is passed while one unit of window is left over.
WindowPlusOne == sender.limit + 1 - sender.position

WindowAvail == sender.limit - sender.position

\* A slip: the send slots do not bound the scan.
ScanLimitUnclamped(slots) ==
    Max({0, Min({WindowAvail, pub_position - sender.position})})

\* The window, the published data and the send slots bound a scan.
ScanLimit(slots) ==
    Min({Max({0, Min({WindowAvail, pub_position - sender.position})}),
         slots * Mtu})

\* A scan takes whole frames while it is below the limit and in the term.
Frames(from, limit) ==
    LET count == Min({(limit + FrameLength - 1) \div FrameLength,
                      (TermLength - OffsetOf(from)) \div FrameLength})
    IN  [i \in 1 .. count |-> from + (i - 1) * FrameLength]

ScannedFrames(slots) == Frames(sender.position, ScanLimit(slots))

\* do_send: Setup until a status message came, the heartbeat and the RTTM
\* request that are due, then the frames; what finds no slot is not sent.
DoSend(setup_due, others) ==
    LET setup  == IF sender.needs_setup /\ setup_due /\ sender.send_free > 0
                  THEN <<Setup(pub_position)>> ELSE <<>>
        slots  == Max({0, sender.send_free - Len(setup) - others})
        frames == ScannedFrames(slots)
        sent   == SubSeq(frames, 1, Min({Len(frames), slots}))
    IN  /\ forward' = forward \o setup \o [i \in DOMAIN sent |-> Data(sent[i])]
        /\ Len(forward') <= MaxInFlight
        /\ sender' = [sender EXCEPT !.position = @ + Len(frames) * FrameLength,
                                    !.send_free = slots - Len(sent)]
        /\ unsent' = unsent \cup (Range(frames) \ Range(sent))
        /\ UNCHANGED <<pub_position, handler, back, image, received, losses>>

\* poll_control finds the earlier sends completed.
Reap ==
    /\ sender.send_free < NumSlots
    /\ sender' = [sender EXCEPT !.send_free = NumSlots]
    /\ UNCHANGED <<pub_position, handler, forward, back, image, received, unsent, losses>>

\* The datagrams the network may hand over next.
Deliverable(q) == IF Reorders THEN DOMAIN q ELSE {1} \cap DOMAIN q

\* update_sender_limit_from_sm only advances the limit.
LimitAfter(m) == Max({sender.limit, m.pos + m.len})

OnSm(i) ==
    /\ i \in Deliverable(back) /\ back[i].type = "sm"
    /\ sender' = [sender EXCEPT !.needs_setup = FALSE,
                                !.limit = LimitAfter(back[i])]
    /\ back' = Without(back, i)
    /\ UNCHANGED <<pub_position, handler, forward, image, received, unsent, losses>>

\* on_nak: known or lingering ranges, and what finds the table full, are
\* dropped.
OnNak(i) ==
    /\ i \in Deliverable(back) /\ back[i].type = "nak"
    /\ scheduled' =
         IF \/ back[i].pos \in lingering \cup {n.pos : n \in scheduled}
            \/ Cardinality(scheduled) + Cardinality(lingering) >= MaxActions
         THEN scheduled
         ELSE scheduled \cup {back[i]}
    /\ back' = Without(back, i)
    /\ UNCHANGED <<pub_position, sender, lingering, forward, image, received, unsent, losses>>

\* A slip: the partition is scanned from the frame after the one asked for.
RetransmittedAfter(n) ==
    LET from == StoredAt(n.pos) + FrameLength
    IN  Frames(from, Min({n.len, Mtu, pub_position - from}))

\* The frames retransmit_scan finds from the NAK's offset on: up to the lesser
\* of the length and the MTU, and up to the first that is not written.
Retransmitted(n) ==
    LET from == StoredAt(n.pos)
    IN  Frames(from, Min({n.len, Mtu, pub_position - from}))

\* The range check of do_retransmit.
InLog(p) ==
    /\ p >= sender.position - TermLength * (PARTITION_COUNT - 1)
    /\ p < pub_position

\* do_retransmit for an action whose delay is over; the poll before it has
\* reaped the earlier sends.
Retransmit(n) ==
    LET frames == IF InLog(n.pos) THEN Retransmitted(n) ELSE <<>>
        sent   == SubSeq(frames, 1, Min({Len(frames), NumSlots}))
    IN  /\ n \in scheduled
        /\ scheduled' = scheduled \ {n}
        /\ lingering' = lingering \cup {n.pos}
        /\ forward' = forward \o [i \in DOMAIN sent |-> Data(sent[i])]
        /\ Len(forward') <= MaxInFlight
        /\ sender' = [sender EXCEPT !.send_free = NumSlots - Len(sent)]
        /\ UNCHANGED <<pub_position, back, image, received, unsent, losses>>

LingerOver(p) ==
    /\ p \in lingering
    /\ lingering' = lingering \ {p}
    /\ UNCHANGED <<pub_position, sender, scheduled, forward, back, image, received, unsent, losses>>

-----------------------------------------------------------------------------
(***************************************************************************)
(* The receiver.                                                           *)
(***************************************************************************)

\* on_setup: the image begins where the publisher was.
OnSetup(i) ==
    /\ i \in Deliverable(forward) /\ forward[i].type = "setup"
    /\ image' = IF image.active THEN image ELSE
         LET p == forward[i].pos
         IN  [active |-> TRUE,
              active_term_id |-> TermOf(p), expected_term_offset |-> OffsetOf(p),
              consumption_term_id |-> TermOf(p), consumption_term_offset |-> OffsetOf(p)]
    /\ forward' = Without(forward, i)
    /\ UNCHANGED <<pub_position, sender, handler, back, received, unsent, losses>>

\* A slip: the image turns to the term of whatever frame arrives.
RotatedEitherWay(term) ==
    IF term = image.active_term_id THEN image
    ELSE [image EXCEPT !.active_term_id = term, !.expected_term_offset = 0,
                       !.consumption_term_id = term, !.consumption_term_offset = 0]

\* Data of a later term rotates the image.
Rotated(term) ==
    IF term <= image.active_term_id THEN image
    ELSE [image EXCEPT !.active_term_id = term, !.expected_term_offset = 0,
                       !.consumption_term_id = term, !.consumption_term_offset = 0]

Gap(p) == OffsetOf(p) - image.expected_term_offset

\* Within the active term the marks follow the highest frame seen.
Marked(img, term, end) ==
    [img EXCEPT
       !.consumption_term_offset =
          IF term = img.consumption_term_id THEN Max({@, end}) ELSE @,
       !.expected_term_offset =
          IF term = img.active_term_id THEN Max({@, end}) ELSE @]

\* on_data: a gap in the active term is NAKed when the NAK timer is over,
\* then the image rotates, the frame is written and the marks advance.
OnData(i, nak_due) ==
    LET p       == forward[i].pos
        term    == TermOf(p)
        naks    == image.active /\ nak_due /\ Gap(p) > 0 /\ term = image.active_term_id
        rotated == Rotated(term)
        fresh   == rotated.active_term_id - term < PARTITION_COUNT
    IN  /\ i \in Deliverable(forward) /\ forward[i].type = "data"
        /\ naks => Len(back) < MaxInFlight
        /\ back' = IF naks
                   THEN Append(back, Nak(compute_position(image.active_term_id,
                                                          image.expected_term_offset),
                                         Gap(p)))
                   ELSE back
        /\ image' = IF ~image.active THEN image
                    ELSE IF fresh THEN Marked(rotated, term, OffsetOf(p) + FrameLength)
                                  ELSE rotated
        /\ received' = IF image.active /\ fresh THEN received \cup {p} ELSE received
        /\ forward' = Without(forward, i)
        /\ UNCHANGED <<pub_position, sender, handler, unsent, losses>>

Consumption ==
    compute_position(image.consumption_term_id, image.consumption_term_offset)

\* send_control_messages: a status message whenever its timer is over.
SendSm ==
    /\ image.active
    /\ Sm(Consumption) \notin Range(back)
    /\ Len(back) < MaxInFlight
    /\ back' = Append(back, Sm(Consumption))
    /\ UNCHANGED <<pub_position, sender, handler, forward, image, received, unsent, losses>>

-----------------------------------------------------------------------------

Lose ==
    /\ losses < MaxLosses
    /\ losses' = losses + 1
    /\ \/ /\ \E i \in DOMAIN forward : forward' = Without(forward, i)
          /\ UNCHANGED back
       \/ /\ \E i \in DOMAIN back : back' = Without(back, i)
          /\ UNCHANGED forward
    /\ UNCHANGED <<pub_position, sender, handler, image, received, unsent>>

Sender ==
    \/ \E setup_due \in BOOLEAN, others \in 0 .. MaxHousekeeping : DoSend(setup_due, others)
    \/ Reap
    \/ \E i \in DOMAIN back : OnSm(i) \/ OnNak(i)
    \/ \E n \in scheduled : Retransmit(n)
    \/ \E p \in lingering : LingerOver(p)

Receiver ==
    \/ \E i \in DOMAIN forward, nak_due \in BOOLEAN : OnData(i, nak_due)
    \/ \E i \in DOMAIN forward : OnSetup(i)
    \/ SendSm

Next == Offer \/ Sender \/ Receiver \/ Lose

\* A Setup that arrived is handled; a data frame that stays in the network
\* without being lost is not overtaken for ever; the delay of a scheduled
\* retransmission ends, also when send slots come and go.
Fairness ==
    /\ WF_vars(\E i \in DOMAIN forward : OnSetup(i))
    /\ SF_vars(\E i \in DOMAIN forward, due \in BOOLEAN : OnData(i, due))
    /\ SF_vars(\E n \in scheduled : Retransmit(n))

Spec == Init /\ [][Next]_vars /\ Fairness

-----------------------------------------------------------------------------
(***************************************************************************)
(* Properties.                                                             *)
(***************************************************************************)

Messages == [type : {"data", "setup", "sm", "nak"}, pos : Nat, len : Nat]

\* Types of the agents' bookkeeping and of the datagrams; the sender stays
\* within what is published.
TypeOK ==
    /\ pub_position \in 0 .. MaxPosition
    /\ sender \in [position : 0 .. pub_position, limit : Nat,
                   needs_setup : BOOLEAN, send_free : 0 .. NumSlots]
    /\ scheduled \subseteq Messages
    /\ lingering \subseteq Nat
    /\ forward \in Seq(Messages) /\ back \in Seq(Messages)
    /\ image.expected_term_offset \in 0 .. TermLength
    /\ image.consumption_term_offset \in 0 .. TermLength
    /\ received \subseteq Nat /\ unsent \subseteq Nat
    /\ losses \in 0 .. MaxLosses

\* Flow control: the sender does not send past the position it is permitted
\* to send up to.
WithinLimit == sender.position <= sender.limit

\* The permission never exceeds what the receiver grants now: late, lost or
\* overtaken status messages cannot open the window further.
LimitGranted ==
    sender.limit <= Max({TermLength,
                         IF image.active THEN Consumption + ReceiverWindow ELSE 0})

\* Only frames the sender has scanned are on their way: a retransmission
\* sends the frame the NAK asked for and not a later one that took its place
\* in the log.
NothingAhead ==
    \A i \in DOMAIN forward :
      forward[i].type = "data" => forward[i].pos < sender.position

\* Every frame the sender has scanned was handed to the poller: a scan stops
\* before a frame that finds no send slot.
ScannedIsSent == unsent = {}

\* A retransmission that is scheduled repairs the loss, once the network
\* loses nothing more: the first frame of the range reaches the image.
NakRepairs ==
    \A p \in 0 .. MaxPosition :
      (losses = MaxLosses /\ \E n \in scheduled : n.pos = p) ~> p \in received
=============================================================================
