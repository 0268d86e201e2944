---------------------------- MODULE SenderAgent ----------------------------
(***************************************************************************)
(* The duty cycle of the sender agent over several publications            *)
(* (agent/sender.rs) and the send channel endpoints it drives              *)
(* (media/send_channel_endpoint.rs).  do_send visits the publications in   *)
(* turn, sends the frames that are due and scans what window, data and     *)
(* send slots allow; the other half of the cycle reaps sends, dispatches   *)
(* control messages to endpoints, takes new publications from the bridge   *)
(* and applies status messages, NAKs and RTTM replies.                     *)
(*                                                                         *)
(* StreamTransfer has the log, the image and the losses of one stream;     *)
(* here every publication has a backlog of frames of one MTU, the unit of  *)
(* positions, and its receiver has repaired every loss by the time it      *)
(* reports.  A status message that is lost is one that was not sent.       *)
(***************************************************************************)
EXTENDS Naturals, Sequences, FiniteSets, FiniteSetsExt, SequencesExt

CONSTANTS
    Pubs,           \* the publications
    SessionOf,      \* session id of each
    StreamOf,       \* stream id of each
    Receivers,
    ReceiverOf,     \* the receiver each is subscribed at
    TermLength,     \* frames of a term, the initial window
    ReceiverWindow,
    NumSlots,       \* send slots of the sender's poller
    Timers,         \* the timers that run: setup, heartbeat, rttm
    MAX_RECENT,     \* MAX_RECENT_SM and MAX_RECENT_NAK
    duty_cycle_ratio,
    MaxPosition,    \* bound: frames of the backlog
    MaxInbox,       \* bound: datagrams waiting at one socket
    MaxFailures     \* bound: registrations the poller refuses

ASSUME SenderAssumption ==
    /\ {TermLength, ReceiverWindow, NumSlots, MAX_RECENT, duty_cycle_ratio}
         \subseteq Nat \ {0}
    /\ {MaxPosition, MaxInbox, MaxFailures} \subseteq Nat
    /\ ReceiverOf \in [Pubs -> Receivers]
    /\ Timers \subseteq {"setup", "heartbeat", "rttm"}

VARIABLES
    entries,      \* endpoints and publications: [pub, transport]
    transports,   \* transports of the poller
    refused,      \* the publications whose endpoint the poller refused
    position,     \* sender_position
    sender_limit,
    needs_setup,
    images,       \* the publications whose Setup arrived, in order
    inbox,        \* control datagrams at the socket of each publication
    free,         \* free send slots
    round_robin_index,
    duty_cycle_counter,
    duty          \* the half of the cycle to come

vars == <<entries, transports, refused, position, sender_limit, needs_setup,
          images, inbox, free, round_robin_index, duty_cycle_counter, duty>>

\* What each publication is entered with: one term before the first status
\* message.
NewPublications ==
    /\ position = [p \in Pubs |-> 0]
    /\ sender_limit = [p \in Pubs |-> TermLength]
    /\ needs_setup = [p \in Pubs |-> TRUE]

Init ==
    /\ NewPublications
    /\ entries = <<>>
    /\ transports = 0
    /\ refused = {}
    /\ images = <<>>
    /\ inbox = [p \in Pubs |-> <<>>]
    /\ free = NumSlots
    /\ round_robin_index = 1
    /\ duty_cycle_counter = 0
    /\ duty = "send"

Added == {entries[i].pub : i \in DOMAIN entries}

-----------------------------------------------------------------------------
(***************************************************************************)
(* do_send.                                                                *)
(***************************************************************************)

\* The frames of p that are due: Setup until a status message comes,
\* heartbeat and RTTM request whenever their timers have elapsed.
SendSetup(p, due) == {"setup"} \cap (IF needs_setup[p] THEN due[p] ELSE {})
SendHeartbeat(p, due) == {"heartbeat"} \cap due[p]
SendRttm(p, due) == {"rttm"} \cap due[p]

DueFrames(p, due) ==
    SendSetup(p, due) \cup SendHeartbeat(p, due) \cup SendRttm(p, due)

Least(m, n) == IF m <= n THEN m ELSE n

\* m - n, and 0 where that is negative.
Over(m, n) == IF m <= n THEN 0 ELSE m - n

\* What window and data leave for a scan of p.
Available(p) ==
    Least(Over(sender_limit[p], position[p]), Over(MaxPosition, position[p]))

Start == IF round_robin_index > Len(entries) THEN 1 ELSE round_robin_index

\* The publication of the n-th turn of this cycle: from index Start on, around.
Turn(n) == entries[((Start + n - 2) % Len(entries)) + 1].pub

\* The slots left after the first n turns: every frame that is due and every
\* frame available takes one, while there are any.
SlotsAfter(n, due) ==
    LET claim(i) == Cardinality(DueFrames(Turn(i), due)) + Available(Turn(i))
        slots[i \in 0 .. n] == IF i = 0 THEN free ELSE Over(slots[i - 1], claim(i))
    IN  slots[n]

\* How many frames the scan of the n-th turn sends.  Frames that are due come
\* first; one that finds no slot is not sent, and its timer starts again all
\* the same.
Scanned(n, due) ==
    LET p == Turn(n)
    IN  Least(Available(p),
              Over(SlotsAfter(n - 1, due), Cardinality(DueFrames(p, due))))

\* The publications whose Setup is sent.
Setups(due) ==
    LET sent(n) == "setup" \in DueFrames(Turn(n), due) /\ SlotsAfter(n - 1, due) > 0
    IN  {Turn(n) : n \in {i \in DOMAIN entries : sent(i)}}

\* The first half of do_work.  The network loses the Setup of those in lost;
\* the others make an image.
DoSend(due, lost) ==
    LET turns == [p \in Added |-> CHOOSE n \in DOMAIN entries : Turn(n) = p]
        made  == Setups(due) \ (lost \cup Range(images))
        idle  == \A n \in DOMAIN entries : Scanned(n, due) = 0
        polls == idle \/ duty_cycle_counter >= duty_cycle_ratio
    IN  /\ duty = "send"
        /\ UNCHANGED <<entries, transports, refused, sender_limit, needs_setup,
                       inbox>>
        /\ free' = SlotsAfter(Len(entries), due)
        /\ position' = [p \in Pubs |->
             IF p \in Added THEN position[p] + Scanned(turns[p], due) ELSE position[p]]
        /\ images' = images \o SetToSortSeq(made, LAMBDA p, q : turns[p] < turns[q])
        /\ round_robin_index' = IF entries = <<>> THEN round_robin_index
                                                  ELSE Start + 1
        /\ duty' = IF polls THEN "poll" ELSE "send"
        /\ duty_cycle_counter' = IF polls THEN 0 ELSE duty_cycle_counter + 1

-----------------------------------------------------------------------------
(***************************************************************************)
(* The other half of do_work.                                              *)
(***************************************************************************)

\* A slip: the index of the transport is taken for a count.
DispatchedBelow(e) == e.transport < Len(entries)

\* poll_control hands a datagram to the endpoint whose index is that of the
\* transport it came in on, if there is one.
Dispatched(e) == e.transport <= Len(entries)

\* on_message: the first MAX_RECENT of a kind are kept.
Recent(p, kind) ==
    LET own == SelectSeq(inbox[p], LAMBDA m : m.kind = kind)
    IN  SubSeq(own, 1, Min({MAX_RECENT, Len(own)}))

\* What the endpoints hand over, of one kind.
Drained(kind) ==
    UNION {Range(Recent(entries[i].pub, kind)) :
             i \in {j \in DOMAIN entries : Dispatched(entries[j])}}

\* A slip: the session is not compared.
OfStream(m, p) == m.stream_id = StreamOf[p]

Matches(m, p) == m.session_id = SessionOf[p] /\ m.stream_id = StreamOf[p]

\* The status messages for p among those drained.
StatusFor(p) == {m \in Drained("sm") : Matches(m, p)}

\* update_sender_limit_from_sm, for every one of them.
LimitAfter(p) ==
    Max({sender_limit[p]} \cup {m.position + ReceiverWindow : m \in StatusFor(p)})

\* poll_publication_bridge: the endpoints taken are registered in turn.  A
\* registration the poller refuses leaves its transport behind.
Registered(taken, refuses) ==
    LET numbered == [i \in DOMAIN taken |->
                       [pub |-> taken[i], transport |-> transports + i]]
    IN  SelectSeq(numbered, LAMBDA e : e.pub \notin refuses)

\* The sends reaped free their slots; resent NAKs take some again (which
\* NAKs those are is RetransmitHandler's to say).
DoPoll(reaped, taken, refuses, resent) ==
    LET new    == Registered(taken, refuses)
        served == Added \cup {new[i].pub : i \in DOMAIN new}
    IN
    /\ duty = "poll"
    /\ UNCHANGED <<position, images, round_robin_index, duty_cycle_counter>>
    /\ Cardinality(refused \cup refuses) <= MaxFailures
    /\ refuses \subseteq Range(taken)
    /\ entries' = entries \o new
    /\ transports' = transports + Len(taken)
    /\ refused' = refused \cup refuses
    /\ sender_limit' = [p \in Pubs |->
         IF p \in served THEN LimitAfter(p) ELSE sender_limit[p]]
    /\ needs_setup' = [p \in Pubs |->
         needs_setup[p] /\ (p \in served => StatusFor(p) = {})]
    /\ inbox' = [p \in Pubs |-> IF p \in Added THEN <<>> ELSE inbox[p]]
    /\ free' = Over(free + reaped, resent)
    /\ duty' = "send"

-----------------------------------------------------------------------------
(***************************************************************************)
(* The receivers, as far as the sender sees them.                          *)
(***************************************************************************)

ImagesAt(r) == SelectSeq(images, LAMBDA p : ReceiverOf[p] = r)

\* Receiver r reports on the images in due.  All of them are encoded into the
\* one scratch buffer of its first endpoint before the kernel reads it, so
\* every datagram says what the last of them does.
StatusMessages(r, due) ==
    LET reported == SelectSeq(ImagesAt(r), LAMBDA p : p \in due)
        last     == Last(reported)
        sm       == [kind |-> "sm", session_id |-> SessionOf[last],
                     stream_id |-> StreamOf[last], position |-> position[last]]
    IN  /\ reported # <<>>
        /\ \A p \in Range(reported) : Len(inbox[p]) < MaxInbox
        /\ inbox' = [p \in Pubs |-> IF p \in Range(reported)
                                    THEN Append(inbox[p], sm) ELSE inbox[p]]
        /\ UNCHANGED <<entries, transports, refused, position, sender_limit,
                       needs_setup, images, free, round_robin_index,
                       duty_cycle_counter, duty>>

\* An image asks for a frame that was sent.
Nak(p) ==
    /\ p \in Range(images)
    /\ position[p] > 0
    /\ Len(inbox[p]) < MaxInbox
    /\ inbox' = [inbox EXCEPT ![p] =
         Append(@, [kind |-> "nak", session_id |-> SessionOf[p],
                    stream_id |-> StreamOf[p], position |-> 0])]
    /\ UNCHANGED <<entries, transports, refused, position, sender_limit,
                   needs_setup, images, free, round_robin_index,
                   duty_cycle_counter, duty>>

-----------------------------------------------------------------------------

Waiting == Pubs \ (Added \cup refused)

SendHalf ==
    \E due \in [Added -> SUBSET Timers] :
      \E lost \in SUBSET (Setups(due) \ Range(images)) : DoSend(due, lost)

PollHalf ==
    \E taken \in SetToAllKPermutations(Waiting), refuses \in SUBSET Waiting,
       reaped \in 0 .. NumSlots - free,
       resent \in 0 .. Cardinality(Drained("nak")) :
      DoPoll(reaped, taken, refuses, resent)

Next ==
    \/ SendHalf
    \/ PollHalf
    \/ \E r \in Receivers, due \in SUBSET Pubs : StatusMessages(r, due)
    \/ \E p \in Pubs : Nak(p)

\* The timers of no publication, or the setup timer of p, have elapsed.
NoneDue == [q \in Added |-> {}]
SetupDue(p) == [q \in Added |-> IF q = p THEN {"setup"} ELSE {}]

\* The duty cycle repeats.  Timers are far apart and the kernel completes its
\* sends: a cycle in which no timer elapses always comes, and, again and
\* again, one that finds every slot free and one setup timer elapsed.
\* Receivers report on all their images again and again.
Fairness ==
    /\ WF_vars(DoSend(NoneDue, {}))
    /\ \A p \in Pubs : SF_vars(free = NumSlots /\ DoSend(SetupDue(p), {}))
    /\ SF_vars(DoPoll(NumSlots - free, <<>>, {}, 0))
    /\ \A r \in Receivers : SF_vars(StatusMessages(r, Pubs))

Spec == Init /\ [][Next]_vars /\ Fairness

-----------------------------------------------------------------------------
(***************************************************************************)
(* Properties.                                                             *)
(***************************************************************************)

\* A publication's limit is one its own receiver granted: it is at most a
\* window beyond what was sent of that publication.
LimitOwn ==
    \A p \in Pubs :
      sender_limit[p] <= Max({TermLength, position[p] + ReceiverWindow})

\* The whole backlog of every publication the sender serves is sent: its Setup
\* finds a send slot and reaches the receiver, the status messages that open
\* the window find their way through endpoint and session to the publication,
\* and the other publications leave it slots.
AllSent == []<>(\A p \in Added : position[p] = MaxPosition)
=============================================================================
