-------------------------- MODULE ReceiveEndpoint --------------------------
(***************************************************************************)
(* The control messages a receive channel endpoint sends back              *)
(* (media/receive_channel_endpoint.rs): status messages, NAKs and RTTM     *)
(* replies wait in three fixed arrays, send_pending encodes each into the  *)
(* one scratch buffer of its kind and hands a reference to that buffer to  *)
(* the poller, and the kernel reads the buffer when the receiver flushes.  *)
(*                                                                         *)
(* Of the poller only the send slots are kept: a slot is taken by          *)
(* submit_send and given back when a completion is reaped.                 *)
(***************************************************************************)
EXTENDS Naturals, Sequences, FiniteSets, FiniteSetsExt, SequencesExt

CONSTANTS
    Messages,          \* what a control message says, for any kind
    MAX_PENDING_SM,    \* lengths of the pending arrays
    MAX_PENDING_NAK,
    MAX_PENDING_RTTM,
    NumSlots           \* send slots of the receiver's poller

Kinds == {"sm", "nak", "rttm"}
MAX_PENDING ==
    [sm |-> MAX_PENDING_SM, nak |-> MAX_PENDING_NAK, rttm |-> MAX_PENDING_RTTM]
NoMessage == "none"

VARIABLES
    pending,   \* the pending array of each kind
    scratch,   \* what the scratch buffer of each kind holds
    submitted, \* the sends not yet flushed: [kind, given, of]
    free,      \* free send slots
    wire,      \* the datagrams of the flush just made: [given, sent, of]
    duty       \* the part of the receiver's cycle

vars == <<pending, scratch, submitted, free, wire, duty>>

Init ==
    /\ pending = [k \in Kinds |-> <<>>]
    /\ scratch = [k \in Kinds |-> NoMessage]
    /\ submitted = <<>>
    /\ free = NumSlots
    /\ wire = <<>>
    /\ duty = "poll"

-----------------------------------------------------------------------------

\* queue_sm, queue_nak and queue_rttm: a full array drops the message.
Queue(k, m) ==
    /\ duty = "poll"
    /\ Len(pending[k]) < MAX_PENDING[k]
    /\ pending' = [pending EXCEPT ![k] = Append(@, m)]
    /\ wire' = <<>>
    /\ UNCHANGED <<scratch, submitted, free, duty>>

\* Sends that were flushed and whose completion was not reaped.
Outstanding == NumSlots - free - Len(submitted)

\* poll_recv reaps the n sends that completed since the last poll.
Reap(n) ==
    /\ duty = "poll"
    /\ n \in 1 .. Outstanding
    /\ free' = free + n
    /\ wire' = <<>>
    /\ UNCHANGED <<pending, scratch, submitted, duty>>

\* The messages of kind k with, for the properties, how many there are.
Labelled(k) ==
    [i \in DOMAIN pending[k] |->
       [kind |-> k, given |-> pending[k][i], of |-> Len(pending[k])]]

\* A slip: one scratch buffer serves every kind.
OneScratch(encoded) ==
    [k \in Kinds |->
       IF encoded = <<>> THEN scratch[k] ELSE Last(encoded).given]

\* The scratch buffers after the messages in encoded were written to them.
Scratch(encoded) ==
    [k \in Kinds |->
       LET own == SelectSeq(encoded, LAMBDA e : e.kind = k)
       IN  IF own = <<>> THEN scratch[k] ELSE Last(own).given]

\* A slip: the arrays are emptied only while a slot is left over.
KeptAtLimit(all, sent) ==
    [k \in Kinds |-> IF Len(all) < free THEN <<>> ELSE pending[k]]

\* An array is emptied after its last message; the error of the first
\* message without a slot leaves its array and the following ones alone.
Kept(all, sent) ==
    [k \in Kinds |->
       IF \E i \in DOMAIN all : i > Len(sent) /\ all[i].kind = k
       THEN pending[k]
       ELSE <<>>]

\* send_pending, in the order of the kinds.  The message that finds no slot
\* has been encoded already.
SendPending ==
    /\ duty = "poll"
    /\ LET all     == Labelled("sm") \o Labelled("nak") \o Labelled("rttm")
           sent    == SubSeq(all, 1, Min({free, Len(all)}))
           encoded == SubSeq(all, 1, Min({free + 1, Len(all)}))
       IN  /\ submitted' = sent
           /\ scratch' = Scratch(encoded)
           /\ pending' = Kept(all, sent)
           /\ free' = free - Len(sent)
    /\ duty' = "flush"
    /\ wire' = <<>>

\* The kernel copies what the buffers hold now.
Flush ==
    /\ duty = "flush"
    /\ wire' = [i \in DOMAIN submitted |->
         [given |-> submitted[i].given, sent |-> scratch[submitted[i].kind],
          of |-> submitted[i].of]]
    /\ submitted' = <<>>
    /\ duty' = "poll"
    /\ UNCHANGED <<pending, scratch, free>>

Next ==
    \/ \E k \in Kinds, m \in Messages : Queue(k, m)
    \/ \E n \in 1 .. NumSlots : Reap(n)
    \/ SendPending
    \/ Flush

\* The receiver's duty cycle repeats, and a poll finds, again and again, that
\* the kernel is done with every datagram of the earlier flushes.
Fairness ==
    /\ SF_vars(Reap(Outstanding))
    /\ SF_vars(SendPending)
    /\ WF_vars(Flush)

Spec == Init /\ [][Next]_vars /\ Fairness

-----------------------------------------------------------------------------

\* Types of the endpoint; the queue_* functions keep within the pending
\* arrays.
TypeOK ==
    /\ pending \in [Kinds -> Seq(Messages)]
    /\ \A k \in Kinds : Len(pending[k]) <= MAX_PENDING[k]
    /\ scratch \in [Kinds -> Messages \cup {NoMessage}]
    /\ submitted \in Seq([kind : Kinds, given : Messages, of : Nat])
    /\ free \in 0 .. NumSlots
    /\ wire \in Seq([given : Messages, sent : Messages, of : Nat])
    /\ duty \in {"poll", "flush"}

\* What leaves the socket is the message the send was submitted for, when it
\* was the only one of its kind: later ones, a later one that found no slot
\* included, are written over it before the kernel reads it.
SentAsSubmitted ==
    \A i \in DOMAIN wire : wire[i].of = 1 => wire[i].sent = wire[i].given

\* A message that was queued does not wait for ever behind send slots that
\* are in use: its array empties again.
QueuedIsSent ==
    \A k \in Kinds : []<>(pending[k] = <<>>)
=============================================================================
