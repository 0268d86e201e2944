----------------------------- MODULE Conductor -----------------------------
(***************************************************************************)
(* The conductor agent (agent/conductor.rs) and the commands and responses *)
(* it exchanges with clients (cnc/command.rs).  A duty cycle reads all of  *)
(* the to-driver ring, keeps the first MAX_CMDS_PER_CYCLE commands, works  *)
(* them off in order and writes the driver's heartbeat.                    *)
(*                                                                         *)
(* The state of the agent is a record and each handler a function on it.   *)
(* Commands are records: encoding and decoding fixed-size fields loses     *)
(* nothing but the channel text, which no handler looks at.  The ring and  *)
(* the broadcast buffer are modelled in RingBuffer and Broadcast; here     *)
(* they are a queue and the list of what was transmitted.                  *)
(***************************************************************************)
EXTENDS Naturals, Sequences, FiniteSets, Functions

CONSTANTS
    MAX_CMDS_PER_CYCLE,      \* commands one duty cycle keeps
    MAX_CLIENTS,             \* entries of the client table
    INTERNAL_QUEUE_CAPACITY  \* commands that fit into an internal queue

ASSUME ConductorAssumption ==
    {MAX_CMDS_PER_CYCLE, MAX_CLIENTS, INTERNAL_QUEUE_CAPACITY} \subseteq Nat \ {0}

-----------------------------------------------------------------------------
(***************************************************************************)
(* Commands, client to driver.  from_channel makes no command of a channel *)
(* longer than MAX_CHANNEL_URI_LENGTH.                                     *)
(***************************************************************************)

AddPublication(correlation_id, client_id, stream_id) ==
    [type |-> "ADD_PUBLICATION", correlation_id |-> correlation_id,
     client_id |-> client_id, stream_id |-> stream_id]

AddSubscription(correlation_id, client_id, stream_id) ==
    [type |-> "ADD_SUBSCRIPTION", correlation_id |-> correlation_id,
     client_id |-> client_id, stream_id |-> stream_id]

RemovePublication(correlation_id, registration_id) ==
    [type |-> "REMOVE_PUBLICATION", correlation_id |-> correlation_id,
     registration_id |-> registration_id]

RemoveSubscription(correlation_id, registration_id) ==
    [type |-> "REMOVE_SUBSCRIPTION", correlation_id |-> correlation_id,
     registration_id |-> registration_id]

ClientKeepalive(type, client_id) ==
    [type |-> type, correlation_id |-> 0, client_id |-> client_id]

FitsCommand(channel) == channel # "long uri"

IsAdd(cmd) == cmd.type \in {"ADD_PUBLICATION", "ADD_SUBSCRIPTION"}

\* Responses, driver to client.
PublicationReady(correlation_id, registration_id, session_id, stream_id) ==
    [type |-> "PUBLICATION_READY", correlation_id |-> correlation_id,
     registration_id |-> registration_id, session_id |-> session_id,
     stream_id |-> stream_id]

SubscriptionReady(correlation_id) ==
    [type |-> "SUBSCRIPTION_READY", correlation_id |-> correlation_id]

-----------------------------------------------------------------------------
(***************************************************************************)
(* The agent.                                                              *)
(***************************************************************************)

new ==
    [next_registration_id |-> 1, next_session_id |-> 1, clients |-> {},
     to_sender |-> <<>>, to_receiver |-> <<>>, to_clients |-> <<>>]

\* The time of the last keepalive is left out: nothing reads it.
touch_client(c, client_id) ==
    IF Cardinality(c.clients) < MAX_CLIENTS
    THEN [c EXCEPT !.clients = @ \cup {client_id}]
    ELSE c

\* A write to an internal queue; its error is ignored.
Queued(queue, cmd) ==
    IF Len(queue) < INTERNAL_QUEUE_CAPACITY THEN Append(queue, cmd) ELSE queue

\* What encode_sender_cmd and encode_receiver_cmd put on the queues.
SenderAdd(cmd, session_id) ==
    [type |-> "ADD_PUB", correlation_id |-> cmd.correlation_id,
     stream_id |-> cmd.stream_id, session_id |-> session_id]

ReceiverAdd(cmd) ==
    [type |-> "ADD_SUB", correlation_id |-> cmd.correlation_id,
     stream_id |-> cmd.stream_id]

Removal(type, cmd) ==
    [type |-> type, correlation_id |-> cmd.correlation_id,
     registration_id |-> cmd.registration_id]

handle_add_publication(c, cmd) ==
    [touch_client(c, cmd.client_id) EXCEPT
       !.next_registration_id = @ + 1,
       !.next_session_id = @ + 1,
       !.to_sender = Queued(@, SenderAdd(cmd, c.next_session_id)),
       !.to_clients = Append(@, PublicationReady(cmd.correlation_id,
                                  c.next_registration_id, c.next_session_id,
                                  cmd.stream_id))]

handle_remove_publication(c, cmd) ==
    [c EXCEPT !.to_sender = Queued(@, Removal("REMOVE_PUB", cmd))]

handle_add_subscription(c, cmd) ==
    [touch_client(c, cmd.client_id) EXCEPT
       !.to_receiver = Queued(@, ReceiverAdd(cmd)),
       !.to_clients = Append(@, SubscriptionReady(cmd.correlation_id))]

handle_remove_subscription(c, cmd) ==
    [c EXCEPT !.to_receiver = Queued(@, Removal("REMOVE_SUB", cmd))]

process_command(c, cmd) ==
    CASE cmd.type = "ADD_PUBLICATION"     -> handle_add_publication(c, cmd)
      [] cmd.type = "REMOVE_PUBLICATION"  -> handle_remove_publication(c, cmd)
      [] cmd.type = "ADD_SUBSCRIPTION"    -> handle_add_subscription(c, cmd)
      [] cmd.type = "REMOVE_SUBSCRIPTION" -> handle_remove_subscription(c, cmd)
      [] cmd.type = "CLIENT_KEEPALIVE"    -> touch_client(c, cmd.client_id)
      [] cmd.type = "CLIENT_CLOSE"        -> c

\* A slip: the last entry of the buffer is never used.
KeptOneLess(ring) ==
    SubSeq(ring, 1, IF Len(ring) < MAX_CMDS_PER_CYCLE THEN Len(ring)
                                                      ELSE MAX_CMDS_PER_CYCLE - 1)

\* The commands of the ring that the read callback has room for.
Kept(ring) ==
    SubSeq(ring, 1, IF Len(ring) < MAX_CMDS_PER_CYCLE THEN Len(ring)
                                                      ELSE MAX_CMDS_PER_CYCLE)

\* One duty cycle on what the ring holds: c, after the first n commands.
do_work(c, ring) ==
    LET after[n \in 0 .. Len(Kept(ring))] ==
          IF n = 0 THEN c ELSE process_command(after[n - 1], Kept(ring)[n])
    IN  after[Len(Kept(ring))]
=============================================================================
