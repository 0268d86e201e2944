---------------------------- MODULE Registration ----------------------------
(***************************************************************************)
(* How a publication or a subscription reaches the driver, from the launch *)
(* of the driver to its close: the Aeron client (client/aeron.rs), the two *)
(* slot bridges that carry its handles to the sender and the receiver      *)
(* (client/bridge.rs, RecvEndpointBridge in client/sub_bridge.rs), the     *)
(* conductor behind the CnC ring, the three agent threads                  *)
(* (agent/runner.rs) and the MediaDriver that starts, stops and joins them *)
(* (client/media_driver.rs) over one mapping of the CnC region             *)
(* (cnc/cnc_file.rs).                                                      *)
(*                                                                         *)
(* Every atomic load or store of a slot's state is a step, and so is every *)
(* access to its data.  The ring is the queue RingBuffer is shown to be.   *)
(***************************************************************************)
EXTENDS Conductor

CONSTANTS
    Clients,          \* the Aeron objects
    Threads,          \* the application threads
    ThreadOf,         \* the thread that uses each client
    Channels,         \* the channel texts passed in
    Streams,          \* stream ids
    RingCapacity,     \* commands that fit into the to-driver ring
    BRIDGE_CAPACITY,  \* slots of each bridge
    ClientsOutlive,   \* may a client be used after the driver was closed
    MaxCalls,         \* bound on the calls of the clients, and on what other
                      \* CnC clients ask for
    MaxFailures       \* bound on the registrations the poller refuses

ASSUME RegistrationAssumption ==
    /\ {RingCapacity, BRIDGE_CAPACITY} \subseteq Nat \ {0}
    /\ ThreadOf \in [Clients -> Threads]
    /\ Channels \subseteq {"uri", "long uri", "bad uri"}
    /\ ClientsOutlive \in BOOLEAN

VARIABLES
    driver,     \* what the owner of the MediaDriver is doing: [state, at]
    agent,      \* each agent thread: [running, pc, at, item]
    cnc,        \* the CnC region: none, mapped or unmapped
    ring,       \* the to-driver ring
    conductor,  \* the conductor agent
    bridge,     \* the slots of both bridges: [state, data]
    client,     \* each client: [state, next_correlation_id, next_session_id]
    thread,     \* each application thread's call: [pc, at, item]
    served,     \* what the sender and the receiver have registered
    outcome,    \* what the calls that deposited a handle returned
    dropped,    \* the handles that were given up
    submitted,  \* the add commands the ring accepted
    bounds      \* what is left of the two bounds

vars == <<driver, agent, cnc, ring, conductor, bridge, client, thread, served,
          outcome, dropped, submitted, bounds>>

Kinds == {"pub", "sub"}
Agents == {"conductor", "sender", "receiver"}
AgentOf == [pub |-> "sender", sub |-> "receiver"]
Slots == 1 .. BRIDGE_CAPACITY
None == [kind |-> "none"]

EmptyBridge == [state |-> [s \in Slots |-> "EMPTY"],
                data |-> [s \in Slots |-> None]]

Init ==
    /\ driver = [state |-> "none", at |-> 1]
    /\ agent = [a \in Agents |-> [running |-> FALSE, pc |-> "none", at |-> 1,
                                  item |-> None]]
    /\ cnc = "none"
    /\ ring = <<>>
    /\ conductor = new
    /\ bridge = [k \in Kinds |-> EmptyBridge]
    /\ client = [c \in Clients |-> [state |-> "none", next_correlation_id |-> 1,
                                    next_session_id |-> 1]]
    /\ thread = [t \in Threads |-> [pc |-> "idle", at |-> 1, item |-> None]]
    /\ served = [k \in Kinds |-> <<>>]
    /\ outcome = [h \in {} |-> "none"]
    /\ dropped = {}
    /\ submitted = <<>>
    /\ bounds = [calls |-> MaxCalls, failures |-> MaxFailures]

-----------------------------------------------------------------------------
(***************************************************************************)
(* The driver's owner: launch, then close, which stops the three agents    *)
(* and joins them in the order receiver, sender, conductor.                *)
(***************************************************************************)

\* The runner of agent a starts its thread, with the flag raised.
start(a) == [agent[a] EXCEPT !.running = TRUE, !.pc = "load"]

\* A slip: launch keeps the CnC to itself, and drops it when it returns.
LaunchDropsCnc ==
    /\ driver.state = "none"
    /\ driver' = [driver EXCEPT !.state = "open"]
    /\ agent' = [a \in Agents |-> start(a)]
    /\ cnc' = "unmapped"
    /\ UNCHANGED <<ring, conductor, bridge, client, thread, served, outcome,
                   dropped, submitted, bounds>>

launch ==
    /\ driver.state = "none"
    /\ driver' = [driver EXCEPT !.state = "open"]
    /\ agent' = [a \in Agents |-> start(a)]
    /\ cnc' = "mapped"
    /\ UNCHANGED <<ring, conductor, bridge, client, thread, served, outcome,
                   dropped, submitted, bounds>>

\* A slip: the flag is raised, not cleared.
StopKeepsRunning(a) == [agent EXCEPT ![a].running = TRUE]

stop(a) == [agent EXCEPT ![a].running = FALSE]

\* The order in which close stops the agents, and then joins them.
CloseOrder == <<"receiver", "sender", "conductor">>

\* The usage the driver documents drops the clients first.
CloseBegin ==
    /\ driver.state = "open"
    /\ ClientsOutlive \/ \A c \in Clients : client[c].state # "open"
    /\ driver' = [state |-> "stopping", at |-> 1]
    /\ UNCHANGED <<agent, cnc, ring, conductor, bridge, client, thread, served,
                   outcome, dropped, submitted, bounds>>

CloseStop ==
    /\ driver.state = "stopping"
    /\ agent' = stop(CloseOrder[driver.at])
    /\ driver' = IF driver.at < Len(CloseOrder)
                 THEN [driver EXCEPT !.at = @ + 1]
                 ELSE [state |-> "joining", at |-> 1]
    /\ UNCHANGED <<cnc, ring, conductor, bridge, client, thread, served,
                   outcome, dropped, submitted, bounds>>

\* join waits for the thread; it clears the flag again first, which changes
\* nothing.
join ==
    /\ driver.state = "joining"
    /\ agent[CloseOrder[driver.at]].pc = "done"
    /\ driver' = IF driver.at < Len(CloseOrder)
                 THEN [driver EXCEPT !.at = @ + 1]
                 ELSE [state |-> "closed", at |-> 1]
    /\ UNCHANGED <<agent, cnc, ring, conductor, bridge, client, thread, served,
                   outcome, dropped, submitted, bounds>>

-----------------------------------------------------------------------------
(***************************************************************************)
(* The agent threads.  run looks at the flag before every duty cycle; when *)
(* it returns the thread drops the agent, and the conductor's CnC with it. *)
(* Looking at the flag is one step with the first read of the cycle.       *)
(***************************************************************************)

\* The agent is at the top of its loop.
AtTop(a) == agent[a].pc = "load" /\ agent[a].at = 1

\* The loop ends.
RunEnds(a) ==
    /\ AtTop(a)
    /\ ~agent[a].running
    /\ agent' = [agent EXCEPT ![a].pc = "done"]
    /\ cnc' = IF a = "conductor" THEN "unmapped" ELSE cnc
    /\ UNCHANGED <<driver, ring, conductor, bridge, client, thread, served,
                   outcome, dropped, submitted, bounds>>

ConductorWork ==
    /\ AtTop("conductor")
    /\ agent["conductor"].running
    /\ conductor' = do_work(conductor, ring)
    /\ ring' = <<>>
    /\ UNCHANGED <<driver, agent, cnc, bridge, client, thread, served, outcome,
                   dropped, submitted, bounds>>

\* The scan goes on behind slot s, or the next cycle begins.
NextSlot(s) == IF s < BRIDGE_CAPACITY THEN s + 1 ELSE 1

\* try_take of the slot the scan is at.
TakeLoad(k) ==
    LET a == AgentOf[k] IN
    /\ agent[a].pc = "load"
    /\ AtTop(a) => agent[a].running
    /\ agent' = [agent EXCEPT ![a] =
         IF bridge[k].state[@.at] = "FILLED" THEN [@ EXCEPT !.pc = "take"]
                                             ELSE [@ EXCEPT !.at = NextSlot(agent[a].at)]]
    /\ UNCHANGED <<driver, cnc, ring, conductor, bridge, client, thread, served,
                   outcome, dropped, submitted, bounds>>

TakeData(k) ==
    LET a == AgentOf[k]
        s == agent[a].at
    IN  /\ agent[a].pc = "take"
        /\ agent' = [agent EXCEPT ![a].pc = "store", ![a].item = bridge[k].data[s]]
        /\ bridge' = [bridge EXCEPT ![k].data[s] = None]
        /\ UNCHANGED <<driver, cnc, ring, conductor, client, thread, served,
                       outcome, dropped, submitted, bounds>>

\* The slot is freed, and the endpoint registered with the poller and kept;
\* when the poller refuses it, it is dropped and the scan goes on.
TakeStore(k) ==
    LET a    == AgentOf[k]
        item == agent[a].item
    IN  /\ agent[a].pc = "store"
        /\ agent' = [agent EXCEPT ![a].pc = "load", ![a].at = NextSlot(@),
                                  ![a].item = None]
        /\ bridge' = [bridge EXCEPT ![k].state[agent[a].at] = "EMPTY"]
        /\ \/ item = None /\ UNCHANGED <<served, dropped, bounds>>
           \/ /\ item # None
              /\ served' = [served EXCEPT ![k] = Append(@, item)]
              /\ UNCHANGED <<dropped, bounds>>
           \/ /\ item # None
              /\ bounds.failures > 0
              /\ bounds' = [bounds EXCEPT !.failures = @ - 1]
              /\ dropped' = dropped \cup {item}
              /\ UNCHANGED served
        /\ UNCHANGED <<driver, cnc, ring, conductor, client, thread, outcome,
                       submitted>>

\* The scans of the bridges; the rest of the two duty cycles touches nothing
\* modelled here.
poll_publication_bridge == TakeLoad("pub") \/ TakeData("pub") \/ TakeStore("pub")
poll_recv_endpoint_bridge == TakeLoad("sub") \/ TakeData("sub") \/ TakeStore("sub")

-----------------------------------------------------------------------------
(***************************************************************************)
(* The clients.  A call runs on the thread of its client; adding something *)
(* takes several steps: open the transport, deposit the handle in the      *)
(* bridge, write the command for the conductor.                            *)
(***************************************************************************)

\* A write to the to-driver ring; a full ring refuses it.
Room == Len(ring) < RingCapacity

Written(cmd) == IF Room THEN Append(ring, cmd) ELSE ring

\* The id every in-process client computes from the driver's pid.
client_id == "pid"

\* connect, with its first keepalive.  It also refuses a driver whose
\* heartbeat is stale, and then changes nothing.
connect(c) ==
    /\ driver.state = "open"
    /\ thread[ThreadOf[c]].pc = "idle"
    /\ client[c].state = "none"
    /\ client' = [client EXCEPT ![c].state = "open"]
    /\ ring' = Written(ClientKeepalive("CLIENT_KEEPALIVE", client_id))
    /\ UNCHANGED <<driver, agent, cnc, conductor, bridge, thread, served,
                   outcome, dropped, submitted, bounds>>

\* Client c may begin a call.
MayCall(c) ==
    /\ client[c].state = "open"
    /\ thread[ThreadOf[c]].pc = "idle"
    /\ bounds.calls > 0
    /\ bounds' = [bounds EXCEPT !.calls = @ - 1]

\* heartbeat and close write one command each, and ignore a full ring.
Notify(c, type) ==
    /\ MayCall(c)
    /\ ring' = Written(ClientKeepalive(type, client_id))
    /\ UNCHANGED <<driver, agent, cnc, conductor, bridge, client, thread,
                   served, outcome, dropped, submitted>>

\* The application drops the client.
Drop(c) ==
    /\ client[c].state = "open"
    /\ thread[ThreadOf[c]].pc = "idle"
    /\ client' = [client EXCEPT ![c].state = "dropped"]
    /\ UNCHANGED <<driver, agent, cnc, ring, conductor, bridge, thread, served,
                   outcome, dropped, submitted, bounds>>

\* UdpChannel::parse accepts the text; the length of a channel does not
\* concern it.
Parses(channel) == channel \in {"uri", "long uri"}

\* What client c adds next: the item deposited, and the rest of the call.
Handle(c, kind, channel, stream) ==
    [kind |-> kind, client |-> c, channel |-> channel, stream_id |-> stream,
     correlation_id |-> client[c].next_correlation_id,
     session_id |-> IF kind = "pub" THEN client[c].next_session_id ELSE 0]

\* The call goes on to deposit h, unless the transport cannot be opened.
Opened(h) ==
    thread' \in {thread, [thread EXCEPT ![ThreadOf[h.client]] =
                            [pc |-> "load", at |-> 1, item |-> h]]}

\* add_publication parses the channel before it allocates ids.
add_publication(c, channel, stream) ==
    /\ MayCall(c)
    /\ IF Parses(channel)
       THEN /\ client' = [client EXCEPT ![c].next_correlation_id = @ + 1,
                                        ![c].next_session_id = @ + 1]
            /\ Opened(Handle(c, "pub", channel, stream))
       ELSE UNCHANGED <<client, thread>>
    /\ UNCHANGED <<driver, agent, cnc, ring, conductor, bridge, served, outcome,
                   dropped, submitted>>

\* add_subscription parses it after.
add_subscription(c, channel, stream) ==
    /\ MayCall(c)
    /\ client' = [client EXCEPT ![c].next_correlation_id = @ + 1]
    /\ IF Parses(channel)
       THEN Opened(Handle(c, "sub", channel, stream))
       ELSE UNCHANGED thread
    /\ UNCHANGED <<driver, agent, cnc, ring, conductor, bridge, served, outcome,
                   dropped, submitted>>

\* The calls' return: thread t is free again.
Returns(t, result) ==
    /\ thread' = [thread EXCEPT ![t] = [pc |-> "idle", at |-> 1, item |-> None]]
    /\ outcome' = [h \in DOMAIN outcome \cup {thread[t].item} |->
                     IF h = thread[t].item THEN result ELSE outcome[h]]

\* A slip: the state of the slot is not looked at.
DepositLoadBlind(t) ==
    /\ thread[t].pc = "load"
    /\ thread' = [thread EXCEPT ![t].pc = "write"]
    /\ UNCHANGED <<driver, agent, cnc, ring, conductor, bridge, client, served,
                   outcome, dropped, submitted, bounds>>

\* deposit looks for an empty slot; without one the call fails, and the
\* handle goes with it.
DepositLoad(t) ==
    LET k == thread[t].item.kind
        s == thread[t].at
    IN  /\ thread[t].pc = "load"
        /\ IF s > BRIDGE_CAPACITY
           THEN /\ Returns(t, "MaxReached")
                /\ dropped' = dropped \cup {thread[t].item}
           ELSE /\ thread' = IF bridge[k].state[s] = "EMPTY"
                             THEN [thread EXCEPT ![t].pc = "write"]
                             ELSE [thread EXCEPT ![t].at = @ + 1]
                /\ UNCHANGED <<outcome, dropped>>
        /\ UNCHANGED <<driver, agent, cnc, ring, conductor, bridge, client,
                       served, submitted, bounds>>

DepositWrite(t) ==
    /\ thread[t].pc = "write"
    /\ thread' = [thread EXCEPT ![t].pc = "store"]
    /\ bridge' = [bridge EXCEPT ![thread[t].item.kind].data[thread[t].at] =
                                  thread[t].item]
    /\ UNCHANGED <<driver, agent, cnc, ring, conductor, client, served, outcome,
                   dropped, submitted, bounds>>

\* A slip: the slot stays as it was.
DepositNotPublished(t) ==
    /\ thread[t].pc = "store"
    /\ thread' = [thread EXCEPT ![t].pc = "send"]
    /\ UNCHANGED <<driver, agent, cnc, ring, conductor, bridge, client, served,
                   outcome, dropped, submitted, bounds>>

DepositStore(t) ==
    /\ thread[t].pc = "store"
    /\ thread' = [thread EXCEPT ![t].pc = "send"]
    /\ bridge' = [bridge EXCEPT ![thread[t].item.kind].state[thread[t].at] =
                                  "FILLED"]
    /\ UNCHANGED <<driver, agent, cnc, ring, conductor, client, served, outcome,
                   dropped, submitted, bounds>>

\* The command of the handle in the call of thread t, and whether it is
\* written.
CommandOf(h) ==
    IF h.kind = "pub" THEN AddPublication(h.correlation_id, client_id, h.stream_id)
                      ELSE AddSubscription(h.correlation_id, client_id, h.stream_id)

Submits(t) == FitsCommand(thread[t].item.channel) /\ Room

Submit(t) ==
    IF Submits(t)
    THEN /\ ring' = Append(ring, CommandOf(thread[t].item))
         /\ submitted' = Append(submitted, CommandOf(thread[t].item))
    ELSE UNCHANGED <<ring, submitted>>

\* The last step of add_publication ignores what becomes of the command.
send_add_publication(t) ==
    /\ thread[t].pc = "send"
    /\ thread[t].item.kind = "pub"
    /\ Submit(t)
    /\ Returns(t, "Ok")
    /\ UNCHANGED <<driver, agent, cnc, conductor, bridge, client, served,
                   dropped, bounds>>

\* That of add_subscription returns its failure, though the endpoint is with
\* the receiver already.
SendAddSubscription(t) ==
    /\ thread[t].pc = "send"
    /\ thread[t].item.kind = "sub"
    /\ Submit(t)
    /\ Returns(t, IF Submits(t) THEN "Ok" ELSE "Err")
    /\ UNCHANGED <<driver, agent, cnc, conductor, bridge, client, served,
                   dropped, bounds>>

\* Another client of the CnC region asks for a removal: the Aeron client has
\* no call for it.
AskRemoval(cmd) ==
    /\ cnc = "mapped"
    /\ Room
    /\ bounds.calls > 0
    /\ bounds' = [bounds EXCEPT !.calls = @ - 1]
    /\ ring' = Append(ring, cmd)
    /\ UNCHANGED <<driver, agent, cnc, conductor, bridge, client, thread,
                   served, outcome, dropped, submitted>>

-----------------------------------------------------------------------------

Agent(a) ==
    \/ RunEnds(a)
    \/ a = "conductor" /\ ConductorWork
    \/ a = "sender" /\ poll_publication_bridge
    \/ a = "receiver" /\ poll_recv_endpoint_bridge

\* The steps of a call that has begun.
Call(t) ==
    \/ DepositLoad(t)
    \/ DepositWrite(t)
    \/ DepositStore(t)
    \/ send_add_publication(t)
    \/ SendAddSubscription(t)

Close == CloseStop \/ join

Client(c) ==
    \/ connect(c)
    \/ Drop(c)
    \/ \E type \in {"CLIENT_KEEPALIVE", "CLIENT_CLOSE"} : Notify(c, type)
    \/ \E channel \in Channels, stream \in Streams :
         add_publication(c, channel, stream) \/ add_subscription(c, channel, stream)

Next ==
    \/ launch
    \/ CloseBegin
    \/ Close
    \/ \E a \in Agents : Agent(a)
    \/ \E c \in Clients : Client(c)
    \/ \E t \in Threads : Call(t)
    \/ AskRemoval(RemovePublication(0, 1))
    \/ AskRemoval(RemoveSubscription(0, 1))

\* Agent threads run, and a call or a close that has begun goes on.
Fairness ==
    /\ \A a \in Agents : WF_vars(Agent(a))
    /\ \A t \in Threads : WF_vars(Call(t))
    /\ WF_vars(Close)

Spec == Init /\ [][Next]_vars /\ Fairness

-----------------------------------------------------------------------------
(***************************************************************************)
(* Properties.                                                             *)
(***************************************************************************)

\* The response that answers an add command.
AnswerTo ==
    [ADD_PUBLICATION |-> "PUBLICATION_READY",
     ADD_SUBSCRIPTION |-> "SUBSCRIPTION_READY"]

Answered(rsp) == <<rsp.type, rsp.correlation_id>>
ToAnswer(cmd) == <<AnswerTo[cmd.type], cmd.correlation_id>>

\* Every add command the ring accepted is answered exactly once, and in
\* order: what was answered and what the ring still holds is what was
\* submitted.
CommandsAnswered ==
    LET waiting == SelectSeq(ring, IsAdd) IN
    [i \in DOMAIN submitted |-> ToAnswer(submitted[i])] =
      [i \in DOMAIN conductor.to_clients |-> Answered(conductor.to_clients[i])]
        \o [i \in DOMAIN waiting |-> ToAnswer(waiting[i])]

\* The number of places handle h is in: a call before its deposit, a slot,
\* an agent's hand, an agent's list, or given up.
Places(h) ==
    Cardinality({t \in Threads : thread[t].pc \in {"load", "write"} /\ thread[t].item = h})
      + Cardinality({s \in Slots : bridge[h.kind].data[s] = h})
      + Cardinality({a \in Agents : agent[a].item = h})
      + Cardinality({i \in DOMAIN served[h.kind] : served[h.kind][i] = h})
      + Cardinality({h} \cap dropped)

\* A handle is moved, never copied nor lost: whatever calls have handed over
\* or are handing over is in one place.
HandleOnce ==
    \A h \in DOMAIN outcome \cup {thread[t].item : t \in Threads} :
      h # None => Places(h) = 1

\* The CnC region stays mapped for the lifetime of every client.
MappedForClients == \A c \in Clients : client[c].state = "open" => cnc = "mapped"

\* The handle of client c's n-th call.
OkCall(c, n) ==
    \E h \in DOMAIN outcome :
      h.client = c /\ h.correlation_id = n /\ outcome[h] = "Ok"
ServedCall(c, n) ==
    \E h \in Range(served["pub"]) \cup Range(served["sub"]) \cup dropped :
      h.client = c /\ h.correlation_id = n

\* A publication or subscription a call returned ends up with its agent,
\* unless the driver is closed or the poller refuses the endpoint.
OkIsServed ==
    \A c \in Clients, n \in 1 .. MaxCalls :
      OkCall(c, n) ~> ServedCall(c, n) \/ driver.state # "open"

\* close returns: every agent sees its flag and leaves its loop.
CloseReturns == driver.state = "stopping" ~> driver.state = "closed"
=============================================================================
