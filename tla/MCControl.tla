----------------------------- MODULE MCControl -----------------------------
(***************************************************************************)
(* The two ends of the control messages for TLC: the sender that acts on   *)
(* them (SenderAgent) and the endpoint of a receiver that sends them       *)
(* (ReceiveEndpoint).  They share nothing but datagrams, and each module   *)
(* has the other end in its environment, so a behaviour moves one of them: *)
(* side says which.                                                        *)
(***************************************************************************)
EXTENDS SenderAgent

CONSTANTS Messages, MAX_PENDING_SM, MAX_PENDING_NAK, MAX_PENDING_RTTM, ReceiverSlots

ASSUME EndpointAssumption ==
    {MAX_PENDING_SM, MAX_PENDING_NAK, MAX_PENDING_RTTM, ReceiverSlots}
      \subseteq Nat \ {0}

VARIABLES side, pending, scratch, submitted, receiver_free, wire, receiver_duty

Endpoint == INSTANCE ReceiveEndpoint
              WITH NumSlots <- ReceiverSlots, free <- receiver_free,
                   duty <- receiver_duty

endpointVars == <<pending, scratch, submitted, receiver_free, wire, receiver_duty>>
allVars == <<side, vars, endpointVars>>

MCInit == Init /\ Endpoint!Init /\ side \in {"send", "reply"}

SenderStep == side = "send" /\ Next /\ UNCHANGED <<side, endpointVars>>
EndpointStep == side = "reply" /\ Endpoint!Next /\ UNCHANGED <<side, vars>>

\* The fairness of either module, for the side that moves.
MCFairness ==
    /\ WF_vars(side = "send" /\ DoSend(NoneDue, {}))
    /\ \A p \in Pubs :
         SF_vars(side = "send" /\ free = NumSlots /\ DoSend(SetupDue(p), {}))
    /\ SF_vars(side = "send" /\ DoPoll(NumSlots - free, <<>>, {}, 0))
    /\ \A r \in Receivers : SF_vars(side = "send" /\ StatusMessages(r, Pubs))
    /\ SF_endpointVars(side = "reply" /\ Endpoint!Reap(Endpoint!Outstanding))
    /\ SF_endpointVars(side = "reply" /\ Endpoint!SendPending)
    /\ WF_endpointVars(side = "reply" /\ Endpoint!Flush)

MCSpec == MCInit /\ [][SenderStep \/ EndpointStep]_allVars /\ MCFairness

\* ReceiveEndpoint's SentAsSubmitted: a control message leaves the socket as
\* it was submitted when it was the only one of its kind.
SentAsSubmitted == Endpoint!SentAsSubmitted

\* ReceiveEndpoint's QueuedIsSent: no control message waits for ever for a
\* send slot.
QueuedIsSent == Endpoint!QueuedIsSent

\* Two publications with a session each, on one stream, to a receiver each.
Sessions == [p \in Pubs |-> p]
OneStream == [p \in Pubs |-> 10]
OwnReceiver == [p \in Pubs |-> p]

\* For the instances with one receiver, or one session, for all.
OneReceiver == [p \in Pubs |-> 1]
OneSession == [p \in Pubs |-> 1]
=============================================================================
