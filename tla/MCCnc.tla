------------------------------- MODULE MCCnc -------------------------------
(***************************************************************************)
(* What a client of the CnC region depends on, for TLC: that it finds the  *)
(* region (CncFile), and that it gets the responses in it (Broadcast).  A  *)
(* behaviour moves one of the two modules: part says which.                *)
(***************************************************************************)
EXTENDS CncFile

CONSTANTS Receivers, Capacity, RecordSizes, MaxTail

ASSUME BroadcastAssumption ==
    /\ Capacity \in Nat \ {0}
    /\ RecordSizes \subseteq 1 .. Capacity
    /\ MaxTail \in Nat

VARIABLES part, buffer, tail, transmit, receive

Responses == INSTANCE Broadcast

broadcastVars == <<buffer, tail, transmit, receive>>
allVars == <<part, vars, broadcastVars>>

MCInit == Init /\ Responses!Init /\ part \in {"region", "broadcast"}

RegionStep == part = "region" /\ Next /\ UNCHANGED <<part, broadcastVars>>
BroadcastStep == part = "broadcast" /\ Responses!Next /\ UNCHANGED <<part, vars>>

\* Client processes keep trying to map the file.
MCSpec ==
    /\ MCInit
    /\ [][RegionStep \/ BroadcastStep]_allVars
    /\ \A c \in Clients : WF_vars(part = "region" /\ Trying(c))

\* Broadcast's InLapIntact: a receiver that is not being overtaken, or that
\* has resumed after a lap, reads whole records in order.
InLapIntact == Responses!InLapIntact
=============================================================================
