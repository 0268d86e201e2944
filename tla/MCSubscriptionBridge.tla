----------------------- MODULE MCSubscriptionBridge -----------------------
(***************************************************************************)
(* The bridge for TLC: two subscriptions on two streams, polled by one     *)
(* client thread or by two.                                                *)
(***************************************************************************)
EXTENDS SubscriptionBridge

\* Every image is of the first subscription's stream, so that there are more
\* than its list has room for; the second passes over them.
TwoStreams ==
    [x \in Images \cup Subscriptions |-> IF x = "sub2" THEN 2 ELSE 1]

OneThread == [c \in Subscriptions |-> 1]
TwoThreads == [c \in Subscriptions |-> IF c = "sub1" THEN 1 ELSE 2]
=============================================================================
