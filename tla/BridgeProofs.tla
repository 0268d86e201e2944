---------------------------- MODULE BridgeProofs ----------------------------
(***************************************************************************)
(* Proof that the slot protocol of the bridge keeps its accesses apart,    *)
(* and that a handle is always in one place, for every number of slots,    *)
(* images and subscriptions, when one client thread polls them all.  With  *)
(* two threads it does not hold: the run says so when ThreadOf is          *)
(* TwoThreads.                                                             *)
(***************************************************************************)
EXTENDS SubscriptionBridge, FiniteSetTheorems, TLAPS

\* The steps of a poll at which the subscription relies on a slot.
Inside == {"peek_read", "take", "take_read", "take_store"}

\* A subscription relies on a slot only while the slot is FILLED.
PollInv(m) ==
    /\ DOMAIN m = {"pc", "at", "image", "images", "remaining"}
    /\ m.at \in Nat \ {0}
    /\ m.pc \in Inside => m.at \in Slots /\ state[m.at] = "FILLED"

\* The receiver relies on a slot only while it is EMPTY.
DepositInv ==
    /\ DOMAIN receiver = {"pc", "at", "image"}
    /\ receiver.at \in Nat \ {0}
    /\ receiver.pc \in {"write", "store"} =>
         receiver.at \in Slots /\ state[receiver.at] = "EMPTY"

\* The inductive invariant: at most one subscription is in the middle of a poll.
BridgeInv ==
    /\ DOMAIN state = Slots
    /\ DOMAIN sub = Subscriptions
    /\ DepositInv
    /\ \A c \in Subscriptions : PollInv(sub[c])
    /\ \A c, d \in Subscriptions : c = d \/ BetweenPolls(c) \/ BetweenPolls(d)

\* An empty bridge with every subscription between two polls.
LEMMA InitBridge == Init => BridgeInv
<1> SUFFICES ASSUME Init PROVE BridgeInv
  OBVIOUS
<1>1. DepositInv  BY DEF Init, DepositInv
<1>2. \A c \in Subscriptions : PollInv(sub[c])  BY DEF Init, PollInv, Inside
<1> QED  BY <1>1, <1>2 DEF Init, BridgeInv, BetweenPolls

\* The steps of deposit: it writes a slot it saw EMPTY, which only it fills.
LEMMA ReceiverBridge ==
    ASSUME BridgeInv, Receiver
    PROVE  BridgeInv'
<1> USE BridgeAssumption DEF Slots
<1>1. ASSUME NEW i \in Images, DepositBegin(i) PROVE BridgeInv'
  BY <1>1 DEF BridgeInv, DepositInv, PollInv, BetweenPolls, DepositBegin
<1>2. ASSUME NEW i \in Images, Close(i) PROVE BridgeInv'
  BY <1>2 DEF BridgeInv, DepositInv, PollInv, BetweenPolls, Close
<1>3. CASE DepositLoad
  <2>1. DepositInv'  BY <1>3 DEF BridgeInv, DepositInv, DepositLoad
  <2> QED  BY <1>3, <2>1 DEF BridgeInv, PollInv, BetweenPolls, DepositLoad
<1>4. CASE DepositWrite
  <2>1. DepositInv'  BY <1>4 DEF BridgeInv, DepositInv, DepositWrite
  <2> QED  BY <1>4, <2>1 DEF BridgeInv, PollInv, BetweenPolls, DepositWrite
<1>5. CASE DepositStore
  <2>1. DepositInv'  BY <1>5 DEF BridgeInv, DepositInv, DepositStore
  <2>2. \A c \in Subscriptions : PollInv(sub[c])'
    BY <1>5 DEF BridgeInv, PollInv, DepositStore
  <2> QED  BY <1>5, <2>1, <2>2 DEF BridgeInv, BetweenPolls, DepositStore
<1> QED  BY <1>1, <1>2, <1>3, <1>4, <1>5 DEF Receiver

\* A step that changes one subscription, and no slot, keeps the invariant if
\* the subscription does.
LEMMA OnePolls ==
    ASSUME BridgeInv, NEW c \in Subscriptions, NEW m,
           \A d \in Subscriptions \ {c} : BetweenPolls(d),
           sub' = [sub EXCEPT ![c] = m],
           UNCHANGED <<state, receiver>>,
           PollInv(m)
    PROVE  BridgeInv'
<1>1. \A d \in Subscriptions : sub'[d] = IF d = c THEN m ELSE sub[d]
  BY DEF BridgeInv
<1>2. DepositInv'  BY DEF BridgeInv, DepositInv
<1>3. \A d \in Subscriptions : PollInv(sub[d])'  BY <1>1 DEF BridgeInv, PollInv
<1>4. \A d \in Subscriptions \ {c} : BetweenPolls(d)'  BY <1>1 DEF BetweenPolls
<1> QED  BY <1>2, <1>3, <1>4 DEF BridgeInv

\* The steps of a poll: the state is loaded before the slot is read, and no
\* other subscription is in the middle of a poll that could empty it.
LEMMA PollBridge ==
    ASSUME \A c, d \in Subscriptions : ThreadOf[c] = ThreadOf[d],
           BridgeInv, NEW c \in Subscriptions, Poll(c)
    PROVE  BridgeInv'
<1> USE BridgeAssumption DEF Slots
<1>1. \A d \in Subscriptions \ {c} : BetweenPolls(d)  BY DEF Poll
<1>2. PollInv(sub[c]) /\ sub[c].at \in Nat \ {0}  BY DEF BridgeInv, PollInv
<1>3. CASE PeekLoad(c)
  <2>1. PICK m : sub' = [sub EXCEPT ![c] = m] /\ PollInv(m)
    <3> DEFINE m == IF sub[c].at > Capacity \/ Len(sub[c].images) >= MAX_SUB_IMAGES
                    THEN [sub[c] EXCEPT !.pc = "remove", !.at = 1]
                    ELSE IF state[sub[c].at] = "FILLED"
                         THEN [sub[c] EXCEPT !.pc = "peek_read"]
                         ELSE [sub[c] EXCEPT !.pc = "peek", !.at = sub[c].at + 1]
    <3>1. sub' = [sub EXCEPT ![c] = m]  BY <1>3, Zenon DEF PeekLoad, NextSlot, BridgeInv
    <3>2. PollInv(m)  BY <1>2, <1>3 DEF PollInv, Inside, PeekLoad
    <3> QED  BY <3>1, <3>2, Zenon
  <2> QED  BY <1>1, <1>3, <2>1, OnePolls, Zenon DEF PeekLoad
<1>4. CASE PeekRead(c)
  <2>1. PICK m : sub' = [sub EXCEPT ![c] = m] /\ PollInv(m)
    <3>1. PICK i : sub' = [sub EXCEPT ![c] =
             IF OwnStream(c, i) THEN [sub[c] EXCEPT !.pc = "take"]
                                ELSE [sub[c] EXCEPT !.pc = "peek", !.at = sub[c].at + 1]]
      BY <1>4, Zenon DEF PeekRead, NextSlot, BridgeInv
    <3>2. PollInv([sub[c] EXCEPT !.pc = "take"])
      BY <1>2, <1>4 DEF PollInv, Inside, PeekRead
    <3>3. PollInv([sub[c] EXCEPT !.pc = "peek", !.at = sub[c].at + 1])
      BY <1>2 DEF PollInv, Inside
    <3> QED  BY <3>1, <3>2, <3>3, Zenon
  <2> QED  BY <1>1, <1>4, <2>1, OnePolls, Zenon DEF PeekRead
<1>5. CASE TakeLoad(c)
  <2>1. PICK m : sub' = [sub EXCEPT ![c] = m] /\ PollInv(m)
    <3> DEFINE m == IF state[sub[c].at] = "FILLED"
                    THEN [sub[c] EXCEPT !.pc = "take_read"]
                    ELSE [sub[c] EXCEPT !.pc = "peek", !.at = sub[c].at + 1]
    <3>1. sub' = [sub EXCEPT ![c] = m]  BY <1>5, Zenon DEF TakeLoad, NextSlot, BridgeInv
    <3>2. PollInv(m)  BY <1>2, <1>5 DEF PollInv, Inside, TakeLoad
    <3> QED  BY <3>1, <3>2, Zenon
  <2> QED  BY <1>1, <1>5, <2>1, OnePolls, Zenon DEF TakeLoad
<1>6. CASE TakeRead(c)
  <2>1. PICK i : sub' = [sub EXCEPT ![c] =
                           [sub[c] EXCEPT !.pc = "take_store", !.image = i]]
    BY <1>6, Zenon DEF TakeRead, BridgeInv
  <2>2. PollInv([sub[c] EXCEPT !.pc = "take_store", !.image = i])
    BY <1>2, <1>6 DEF PollInv, Inside, TakeRead
  <2> QED  BY <1>1, <1>6, <2>1, <2>2, OnePolls, Zenon DEF TakeRead
<1>7. CASE TakeStore(c)
  \* The one step of a poll that changes a slot; nobody else relies on it.
  <2> DEFINE m == [sub[c] EXCEPT !.pc = "peek", !.at = sub[c].at + 1, !.image = None,
                     !.images = IF sub[c].image = None THEN sub[c].images
                                ELSE Append(sub[c].images, sub[c].image)]
  <2>1. sub' = [sub EXCEPT ![c] = m]  BY <1>7, Zenon DEF TakeStore, BridgeInv
  <2>2. DOMAIN m = {"pc", "at", "image", "images", "remaining"} /\ m.pc = "peek" /\ m.at \in Nat \ {0}
    BY <1>2 DEF PollInv
  <2> HIDE DEF m
  <2>3. \A d \in Subscriptions : sub'[d] = IF d = c THEN m ELSE sub[d]
    BY <2>1 DEF BridgeInv
  <2>4. DepositInv'  BY <1>7 DEF BridgeInv, DepositInv, TakeStore
  <2>5. \A d \in Subscriptions : PollInv(sub[d])'
    BY <1>1, <1>7, <2>2, <2>3 DEF BridgeInv, PollInv, BetweenPolls, Inside, TakeStore
  <2>6. \A d \in Subscriptions \ {c} : BetweenPolls(d)'
    BY <1>1, <2>3 DEF BetweenPolls
  <2>7. DOMAIN state' = Slots /\ DOMAIN sub' = Subscriptions
    BY <1>7 DEF BridgeInv, TakeStore
  <2> QED  BY <2>4, <2>5, <2>6, <2>7 DEF BridgeInv
<1>8. CASE RemoveStep(c)
  <2>1. \E m : sub' = [sub EXCEPT ![c] = m] /\ PollInv(m)
    <3>1. PollInv([sub[c] EXCEPT !.pc = "poll", !.at = 1, !.remaining = Limit])
      BY <1>2 DEF PollInv, Inside
    <3>2. PollInv([sub[c] EXCEPT !.images = SwapRemove(sub[c].images, sub[c].at)])
      BY <1>2 DEF PollInv, Inside
    <3>3. PollInv([sub[c] EXCEPT !.at = sub[c].at + 1])
      BY <1>2, <1>8 DEF PollInv, Inside, RemoveStep
    <3>4. CASE sub' = [sub EXCEPT ![c].pc = "poll", ![c].at = 1, ![c].remaining = Limit]
      BY <3>1, <3>4, ZenonT(40) DEF BridgeInv
    <3>5. CASE sub' = [sub EXCEPT ![c].images = SwapRemove(sub[c].images, sub[c].at)]
      BY <3>2, <3>5, Zenon DEF BridgeInv
    <3>6. CASE sub' = [sub EXCEPT ![c].at = sub[c].at + 1]
      BY <3>3, <3>6, Zenon DEF BridgeInv
    <3> QED  BY <1>8, <3>4, <3>5, <3>6 DEF RemoveStep
  <2> QED  BY <1>1, <1>8, <2>1, OnePolls, Zenon DEF RemoveStep
<1>9. CASE PollImage(c)
  <2>1. \E m : sub' = [sub EXCEPT ![c] = m] /\ PollInv(m)
    <3>1. PollInv([sub[c] EXCEPT !.pc = "peek", !.at = 1, !.remaining = 0])
      BY <1>2 DEF PollInv, Inside
    <3>2. ASSUME NEW n
          PROVE  PollInv([sub[c] EXCEPT !.at = sub[c].at + 1, !.remaining = n])
      BY <1>2, <1>9 DEF PollInv, Inside, PollImage
    <3>3. CASE sub' = [sub EXCEPT ![c].pc = "peek", ![c].at = 1, ![c].remaining = 0]
      BY <3>1, <3>3, ZenonT(40) DEF BridgeInv
    <3>4. ASSUME NEW n, sub' = [sub EXCEPT ![c].at = sub[c].at + 1, ![c].remaining = n]
          PROVE  \E m : sub' = [sub EXCEPT ![c] = m] /\ PollInv(m)
      BY <3>2, <3>4, Zenon DEF BridgeInv
    <3> QED  BY <1>9, <3>3, <3>4, Zenon DEF PollImage
  <2> QED  BY <1>1, <1>9, <2>1, OnePolls, Zenon DEF PollImage
<1> QED  BY <1>3, <1>4, <1>5, <1>6, <1>7, <1>8, <1>9 DEF Poll

\* What the invariant is for: a slot that somebody is about to change has one
\* thread about to touch it.
LEMMA InvSeparates ==
    ASSUME "receiver" \notin Subscriptions, BridgeInv
    PROVE  NoConcurrentAccess
<1> SUFFICES ASSUME NEW s \in Slots, Changing(s) # {}
             PROVE  Cardinality(Touching(s)) = 1
  BY DEF NoConcurrentAccess
<1>1. ASSUME NEW c \in Subscriptions, sub[c].at = s,
             sub[c].pc = "peek_read" \/ sub[c].pc = "take_read"
      PROVE  state[s] = "FILLED"
  BY <1>1 DEF BridgeInv, PollInv, Inside
<1>2. \E x : Touching(s) = {x}
  <2>1. CASE receiver.pc = "write" /\ receiver.at = s
    <3>1. state[s] = "EMPTY"  BY <2>1 DEF BridgeInv, DepositInv
    <3>2. \A c \in Subscriptions :
            ~(sub[c].at = s /\ (sub[c].pc = "peek_read" \/ sub[c].pc = "take_read"))
      BY <1>1, <3>1
    <3>3. Touching(s) = {"receiver"}  BY <2>1, <3>2 DEF Touching, Changing
    <3> QED  BY <3>3
  <2>2. CASE ~(receiver.pc = "write" /\ receiver.at = s)
    <3>1. PICK c \in Subscriptions : sub[c].pc = "take_read" /\ sub[c].at = s
      BY <2>2 DEF Changing
    <3>2. \A d \in Subscriptions : d = c \/ sub[d].pc = "peek"
      BY <3>1 DEF BridgeInv, BetweenPolls
    <3>3. Touching(s) = {c}
      BY <2>2, <3>1, <3>2 DEF Touching, Changing
    <3> QED  BY <3>3
  <2> QED  BY <2>1, <2>2, Zenon
<1> QED  BY <1>2, FS_Singleton

\* One client thread: deposit writes a slot's data only under EMPTY and
\* try_take takes it only under FILLED, so no access of the receiver's thread
\* meets one of the client's, for any number of slots and subscriptions.
THEOREM OneThreadIsSafe ==
    ASSUME "receiver" \notin Subscriptions,
           \A c, d \in Subscriptions : ThreadOf[c] = ThreadOf[d]
    PROVE  Spec => []NoConcurrentAccess
<1>1. BridgeInv /\ [Next]_vars => BridgeInv'
  <2> SUFFICES ASSUME BridgeInv, [Next]_vars PROVE BridgeInv'
    OBVIOUS
  <2>1. CASE Receiver  BY <2>1, ReceiverBridge
  <2>2. ASSUME NEW c \in Subscriptions, Poll(c) PROVE BridgeInv'
    BY <2>2, PollBridge
  <2>3. CASE UNCHANGED vars
    BY <2>3 DEF BridgeInv, DepositInv, PollInv, BetweenPolls, vars
  <2> QED  BY <2>1, <2>2, <2>3 DEF Next
<1>2. BridgeInv => NoConcurrentAccess  BY InvSeparates
<1> QED  BY <1>1, <1>2, InitBridge, PTL DEF Spec

-----------------------------------------------------------------------------
(* A handle is in one place. *)

\* Where the handle of image i can be: in a slot, in the hand of a
\* subscription that is taking it, or in its list.
InSlots(i) == \E s \in Slots : data[s] = i
Held(i)    == \E c \in Subscriptions : sub[c].image = i
Listed(i)  == \E c \in Subscriptions : \E k \in DOMAIN sub[c].images : sub[c].images[k] = i
Nowhere(i) == ~InSlots(i) /\ ~Held(i) /\ ~Listed(i)

HandleTypes ==
    /\ data \in [Slots -> Images \cup {None}]
    /\ receiver.image \in Images \cup {None}
    /\ created \subseteq Images
    /\ \A c \in Subscriptions :
         sub[c].image \in Images \cup {None} /\ sub[c].images \in Seq(Images)

\* A slot is left empty, and a subscription holds a handle only between the
\* two steps of a take.
SlotInv ==
    /\ \A s \in Slots : state[s] = "EMPTY" /\ ~(receiver.pc = "store" /\ receiver.at = s)
                          => data[s] = None
    /\ \A c \in Subscriptions :
         /\ sub[c].pc = "take_store" => data[sub[c].at] = None
         /\ sub[c].pc # "take_store" => sub[c].image = None

\* What the receiver is depositing is created, and nowhere until it is written.
OfferInv ==
    /\ receiver.pc = "idle" => receiver.image = None
    /\ receiver.pc # "idle" => receiver.image \in created
    /\ receiver.pc \in {"load", "write"} => Nowhere(receiver.image)
    /\ receiver.pc = "store" => data[receiver.at] = receiver.image
    /\ \A i \in Images \ created : Nowhere(i)

\* No two places hold the same handle.
ApartInv ==
    /\ \A s, t \in Slots : data[s] = data[t] /\ data[s] # None => s = t
    /\ \A c, d \in Subscriptions : sub[c].image = sub[d].image /\ sub[c].image # None => c = d
    /\ \A c, d \in Subscriptions : \A k \in DOMAIN sub[c].images, l \in DOMAIN sub[d].images :
         sub[c].images[k] = sub[d].images[l] => c = d /\ k = l
    /\ \A i \in Images : /\ InSlots(i) => ~Held(i) /\ ~Listed(i)
                         /\ Held(i) => ~Listed(i)

\* A handle that is nowhere was never deposited, or was removed closed.
KeptInv ==
    \A i \in created : \/ ~Nowhere(i)
                       \/ i \in refused \cup {receiver.image}
                       \/ i \in removed \cap closed

HandleInv == HandleTypes /\ SlotInv /\ OfferInv /\ ApartInv /\ KeptInv

\* A step that moves no handle.
LEMMA HandlesStay ==
    ASSUME ApartInv, UNCHANGED data,
           \A c \in Subscriptions :
             sub'[c].image = sub[c].image /\ sub'[c].images = sub[c].images
    PROVE  /\ ApartInv'
           /\ \A i : Nowhere(i)' <=> Nowhere(i)
<1>1. \A i : /\ InSlots(i)' <=> InSlots(i)
             /\ Held(i)' <=> Held(i)
             /\ Listed(i)' <=> Listed(i)
  BY DEF InSlots, Held, Listed
<1>2. \A i : Nowhere(i)' <=> Nowhere(i)  BY <1>1 DEF Nowhere
<1>3. ApartInv'  BY <1>1 DEF ApartInv
<1> QED  BY <1>2, <1>3

\* An empty bridge and empty lists.
LEMMA InitHandles == ASSUME None \notin Images, Init PROVE HandleInv
<1>1. HandleTypes
  <2>1. \A c \in Subscriptions : sub[c].image = None /\ sub[c].images = <<>>  BY DEF Init
  <2>2. <<>> \in Seq(Images)  OBVIOUS
  <2>3. data \in [Slots -> Images \cup {None}]  BY DEF Init
  <2> QED  BY <2>1, <2>2, <2>3, Zenon DEF Init, HandleTypes
<1>2. SlotInv  BY DEF Init, SlotInv
<1>3. \A i \in Images : ~InSlots(i) /\ ~Held(i) /\ ~Listed(i)
  BY DEF Init, InSlots, Held, Listed
<1>4. OfferInv  BY <1>3 DEF Init, OfferInv, Nowhere
<1>5. ApartInv  BY <1>3 DEF Init, ApartInv
<1>6. KeptInv  BY DEF Init, KeptInv
<1> QED  BY <1>1, <1>2, <1>4, <1>5, <1>6 DEF HandleInv

\* deposit writes the handle into a slot that is empty and stays so until the
\* state is stored; a handle it finds no slot for is refused.
LEMMA ReceiverHandles ==
    ASSUME None \notin Images, BridgeInv, HandleInv, Receiver
    PROVE  HandleInv'
<1>0. /\ HandleTypes /\ SlotInv /\ OfferInv /\ ApartInv /\ KeptInv
      /\ DOMAIN receiver = {"pc", "at", "image"}
  BY DEF HandleInv, BridgeInv, DepositInv
<1>1. ASSUME NEW i \in Images, DepositBegin(i) PROVE HandleInv'
  <2>1. ApartInv' /\ \A j : Nowhere(j)' <=> Nowhere(j)
    BY <1>0, <1>1, HandlesStay DEF DepositBegin
  <2>2. HandleTypes' /\ SlotInv'
    BY <1>0, <1>1 DEF HandleTypes, SlotInv, DepositBegin
  <2>3. OfferInv'  BY <1>0, <1>1, <2>1 DEF OfferInv, DepositBegin
  <2>4. KeptInv'
    BY <1>0, <1>1, <2>1 DEF KeptInv, OfferInv, HandleTypes, DepositBegin
  <2> QED  BY <2>1, <2>2, <2>3, <2>4 DEF HandleInv
<1>2. ASSUME NEW i \in Images, Close(i) PROVE HandleInv'
  <2>1. ApartInv' /\ \A j : Nowhere(j)' <=> Nowhere(j)
    BY <1>0, <1>2, HandlesStay DEF Close
  <2>2. HandleTypes' /\ SlotInv'
    BY <1>0, <1>2 DEF HandleTypes, SlotInv, Close
  <2>3. OfferInv'  BY <1>0, <1>2, <2>1 DEF OfferInv, Close
  <2>4. KeptInv'  BY <1>0, <1>2, <2>1 DEF KeptInv, Close
  <2> QED  BY <2>1, <2>2, <2>3, <2>4 DEF HandleInv
<1>3. CASE DepositLoad
  <2>1. ApartInv' /\ \A j : Nowhere(j)' <=> Nowhere(j)
    BY <1>0, <1>3, HandlesStay DEF DepositLoad
  <2>2. /\ receiver.pc = "load" /\ UNCHANGED <<state, data, sub, created, closed, removed>>
        /\ \/ /\ receiver' = [pc |-> "idle", at |-> 1, image |-> None]
              /\ refused' = refused \cup {receiver.image}
           \/ /\ receiver'.pc \in {"load", "write"} /\ receiver'.image = receiver.image
              /\ refused' = refused
    BY <1>0, <1>3 DEF DepositLoad
  <2>3. HandleTypes' /\ SlotInv'
    BY <1>0, <2>2 DEF HandleTypes, SlotInv
  <2>4. OfferInv'  BY <1>0, <2>1, <2>2 DEF OfferInv
  <2>5. KeptInv'  BY <1>0, <2>1, <2>2 DEF KeptInv
  <2> QED  BY <2>1, <2>3, <2>4, <2>5 DEF HandleInv
<1>4. CASE DepositWrite
  <2> DEFINE a == receiver.at
             h == receiver.image
  <2>1. /\ receiver.pc = "write" /\ a \in Slots /\ state[a] = "EMPTY"
        /\ data[a] = None /\ h \in created /\ h \in Images /\ Nowhere(h)
    BY <1>0, <1>4 DEF DepositWrite, BridgeInv, DepositInv, SlotInv, OfferInv, HandleTypes
  <2>2. /\ data' = [data EXCEPT ![a] = h] /\ data \in [Slots -> Images \cup {None}]
        /\ receiver'.pc = "store" /\ receiver'.at = a /\ receiver'.image = h
        /\ UNCHANGED <<state, sub, created, refused, closed, removed>>
    BY <1>0, <1>4 DEF DepositWrite, HandleTypes
  <2>3. \A s \in Slots : data'[s] = IF s = a THEN h ELSE data[s]  BY <2>1, <2>2
  <2> HIDE DEF a, h
  <2>4. \A i \in Images : /\ InSlots(i)' <=> InSlots(i) \/ i = h
                          /\ Held(i)' <=> Held(i)
                          /\ Listed(i)' <=> Listed(i)
    BY <2>1, <2>2, <2>3 DEF InSlots, Held, Listed
  <2>5. HandleTypes'  BY <1>0, <2>1, <2>2 DEF HandleTypes
  <2>6. SlotInv'
    <3>1. \A c \in Subscriptions : sub[c].pc = "take_store" => sub[c].at \in Slots /\ sub[c].at # a
      BY <2>1 DEF BridgeInv, PollInv, Inside
    <3> QED  BY <1>0, <2>1, <2>2, <2>3, <3>1 DEF SlotInv
  <2>7. OfferInv'
    BY <1>0, <2>1, <2>2, <2>3, <2>4 DEF OfferInv, Nowhere
  <2>8. ApartInv'
    <3>1. \A s, t \in Slots : data'[s] = data'[t] /\ data'[s] # None => s = t
      BY <1>0, <2>1, <2>3 DEF ApartInv, Nowhere, InSlots
    <3>2. \A i \in Images : /\ InSlots(i)' => ~Held(i)' /\ ~Listed(i)'
                            /\ Held(i)' => ~Listed(i)'
      BY <1>0, <2>1, <2>4 DEF ApartInv, Nowhere
    <3> QED  BY <1>0, <2>2, <3>1, <3>2 DEF ApartInv
  <2>9. KeptInv'
    BY <1>0, <2>2, <2>4 DEF KeptInv, Nowhere, HandleTypes, h
  <2> QED  BY <2>5, <2>6, <2>7, <2>8, <2>9 DEF HandleInv
<1>5. CASE DepositStore
  <2>1. ApartInv' /\ \A j : Nowhere(j)' <=> Nowhere(j)
    BY <1>0, <1>5, HandlesStay DEF DepositStore
  <2>2. /\ receiver.pc = "store" /\ receiver.at \in Slots
        /\ state' = [state EXCEPT ![receiver.at] = "FILLED"] /\ DOMAIN state = Slots
        /\ receiver' = [pc |-> "idle", at |-> 1, image |-> None]
        /\ UNCHANGED <<data, sub, created, refused, closed, removed>>
    BY <1>5 DEF DepositStore, BridgeInv, DepositInv
  <2>3. HandleTypes'  BY <1>0, <2>2 DEF HandleTypes
  <2>4. SlotInv'  BY <1>0, <2>2 DEF SlotInv
  <2>5. OfferInv'  BY <1>0, <2>1, <2>2 DEF OfferInv
  <2>6. ~Nowhere(receiver.image)
    BY <1>0, <2>2 DEF OfferInv, Nowhere, InSlots
  <2>7. KeptInv'  BY <1>0, <2>1, <2>2, <2>6 DEF KeptInv
  <2> QED  BY <2>1, <2>3, <2>4, <2>5, <2>7 DEF HandleInv
<1> QED  BY <1>1, <1>2, <1>3, <1>4, <1>5 DEF Receiver

\* A step of a poll that moves no handle and is no part of a take's two steps.
LEMMA PollStays ==
    ASSUME HandleInv, NEW c \in Subscriptions,
           \A d \in Subscriptions \ {c} : sub'[d] = sub[d],
           sub'[c].image = sub[c].image, sub'[c].images = sub[c].images,
           sub[c].pc # "take_store", sub'[c].pc # "take_store",
           UNCHANGED <<state, data, receiver, created, refused, closed>>,
           removed \subseteq removed'
    PROVE  HandleInv'
<1>0. HandleTypes /\ SlotInv /\ OfferInv /\ ApartInv /\ KeptInv  BY DEF HandleInv
<1>1. \A d \in Subscriptions :
        sub'[d].image = sub[d].image /\ sub'[d].images = sub[d].images
  OBVIOUS
<1>2. ApartInv' /\ \A j : Nowhere(j)' <=> Nowhere(j)
  BY <1>0, <1>1, HandlesStay
<1>3. HandleTypes'  BY <1>0, <1>1 DEF HandleTypes
<1>4. SlotInv'  BY <1>0, <1>1 DEF SlotInv
<1>5. OfferInv'  BY <1>0, <1>2 DEF OfferInv
<1>6. KeptInv'  BY <1>0, <1>2 DEF KeptInv
<1> QED  BY <1>2, <1>3, <1>4, <1>5, <1>6 DEF HandleInv

\* The first step of a take: the handle leaves the slot for the local variable.
LEMMA TakeReadHandles ==
    ASSUME None \notin Images, BridgeInv, HandleInv, NEW c \in Subscriptions, TakeRead(c),
           \A d \in Subscriptions \ {c} : BetweenPolls(d)
    PROVE  HandleInv'
<1> DEFINE a == sub[c].at
           h == data[a]
           m == [sub[c] EXCEPT !.pc = "take_store", !.image = h]
<1>0. /\ HandleTypes /\ SlotInv /\ OfferInv /\ ApartInv /\ KeptInv
  BY DEF HandleInv
<1>1. /\ a \in Slots /\ state[a] = "FILLED" /\ sub[c].pc = "take_read" /\ sub[c].image = None
      /\ DOMAIN sub = Subscriptions /\ DOMAIN sub[c] = {"pc", "at", "image", "images", "remaining"}
  BY <1>0 DEF TakeRead, BridgeInv, PollInv, Inside, SlotInv
<1>2. ~(receiver.pc \in {"write", "store"} /\ receiver.at = a)
  BY <1>1 DEF BridgeInv, DepositInv
<1>3. Changing(a) \subseteq {c}
  BY <1>2 DEF Changing, BetweenPolls
<1>4. Reads(c, a) = {h}  BY <1>3 DEF Reads
<1>5. /\ sub' = [sub EXCEPT ![c] = m]
      /\ data' = [data EXCEPT ![a] = None] /\ data \in [Slots -> Images \cup {None}]
      /\ UNCHANGED <<state, receiver, created, refused, closed, removed>>
  BY <1>0, <1>1, <1>4, Zenon DEF TakeRead, HandleTypes
<1>6. m.pc = "take_store" /\ m.at = a /\ m.image = h /\ m.images = sub[c].images
  BY <1>1
<1>7. h \in Images \cup {None}  BY <1>1, <1>5
<1> HIDE DEF m
<1>8. \A d \in Subscriptions : sub'[d] = IF d = c THEN m ELSE sub[d]  BY <1>1, <1>5
<1>9. \A s \in Slots : data'[s] = IF s = a THEN None ELSE data[s]  BY <1>1, <1>5
<1>10. \A i \in Images : /\ InSlots(i)' <=> InSlots(i) /\ i # h
                         /\ Held(i)' <=> Held(i) \/ i = h
                         /\ Listed(i)' <=> Listed(i)
  <2> SUFFICES ASSUME NEW i \in Images
               PROVE  /\ InSlots(i)' <=> InSlots(i) /\ i # h
                      /\ Held(i)' <=> Held(i) \/ i = h
                      /\ Listed(i)' <=> Listed(i)
    OBVIOUS
  <2>1. InSlots(i)' <=> InSlots(i) /\ i # h
    BY <1>0, <1>1, <1>9 DEF InSlots, ApartInv
  <2> HIDE DEF h
  <2>2. Held(i)' <=> Held(i) \/ i = h
    BY <1>1, <1>6, <1>8 DEF Held
  <2>3. Listed(i)' <=> Listed(i)
    BY <1>6, <1>8 DEF Listed
  <2> QED  BY <2>1, <2>2, <2>3
<1>11. \A i \in Images : i = h => InSlots(i)  BY <1>1 DEF InSlots
<1> HIDE DEF h
<1>12. \A i \in Images : Nowhere(i)' <=> Nowhere(i)
  BY <1>10, <1>11 DEF Nowhere
<1>13. HandleTypes'  BY <1>0, <1>5, <1>6, <1>7, <1>8, ZenonT(40) DEF HandleTypes
<1>14. SlotInv'
  <2>1. \A s \in Slots : state[s] = "EMPTY" /\ ~(receiver.pc = "store" /\ receiver.at = s)
                          => data'[s] = None
    BY <1>0, <1>9 DEF SlotInv
  <2>2. \A d \in Subscriptions \ {c} : sub'[d].pc # "take_store" /\ sub'[d].image = None
    BY <1>0, <1>8 DEF SlotInv, BetweenPolls
  <2>3. data'[a] = None  BY <1>1, <1>9
  <2>4. \A d \in Subscriptions : /\ sub'[d].pc = "take_store" => data'[sub'[d].at] = None
                                 /\ sub'[d].pc # "take_store" => sub'[d].image = None
    BY <1>6, <1>8, <2>2, <2>3
  <2> QED  BY <1>5, <2>1, <2>4 DEF SlotInv
<1>15. OfferInv'
  <2>1. receiver.pc = "store" => receiver.at \in Slots /\ receiver.at # a
    BY <1>2 DEF BridgeInv, DepositInv
  <2>2. receiver.pc # "idle" => receiver.image \in Images
    BY <1>0 DEF OfferInv, HandleTypes
  <2>3. receiver.pc = "store" => data'[receiver.at] = receiver.image
    BY <1>0, <1>9, <2>1 DEF OfferInv
  <2> QED  BY <1>0, <1>5, <1>12, <2>2, <2>3 DEF OfferInv
<1>16. ApartInv'
  <2>1. \A s, t \in Slots : data'[s] = data'[t] /\ data'[s] # None => s = t
    BY <1>0, <1>9 DEF ApartInv
  <2>2. \A d \in Subscriptions \ {c} : sub'[d].image = None
    BY <1>0, <1>8 DEF SlotInv, BetweenPolls
  <2>3. \A d, e \in Subscriptions :
          sub'[d].image = sub'[e].image /\ sub'[d].image # None => d = e
    BY <2>2, SMTT(40)
  <2>4. \A d, e \in Subscriptions :
          \A k \in DOMAIN sub'[d].images, l \in DOMAIN sub'[e].images :
             sub'[d].images[k] = sub'[e].images[l] => d = e /\ k = l
    <3>1. \A d \in Subscriptions : sub'[d].images = sub[d].images  BY <1>6, <1>8, SMTT(40)
    <3> QED  BY <1>0, <3>1 DEF ApartInv
  <2>5. \A i \in Images : /\ InSlots(i)' => ~Held(i)' /\ ~Listed(i)'
                          /\ Held(i)' => ~Listed(i)'
    BY <1>0, <1>10, <1>11, SMTT(40) DEF ApartInv
  <2> QED  BY <2>1, <2>3, <2>4, <2>5 DEF ApartInv
<1>17. KeptInv'  BY <1>0, <1>5, <1>12 DEF KeptInv, HandleTypes
<1> QED  BY <1>13, <1>14, <1>15, <1>16, <1>17 DEF HandleInv

\* The second step of a take: the handle goes to the end of the list, and the
\* slot is free.
LEMMA TakeStoreHandles ==
    ASSUME None \notin Images, BridgeInv, HandleInv, NEW c \in Subscriptions, TakeStore(c),
           \A d \in Subscriptions \ {c} : BetweenPolls(d)
    PROVE  HandleInv'
<1> DEFINE a == sub[c].at
           h == sub[c].image
           images == sub[c].images
           L == IF h = None THEN images ELSE Append(images, h)
           m == [sub[c] EXCEPT !.pc = "peek", !.at = a + 1, !.image = None, !.images = L]
           x == Len(images) + 1
<1>0. /\ HandleTypes /\ SlotInv /\ OfferInv /\ ApartInv /\ KeptInv
  BY DEF HandleInv
<1>1. /\ a \in Slots /\ state[a] = "FILLED" /\ sub[c].pc = "take_store" /\ data[a] = None
      /\ DOMAIN sub = Subscriptions /\ DOMAIN sub[c] = {"pc", "at", "image", "images", "remaining"}
      /\ DOMAIN state = Slots
  BY <1>0 DEF TakeStore, BridgeInv, PollInv, Inside, SlotInv
<1>2. h \in Images \cup {None} /\ images \in Seq(Images)  BY <1>0 DEF HandleTypes
<1>3. /\ sub' = [sub EXCEPT ![c] = m]
      /\ state' = [state EXCEPT ![a] = "EMPTY"]
      /\ UNCHANGED <<data, receiver, created, refused, closed, removed>>
  BY <1>1, Zenon DEF TakeStore
<1>4. m.pc = "peek" /\ m.image = None /\ m.images = L
  BY <1>1
<1> HIDE DEF m
<1>5. L \in Seq(Images)  BY <1>2
<1>6. h = None => L = images  OBVIOUS
<1>7. h # None => /\ DOMAIN L = DOMAIN images \cup {x} /\ x \notin DOMAIN images /\ L[x] = h
                  /\ \A k \in DOMAIN images : L[k] = images[k]
  <2> HAVE h # None
  <2>1. L = Append(images, h) /\ h \in Images  BY <1>2
  <2> HIDE DEF L, h, images
  <2> QED  BY <1>2, <2>1 DEF x
<1> HIDE DEF L, x
<1>8. \A d \in Subscriptions : sub'[d] = IF d = c THEN m ELSE sub[d]  BY <1>1, <1>3
<1>9. \A i \in Images : /\ InSlots(i)' <=> InSlots(i)
                        /\ Held(i)' <=> Held(i) /\ i # h
                        /\ Listed(i)' <=> Listed(i) \/ i = h
  <2> SUFFICES ASSUME NEW i \in Images
               PROVE  /\ InSlots(i)' <=> InSlots(i)
                      /\ Held(i)' <=> Held(i) /\ i # h
                      /\ Listed(i)' <=> Listed(i) \/ i = h
    OBVIOUS
  <2>1. InSlots(i)' <=> InSlots(i)  BY <1>3 DEF InSlots
  <2>2. Held(i)' <=> Held(i) /\ i # h
    BY <1>0, <1>4, <1>8 DEF Held, SlotInv, BetweenPolls
  <2>3. (\E k \in DOMAIN L : L[k] = i) <=> (\E k \in DOMAIN images : images[k] = i) \/ i = h
    BY <1>6, <1>7
  <2>4. Listed(i)' <=> \/ \E k \in DOMAIN L : L[k] = i
                       \/ \E d \in Subscriptions \ {c} :
                            \E k \in DOMAIN sub[d].images : sub[d].images[k] = i
    BY <1>4, <1>8 DEF Listed
  <2>5. Listed(i) <=> \/ \E k \in DOMAIN images : images[k] = i
                      \/ \E d \in Subscriptions \ {c} :
                            \E k \in DOMAIN sub[d].images : sub[d].images[k] = i
    BY DEF Listed
  <2> QED  BY <2>1, <2>2, <2>3, <2>4, <2>5
<1>10. \A i \in Images : i = h => Held(i)  BY DEF Held
<1>11. \A i \in Images : Nowhere(i)' <=> Nowhere(i)
  BY <1>9, <1>10 DEF Nowhere
<1>12. HandleTypes'  BY <1>0, <1>3, <1>4, <1>5, <1>8, SMTT(40) DEF HandleTypes
<1>13. SlotInv'
  <2>1. \A s \in Slots : state'[s] = IF s = a THEN "EMPTY" ELSE state[s]  BY <1>1, <1>3
  <2>2. \A d \in Subscriptions : sub'[d].pc # "take_store" /\ sub'[d].image = None
    BY <1>0, <1>4, <1>8 DEF SlotInv, BetweenPolls
  <2> QED  BY <1>0, <1>1, <1>3, <2>1, <2>2, SMTT(40) DEF SlotInv
<1>14. OfferInv'
  <2>1. receiver.pc # "idle" => receiver.image \in Images
    BY <1>0 DEF OfferInv, HandleTypes
  <2> QED  BY <1>0, <1>3, <1>11, <2>1 DEF OfferInv
<1>15. ApartInv'
  <2>1. \A s, t \in Slots : data'[s] = data'[t] /\ data'[s] # None => s = t
    BY <1>0, <1>3 DEF ApartInv
  <2>2. \A d \in Subscriptions : sub'[d].image = None
    BY <1>0, <1>4, <1>8 DEF SlotInv, BetweenPolls
  <2>3. ASSUME NEW d \in Subscriptions \ {c}, NEW k \in DOMAIN L,
               NEW l \in DOMAIN sub[d].images
        PROVE  L[k] # sub[d].images[l]
    <3>1. CASE h = None  BY <1>0, <1>6, <3>1 DEF ApartInv
    <3>2. CASE h # None
      <4>1. h \in Images /\ Held(h) /\ ~Listed(h)  BY <1>0, <1>2, <1>10, <3>2 DEF ApartInv
      <4>2. sub[d].images[l] # h  BY <4>1 DEF Listed
      <4> QED  BY <1>0, <1>7, <3>2, <4>2, SMTT(40) DEF ApartInv
    <3> QED  BY <3>1, <3>2
  <2>4. ASSUME NEW k \in DOMAIN L, NEW l \in DOMAIN L, L[k] = L[l] PROVE k = l
    <3>1. CASE h = None  BY <1>0, <1>6, <2>4, <3>1, SMTT(40) DEF ApartInv
    <3>2. CASE h # None
      <4>1. h \in Images /\ Held(h) /\ ~Listed(h)  BY <1>0, <1>2, <1>10, <3>2 DEF ApartInv
      <4>2. \A j \in DOMAIN images : images[j] # h  BY <4>1 DEF Listed
      <4> QED  BY <1>0, <1>7, <2>4, <3>2, <4>2, SMTT(40) DEF ApartInv
    <3> QED  BY <3>1, <3>2
  <2>5. \A d, e \in Subscriptions :
          \A k \in DOMAIN sub'[d].images, l \in DOMAIN sub'[e].images :
             sub'[d].images[k] = sub'[e].images[l] => d = e /\ k = l
    <3> SUFFICES ASSUME NEW d \in Subscriptions, NEW e \in Subscriptions,
                        NEW k \in DOMAIN sub'[d].images, NEW l \in DOMAIN sub'[e].images,
                        sub'[d].images[k] = sub'[e].images[l]
                 PROVE  d = e /\ k = l
      OBVIOUS
    <3>1. CASE d # c /\ e # c  BY <1>0, <1>8, <3>1 DEF ApartInv
    <3>2. CASE d = c /\ e # c  BY <1>4, <1>8, <2>3, <3>2
    <3>3. CASE d # c /\ e = c  BY <1>4, <1>8, <2>3, <3>3
    <3>4. CASE d = c /\ e = c  BY <1>4, <1>8, <2>4, <3>4
    <3> QED  BY <3>1, <3>2, <3>3, <3>4
  <2>6. \A i \in Images : /\ InSlots(i)' => ~Held(i)' /\ ~Listed(i)'
                          /\ Held(i)' => ~Listed(i)'
    BY <1>0, <1>9, <1>10 DEF ApartInv
  <2> QED  BY <2>1, <2>2, <2>5, <2>6 DEF ApartInv
<1>16. KeptInv'  BY <1>0, <1>3, <1>11 DEF KeptInv, HandleTypes
<1> QED  BY <1>12, <1>13, <1>14, <1>15, <1>16 DEF HandleInv

\* L is the list images with its last entry moved to at.
Swapped(L, images, at) ==
    /\ Len(images) \in DOMAIN images /\ at \in DOMAIN images
    /\ DOMAIN L = DOMAIN images \ {Len(images)}
    /\ at \in DOMAIN L => L[at] = images[Len(images)]
    /\ \A k \in DOMAIN L : k = at \/ L[k] = images[k]

\* What swap_remove leaves: the entries but the one at the hole, each once.
LEMMA SwapRemoveList ==
    ASSUME NEW S, NEW images \in Seq(S), NEW at \in 1 .. Len(images)
    PROVE  SwapRemove(images, at) \in Seq(S) /\ Swapped(SwapRemove(images, at), images, at)
<1> DEFINE n == Len(images)
           T == [images EXCEPT ![at] = images[n]]
           L == SubSeq(T, 1, n - 1)
<1>1. n \in Nat /\ n >= 1 /\ DOMAIN images = 1 .. n /\ images \in [1 .. n -> S]
  OBVIOUS
<1> HIDE DEF n
<1>2. T \in [1 .. n -> S]  BY <1>1
<1>3. T \in Seq(S) /\ Len(T) = n  BY <1>1, <1>2
<1>4. \A k \in 1 .. n : T[k] = IF k = at THEN images[n] ELSE images[k]  BY <1>1
<1> HIDE DEF T
<1>5. /\ L \in Seq(S) /\ Len(L) = n - 1
      /\ \A k \in 1 .. n - 1 : L[k] = T[k]
  BY <1>1, <1>3
<1> HIDE DEF L
<1>6. DOMAIN L = 1 .. n - 1  BY <1>1, <1>5
<1>7. DOMAIN L = DOMAIN images \ {n}  BY <1>1, <1>6
<1>8. /\ at \in DOMAIN L => L[at] = images[n]
      /\ \A k \in DOMAIN L : k = at \/ L[k] = images[k]
  BY <1>1, <1>4, <1>5, <1>6
<1>9. n \in DOMAIN images /\ at \in DOMAIN images  BY <1>1 DEF n
<1>10. L = SwapRemove(images, at)  BY DEF L, T, n, SwapRemove
<1>11. Swapped(L, images, at)  BY <1>7, <1>8, <1>9 DEF Swapped, n
<1> QED  BY <1>5, <1>10, <1>11

\* The removal of a closed image from a list: the others keep their places, or
\* the last one moves into the hole.
LEMMA RemoveHandles ==
    ASSUME HandleInv, NEW c \in Subscriptions, NEW at \in 1 .. Len(sub[c].images),
           DOMAIN sub = Subscriptions, "images" \in DOMAIN sub[c],
           sub[c].pc # "take_store",
           sub[c].images[at] \in closed,
           sub' = [sub EXCEPT ![c].images = SwapRemove(sub[c].images, at)],
           removed' = removed \cup {sub[c].images[at]},
           UNCHANGED <<state, data, receiver, created, refused, closed>>
    PROVE  HandleInv'
<1> DEFINE images == sub[c].images
           g == images[at]
           n == Len(images)
           L == SwapRemove(images, at)
           m == [sub[c] EXCEPT !.images = L]
<1>0. HandleTypes /\ SlotInv /\ OfferInv /\ ApartInv /\ KeptInv  BY DEF HandleInv
<1>1. images \in Seq(Images)  BY <1>0 DEF HandleTypes
<1>2. /\ L \in Seq(Images) /\ n \in DOMAIN images /\ at \in DOMAIN images
      /\ DOMAIN L = DOMAIN images \ {n}
      /\ at \in DOMAIN L => L[at] = images[n]
      /\ \A k \in DOMAIN L : k = at \/ L[k] = images[k]
  <2>1. at \in 1 .. Len(images)  OBVIOUS
  <2> HIDE DEF images
  <2>2. L \in Seq(Images) /\ Swapped(L, images, at)
    BY <1>1, <2>1, SwapRemoveList, Zenon
  <2> HIDE DEF L
  <2> QED  BY <2>2 DEF Swapped
<1>3. sub' = [sub EXCEPT ![c] = m]  OBVIOUS
<1> HIDE DEF L
<1>4. m.pc = sub[c].pc /\ m.at = sub[c].at /\ m.image = sub[c].image /\ m.images = L
  OBVIOUS
<1> HIDE DEF m
<1>5. \A d \in Subscriptions : sub'[d] = IF d = c THEN m ELSE sub[d]  BY <1>3
<1> HIDE DEF n
<1>6. \A k, l \in DOMAIN images : images[k] = images[l] => k = l
  BY <1>0 DEF ApartInv
<1>7. \A i : (\E k \in DOMAIN L : L[k] = i) <=> (\E k \in DOMAIN images : images[k] = i) /\ i # g
  <2> SUFFICES ASSUME NEW i
               PROVE  (\E k \in DOMAIN L : L[k] = i)
                        <=> (\E k \in DOMAIN images : images[k] = i) /\ i # g
    BY Zenon
  <2>1. ASSUME NEW k \in DOMAIN L, L[k] = i
        PROVE  (\E j \in DOMAIN images : images[j] = i) /\ i # g
    <3>1. CASE k = at  BY <1>2, <1>6, <2>1, <3>1
    <3>2. CASE k # at  BY <1>2, <1>6, <2>1, <3>2
    <3> QED  BY <3>1, <3>2
  <2>2. ASSUME NEW k \in DOMAIN images, images[k] = i, i # g
        PROVE  \E j \in DOMAIN L : L[j] = i
    <3>1. k # at  BY <2>2
    <3>2. CASE k = n
      <4>1. at \in DOMAIN L /\ L[at] = i  BY <1>2, <2>2, <3>1, <3>2
      <4> QED  BY <4>1
    <3>3. CASE k # n
      <4>1. k \in DOMAIN L /\ L[k] = i  BY <1>2, <2>2, <3>1, <3>3
      <4> QED  BY <4>1
    <3> QED  BY <3>2, <3>3
  <2> QED  BY <2>1, <2>2
<1>8. g \in Images  BY <1>1, <1>2
<1>9. \A i \in Images : /\ InSlots(i)' <=> InSlots(i)
                        /\ Held(i)' <=> Held(i)
                        /\ Listed(i)' <=> Listed(i) /\ i # g
  <2> SUFFICES ASSUME NEW i \in Images
               PROVE  /\ InSlots(i)' <=> InSlots(i)
                      /\ Held(i)' <=> Held(i)
                      /\ Listed(i)' <=> Listed(i) /\ i # g
    OBVIOUS
  <2>1. InSlots(i)' <=> InSlots(i)  BY DEF InSlots
  <2>2. Held(i)' <=> Held(i)  BY <1>4, <1>5 DEF Held
  <2>4. Listed(i)' <=> \/ \E k \in DOMAIN L : L[k] = i
                       \/ \E d \in Subscriptions \ {c} :
                            \E k \in DOMAIN sub[d].images : sub[d].images[k] = i
    BY <1>4, <1>5 DEF Listed
  <2>5. Listed(i) <=> \/ \E k \in DOMAIN images : images[k] = i
                      \/ \E d \in Subscriptions \ {c} :
                            \E k \in DOMAIN sub[d].images : sub[d].images[k] = i
    BY DEF Listed
  <2>6. \A d \in Subscriptions \ {c} : \A k \in DOMAIN sub[d].images : sub[d].images[k] # g
    BY <1>0, <1>2 DEF ApartInv
  <2>7. (\E k \in DOMAIN L : L[k] = i) <=> (\E k \in DOMAIN images : images[k] = i) /\ i # g
    BY <1>7, SMTT(40)
  <2> QED  BY <2>1, <2>2, <2>4, <2>5, <2>6, <2>7
<1>10. \A i \in Images : Nowhere(i) => Nowhere(i)'
  BY <1>9 DEF Nowhere
<1>11. \A i \in Images : Nowhere(i)' => Nowhere(i) \/ i = g
  BY <1>9 DEF Nowhere
<1>12. HandleTypes'  BY <1>0, <1>2, <1>4, <1>5 DEF HandleTypes
<1>13. SlotInv'  BY <1>0, <1>4, <1>5 DEF SlotInv
<1>14. OfferInv'
  <2>1. receiver.pc # "idle" => receiver.image \in Images
    BY <1>0 DEF OfferInv, HandleTypes
  <2> QED  BY <1>0, <1>10, <2>1 DEF OfferInv
<1>15. KeptInv'
  BY <1>0, <1>11 DEF KeptInv, HandleTypes
<1>16. ApartInv'
  <2>1. \A d, e \in Subscriptions :
          sub'[d].image = sub'[e].image /\ sub'[d].image # None => d = e
    BY <1>0, <1>4, <1>5 DEF ApartInv
  <2>2. \A k \in DOMAIN L : \E j \in DOMAIN images : L[k] = images[j]
    BY <1>2
  <2>3. ASSUME NEW d \in Subscriptions \ {c}, NEW k \in DOMAIN L,
               NEW l \in DOMAIN sub[d].images
        PROVE  L[k] # sub[d].images[l]
    BY <1>0, <2>2 DEF ApartInv
  <2>4. ASSUME NEW k \in DOMAIN L, NEW l \in DOMAIN L, L[k] = L[l] PROVE k = l
    BY <1>2, <1>6, <2>4
  <2>5. \A d, e \in Subscriptions :
          \A k \in DOMAIN sub'[d].images, l \in DOMAIN sub'[e].images :
             sub'[d].images[k] = sub'[e].images[l] => d = e /\ k = l
    <3> SUFFICES ASSUME NEW d \in Subscriptions, NEW e \in Subscriptions,
                        NEW k \in DOMAIN sub'[d].images, NEW l \in DOMAIN sub'[e].images,
                        sub'[d].images[k] = sub'[e].images[l]
                 PROVE  d = e /\ k = l
      OBVIOUS
    <3>1. CASE d # c /\ e # c  BY <1>0, <1>5, <3>1 DEF ApartInv
    <3>2. CASE d = c /\ e # c  BY <1>4, <1>5, <2>3, <3>2
    <3>3. CASE d # c /\ e = c  BY <1>4, <1>5, <2>3, <3>3
    <3>4. CASE d = c /\ e = c  BY <1>4, <1>5, <2>4, <3>4
    <3> QED  BY <3>1, <3>2, <3>3, <3>4
  <2>6. \A i \in Images : /\ InSlots(i)' => ~Held(i)' /\ ~Listed(i)'
                          /\ Held(i)' => ~Listed(i)'
    BY <1>0, <1>9 DEF ApartInv
  <2>7. \A s, t \in Slots : data'[s] = data'[t] /\ data'[s] # None => s = t
    BY <1>0 DEF ApartInv
  <2> QED  BY <2>1, <2>5, <2>6, <2>7 DEF ApartInv
<1> QED  BY <1>12, <1>13, <1>14, <1>15, <1>16 DEF HandleInv

\* The steps of a poll move each handle from a slot to the local variable of
\* try_take, from there to the list, and out of it when it is closed.
LEMMA PollHandles ==
    ASSUME None \notin Images,
           \A c, d \in Subscriptions : ThreadOf[c] = ThreadOf[d],
           BridgeInv, HandleInv, NEW c \in Subscriptions, Poll(c)
    PROVE  HandleInv'
<1>1. \A d \in Subscriptions \ {c} : BetweenPolls(d)  BY DEF Poll
<1>2. /\ DOMAIN sub = Subscriptions /\ sub[c].at \in Nat \ {0}
      /\ DOMAIN sub[c] = {"pc", "at", "image", "images", "remaining"}
  BY DEF BridgeInv, PollInv
<1>3. CASE PeekLoad(c)
  <2>1. /\ \A d \in Subscriptions \ {c} : sub'[d] = sub[d]
        /\ sub'[c].image = sub[c].image /\ sub'[c].images = sub[c].images
        /\ sub'[c].pc # "take_store" /\ sub[c].pc # "take_store"
    BY <1>2, <1>3 DEF PeekLoad, NextSlot
  <2> QED  BY <1>3, <2>1, PollStays, Zenon DEF PeekLoad
<1>4. CASE PeekRead(c)
  <2>1. /\ \A d \in Subscriptions \ {c} : sub'[d] = sub[d]
        /\ sub'[c].image = sub[c].image /\ sub'[c].images = sub[c].images
        /\ sub'[c].pc # "take_store" /\ sub[c].pc # "take_store"
    BY <1>2, <1>4 DEF PeekRead, NextSlot
  <2> QED  BY <1>4, <2>1, PollStays DEF PeekRead
<1>5. CASE TakeLoad(c)
  <2>1. /\ \A d \in Subscriptions \ {c} : sub'[d] = sub[d]
        /\ sub'[c].image = sub[c].image /\ sub'[c].images = sub[c].images
        /\ sub'[c].pc # "take_store" /\ sub[c].pc # "take_store"
    BY <1>2, <1>5 DEF TakeLoad, NextSlot
  <2> QED  BY <1>5, <2>1, PollStays DEF TakeLoad
<1>6. CASE TakeRead(c)  BY <1>1, <1>6, TakeReadHandles
<1>7. CASE TakeStore(c)  BY <1>1, <1>7, TakeStoreHandles
<1>8. CASE RemoveStep(c)
  <2>1. CASE sub[c].at <= Len(sub[c].images) /\ sub[c].images[sub[c].at] \in closed
    <3>1. sub[c].images \in Seq(Images)  BY DEF HandleInv, HandleTypes
    <3>2. sub[c].at \in 1 .. Len(sub[c].images)  BY <1>2, <2>1, <3>1
    <3>3. /\ sub' = [sub EXCEPT ![c].images = SwapRemove(sub[c].images, sub[c].at)]
          /\ removed' = removed \cup {sub[c].images[sub[c].at]}
          /\ sub[c].pc # "take_store"
          /\ UNCHANGED <<state, data, receiver, created, refused, closed>>
      BY <1>8, <2>1, <3>1, <3>2 DEF RemoveStep
    <3> QED  BY <1>2, <2>1, <3>2, <3>3, RemoveHandles, Zenon
  <2>2. CASE ~(sub[c].at <= Len(sub[c].images) /\ sub[c].images[sub[c].at] \in closed)
    <3>1. Len(sub[c].images) \in Nat  BY DEF HandleInv, HandleTypes
    <3>2. /\ \A d \in Subscriptions \ {c} : sub'[d] = sub[d]
          /\ sub'[c].image = sub[c].image /\ sub'[c].images = sub[c].images
          /\ sub'[c].pc # "take_store" /\ sub[c].pc # "take_store"
          /\ removed' = removed
      BY <1>2, <1>8, <2>2, <3>1 DEF RemoveStep
    <3> QED  BY <1>8, <3>2, PollStays, SMTT(40) DEF RemoveStep
  <2> QED  BY <2>1, <2>2
<1>9. CASE PollImage(c)
  <2>1. /\ \A d \in Subscriptions \ {c} : sub'[d] = sub[d]
        /\ sub'[c].image = sub[c].image /\ sub'[c].images = sub[c].images
        /\ sub'[c].pc # "take_store" /\ sub[c].pc # "take_store"
    BY <1>2, <1>9 DEF PollImage
  <2> QED  BY <1>9, <2>1, PollStays DEF PollImage
<1> QED  BY <1>3, <1>4, <1>5, <1>6, <1>7, <1>8, <1>9 DEF Poll

\* Counting the places of a handle.
LEMMA CountPlaces ==
    ASSUME None \notin Images, HandleInv, NEW i \in Images
    PROVE  Places(i) = IF Nowhere(i) THEN 0 ELSE 1
<1> DEFINE A == {s \in Slots : data[s] = i}
           B == {c \in Subscriptions : sub[c].image = i}
           P == UNION {{c} \X DOMAIN sub[c].images : c \in Subscriptions}
           C == {p \in P : sub[p[1]].images[p[2]] = i}
<1>0. HandleTypes /\ ApartInv  BY DEF HandleInv
<1>1. Places(i) = Cardinality(A) + Cardinality(B) + Cardinality(C)  BY DEF Places
<1>2. /\ InSlots(i) => \E x : A = {x}
      /\ ~InSlots(i) => A = {}
  BY <1>0 DEF InSlots, ApartInv
<1>3. /\ Held(i) => \E x : B = {x}
      /\ ~Held(i) => B = {}
  BY <1>0 DEF Held, ApartInv
<1>4. /\ Listed(i) => \E x : C = {x}
      /\ ~Listed(i) => C = {}
  <2>1. \A p \in C : \E c \in Subscriptions : \E k \in DOMAIN sub[c].images :
          p = <<c, k>> /\ sub[c].images[k] = i
    <3> TAKE p \in C
    <3>1. PICK c \in Subscriptions : p \in {c} \X DOMAIN sub[c].images  OBVIOUS
    <3>2. PICK k \in DOMAIN sub[c].images : p = <<c, k>>  BY <3>1
    <3>3. sub[p[1]].images[p[2]] = i  OBVIOUS
    <3>4. p[1] = c /\ p[2] = k  BY <3>2
    <3> QED  BY <3>2, <3>3, <3>4
  <2>2. \A c \in Subscriptions : \A k \in DOMAIN sub[c].images :
          sub[c].images[k] = i => <<c, k>> \in C
    <3> TAKE c \in Subscriptions
    <3> TAKE k \in DOMAIN sub[c].images
    <3> HAVE sub[c].images[k] = i
    <3> DEFINE p == <<c, k>>
    <3>1. p \in {c} \X DOMAIN sub[c].images /\ p[1] = c /\ p[2] = k  OBVIOUS
    <3> HIDE DEF p
    <3>2. p \in P  BY <3>1
    <3>3. sub[p[1]].images[p[2]] = i  BY <3>1
    <3> QED  BY <3>2, <3>3 DEF p
  <2> HIDE DEF C
  <2>3. ASSUME Listed(i) PROVE \E x : C = {x}
    <3>1. PICK c \in Subscriptions : \E k \in DOMAIN sub[c].images : sub[c].images[k] = i
      BY <2>3 DEF Listed
    <3>2. PICK k \in DOMAIN sub[c].images : sub[c].images[k] = i  BY <3>1
    <3>3. <<c, k>> \in C  BY <2>2, <3>2
    <3>4. \A p \in C : p = <<c, k>>
      BY <1>0, <2>1, <3>2 DEF ApartInv
    <3> QED  BY <3>3, <3>4
  <2>4. ASSUME ~Listed(i) PROVE C = {}  BY <2>1, <2>4 DEF Listed
  <2> QED  BY <2>3, <2>4
<1> HIDE DEF A, B, C
<1>5. /\ Cardinality(A) = IF InSlots(i) THEN 1 ELSE 0
      /\ Cardinality(B) = IF Held(i) THEN 1 ELSE 0
      /\ Cardinality(C) = IF Listed(i) THEN 1 ELSE 0
  BY <1>2, <1>3, <1>4, FS_EmptySet, FS_Singleton, Zenon
<1>6. InSlots(i) => ~Held(i) /\ ~Listed(i)  BY <1>0 DEF ApartInv
<1>7. Held(i) => ~Listed(i)  BY <1>0 DEF ApartInv
<1> QED  BY <1>1, <1>5, <1>6, <1>7 DEF Nowhere

\* One client thread: the handle of an image moves from the receiver to one
\* slot, to one subscription, and out of its list once the image is closed; it
\* is never copied, lost or overwritten, for any number of each.
THEOREM HandlesMove ==
    ASSUME None \notin Images, \A c, d \in Subscriptions : ThreadOf[c] = ThreadOf[d]
    PROVE  Spec => []HandleMoved
<1> DEFINE I == BridgeInv /\ HandleInv
<1>1. Init => I  BY InitBridge, InitHandles
<1>2. I /\ [Next]_vars => I'
  <2> SUFFICES ASSUME BridgeInv, HandleInv, [Next]_vars PROVE BridgeInv' /\ HandleInv'
    OBVIOUS
  <2>1. CASE Receiver  BY <2>1, ReceiverBridge, ReceiverHandles
  <2>2. ASSUME NEW c \in Subscriptions, Poll(c) PROVE BridgeInv' /\ HandleInv'
    BY <2>2, PollBridge, PollHandles
  <2>3. CASE UNCHANGED vars
    <3>1. BridgeInv'  BY <2>3 DEF BridgeInv, DepositInv, PollInv, BetweenPolls, vars
    <3>2. UNCHANGED <<state, data, receiver, sub, created, refused, closed, removed>>
      BY <2>3 DEF vars
    <3>3. ApartInv' /\ \A j : Nowhere(j)' <=> Nowhere(j)
      BY <3>2, HandlesStay DEF HandleInv
    <3>4. HandleTypes' /\ SlotInv'  BY <3>2 DEF HandleInv, HandleTypes, SlotInv
    <3>5. OfferInv' /\ KeptInv'  BY <3>2, <3>3 DEF HandleInv, OfferInv, KeptInv
    <3> QED  BY <3>1, <3>3, <3>4, <3>5, SMTT(40) DEF HandleInv
  <2> QED  BY <2>1, <2>2, <2>3 DEF Next
<1>3. I => HandleMoved
  <2> SUFFICES ASSUME HandleInv PROVE HandleMoved  OBVIOUS
  <2>1. \A i \in Images : Places(i) = IF Nowhere(i) THEN 0 ELSE 1  BY CountPlaces
  <2>2. \A i \in Images : Places(i) <= 1  BY <2>1
  <2>3. \A i \in created : i \in Images  BY DEF HandleInv, HandleTypes
  <2> QED  BY <2>1, <2>2, <2>3 DEF HandleInv, KeptInv, HandleMoved
<1> QED  BY <1>1, <1>2, <1>3, PTL DEF Spec
=============================================================================
