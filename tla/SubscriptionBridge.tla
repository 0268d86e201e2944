------------------------ MODULE SubscriptionBridge ------------------------
(***************************************************************************)
(* The slot bridge between threads (client/sub_bridge.rs) and the image    *)
(* list of the subscriptions behind it (client/subscription.rs).  The      *)
(* receiver deposits the handle of a new image; a subscription peeks at    *)
(* each slot, takes the images of its stream, drops closed ones and polls  *)
(* the rest.                                                               *)
(* PublicationBridge and RecvEndpointBridge are the same slot machine with *)
(* one consumer that takes without peeking.                                *)
(*                                                                         *)
(* Every atomic load or store of a slot's state is a step, and so is every *)
(* access to its data.  A read of data that another thread is changing     *)
(* may yield anything.                                                     *)
(***************************************************************************)
EXTENDS Naturals, Sequences, FiniteSets, Functions

CONSTANTS
    Capacity,        \* SUB_BRIDGE_CAPACITY
    Images,          \* the images Setup frames create
    Subscriptions,   \* the Subscription objects
    Threads,         \* the client threads
    ThreadOf,        \* the thread that polls each subscription
    Streams,         \* stream ids
    StreamOf,        \* the stream of each image and of each subscription
    MAX_SUB_IMAGES,
    Limit            \* the fragments a call of poll asks for

ASSUME BridgeAssumption ==
    /\ {Capacity, MAX_SUB_IMAGES, Limit} \subseteq Nat \ {0}
    /\ ThreadOf \in [Subscriptions -> Threads]
    /\ StreamOf \in [Images \cup Subscriptions -> Streams]

Slots == 1 .. Capacity
None == "none"

VARIABLES
    state,      \* the atomic state of each slot
    data,       \* the image handle in each slot
    receiver,   \* the receiver's deposit: [pc, at, image]
    sub,        \* each subscription's poll: [pc, at, image, images, remaining]
    created,    \* the images that were set up
    refused,    \* the images deposit found no slot for
    closed,     \* the images the receiver closed
    removed,    \* the images a subscription dropped from its list
    polled      \* the images whose fragments a subscription asked for

vars == <<state, data, receiver, sub, created, refused, closed, removed, polled>>

Init ==
    /\ state = [s \in Slots |-> "EMPTY"]
    /\ data = [s \in Slots |-> None]
    /\ receiver = [pc |-> "idle", at |-> 1, image |-> None]
    /\ sub = [c \in Subscriptions |->
                [pc |-> "peek", at |-> 1, image |-> None, images |-> <<>>,
                 remaining |-> 0]]
    /\ created = {}
    /\ refused = {}
    /\ closed = {}
    /\ removed = {}
    /\ polled = {}

-----------------------------------------------------------------------------
(***************************************************************************)
(* deposit, on the receiver's thread.                                      *)
(***************************************************************************)

DepositBegin(i) ==
    /\ receiver.pc = "idle"
    /\ i \notin created
    /\ receiver' = [pc |-> "load", at |-> 1, image |-> i]
    /\ created' = created \cup {i}
    /\ UNCHANGED <<state, data, sub, refused, closed, removed, polled>>

\* A slip: the state of the slot is not looked at.
DepositLoadBlind ==
    /\ receiver.pc = "load"
    /\ receiver' = [receiver EXCEPT !.pc = "write"]
    /\ UNCHANGED <<state, data, sub, created, refused, closed, removed, polled>>

DepositLoad ==
    /\ receiver.pc = "load"
    /\ IF receiver.at > Capacity
       THEN /\ receiver' = [pc |-> "idle", at |-> 1, image |-> None]
            /\ refused' = refused \cup {receiver.image}
       ELSE /\ receiver' = IF state[receiver.at] = "EMPTY"
                           THEN [receiver EXCEPT !.pc = "write"]
                           ELSE [receiver EXCEPT !.at = @ + 1]
            /\ UNCHANGED refused
    /\ UNCHANGED <<state, data, sub, created, closed, removed, polled>>

DepositWrite ==
    /\ receiver.pc = "write"
    /\ data' = [data EXCEPT ![receiver.at] = receiver.image]
    /\ receiver' = [receiver EXCEPT !.pc = "store"]
    /\ UNCHANGED <<state, sub, created, refused, closed, removed, polled>>

DepositStore ==
    /\ receiver.pc = "store"
    /\ state' = [state EXCEPT ![receiver.at] = "FILLED"]
    /\ receiver' = [pc |-> "idle", at |-> 1, image |-> None]
    /\ UNCHANGED <<data, sub, created, refused, closed, removed, polled>>

\* remove_image closes the shared buffer of an image it has set up.
Close(i) ==
    /\ receiver.pc = "idle"
    /\ i \in created \ closed
    /\ closed' = closed \cup {i}
    /\ UNCHANGED <<state, data, receiver, sub, created, refused, removed, polled>>

-----------------------------------------------------------------------------
(***************************************************************************)
(* Subscription::poll on a client thread: drain_bridge, then               *)
(* remove_closed_images.                                                   *)
(***************************************************************************)

\* The threads whose next step reads, or changes, the data of slot s; a take
\* does both.
Changing(s) ==
    {c \in Subscriptions : sub[c].pc = "take_read" /\ sub[c].at = s}
      \cup (IF receiver.pc = "write" /\ receiver.at = s THEN {"receiver"} ELSE {})
Touching(s) ==
    {c \in Subscriptions : sub[c].pc = "peek_read" /\ sub[c].at = s}
      \cup Changing(s)

\* What a read of slot s by c may yield.
Reads(c, s) ==
    IF Changing(s) \subseteq {c} THEN {data[s]} ELSE Range(data) \cup {None}

\* The drain goes on with the next slot.
NextSlot(c) == [sub EXCEPT ![c].pc = "peek", ![c].at = @ + 1]

\* peek_stream_id's load, and the end of the drain.
PeekLoad(c) ==
    /\ sub[c].pc = "peek"
    /\ sub' = IF sub[c].at > Capacity \/ Len(sub[c].images) >= MAX_SUB_IMAGES
              THEN [sub EXCEPT ![c].pc = "remove", ![c].at = 1]
              ELSE IF state[sub[c].at] = "FILLED"
                   THEN [sub EXCEPT ![c].pc = "peek_read"]
                   ELSE NextSlot(c)
    /\ UNCHANGED <<state, data, receiver, created, refused, closed, removed, polled>>

\* An image of the subscription's stream.
OwnStream(c, i) == i # None /\ StreamOf[i] = StreamOf[c]

PeekRead(c) ==
    /\ sub[c].pc = "peek_read"
    /\ \E i \in Reads(c, sub[c].at) :
         sub' = IF OwnStream(c, i) THEN [sub EXCEPT ![c].pc = "take"]
                                   ELSE NextSlot(c)
    /\ UNCHANGED <<state, data, receiver, created, refused, closed, removed, polled>>

\* try_take loads the state again, takes the data, then frees the slot.
TakeLoad(c) ==
    /\ sub[c].pc = "take"
    /\ sub' = IF state[sub[c].at] = "FILLED"
              THEN [sub EXCEPT ![c].pc = "take_read"]
              ELSE NextSlot(c)
    /\ UNCHANGED <<state, data, receiver, created, refused, closed, removed, polled>>

TakeRead(c) ==
    /\ sub[c].pc = "take_read"
    /\ \E i \in Reads(c, sub[c].at) :
         sub' = [sub EXCEPT ![c].pc = "take_store", ![c].image = i]
    /\ data' = [data EXCEPT ![sub[c].at] = None]
    /\ UNCHANGED <<state, receiver, created, refused, closed, removed, polled>>

TakeStore(c) ==
    /\ sub[c].pc = "take_store"
    /\ state' = [state EXCEPT ![sub[c].at] = "EMPTY"]
    /\ sub' = [sub EXCEPT ![c].pc = "peek", ![c].at = @ + 1, ![c].image = None,
                          ![c].images = IF sub[c].image = None THEN @
                                        ELSE Append(@, sub[c].image)]
    /\ UNCHANGED <<data, receiver, created, refused, closed, removed, polled>>

\* A slip: the last image is cut off without taking the hole's place.
CutLast(images, at) == SubSeq(images, 1, Len(images) - 1)

\* The last image moves into the hole.
SwapRemove(images, at) ==
    SubSeq([images EXCEPT ![at] = images[Len(images)]], 1, Len(images) - 1)

\* One turn of remove_closed_images; after the last one the images are polled.
RemoveStep(c) ==
    /\ sub[c].pc = "remove"
    /\ LET images == sub[c].images
           at     == sub[c].at
       IN  IF at > Len(images)
           THEN /\ sub' = [sub EXCEPT ![c].pc = "poll", ![c].at = 1,
                                      ![c].remaining = Limit]
                /\ UNCHANGED removed
           ELSE IF images[at] \in closed
           THEN /\ sub' = [sub EXCEPT ![c].images = SwapRemove(images, at)]
                /\ removed' = removed \cup {images[at]}
           ELSE /\ sub' = [sub EXCEPT ![c].at = at + 1]
                /\ UNCHANGED removed
    /\ UNCHANGED <<state, data, receiver, created, refused, closed, polled>>

\* A slip: an image may use all that is left of the limit.
AllToOne(remaining, images_left) == remaining

\* The share of what is left of the limit that an image may use.
PerImage(remaining, images_left) ==
    IF remaining < images_left THEN 1 ELSE remaining \div images_left

\* poll_fragments on the next image delivers up to its share; the loop ends
\* with the limit or the list, and the next poll begins.
PollImage(c) ==
    /\ sub[c].pc = "poll"
    /\ LET images    == sub[c].images
           at        == sub[c].at
           remaining == sub[c].remaining
       IN  IF at > Len(images) \/ remaining = 0
           THEN /\ sub' = [sub EXCEPT ![c].pc = "peek", ![c].at = 1,
                                      ![c].remaining = 0]
                /\ UNCHANGED polled
           ELSE /\ \E fragments \in 0 .. PerImage(remaining, Len(images) - at + 1) :
                     sub' = [sub EXCEPT ![c].at = at + 1,
                                        ![c].remaining = remaining - fragments]
                /\ polled' = polled \cup {images[at]}
    /\ UNCHANGED <<state, data, receiver, created, refused, closed, removed>>

-----------------------------------------------------------------------------

Receiver ==
    \/ \E i \in Images : DepositBegin(i) \/ Close(i)
    \/ DepositLoad
    \/ DepositWrite
    \/ DepositStore

BetweenPolls(c) == sub[c].pc = "peek" /\ sub[c].at = 1

\* A thread polls one of its subscriptions after another.
Poll(c) ==
    /\ \A d \in Subscriptions \ {c} :
         ThreadOf[d] = ThreadOf[c] => BetweenPolls(d)
    /\ \/ PeekLoad(c)
       \/ PeekRead(c)
       \/ TakeLoad(c)
       \/ TakeRead(c)
       \/ TakeStore(c)
       \/ RemoveStep(c)
       \/ PollImage(c)

Next == Receiver \/ \E c \in Subscriptions : Poll(c)

\* The receiver finishes a deposit it began; each subscription is polled
\* again and again.
Fairness ==
    /\ WF_vars(DepositLoad \/ DepositWrite \/ DepositStore)
    /\ \A c \in Subscriptions : SF_vars(Poll(c))

Spec == Init /\ [][Next]_vars /\ Fairness

-----------------------------------------------------------------------------
(***************************************************************************)
(* Properties.                                                             *)
(***************************************************************************)

\* Types of the slots and the image lists; drain_bridge keeps within the
\* list of a subscription.
TypeOK ==
    /\ state \in [Slots -> {"EMPTY", "FILLED"}]
    /\ data \in [Slots -> Images \cup {None}]
    /\ receiver \in [pc : {"idle", "load", "write", "store"},
                     at : 1 .. Capacity + 1, image : Images \cup {None}]
    /\ \A c \in Subscriptions :
         /\ sub[c].pc \in {"peek", "peek_read", "take", "take_read",
                           "take_store", "remove", "poll"}
         /\ sub[c].image \in Images \cup {None}
         /\ sub[c].images \in Seq(Images)
         /\ Len(sub[c].images) <= MAX_SUB_IMAGES
         /\ sub[c].remaining \in 0 .. Limit
    /\ created \cup refused \cup closed \cup removed \cup polled \subseteq Images

\* Data is written under EMPTY and read under FILLED: no thread is about to
\* change the data of a slot while another one is about to touch it.
NoConcurrentAccess ==
    \A s \in Slots : Changing(s) # {} => Cardinality(Touching(s)) = 1

\* In how many places the handle of image i is.
Places(i) ==
    Cardinality({s \in Slots : data[s] = i})
      + Cardinality({c \in Subscriptions : sub[c].image = i})
      + Cardinality({p \in UNION {{c} \X DOMAIN sub[c].images : c \in Subscriptions} :
                       sub[p[1]].images[p[2]] = i})

\* A handle moves and is never copied nor dropped: from the deposit on it is
\* in one slot or with one subscription, until that one removes it closed.
HandleMoved ==
    /\ \A i \in Images : Places(i) <= 1
    /\ \A i \in created :
         \/ Places(i) = 1
         \/ i \in refused \cup {receiver.image}
         \/ i \in removed \cap closed

\* A subscription ends up with every image of its stream that was deposited,
\* unless its list is full, and gets to poll every image of its list: the
\* ones at the front do not use up the limit of every call.
DepositedIsPolled ==
    \A i \in Images, c \in Subscriptions :
      /\ (i \in Range(data) /\ StreamOf[i] = StreamOf[c])
           ~> (\/ i \in Range(sub[c].images) \cup removed
               \/ Len(sub[c].images) = MAX_SUB_IMAGES)
      /\ i \in Range(sub[c].images) ~> i \in polled \cup removed
=============================================================================
