------------------------- MODULE RegistrationProofs -------------------------
(***************************************************************************)
(* The CnC region outlives every use of it, and the handles of             *)
(* publications and subscriptions are moved, never copied nor lost, for    *)
(* any number of clients, threads and slots.                               *)
(***************************************************************************)
EXTENDS Registration, TLAPS

AgentFields == {"running", "pc", "at", "item"}
ClientFields == {"state", "next_correlation_id", "next_session_id"}

\* While a client is open so is its driver; while the driver is open nobody
\* has told the conductor to stop, and only the end of the conductor's thread
\* unmaps the region.
RegionInv ==
    /\ DOMAIN driver = {"state", "at"}
    /\ DOMAIN agent = Agents
    /\ \A a \in Agents : DOMAIN agent[a] = AgentFields
    /\ DOMAIN client = Clients
    /\ \A c \in Clients : DOMAIN client[c] = ClientFields
    /\ driver.state = "open" => cnc = "mapped" /\ agent["conductor"].running
    /\ \A c \in Clients : client[c].state = "open" => driver.state = "open"

\* Nothing is mapped or open before launch.
LEMMA InitRegion == Init => RegionInv
  BY DEF Init, RegionInv, AgentFields, ClientFields, Agents

\* Every step of clients, agents and owner keeps that, when clients are dropped
\* before the driver is closed.
LEMMA NextRegion ==
    ASSUME ClientsOutlive = FALSE, RegionInv, [Next]_vars
    PROVE  RegionInv'
<1> USE DEF RegionInv, AgentFields, ClientFields, Agents
<1>1. CASE launch
  BY <1>1, Zenon DEF launch, start
<1>2. CASE CloseBegin
  BY <1>2, ClientsOutlive = FALSE DEF CloseBegin
<1>3. CASE CloseStop
  BY <1>3 DEF CloseStop, stop
<1>4. CASE join
  BY <1>4 DEF join
<1>5. ASSUME NEW a \in Agents, RunEnds(a) PROVE RegionInv'
  BY <1>5 DEF RunEnds
<1>6. CASE ConductorWork
  BY <1>6 DEF ConductorWork
<1>7. ASSUME NEW k \in Kinds, TakeLoad(k) \/ TakeData(k) \/ TakeStore(k)
      PROVE  RegionInv'
  <2>1. AgentOf[k] \in Agents
    BY DEF Kinds, AgentOf
  <2>2. CASE TakeLoad(k)
    BY <2>1, <2>2, Zenon DEF TakeLoad
  <2>3. CASE TakeData(k)
    BY <2>1, <2>3, SMTT(40) DEF TakeData
  <2>4. CASE TakeStore(k)
    BY <2>1, <2>4 DEF TakeStore
  <2> QED BY <1>7, <2>2, <2>3, <2>4
<1>8. ASSUME NEW a \in Agents, Agent(a) PROVE RegionInv'
  BY <1>5, <1>6, <1>7, <1>8
     DEF Agent, poll_publication_bridge, poll_recv_endpoint_bridge, Kinds
<1>9. ASSUME NEW c \in Clients, Client(c) PROVE RegionInv'
  <2>1. CASE connect(c)
    BY <2>1 DEF connect
  <2>2. CASE Drop(c)
    BY <2>2 DEF Drop
  <2>3. ASSUME NEW type, Notify(c, type) PROVE RegionInv'
    BY <2>3 DEF Notify
  <2>4. ASSUME NEW channel, NEW stream, add_publication(c, channel, stream)
        PROVE  RegionInv'
    BY <2>4 DEF add_publication
  <2>5. ASSUME NEW channel, NEW stream, add_subscription(c, channel, stream)
        PROVE  RegionInv'
    BY <2>5, SMTT(40) DEF add_subscription
  <2> QED BY <1>9, <2>1, <2>2, <2>3, <2>4, <2>5 DEF Client
<1>10. ASSUME NEW t \in Threads, Call(t) PROVE RegionInv'
  BY <1>10, Zenon DEF Call, DepositLoad, DepositWrite, DepositStore,
               send_add_publication, SendAddSubscription
<1>11. ASSUME NEW cmd, AskRemoval(cmd) PROVE RegionInv'
  BY <1>11 DEF AskRemoval
<1>12. CASE UNCHANGED vars
  BY <1>12 DEF vars
<1> QED
  BY <1>1, <1>2, <1>3, <1>4, <1>8, <1>9, <1>10, <1>11, <1>12 DEF Next, Close

(***************************************************************************)
(* When the application drops its clients before it closes the driver, as  *)
(* the driver's documentation shows, connect, heartbeat and the add calls  *)
(* never touch a region that is gone.                                      *)
(***************************************************************************)
THEOREM RegionOutlivesClients ==
    ASSUME ClientsOutlive = FALSE
    PROVE  Spec => []MappedForClients
<1>1. Init => RegionInv
  BY InitRegion
<1>2. RegionInv /\ [Next]_vars => RegionInv'
  BY NextRegion, ClientsOutlive = FALSE, Zenon
<1>3. RegionInv => MappedForClients
  BY DEF RegionInv, MappedForClients
<1> QED BY <1>1, <1>2, <1>3, PTL DEF Spec

-----------------------------------------------------------------------------
(***************************************************************************)
(* A handle is in one place, when one application thread uses all clients: *)
(* a bridge has one producer.  The argument looks at the state through a   *)
(* few reads: of a thread's call, of a slot, of an agent's scan and of an  *)
(* agent's list.                                                           *)
(***************************************************************************)

OneProducer == \A c, d \in Clients : ThreadOf[c] = ThreadOf[d]

\* What calls hand over.
Handles ==
    [kind : Kinds, client : Clients, channel : Channels, stream_id : Streams,
     correlation_id : Nat, session_id : Nat]

KindOf(h) == h.kind

\* What a slot or a hand holds.
MaybeHandle == Handles \cup {None}

\* The reads.
Pc(t)   == thread[t].pc
Try(t)  == thread[t].at
Item(t) == thread[t].item

State(k, s) == bridge[k].state[s]
Data(k, s)  == bridge[k].data[s]

Doing(a) == agent[a].pc
Scan(a)  == agent[a].at
Hand(a)  == agent[a].item

Listed(k, i, h) == i \in DOMAIN served[k] /\ served[k][i] = h

\* The correlation id of h is one its client has given away.
Counted(h) == h.correlation_id < client[h.client].next_correlation_id

\* Handle h is in place i of the kind w; Places counts them.
At(h, w, i) ==
    \/ w = "call" /\ i \in Threads /\ Pc(i) \in {"load", "write"} /\ Item(i) = h
    \/ w = "slot" /\ i \in Slots /\ Data(KindOf(h), i) = h
    \/ w = "hand" /\ i \in Agents /\ Hand(i) = h
    \/ w = "list" /\ Listed(KindOf(h), i, h)
    \/ w = "drop" /\ i = h /\ h \in dropped

Somewhere(h) == \E w, i : At(h, w, i)

\* Calls have handed h over, or are handing it over.
Known(h) == h \in DOMAIN outcome \/ \E t \in Threads : Item(t) = h

ThreadRecord == [pc : {"idle", "load", "write", "store", "send"}, at : Nat \ {0},
                 item : Handles \cup {None}]
BridgeRecord == [state : [Slots -> {"EMPTY", "FILLED"}], data : [Slots -> Handles \cup {None}]]
AgentRecord  == [running : BOOLEAN, pc : {"none", "load", "take", "store", "done"},
                 at : Slots, item : Handles \cup {None}]
ClientRecord == [state : {"none", "open", "dropped"},
                 next_correlation_id : Nat, next_session_id : Nat]

HandleTypes ==
    /\ thread \in [Threads -> ThreadRecord]
    /\ bridge \in [Kinds -> BridgeRecord]
    /\ agent \in [Agents -> AgentRecord]
    /\ served \in [Kinds -> Seq(Handles)]
    /\ client \in [Clients -> ClientRecord]
    /\ dropped \subseteq Handles
    /\ DOMAIN outcome \subseteq Handles

\* Calls run on one thread.
CallInv ==
    /\ \A t \in Threads : Pc(t) = "idle" <=> Item(t) = None
    /\ \A t \in Threads : Pc(t) # "idle" => \E c \in Clients : t = ThreadOf[c]

\* Before launch no agent runs.
LaunchInv ==
    /\ DOMAIN driver = {"state", "at"}
    /\ driver.state = "none" => \A a \in Agents : Doing(a) = "none"

\* The agent relies on a FILLED slot while it takes, and holds a handle of its
\* kind between the two steps of a take only.
TakeInv ==
    /\ \A k \in Kinds, a \in Agents, s \in Slots : a = AgentOf[k] /\ Scan(a) = s =>
         /\ Doing(a) \in {"take", "store"} => State(k, s) = "FILLED"
         /\ Doing(a) = "store" => Data(k, s) = None
    /\ \A k \in Kinds, a \in Agents :
         a = AgentOf[k] /\ Hand(a) # None => KindOf(Hand(a)) = k
    /\ \A a \in Agents : Doing(a) # "store" => Hand(a) = None

\* The producer relies on an EMPTY slot, and has it to itself.
DepositInv ==
    /\ \A t \in Threads : Pc(t) \in {"write", "store"} => Try(t) \in Slots
    /\ \A t \in Threads, k \in Kinds, s \in Slots :
         Pc(t) \in {"write", "store"} /\ KindOf(Item(t)) = k /\ Try(t) = s =>
           State(k, s) = "EMPTY"
    /\ \A k \in Kinds, s \in Slots : State(k, s) = "EMPTY" =>
         \/ Data(k, s) = None
         \/ \E t \in Threads : Pc(t) = "store" /\ KindOf(Item(t)) = k /\ Try(t) = s

\* A bridge holds handles of its kind.
KindInv == \A k \in Kinds, s \in Slots : Data(k, s) # None => KindOf(Data(k, s)) = k

\* No handle was made with a correlation id its client has not counted yet.
MadeInv  == \A h \in Handles : Somewhere(h) \/ Known(h) => Counted(h)

ApartInv == \A h \in Handles : \A w, v, i, j : At(h, w, i) /\ At(h, v, j) => w = v /\ i = j
KeptInv  == \A h \in Handles : Known(h) => Somewhere(h)

\* The inductive invariant.
OnceInv ==
    /\ HandleTypes
    /\ CallInv
    /\ LaunchInv
    /\ TakeInv
    /\ DepositInv
    /\ KindInv
    /\ MadeInv
    /\ ApartInv
    /\ KeptInv

\* Each bridge has its own agent.
LEMMA AgentsOfBridges ==
    /\ \A k \in Kinds : AgentOf[k] \in Agents
    /\ \A k, l \in Kinds : AgentOf[k] = AgentOf[l] => k = l
  BY DEF Kinds, Agents, AgentOf

\* The record that stands for no handle is none, and handles have a kind.
LEMMA HandleFacts == \A h \in Handles : h # None /\ KindOf(h) \in Kinds
  BY DEF Handles, None, KindOf

\* A handle stays where it is when all the places stay as they are.
LEMMA AtSame ==
    ASSUME NEW h \in Handles,
           \A u \in Threads : (Pc(u)' \in {"load", "write"} /\ Item(u)' = h)
                                <=> (Pc(u) \in {"load", "write"} /\ Item(u) = h),
           \A k \in Kinds, s \in Slots : Data(k, s)' = Data(k, s),
           \A a \in Agents : Hand(a)' = Hand(a),
           \A k, i : Listed(k, i, h)' <=> Listed(k, i, h),
           h \in dropped' <=> h \in dropped
    PROVE  \A w, i : At(h, w, i)' <=> At(h, w, i)
<1> SUFFICES ASSUME NEW w, NEW i PROVE At(h, w, i)' <=> At(h, w, i)
  OBVIOUS
<1> DEFINE k == KindOf(h)
<1>1. k \in Kinds  BY HandleFacts, Zenon
<1>2. i \in Slots => Data(k, i)' = Data(k, i)  BY <1>1, Zenon
<1>3. Listed(k, i, h)' <=> Listed(k, i, h)  BY Zenon
<1>4. At(h, w, i) <=>
        \/ w = "call" /\ i \in Threads /\ Pc(i) \in {"load", "write"} /\ Item(i) = h
        \/ w = "slot" /\ i \in Slots /\ Data(k, i) = h
        \/ w = "hand" /\ i \in Agents /\ Hand(i) = h
        \/ w = "list" /\ Listed(k, i, h)
        \/ w = "drop" /\ i = h /\ h \in dropped
  BY Zenon DEF At
<1>5. At(h, w, i)' <=>
        \/ w = "call" /\ i \in Threads /\ Pc(i)' \in {"load", "write"} /\ Item(i)' = h
        \/ w = "slot" /\ i \in Slots /\ Data(k, i)' = h
        \/ w = "hand" /\ i \in Agents /\ Hand(i)' = h
        \/ w = "list" /\ Listed(k, i, h)'
        \/ w = "drop" /\ i = h /\ h \in dropped'
  BY Zenon DEF At
<1> HIDE DEF k
<1> QED  BY <1>2, <1>3, <1>4, <1>5, Zenon

\* What the types say of the reads.
LEMMA ReadTypes ==
    ASSUME HandleTypes
    PROVE  /\ \A t \in Threads : /\ Pc(t) \in {"idle", "load", "write", "store", "send"}
                                 /\ Try(t) \in Nat \ {0}
                                 /\ Item(t) \in Handles \cup {None}
           /\ \A k \in Kinds, s \in Slots : Data(k, s) \in Handles \cup {None}
           /\ \A a \in Agents : Scan(a) \in Slots /\ Hand(a) \in Handles \cup {None}
<1>1. /\ \A t \in Threads : thread[t] \in ThreadRecord
      /\ \A k \in Kinds : bridge[k] \in BridgeRecord
      /\ \A a \in Agents : agent[a] \in AgentRecord
  BY DEF HandleTypes
<1>2. \A t \in Threads : /\ Pc(t) \in {"idle", "load", "write", "store", "send"}
                         /\ Try(t) \in Nat \ {0}
                         /\ Item(t) \in Handles \cup {None}
  BY <1>1 DEF ThreadRecord, Pc, Try, Item
<1>3. \A k \in Kinds, s \in Slots : Data(k, s) \in Handles \cup {None}
  BY <1>1 DEF BridgeRecord, Data
<1>4. \A a \in Agents : Scan(a) \in Slots /\ Hand(a) \in Handles \cup {None}
  BY <1>1 DEF AgentRecord, Scan, Hand
<1> QED  BY <1>2, <1>3, <1>4

\* A call that is not written reads as before.
LEMMA SameCalls ==
    ASSUME thread' = thread
    PROVE  \A t \in Threads : Pc(t)' = Pc(t) /\ Try(t)' = Try(t) /\ Item(t)' = Item(t)
  BY DEF Pc, Try, Item

\* So does a bridge.
LEMMA SameSlots ==
    ASSUME bridge' = bridge
    PROVE  \A k \in Kinds, s \in Slots : State(k, s)' = State(k, s) /\ Data(k, s)' = Data(k, s)
  BY DEF State, Data

\* So does an agent.
LEMMA SameAgents ==
    ASSUME agent' = agent
    PROVE  \A a \in Agents : Doing(a)' = Doing(a) /\ Scan(a)' = Scan(a) /\ Hand(a)' = Hand(a)
  BY DEF Doing, Scan, Hand

\* So does a list.
LEMMA SameLists ==
    ASSUME served' = served
    PROVE  \A k, i, h : Listed(k, i, h)' <=> Listed(k, i, h)
  BY DEF Listed

\* So does what clients have counted.
LEMMA SameCounts ==
    ASSUME client' = client
    PROVE  \A h \in Handles : Counted(h) => Counted(h)'
  BY DEF Counted

\* A thread's call or an agent is replaced by m, the data of a slot by g, its
\* state by v.
WritesCall(t, m)     == thread' = [thread EXCEPT ![t] = m]
WritesAgent(b, m)    == agent' = [agent EXCEPT ![b] = m]
WritesData(k, s, g)  == bridge' = [bridge EXCEPT ![k].data[s] = g]
WritesState(k, s, v) == bridge' = [bridge EXCEPT ![k].state[s] = v]

\* The call of a thread that is in none.
NoCall == [pc |-> "idle", at |-> 1, item |-> None]

\* What the write of a call changes.
LEMMA CallWritten ==
    ASSUME HandleTypes, NEW t \in Threads, NEW m \in ThreadRecord, WritesCall(t, m)
    PROVE  /\ thread' \in [Threads -> ThreadRecord]
           /\ Pc(t)' = m.pc /\ Try(t)' = m.at /\ Item(t)' = m.item
           /\ \A u \in Threads \ {t} : Pc(u)' = Pc(u) /\ Try(u)' = Try(u) /\ Item(u)' = Item(u)
<1>1. thread \in [Threads -> ThreadRecord]  BY DEF HandleTypes
<1>2. thread' \in [Threads -> ThreadRecord] /\ thread'[t] = m
      /\ \A u \in Threads \ {t} : thread'[u] = thread[u]
  BY <1>1 DEF WritesCall
<1> QED  BY <1>2 DEF Pc, Try, Item

\* What the write of an agent changes.
LEMMA AgentWritten ==
    ASSUME HandleTypes, NEW b \in Agents, NEW m \in AgentRecord, WritesAgent(b, m)
    PROVE  /\ agent' \in [Agents -> AgentRecord]
           /\ Doing(b)' = m.pc /\ Scan(b)' = m.at /\ Hand(b)' = m.item
           /\ \A a \in Agents \ {b} : Doing(a)' = Doing(a) /\ Scan(a)' = Scan(a) /\ Hand(a)' = Hand(a)
<1>1. agent \in [Agents -> AgentRecord]  BY DEF HandleTypes
<1>2. agent' \in [Agents -> AgentRecord] /\ agent'[b] = m
      /\ \A a \in Agents \ {b} : agent'[a] = agent[a]
  BY <1>1 DEF WritesAgent
<1> QED  BY <1>2 DEF Doing, Scan, Hand

\* What the write of a slot's data changes.
LEMMA DataWritten ==
    ASSUME HandleTypes, NEW k \in Kinds, NEW s \in Slots, NEW g \in MaybeHandle,
           WritesData(k, s, g)
    PROVE  /\ bridge' \in [Kinds -> BridgeRecord]
           /\ \A l \in Kinds, z \in Slots : State(l, z)' = State(l, z)
           /\ \A l \in Kinds, z \in Slots : Data(l, z)' = IF l = k /\ z = s THEN g ELSE Data(l, z)
<1> DEFINE d == [bridge[k].data EXCEPT ![s] = g]
           e == [bridge[k] EXCEPT !.data = d]
<1>1. bridge \in [Kinds -> BridgeRecord] /\ bridge[k] \in BridgeRecord  BY DEF HandleTypes
<1>2. /\ e \in BridgeRecord /\ e.state = bridge[k].state
      /\ \A z \in Slots : e.data[z] = IF z = s THEN g ELSE bridge[k].data[z]
  <2>1. bridge[k].data \in [Slots -> MaybeHandle]  BY <1>1 DEF BridgeRecord, MaybeHandle
  <2>2. /\ d \in [Slots -> MaybeHandle]
        /\ \A z \in Slots : d[z] = IF z = s THEN g ELSE bridge[k].data[z]
    BY <2>1
  <2> HIDE DEF d
  <2>3. e \in BridgeRecord /\ e.state = bridge[k].state /\ e.data = d
    BY <1>1, <2>2 DEF BridgeRecord, MaybeHandle
  <2> QED  BY <2>2, <2>3
<1>3. bridge' = [bridge EXCEPT ![k] = e]  BY <1>1, Zenon DEF WritesData
<1> HIDE DEF e
<1>4. /\ bridge' \in [Kinds -> BridgeRecord] /\ bridge'[k] = e
      /\ \A l \in Kinds \ {k} : bridge'[l] = bridge[l]
  BY <1>1, <1>2, <1>3
<1>5. ASSUME NEW l \in Kinds, NEW z \in Slots
      PROVE  /\ State(l, z)' = State(l, z)
             /\ Data(l, z)' = IF l = k /\ z = s THEN g ELSE Data(l, z)
  <2>1. CASE l = k  BY <1>2, <1>4, <2>1, Zenon DEF State, Data
  <2>2. CASE l # k  BY <1>4, <2>2 DEF State, Data
  <2> QED  BY <2>1, <2>2
<1> QED  BY <1>4, <1>5

\* What the write of its state changes.
LEMMA StateWritten ==
    ASSUME HandleTypes, NEW k \in Kinds, NEW s \in Slots, NEW v \in {"EMPTY", "FILLED"},
           WritesState(k, s, v)
    PROVE  /\ bridge' \in [Kinds -> BridgeRecord]
           /\ \A l \in Kinds, z \in Slots : Data(l, z)' = Data(l, z)
           /\ \A l \in Kinds, z \in Slots : State(l, z)' = IF l = k /\ z = s THEN v ELSE State(l, z)
<1> DEFINE d == [bridge[k].state EXCEPT ![s] = v]
           e == [bridge[k] EXCEPT !.state = d]
<1>1. bridge \in [Kinds -> BridgeRecord] /\ bridge[k] \in BridgeRecord  BY DEF HandleTypes
<1>2. /\ e \in BridgeRecord /\ e.data = bridge[k].data
      /\ \A z \in Slots : e.state[z] = IF z = s THEN v ELSE bridge[k].state[z]
  <2>1. bridge[k].state \in [Slots -> {"EMPTY", "FILLED"}]  BY <1>1 DEF BridgeRecord
  <2>2. /\ d \in [Slots -> {"EMPTY", "FILLED"}]
        /\ \A z \in Slots : d[z] = IF z = s THEN v ELSE bridge[k].state[z]
    BY <2>1
  <2> HIDE DEF d
  <2>3. e \in BridgeRecord /\ e.data = bridge[k].data /\ e.state = d
    BY <1>1, <2>2, Zenon DEF BridgeRecord
  <2> QED  BY <2>2, <2>3
<1>3. bridge' = [bridge EXCEPT ![k] = e]  BY <1>1, Zenon DEF WritesState
<1> HIDE DEF e
<1>4. /\ bridge' \in [Kinds -> BridgeRecord] /\ bridge'[k] = e
      /\ \A l \in Kinds \ {k} : bridge'[l] = bridge[l]
  BY <1>1, <1>2, <1>3
<1>5. ASSUME NEW l \in Kinds, NEW z \in Slots
      PROVE  /\ Data(l, z)' = Data(l, z)
             /\ State(l, z)' = IF l = k /\ z = s THEN v ELSE State(l, z)
  <2>1. CASE l = k  BY <1>2, <1>4, <2>1, Zenon DEF State, Data
  <2>2. CASE l # k  BY <1>4, <2>2 DEF State, Data
  <2> QED  BY <2>1, <2>2
<1> QED  BY <1>4, <1>5

\* Handle g is appended to a list.
LEMMA ListWritten ==
    ASSUME HandleTypes, NEW k \in Kinds, NEW g \in Handles,
           served' = [served EXCEPT ![k] = Append(served[k], g)]
    PROVE  /\ served' \in [Kinds -> Seq(Handles)]
           /\ \E x \in Nat : \A l \in Kinds : \A i, h :
                Listed(l, i, h)' <=> Listed(l, i, h) \/ (l = k /\ i = x /\ h = g)
<1> DEFINE old == served[k]
           longer == Append(old, g)
<1>1. served \in [Kinds -> Seq(Handles)] /\ old \in Seq(Handles)  BY DEF HandleTypes
<1>2. served' = [served EXCEPT ![k] = longer]  OBVIOUS
<1>3. longer \in Seq(Handles) /\ \E x \in Nat : x = Len(old) + 1
  <2> HIDE DEF old
  <2> QED  BY <1>1
<1>4. PICK x \in Nat : x = Len(old) + 1  BY <1>3
<1>5. /\ DOMAIN longer = DOMAIN old \cup {x} /\ x \notin DOMAIN old
      /\ longer[x] = g /\ \A i \in DOMAIN old : longer[i] = old[i]
  <2> HIDE DEF old
  <2> QED  BY <1>1, <1>4
<1> HIDE DEF longer
<1>6. /\ served' \in [Kinds -> Seq(Handles)] /\ served'[k] = longer
      /\ \A l \in Kinds \ {k} : served'[l] = served[l]
  BY <1>1, <1>2, <1>3
<1>7. ASSUME NEW l \in Kinds, NEW i, NEW h
      PROVE  Listed(l, i, h)' <=> Listed(l, i, h) \/ (l = k /\ i = x /\ h = g)
  <2>1. CASE l = k  BY <1>5, <1>6, <2>1 DEF Listed
  <2>2. CASE l # k  BY <1>6, <2>2 DEF Listed
  <2> QED  BY <2>1, <2>2
<1> QED  BY <1>6, <1>7

\* Nobody holds anything at the start.
LEMMA InitOnce == Init => OnceInv
<1> SUFFICES ASSUME Init PROVE OnceInv  OBVIOUS
<1>1. 1 \in Slots
  <2>1. BRIDGE_CAPACITY \in Nat \ {0}  BY RegistrationAssumption, Zenon
  <2> QED  BY <2>1 DEF Slots
<1>2. HandleTypes
  BY <1>1 DEF Init, HandleTypes, ThreadRecord, BridgeRecord, AgentRecord, ClientRecord, EmptyBridge
<1>3. /\ \A t \in Threads : Pc(t) = "idle" /\ Item(t) = None
      /\ \A k \in Kinds, s \in Slots : Data(k, s) = None
      /\ \A a \in Agents : Doing(a) = "none" /\ Hand(a) = None
      /\ \A k \in Kinds : \A i, h : ~Listed(k, i, h)
  BY DEF Init, EmptyBridge, Pc, Item, Data, Doing, Hand, Listed
<1>4. LaunchInv  BY <1>3 DEF Init, LaunchInv
<1>5. CallInv /\ TakeInv /\ DepositInv /\ KindInv
  BY <1>3 DEF CallInv, TakeInv, DepositInv, KindInv
<1>6. \A h \in Handles : ~Known(h) /\ \A w, i : ~At(h, w, i)
  <2> SUFFICES ASSUME NEW h \in Handles, NEW w, NEW i PROVE ~Known(h) /\ ~At(h, w, i)
    OBVIOUS
  <2>1. h # None /\ KindOf(h) \in Kinds  BY HandleFacts
  <2>2. dropped = {} /\ DOMAIN outcome = {}  BY DEF Init
  <2> QED  BY <1>3, <2>1, <2>2 DEF Known, At
<1>7. MadeInv /\ ApartInv /\ KeptInv  BY <1>6 DEF MadeInv, ApartInv, KeptInv, Somewhere
<1> QED  BY <1>2, <1>4, <1>5, <1>7 DEF OnceInv

\* A step that leaves every handle where it is.
LEMMA Stays ==
    ASSUME OnceInv,
           \A h \in Handles : Counted(h) => Counted(h)',
           \A h \in Handles : \A w, i : At(h, w, i)' <=> At(h, w, i),
           \A h \in Handles : Known(h)' => Known(h)
    PROVE  MadeInv' /\ ApartInv' /\ KeptInv'
<1>0. MadeInv /\ ApartInv /\ KeptInv  BY DEF OnceInv
<1>1. \A h \in Handles : Somewhere(h)' <=> Somewhere(h)  BY DEF Somewhere
<1>2. MadeInv'  BY <1>0, <1>1 DEF MadeInv
<1>3. ApartInv'  BY <1>0 DEF ApartInv
<1>4. KeptInv'  BY <1>0, <1>1 DEF KeptInv
<1> QED  BY <1>2, <1>3, <1>4

\* A step moves handle g to place j of the kind v, and no other handle.
Moved(g, v, j) ==
    /\ \A h \in Handles : Counted(h) => Counted(h)'
    /\ \A h \in Handles \ {g} : \A w, i : At(h, w, i)' <=> At(h, w, i)
    /\ \A w, i : At(g, w, i)' <=> w = v /\ i = j
    /\ \A h \in Handles \ {g} : Known(h)' => Known(h)
    /\ Counted(g)'

\* Then every handle is in one place still.
LEMMA Moves ==
    ASSUME OnceInv, NEW g \in Handles, NEW v, NEW j, Moved(g, v, j)
    PROVE  MadeInv' /\ ApartInv' /\ KeptInv'
<1>0. MadeInv /\ ApartInv /\ KeptInv  BY DEF OnceInv
<1>1. /\ \A h \in Handles : Counted(h) => Counted(h)'
      /\ \A h \in Handles \ {g} : \A w, i : At(h, w, i)' <=> At(h, w, i)
      /\ \A w, i : At(g, w, i)' <=> w = v /\ i = j
      /\ \A h \in Handles \ {g} : Known(h)' => Known(h)
      /\ Counted(g)'
  BY DEF Moved
<1>2. \A h \in Handles \ {g} : Somewhere(h)' <=> Somewhere(h)  BY <1>1 DEF Somewhere
<1>3. Somewhere(g)'  BY <1>1 DEF Somewhere
<1>4. MadeInv'  BY <1>0, <1>2, <1>1 DEF MadeInv
<1>5. ApartInv'
  <2> SUFFICES ASSUME NEW h \in Handles PROVE (\A w, x, i, y : At(h, w, i) /\ At(h, x, y) => w = x /\ i = y)'
    BY DEF ApartInv
  <2>1. CASE h = g  BY <1>1, <2>1
  <2>2. CASE h # g  BY <1>0, <1>1, <2>2 DEF ApartInv
  <2> QED  BY <2>1, <2>2
<1>6. KeptInv'  BY <1>0, <1>2, <1>3, <1>1 DEF KeptInv
<1> QED  BY <1>4, <1>5, <1>6

\* Where a handle is, it is nowhere else, and its id was counted.
LEMMA OnlyThere ==
    ASSUME OnceInv, NEW g \in Handles, NEW v, NEW j, At(g, v, j)
    PROVE  (\A w, i : At(g, w, i) => w = v /\ i = j) /\ Counted(g)
<1>0. MadeInv /\ ApartInv  BY DEF OnceInv
<1>1. \A w, i : At(g, w, i) => w = v /\ i = j  BY <1>0 DEF ApartInv
<1>2. Counted(g)  BY <1>0 DEF MadeInv, Somewhere
<1> QED  BY <1>1, <1>2

\* Only one thread is inside a call, and its call has a handle.
LEMMA OneCalls ==
    ASSUME OneProducer, OnceInv, NEW t \in Threads, Pc(t) # "idle"
    PROVE  /\ Item(t) \in Handles /\ KindOf(Item(t)) \in Kinds
           /\ \A u \in Threads \ {t} : Pc(u) = "idle" /\ Item(u) = None
<1>0. HandleTypes /\ CallInv  BY DEF OnceInv
<1>1. Item(t) \in Handles
  <2>1. Item(t) # None  BY <1>0 DEF CallInv
  <2> QED  BY <1>0, <2>1, ReadTypes
<1>2. KindOf(Item(t)) \in Kinds  BY <1>1, HandleFacts
<1>3. ASSUME NEW u \in Threads, u # t PROVE Pc(u) = "idle" /\ Item(u) = None
  <2>1. PICK c \in Clients : t = ThreadOf[c]  BY <1>0 DEF CallInv
  <2>2. ASSUME NEW d \in Clients, u = ThreadOf[d] PROVE FALSE
    BY <1>3, <2>1, <2>2 DEF OneProducer
  <2> QED  BY <1>0, <2>2 DEF CallInv
<1> QED  BY <1>1, <1>2, <1>3

\* An agent that does this is not in the middle of a take.
Idles(pc) == pc \notin {"take", "store"}

\* Agent a holds what it held, and relies on the slot it relied on if any.
Alike(a) ==
    /\ Hand(a)' = Hand(a)
    /\ \/ Doing(a)' = Doing(a) /\ Scan(a)' = Scan(a)
       \/ Idles(Doing(a)) /\ Idles(Doing(a)')

\* Steps that touch neither handles nor slots.
LEMMA ElsewhereOnce ==
    ASSUME OnceInv, HandleTypes', LaunchInv',
           UNCHANGED <<thread, bridge, served, dropped, outcome>>,
           \A a \in Agents : Alike(a),
           \A h \in Handles : Counted(h) => Counted(h)'
    PROVE  OnceInv'
<1>0. HandleTypes /\ CallInv /\ TakeInv /\ DepositInv /\ KindInv  BY DEF OnceInv
<1>1. /\ \A t \in Threads : Pc(t)' = Pc(t) /\ Try(t)' = Try(t) /\ Item(t)' = Item(t)
      /\ \A k \in Kinds, s \in Slots : State(k, s)' = State(k, s) /\ Data(k, s)' = Data(k, s)
      /\ \A k, i, h : Listed(k, i, h)' <=> Listed(k, i, h)
  BY SameCalls, SameSlots, SameLists
<1>2. CallInv' /\ KindInv'  BY <1>0, <1>1 DEF CallInv, KindInv
<1>3. DepositInv'  BY <1>0, <1>1 DEF DepositInv
<1>4. TakeInv'
  <2>1. ASSUME NEW k \in Kinds, NEW a \in Agents, NEW s \in Slots, a = AgentOf[k], Scan(a)' = s
        PROVE  /\ Doing(a)' \in {"take", "store"} => State(k, s)' = "FILLED"
               /\ Doing(a)' = "store" => Data(k, s)' = None
    <3>1. Alike(a)  OBVIOUS
    <3> QED  BY <1>0, <1>1, <2>1, <3>1 DEF TakeInv, Alike, Idles
  <2>2. ASSUME NEW k \in Kinds, NEW a \in Agents, a = AgentOf[k], Hand(a)' # None
        PROVE  KindOf(Hand(a)') = k
    BY <1>0, <2>2 DEF TakeInv, Alike
  <2>3. ASSUME NEW a \in Agents, Doing(a)' # "store" PROVE Hand(a)' = None
    <3>1. Alike(a)  OBVIOUS
    <3> QED  BY <1>0, <2>3, <3>1 DEF TakeInv, Alike, Idles
  <2> QED  BY <2>1, <2>2, <2>3, Zenon DEF TakeInv
<1>5. \A h \in Handles : \A w, i : At(h, w, i)' <=> At(h, w, i)
  <2>1. \A a \in Agents : Hand(a)' = Hand(a)  BY DEF Alike
  <2>2. \A h \in Handles : KindOf(h) \in Kinds  BY HandleFacts
  <2> QED  BY <1>1, <2>1, <2>2 DEF At
<1>6. \A h \in Handles : Known(h)' => Known(h)  BY <1>1 DEF Known
<1>7. MadeInv' /\ ApartInv' /\ KeptInv'  BY <1>5, <1>6, Stays
<1> QED  BY <1>2, <1>3, <1>4, <1>7 DEF OnceInv

\* The owner of the driver, and the ends of the agents' loops.
LEMMA OwnerOnce ==
    ASSUME OnceInv, launch \/ CloseBegin \/ CloseStop \/ join \/ (\E a \in Agents : RunEnds(a))
    PROVE  OnceInv'
<1>0. HandleTypes /\ LaunchInv  BY DEF OnceInv
<1>1. UNCHANGED <<client, thread, bridge, served, dropped, outcome>>
  BY DEF launch, CloseBegin, CloseStop, join, RunEnds
<1>2. \A h \in Handles : Counted(h) => Counted(h)'  BY <1>1, SameCounts
<1>3. agent \in [Agents -> AgentRecord]  BY <1>0 DEF HandleTypes
<1>4. \A r \in AgentRecord : /\ [r EXCEPT !.running = TRUE, !.pc = "load"] \in AgentRecord
                             /\ [r EXCEPT !.running = FALSE] \in AgentRecord
                             /\ [r EXCEPT !.pc = "done"] \in AgentRecord
  BY ZenonT(40) DEF AgentRecord
<1>5. /\ agent' \in [Agents -> AgentRecord] /\ LaunchInv'
      /\ \A a \in Agents : Alike(a)
  <2>1. CASE launch
    <3>1. agent' = [a \in Agents |-> [agent[a] EXCEPT !.running = TRUE, !.pc = "load"]]
      BY <2>1, Zenon DEF launch, start
    <3>2. agent' \in [Agents -> AgentRecord]  BY <1>3, <1>4, <3>1, Zenon
    <3>3. LaunchInv'  BY <1>0, <2>1 DEF launch, LaunchInv
    <3>4. ASSUME NEW a \in Agents PROVE Alike(a)
      <4>1. agent[a] \in AgentRecord  BY <1>3, SMTT(40)
      <4>2. agent'[a] = [agent[a] EXCEPT !.running = TRUE, !.pc = "load"]  BY <3>1, Zenon
      <4>3. Doing(a)' = "load" /\ Hand(a)' = Hand(a)
        BY <4>1, <4>2 DEF AgentRecord, Doing, Hand
      <4>4. Doing(a) = "none"  BY <1>0, <2>1 DEF launch, LaunchInv
      <4> QED  BY <4>3, <4>4 DEF Alike, Idles
    <3> QED  BY <3>2, <3>3, <3>4
  <2>2. CASE CloseBegin \/ join
    <3>1. agent' = agent  BY <2>2 DEF CloseBegin, join
    <3>2. \A a \in Agents : Doing(a)' = Doing(a) /\ Scan(a)' = Scan(a) /\ Hand(a)' = Hand(a)
      BY <3>1, SameAgents
    <3>3. LaunchInv'
      <4>1. DOMAIN driver' = {"state", "at"} /\ driver'.state # "none"
        BY <1>0, <2>2 DEF CloseBegin, join, LaunchInv
      <4> QED  BY <4>1 DEF LaunchInv
    <3> QED  BY <1>3, <3>1, <3>2, <3>3 DEF Alike
  <2>3. CASE CloseStop
    <3> DEFINE b == CloseOrder[driver.at]
    <3>1. agent' = [agent EXCEPT ![b].running = FALSE]  BY <2>3, SMTT(40) DEF CloseStop, stop
    <3> HIDE DEF b
    <3>2. agent' \in [Agents -> AgentRecord]  BY <1>3, <1>4, <3>1, Zenon
    <3>3. LaunchInv'
      <4>1. DOMAIN driver' = {"state", "at"} /\ driver'.state # "none"
        BY <1>0, <2>3 DEF CloseStop, LaunchInv
      <4> QED  BY <4>1 DEF LaunchInv
    <3>4. ASSUME NEW a \in Agents PROVE Alike(a)
      <4>1. agent[a] \in AgentRecord  BY <1>3
      <4>2. agent'[a] \in {agent[a], [agent[a] EXCEPT !.running = FALSE]}  BY <1>3, <3>1, Zenon
      <4>3. Doing(a)' = Doing(a) /\ Scan(a)' = Scan(a) /\ Hand(a)' = Hand(a)
        BY <4>1, <4>2 DEF AgentRecord, Doing, Scan, Hand
      <4> QED  BY <4>3 DEF Alike
    <3> QED  BY <3>2, <3>3, <3>4
  <2>4. ASSUME NEW b \in Agents, RunEnds(b)
        PROVE  /\ agent' \in [Agents -> AgentRecord] /\ LaunchInv'
               /\ \A a \in Agents : Alike(a)
    <3> DEFINE m == [agent[b] EXCEPT !.pc = "done"]
    <3>1. WritesAgent(b, m) /\ Doing(b) = "load" /\ driver' = driver
      BY <2>4 DEF RunEnds, AtTop, Doing, WritesAgent
    <3>2. agent[b] \in AgentRecord  BY <1>3
    <3>3. m \in AgentRecord /\ m.pc = "done" /\ m.item = Hand(b)
      BY <3>2 DEF AgentRecord, Hand
    <3> HIDE DEF m
    <3>4. /\ agent' \in [Agents -> AgentRecord]
          /\ Doing(b)' = "done" /\ Hand(b)' = Hand(b)
          /\ \A a \in Agents \ {b} : Doing(a)' = Doing(a) /\ Scan(a)' = Scan(a) /\ Hand(a)' = Hand(a)
      BY <1>0, <3>1, <3>3, AgentWritten
    <3>5. LaunchInv'
      <4>1. driver.state # "none"  BY <1>0, <3>1 DEF LaunchInv
      <4> QED  BY <1>0, <3>1, <4>1 DEF LaunchInv
    <3> QED  BY <3>1, <3>4, <3>5 DEF Alike, Idles
  <2> QED  BY <2>1, <2>2, <2>3, <2>4
<1>6. HandleTypes'  BY <1>0, <1>1, <1>5 DEF HandleTypes
<1> QED  BY <1>1, <1>2, <1>5, <1>6, ElsewhereOnce

\* Steps of clients that begin no call, of the conductor and of others.
LEMMA ClientOnce ==
    ASSUME OnceInv,
           \/ ConductorWork
           \/ \E c \in Clients : connect(c) \/ Drop(c)
           \/ \E c \in Clients : \E type : Notify(c, type)
           \/ \E cmd : AskRemoval(cmd)
           \/ UNCHANGED vars
    PROVE  OnceInv'
<1>0. HandleTypes /\ LaunchInv  BY DEF OnceInv
<1>1. UNCHANGED <<driver, agent, thread, bridge, served, dropped, outcome>>
  BY DEF ConductorWork, connect, Drop, Notify, AskRemoval, vars
<1>2. client \in [Clients -> ClientRecord]  BY <1>0 DEF HandleTypes
<1>3. \/ client' = client
      \/ \E c \in Clients : \E s \in {"open", "dropped"} : client' = [client EXCEPT ![c].state = s]
  BY DEF ConductorWork, connect, Drop, Notify, AskRemoval, vars
<1>4. \A r \in ClientRecord : \A s \in {"open", "dropped"} :
        /\ [r EXCEPT !.state = s] \in ClientRecord
        /\ [r EXCEPT !.state = s].next_correlation_id = r.next_correlation_id
  BY DEF ClientRecord
<1>5. client' \in [Clients -> ClientRecord]
      /\ \A c \in Clients : client'[c].next_correlation_id = client[c].next_correlation_id
  <2>1. CASE client' = client  BY <1>2, <2>1
  <2>2. ASSUME NEW c \in Clients, NEW s \in {"open", "dropped"}, client' = [client EXCEPT ![c].state = s]
        PROVE  client' \in [Clients -> ClientRecord]
               /\ \A d \in Clients : client'[d].next_correlation_id = client[d].next_correlation_id
    <3> DEFINE m == [client[c] EXCEPT !.state = s]
    <3>1. client' = [client EXCEPT ![c] = m]  BY <2>2
    <3>2. m \in ClientRecord /\ m.next_correlation_id = client[c].next_correlation_id
      BY <1>2, <1>4, Zenon
    <3> HIDE DEF m
    <3>3. /\ client' \in [Clients -> ClientRecord] /\ client'[c] = m
          /\ \A d \in Clients \ {c} : client'[d] = client[d]
      BY <1>2, <3>1, <3>2, Zenon
    <3> QED  BY <3>2, <3>3
  <2> QED  BY <1>3, <2>1, <2>2
<1>6. \A h \in Handles : Counted(h) => Counted(h)'
  <2>1. \A h \in Handles : h.client \in Clients  BY Zenon DEF Handles
  <2> QED  BY <1>5, <2>1 DEF Counted
<1>7. \A a \in Agents : Doing(a)' = Doing(a) /\ Scan(a)' = Scan(a) /\ Hand(a)' = Hand(a)
  BY <1>1, SameAgents, Zenon
<1>8. (\A a \in Agents : Alike(a)) /\ LaunchInv'  BY <1>0, <1>1, <1>7 DEF Alike, LaunchInv
<1>9. HandleTypes'  BY <1>0, <1>1, <1>5, Zenon DEF HandleTypes
<1> QED  BY <1>1, <1>6, <1>8, <1>9, ElsewhereOnce

\* What an add does to the counters, and to the thread of its client.
LEMMA AddWrites ==
    ASSUME OnceInv, NEW c \in Clients, NEW channel, NEW stream,
           add_publication(c, channel, stream) \/ add_subscription(c, channel, stream)
    PROVE  /\ client' \in [Clients -> ClientRecord]
           /\ \A h \in Handles : Counted(h) => Counted(h)'
           /\ \/ thread' = thread
              \/ \E k \in Kinds :
                   /\ thread' = [thread EXCEPT ![ThreadOf[c]] =
                                   [pc |-> "load", at |-> 1, item |-> Handle(c, k, channel, stream)]]
                   /\ client'[c].next_correlation_id = client[c].next_correlation_id + 1
<1>0. client \in [Clients -> ClientRecord]  BY DEF OnceInv, HandleTypes
<1> DEFINE one == [client[c] EXCEPT !.next_correlation_id = client[c].next_correlation_id + 1]
           both == [client[c] EXCEPT !.next_correlation_id = client[c].next_correlation_id + 1,
                                     !.next_session_id = client[c].next_session_id + 1]
           g(k) == Handle(c, k, channel, stream)
           r(k) == [pc |-> "load", at |-> 1, item |-> g(k)]
<1>1. \A d \in Clients : client[d] \in ClientRecord /\ client[d].next_correlation_id \in Nat
  BY <1>0 DEF ClientRecord
<1>2. /\ one \in ClientRecord /\ both \in ClientRecord
      /\ one.next_correlation_id = client[c].next_correlation_id + 1
      /\ both.next_correlation_id = client[c].next_correlation_id + 1
  <2>1. \A q \in ClientRecord : \A n, i \in Nat :
          /\ [q EXCEPT !.next_correlation_id = n] \in ClientRecord
          /\ [q EXCEPT !.next_correlation_id = n].next_correlation_id = n
          /\ [q EXCEPT !.next_correlation_id = n, !.next_session_id = i] \in ClientRecord
          /\ [q EXCEPT !.next_correlation_id = n, !.next_session_id = i].next_correlation_id = n
    BY Zenon DEF ClientRecord
  <2>2. /\ client[c] \in ClientRecord /\ client[c].next_correlation_id + 1 \in Nat
        /\ client[c].next_session_id + 1 \in Nat
    BY <1>1 DEF ClientRecord
  <2> QED  BY <2>1, <2>2, Zenon
<1>3. \/ client' = client /\ thread' = thread
      \/ client' = [client EXCEPT ![c] = one] /\ thread' \in {thread, [thread EXCEPT ![ThreadOf[c]] = r("sub")]}
      \/ client' = [client EXCEPT ![c] = both] /\ thread' \in {thread, [thread EXCEPT ![ThreadOf[c]] = r("pub")]}
  <2>1. \A k : g(k).client = c  BY DEF Handle
  <2>2. CASE add_publication(c, channel, stream)
    <3>1. CASE Parses(channel)
      <4>1. client' = [client EXCEPT ![c].next_correlation_id = @ + 1, ![c].next_session_id = @ + 1]
        BY <2>2, <3>1 DEF add_publication
      <4>2. thread' \in {thread, [thread EXCEPT ![ThreadOf[c]] = r("pub")]}
        BY <2>1, <2>2, <3>1 DEF add_publication, Opened
      <4>3. client' = [client EXCEPT ![c] = both]  BY <1>0, <4>1, Zenon
      <4> QED  BY <4>2, <4>3
    <3>2. CASE ~Parses(channel)  BY <2>2, <3>2 DEF add_publication
    <3> QED  BY <3>1, <3>2
  <2>3. CASE add_subscription(c, channel, stream)
    <3>1. client' = [client EXCEPT ![c].next_correlation_id = @ + 1]
      BY <2>3 DEF add_subscription
    <3>2. client' = [client EXCEPT ![c] = one]  BY <1>0, <3>1
    <3>3. thread' \in {thread, [thread EXCEPT ![ThreadOf[c]] = r("sub")]}
      BY <2>1, <2>3 DEF add_subscription, Opened
    <3> QED  BY <3>2, <3>3
  <2> QED  BY <2>2, <2>3, Zenon
<1> HIDE DEF one, both, r, g
<1>4. CASE client' = client /\ thread' = thread  BY <1>0, <1>4, SameCounts, Zenon
<1>5. ASSUME NEW m \in ClientRecord, client' = [client EXCEPT ![c] = m],
             m.next_correlation_id = client[c].next_correlation_id + 1
      PROVE  /\ client' \in [Clients -> ClientRecord]
             /\ \A h \in Handles : Counted(h) => Counted(h)'
             /\ client'[c].next_correlation_id = client[c].next_correlation_id + 1
  <2>1. /\ client' \in [Clients -> ClientRecord] /\ client'[c] = m
        /\ \A d \in Clients \ {c} : client'[d] = client[d]
    BY <1>0, <1>5
  <2>2. client'[c].next_correlation_id = client[c].next_correlation_id + 1  BY <1>5, <2>1
  <2>3. ASSUME NEW h \in Handles, Counted(h) PROVE Counted(h)'
    <3>1. h.client \in Clients /\ h.correlation_id \in Nat  BY DEF Handles
    <3>2. CASE h.client = c  BY <1>1, <2>2, <2>3, <3>1, <3>2 DEF Counted
    <3>3. CASE h.client # c  BY <2>1, <2>3, <3>1, <3>3 DEF Counted
    <3> QED  BY <3>2, <3>3
  <2> QED  BY <2>1, <2>2, <2>3
<1>6. "pub" \in Kinds /\ "sub" \in Kinds  BY DEF Kinds
<1> QED  BY <1>2, <1>3, <1>4, <1>5, <1>6 DEF r, g

\* A call begins with a handle nobody has seen, or fails before.
LEMMA AddOnce ==
    ASSUME OnceInv, NEW c \in Clients, NEW channel \in Channels, NEW stream \in Streams,
           add_publication(c, channel, stream) \/ add_subscription(c, channel, stream)
    PROVE  OnceInv'
<1>0. HandleTypes /\ CallInv /\ TakeInv /\ DepositInv /\ KindInv /\ MadeInv /\ LaunchInv
  BY DEF OnceInv
<1> DEFINE t == ThreadOf[c]
<1>1. UNCHANGED <<driver, agent, bridge, served, dropped, outcome>>
  BY DEF add_publication, add_subscription
<1>2. t \in Threads /\ Pc(t) = "idle"
  BY RegistrationAssumption, Zenon DEF add_publication, add_subscription, MayCall, Pc
<1>3. /\ client' \in [Clients -> ClientRecord]
      /\ \A h \in Handles : Counted(h) => Counted(h)'
  BY AddWrites
<1>4. /\ \A k \in Kinds, s \in Slots : State(k, s)' = State(k, s) /\ Data(k, s)' = Data(k, s)
      /\ \A a \in Agents : Doing(a)' = Doing(a) /\ Scan(a)' = Scan(a) /\ Hand(a)' = Hand(a)
      /\ \A k, i, h : Listed(k, i, h)' <=> Listed(k, i, h)
  BY <1>1, SameSlots, SameAgents, SameLists, Zenon
<1>5. LaunchInv' /\ \A a \in Agents : Alike(a)  BY <1>0, <1>1, <1>4 DEF LaunchInv, Alike
<1>6. CASE thread' = thread
  <2>1. HandleTypes'  BY <1>0, <1>1, <1>3, <1>6 DEF HandleTypes
  <2> QED  BY <1>1, <1>3, <1>5, <1>6, <2>1, ElsewhereOnce, Zenon
<1>7. ASSUME NEW k \in Kinds,
             thread' = [thread EXCEPT ![t] =
                          [pc |-> "load", at |-> 1, item |-> Handle(c, k, channel, stream)]],
             client'[c].next_correlation_id = client[c].next_correlation_id + 1
      PROVE  OnceInv'
  <2>1. client[c].next_correlation_id \in Nat /\ client[c].next_session_id \in Nat
    BY <1>0, Zenon DEF HandleTypes, ClientRecord
  <2>2. PICK g \in Handles : /\ g = Handle(c, k, channel, stream)
                             /\ ~Counted(g) /\ Counted(g)'
    <3> DEFINE g == Handle(c, k, channel, stream)
    <3>1. /\ g \in Handles /\ g.client = c
          /\ g.correlation_id = client[c].next_correlation_id
      BY <2>1, ZenonT(40) DEF Handle, Handles
    <3> HIDE DEF g
    <3>2. PICK h \in Handles : /\ h = g /\ h.client = c
                               /\ h.correlation_id = client[c].next_correlation_id
      BY <3>1, Zenon
    <3>3. ~Counted(h) /\ Counted(h)'
      <4> DEFINE n == client[c].next_correlation_id
                 n2 == client'[c].next_correlation_id
      <4>1. /\ Counted(h) <=> h.correlation_id < n
            /\ Counted(h)' <=> h.correlation_id < n2
        BY <3>2, Zenon DEF Counted
      <4>2. h.correlation_id = n /\ n \in Nat /\ n2 = n + 1  BY <1>7, <2>1, <3>2, Zenon
      <4> HIDE DEF n, n2
      <4>3. ~(h.correlation_id < n) /\ h.correlation_id < n2  BY <4>2
      <4> QED  BY <4>1, <4>3, Zenon
    <3> QED  BY <3>2, <3>3, SMTT(40) DEF g
  <2> DEFINE m == [pc |-> "load", at |-> 1, item |-> g]
  <2>3. m \in ThreadRecord /\ m.pc = "load" /\ m.item = g  BY SMTT(40) DEF ThreadRecord
  <2>4. WritesCall(t, m)  BY <1>7, <2>2, Zenon DEF WritesCall
  <2> HIDE DEF m, t
  <2>5. /\ thread' \in [Threads -> ThreadRecord]
        /\ Pc(t)' = "load" /\ Item(t)' = g
        /\ \A u \in Threads \ {t} : Pc(u)' = Pc(u) /\ Try(u)' = Try(u) /\ Item(u)' = Item(u)
    BY <1>0, <1>2, <2>3, <2>4, CallWritten
  <2>6. ~Known(g) /\ \A w, i : ~At(g, w, i)  BY <1>0, <2>2, Zenon DEF MadeInv, Somewhere
  <2>7. HandleTypes'  BY <1>0, <1>1, <1>3, <2>5, Zenon DEF HandleTypes
  <2>8. CallInv'  BY <1>0, <2>5, HandleFacts, Zenon DEF CallInv, t
  <2>9. TakeInv' /\ KindInv'  BY <1>0, <1>4, SMTT(40) DEF TakeInv, KindInv
  <2>10. DepositInv'
    <3>1. \A u \in Threads : Pc(u)' \in {"write", "store"} =>
            Pc(u)' = Pc(u) /\ Try(u)' = Try(u) /\ Item(u)' = Item(u)
      BY <2>5
    <3>2. \A u \in Threads : Pc(u) = "store" =>
            Pc(u)' = Pc(u) /\ Try(u)' = Try(u) /\ Item(u)' = Item(u)
      BY <1>2, <2>5, Zenon
    <3> QED  BY <1>0, <1>4, <3>1, <3>2 DEF DepositInv
  <2>11. \A h \in Handles \ {g} : \A w, i : At(h, w, i)' <=> At(h, w, i)
    BY <1>1, <1>2, <1>4, <2>5, HandleFacts, SMTT(40) DEF At
  <2>12. \A w, i : At(g, w, i)' <=> w = "call" /\ i = t
    BY <1>1, <1>2, <1>4, <2>5, <2>6, HandleFacts, SMTT(40) DEF At
  <2>13. \A h \in Handles \ {g} : Known(h)' => Known(h)  BY <1>1, <2>5, Zenon DEF Known
  <2>14. Moved(g, "call", t)  BY <1>3, <2>2, <2>11, <2>12, <2>13 DEF Moved
  <2>15. MadeInv' /\ ApartInv' /\ KeptInv'  BY <2>14, Moves, Zenon
  <2> QED  BY <1>5, <2>7, <2>8, <2>9, <2>10, <2>15 DEF OnceInv
<1>8. \/ thread' = thread
      \/ \E k \in Kinds :
           /\ thread' = [thread EXCEPT ![t] =
                           [pc |-> "load", at |-> 1, item |-> Handle(c, k, channel, stream)]]
           /\ client'[c].next_correlation_id = client[c].next_correlation_id + 1
  BY AddWrites
<1> QED  BY <1>6, <1>7, <1>8, Zenon

\* A thread goes on within its call, or from it; the others are idle.
LEMMA CallGoesOn ==
    ASSUME OneProducer, OnceInv, NEW t \in Threads, Pc(t) # "idle",
           NEW m \in ThreadRecord, WritesCall(t, m),
           m.pc = "idle" <=> m.item = None
    PROVE  /\ thread' \in [Threads -> ThreadRecord] /\ CallInv'
           /\ Pc(t)' = m.pc /\ Try(t)' = m.at /\ Item(t)' = m.item
           /\ \A u \in Threads \ {t} : /\ Pc(u) = "idle" /\ Item(u) = None
                                       /\ Pc(u)' = "idle" /\ Item(u)' = None
<1>0. HandleTypes /\ CallInv  BY DEF OnceInv
<1>1. /\ thread' \in [Threads -> ThreadRecord]
      /\ Pc(t)' = m.pc /\ Try(t)' = m.at /\ Item(t)' = m.item
      /\ \A u \in Threads \ {t} : Pc(u)' = Pc(u) /\ Try(u)' = Try(u) /\ Item(u)' = Item(u)
  BY <1>0, CallWritten
<1>2. \A u \in Threads \ {t} : Pc(u) = "idle" /\ Item(u) = None  BY OneCalls
<1>3. CallInv'  BY <1>0, <1>1 DEF CallInv
<1> QED  BY <1>1, <1>2, <1>3

\* A step of a call leaves what the agents rely on, when it leaves the slots
\* the agents have found FILLED.
LEMMA CallTakes ==
    ASSUME OnceInv, UNCHANGED <<driver, agent>>,
           \A k \in Kinds, s \in Slots : State(k, s) = "FILLED" =>
             State(k, s)' = "FILLED" /\ Data(k, s)' = Data(k, s)
    PROVE  TakeInv' /\ LaunchInv'
<1>0. HandleTypes /\ TakeInv /\ LaunchInv  BY DEF OnceInv
<1>1. \A a \in Agents : Doing(a)' = Doing(a) /\ Scan(a)' = Scan(a) /\ Hand(a)' = Hand(a)
  BY SameAgents, Zenon
<1>2. TakeInv'  BY <1>0, <1>1 DEF TakeInv
<1>3. LaunchInv'  BY <1>0, <1>1, Zenon DEF LaunchInv
<1> QED  BY <1>2, <1>3

\* The call looks at a slot, and goes on to fill it or to look at the next.
LEMMA LooksOnce ==
    ASSUME OneProducer, OnceInv, NEW t \in Threads, Pc(t) = "load",
           UNCHANGED <<driver, agent, bridge, client, served, outcome, dropped>>,
           NEW m \in ThreadRecord, WritesCall(t, m), m.item = Item(t),
           \/ m.pc = "load"
           \/ m.pc = "write" /\ m.at \in Slots /\ State(KindOf(Item(t)), m.at) = "EMPTY"
    PROVE  OnceInv'
<1>0. HandleTypes /\ DepositInv /\ KindInv  BY DEF OnceInv
<1>1. /\ Item(t) \in Handles /\ KindOf(Item(t)) \in Kinds /\ m.item # None /\ m.pc # "idle"
  <2>1. Item(t) \in Handles /\ KindOf(Item(t)) \in Kinds  BY OneCalls, Zenon
  <2> QED  BY <2>1, HandleFacts
<1>2. /\ thread' \in [Threads -> ThreadRecord] /\ CallInv'
      /\ Pc(t)' = m.pc /\ Try(t)' = m.at /\ Item(t)' = Item(t)
      /\ \A u \in Threads \ {t} : /\ Pc(u) = "idle" /\ Item(u) = None
                                  /\ Pc(u)' = "idle" /\ Item(u)' = None
  <2>1. Pc(t) # "idle" /\ (m.pc = "idle" <=> m.item = None)  BY <1>1, Zenon
  <2> QED  BY <2>1, CallGoesOn
<1>3. /\ \A k \in Kinds, s \in Slots : State(k, s)' = State(k, s) /\ Data(k, s)' = Data(k, s)
      /\ \A a \in Agents : Doing(a)' = Doing(a) /\ Scan(a)' = Scan(a) /\ Hand(a)' = Hand(a)
      /\ \A k, i, h : Listed(k, i, h)' <=> Listed(k, i, h)
      /\ \A h \in Handles : Counted(h) => Counted(h)'
  BY SameSlots, SameAgents, SameLists, SameCounts, Zenon
<1>4. HandleTypes'  BY <1>0, <1>2, Zenon DEF HandleTypes
<1>5. TakeInv' /\ LaunchInv'  BY <1>3, CallTakes, Zenon
<1>6. KindInv'  BY <1>0, <1>3, Zenon DEF KindInv
<1>7. DepositInv'
  <2>1. \A u \in Threads : Pc(u) # "store" /\ Pc(u)' # "store"  BY <1>2, Zenon
  <2>2. ASSUME NEW u \in Threads, Pc(u)' \in {"write", "store"}
        PROVE  u = t /\ Try(u)' \in Slots /\ State(KindOf(Item(t)), Try(u)') = "EMPTY"
    BY <1>2, <2>2, Zenon
  <2>3. ASSUME NEW u \in Threads, NEW k \in Kinds, NEW s \in Slots,
               Pc(u)' \in {"write", "store"}, KindOf(Item(u)') = k, Try(u)' = s
        PROVE  State(k, s)' = "EMPTY"
    BY <1>2, <1>3, <2>2, <2>3, Zenon
  <2>4. \A k \in Kinds, s \in Slots : State(k, s)' = "EMPTY" => Data(k, s)' = None
    BY <1>0, <1>3, <2>1, SMTT(40) DEF DepositInv
  <2> QED  BY <2>2, <2>3, <2>4, Zenon DEF DepositInv
<1>8. \A h \in Handles : \A w, i : At(h, w, i)' <=> At(h, w, i)
  <2>1. \A u \in Threads : Pc(u)' \in {"load", "write"} <=> Pc(u) \in {"load", "write"}  BY <1>2, Zenon
  <2>2. \A u \in Threads : Item(u)' = Item(u)  BY <1>2, Zenon
  <2>3. ASSUME NEW h \in Handles
        PROVE  \A u \in Threads : (Pc(u)' \in {"load", "write"} /\ Item(u)' = h)
                                     <=> (Pc(u) \in {"load", "write"} /\ Item(u) = h)
    BY <2>1, <2>2, Zenon
  <2> QED  BY <1>3, <2>3, AtSame, Zenon
<1>9. \A h \in Handles : Known(h)' => Known(h)
  <2>1. \A u \in Threads : Item(u)' = Item(u)  BY <1>2
  <2> QED  BY <2>1, Zenon DEF Known
<1>10. MadeInv' /\ ApartInv' /\ KeptInv'  BY <1>3, <1>8, <1>9, Stays
<1> QED  BY <1>2, <1>4, <1>5, <1>6, <1>7, <1>10 DEF OnceInv

\* The record of a thread that is in no call.
LEMMA IdleRecord ==
    \E m \in ThreadRecord : m = NoCall /\ m.pc = "idle" /\ m.item = None
<1>1. NoCall \in ThreadRecord /\ NoCall.pc = "idle" /\ NoCall.item = None
  BY SMTT(40) DEF ThreadRecord, NoCall
<1> QED  BY <1>1

\* All slots were tried: the handle is given up.
LEMMA GivesUpOnce ==
    ASSUME OneProducer, OnceInv, NEW t \in Threads, Pc(t) = "load", NEW g \in Handles, Item(t) = g,
           UNCHANGED <<driver, agent, bridge, client, served>>,
           WritesCall(t, NoCall),
           DOMAIN outcome' = DOMAIN outcome \cup {g}, dropped' = dropped \cup {g}
    PROVE  OnceInv'
<1>0. HandleTypes /\ DepositInv /\ KindInv  BY Zenon DEF OnceInv
<1>1. PICK m \in ThreadRecord : WritesCall(t, m) /\ m.pc = "idle" /\ m.item = None
  BY IdleRecord, Zenon
<1>2. /\ thread' \in [Threads -> ThreadRecord] /\ CallInv'
      /\ Pc(t)' = "idle" /\ Item(t)' = None
      /\ \A u \in Threads \ {t} : /\ Pc(u) = "idle" /\ Item(u) = None
                                  /\ Pc(u)' = "idle" /\ Item(u)' = None
  <2>1. Pc(t) # "idle" /\ (m.pc = "idle" <=> m.item = None)  BY <1>1, Zenon
  <2>2. WritesCall(t, m)  BY <1>1, Zenon
  <2>3. /\ thread' \in [Threads -> ThreadRecord] /\ CallInv'
        /\ Pc(t)' = m.pc /\ Item(t)' = m.item
        /\ \A u \in Threads \ {t} : /\ Pc(u) = "idle" /\ Item(u) = None
                                    /\ Pc(u)' = "idle" /\ Item(u)' = None
    BY <2>1, <2>2, CallGoesOn, Zenon
  <2> QED  BY <1>1, <2>3, Zenon
<1>3. /\ \A k \in Kinds, s \in Slots : State(k, s)' = State(k, s) /\ Data(k, s)' = Data(k, s)
      /\ \A a \in Agents : Doing(a)' = Doing(a) /\ Scan(a)' = Scan(a) /\ Hand(a)' = Hand(a)
      /\ \A k, i, h : Listed(k, i, h)' <=> Listed(k, i, h)
      /\ \A h \in Handles : Counted(h) => Counted(h)'
  BY SameSlots, SameAgents, SameLists, SameCounts, Zenon
<1>4. HandleTypes'  BY <1>0, <1>2, ZenonT(40) DEF HandleTypes
<1>5. TakeInv' /\ LaunchInv'  BY <1>3, CallTakes, Zenon
<1>6. KindInv'  BY <1>0, <1>3, ZenonT(40) DEF KindInv
<1>7. DepositInv'
  <2>1. \A u \in Threads : Pc(u) # "store" /\ Pc(u)' = "idle"  BY <1>2, ZenonT(40)
  <2>2. \A k \in Kinds, s \in Slots : State(k, s)' = "EMPTY" => Data(k, s)' = None
    BY <1>0, <1>3, <2>1, ZenonT(40) DEF DepositInv
  <2> QED  BY <2>1, <2>2, ZenonT(40) DEF DepositInv
<1>8. (\A w, i : At(g, w, i) => w = "call" /\ i = t) /\ Counted(g)
  <2>1. At(g, "call", t)  BY Zenon DEF At
  <2> QED  BY <2>1, OnlyThere, ZenonT(40)
<1>9. Moved(g, "drop", g)
  <2>1. ASSUME NEW h \in Handles \ {g} PROVE \A w, i : At(h, w, i)' <=> At(h, w, i)
    <3>1. h # None /\ h # g  BY HandleFacts, Zenon
    <3>2. \A u \in Threads : Item(u) # h /\ Item(u)' # h  BY <1>2, <3>1, Zenon
    <3>3. h \in dropped' <=> h \in dropped  BY <3>1, Zenon
    <3>4. \A u \in Threads : (Pc(u)' \in {"load", "write"} /\ Item(u)' = h)
                               <=> (Pc(u) \in {"load", "write"} /\ Item(u) = h)
      BY <3>2, Zenon
    <3> QED  BY <1>3, <3>3, <3>4, AtSame, Zenon
  <2>2. \A w, i : At(g, w, i)' <=> w = "drop" /\ i = g
    <3> DEFINE k == KindOf(g)
    <3>1. g # None /\ k \in Kinds  BY HandleFacts, Zenon
    <3>2. \A u \in Threads : Item(u)' # g  BY <1>2, <3>1, Zenon
    <3>3. \A s \in Slots : Data(k, s)' # g
      <4>1. \A i : ~At(g, "slot", i)  BY <1>8
      <4>2. \A s \in Slots : Data(k, s) # g  BY <4>1, Zenon DEF At
      <4> QED  BY <1>3, <3>1, <4>2, Zenon
    <3>4. \A a \in Agents : Hand(a)' # g
      <4>1. \A i : ~At(g, "hand", i)  BY <1>8
      <4>2. \A a \in Agents : Hand(a) # g  BY <4>1, Zenon DEF At
      <4> QED  BY <1>3, <4>2, Zenon
    <3>5. \A i : ~Listed(k, i, g)'
      <4>1. \A i : ~At(g, "list", i)  BY <1>8
      <4>2. \A i : ~Listed(k, i, g)  BY <4>1, Zenon DEF At
      <4> QED  BY <1>3, <4>2, Zenon
    <3>6. g \in dropped'  BY Zenon
    <3> QED  BY <3>2, <3>3, <3>4, <3>5, <3>6, Zenon DEF At
  <2>3. \A h \in Handles \ {g} : Known(h)' => Known(h)  BY <1>2, HandleFacts, ZenonT(40) DEF Known
  <2>4. Counted(g)'  BY <1>3, <1>8, ZenonT(40)
  <2> QED  BY <1>3, <2>1, <2>2, <2>3, <2>4, ZenonT(40) DEF Moved
<1>10. MadeInv' /\ ApartInv' /\ KeptInv'  BY <1>9, Moves, Zenon
<1> QED  BY <1>2, <1>4, <1>5, <1>6, <1>7, <1>10, Zenon DEF OnceInv

\* A call looks for a slot: no handle moves, unless all slots were tried.
LEMMA DepositLoadOnce ==
    ASSUME OneProducer, OnceInv, NEW t \in Threads, DepositLoad(t)
    PROVE  OnceInv'
<1>0. HandleTypes  BY DEF OnceInv
<1>1. /\ Pc(t) = "load" /\ UNCHANGED <<driver, agent, bridge, client, served>>
  BY DEF DepositLoad, Pc
<1>2. PICK g \in Handles : Item(t) = g  BY <1>1, OneCalls
<1>3. thread[t] \in ThreadRecord /\ Try(t) \in Nat \ {0} /\ BRIDGE_CAPACITY \in Nat \ {0}
  BY <1>0, ReadTypes, RegistrationAssumption, Zenon DEF HandleTypes
<1>4. CASE Try(t) > BRIDGE_CAPACITY
  <2>1. thread[t].at > BRIDGE_CAPACITY /\ thread[t].item = g  BY <1>2, <1>4 DEF Try, Item
  <2>2. /\ WritesCall(t, NoCall)
        /\ DOMAIN outcome' = DOMAIN outcome \cup {g} /\ dropped' = dropped \cup {g}
    BY <2>1 DEF DepositLoad, Returns, WritesCall, NoCall
  <2> QED  BY <1>1, <1>2, <2>2, GivesUpOnce, Zenon
<1>5. CASE ~(Try(t) > BRIDGE_CAPACITY)
  <2>1. Try(t) \in Slots  BY <1>3, <1>5 DEF Slots
  <2>2. UNCHANGED <<outcome, dropped>>  BY <1>5, Zenon DEF DepositLoad, Try
  <2>3. thread' = IF State(KindOf(Item(t)), Try(t)) = "EMPTY"
                  THEN [thread EXCEPT ![t].pc = "write"]
                  ELSE [thread EXCEPT ![t].at = @ + 1]
    BY <1>5, Zenon DEF DepositLoad, Try, State, KindOf, Item
  <2>4. CASE State(KindOf(Item(t)), Try(t)) = "EMPTY"
    <3> DEFINE m == [thread[t] EXCEPT !.pc = "write"]
    <3>1. m \in ThreadRecord /\ m.item = Item(t) /\ m.pc = "write" /\ m.at = Try(t)
      BY <1>3 DEF ThreadRecord, Item, Try
    <3>2. WritesCall(t, m)  BY <2>3, <2>4, Zenon DEF WritesCall
    <3> HIDE DEF m
    <3> QED  BY <1>1, <2>1, <2>2, <2>4, <3>1, <3>2, LooksOnce, Zenon
  <2>5. CASE State(KindOf(Item(t)), Try(t)) # "EMPTY"
    <3> DEFINE m == [thread[t] EXCEPT !.at = thread[t].at + 1]
    <3>1. m \in ThreadRecord /\ m.item = Item(t) /\ m.pc = "load"
      BY <1>1, <1>3 DEF ThreadRecord, Item, Pc
    <3>2. WritesCall(t, m)  BY <2>3, <2>5, Zenon DEF WritesCall
    <3> HIDE DEF m
    <3> QED  BY <1>1, <2>2, <3>1, <3>2, LooksOnce
  <2> QED  BY <2>4, <2>5
<1> QED  BY <1>4, <1>5

\* The call returns: the handle is where the deposit left it, or further.
LEMMA SendOnce ==
    ASSUME OneProducer, OnceInv, NEW t \in Threads,
           send_add_publication(t) \/ SendAddSubscription(t)
    PROVE  OnceInv'
<1>0. HandleTypes /\ DepositInv /\ KindInv  BY Zenon DEF OnceInv
<1>1. /\ Pc(t) = "send" /\ UNCHANGED <<driver, agent, bridge, client, served, dropped>>
      /\ WritesCall(t, NoCall)
      /\ DOMAIN outcome' = DOMAIN outcome \cup {Item(t)}
  <2>1. \E result : Returns(t, result)  BY DEF send_add_publication, SendAddSubscription
  <2>2. PICK result : Returns(t, result)  BY <2>1, Zenon
  <2>3. /\ WritesCall(t, NoCall)
        /\ DOMAIN outcome' = DOMAIN outcome \cup {Item(t)}
    BY <2>2, SMTT(40) DEF Returns, Item, WritesCall, NoCall
  <2>4. Pc(t) = "send" /\ UNCHANGED <<driver, agent, bridge, client, served, dropped>>
    BY ZenonT(40) DEF send_add_publication, SendAddSubscription, Pc
  <2> QED  BY <2>3, <2>4, Zenon
<1>2. PICK g \in Handles : Item(t) = g  BY <1>1, OneCalls, Zenon
<1>3. PICK m \in ThreadRecord : WritesCall(t, m) /\ m.pc = "idle" /\ m.item = None
  BY <1>1, IdleRecord, Zenon
<1>4. /\ thread' \in [Threads -> ThreadRecord] /\ CallInv'
      /\ Pc(t)' = "idle" /\ Item(t)' = None
      /\ \A u \in Threads \ {t} : /\ Pc(u) = "idle" /\ Item(u) = None
                                  /\ Pc(u)' = "idle" /\ Item(u)' = None
  <2>1. Pc(t) # "idle" /\ (m.pc = "idle" <=> m.item = None)  BY <1>1, <1>3, Zenon
  <2>2. WritesCall(t, m)  BY <1>3, Zenon
  <2>3. /\ thread' \in [Threads -> ThreadRecord] /\ CallInv'
        /\ Pc(t)' = m.pc /\ Item(t)' = m.item
        /\ \A u \in Threads \ {t} : /\ Pc(u) = "idle" /\ Item(u) = None
                                    /\ Pc(u)' = "idle" /\ Item(u)' = None
    BY <2>1, <2>2, CallGoesOn, SMTT(40)
  <2> QED  BY <1>3, <2>3, SMTT(40)
<1>5. /\ \A k \in Kinds, s \in Slots : State(k, s)' = State(k, s) /\ Data(k, s)' = Data(k, s)
      /\ \A a \in Agents : Doing(a)' = Doing(a) /\ Scan(a)' = Scan(a) /\ Hand(a)' = Hand(a)
      /\ \A k, i, h : Listed(k, i, h)' <=> Listed(k, i, h)
      /\ \A h \in Handles : Counted(h) => Counted(h)'
  BY <1>1, SameSlots, SameAgents, SameLists, SameCounts, ZenonT(40)
<1>6. HandleTypes'  BY <1>0, <1>1, <1>2, <1>4, ZenonT(40) DEF HandleTypes
<1>7. TakeInv' /\ LaunchInv'  BY <1>1, <1>5, CallTakes, Zenon
<1>8. KindInv'  BY <1>0, <1>5, Zenon DEF KindInv
<1>9. DepositInv'
  <2>1. \A u \in Threads : Pc(u) # "store" /\ Pc(u)' = "idle"  BY <1>1, <1>4, Zenon
  <2>2. \A k \in Kinds, s \in Slots : State(k, s)' = "EMPTY" => Data(k, s)' = None
    BY <1>0, <1>5, <2>1, SMTT(40) DEF DepositInv
  <2> QED  BY <2>1, <2>2, Zenon DEF DepositInv
<1>10. ASSUME NEW h \in Handles PROVE \A w, i : At(h, w, i)' <=> At(h, w, i)
  <2>1. h # None  BY HandleFacts, Zenon
  <2>2. \A u \in Threads : (Pc(u)' \in {"load", "write"} /\ Item(u)' = h)
                             <=> (Pc(u) \in {"load", "write"} /\ Item(u) = h)
    BY <1>1, <1>4, <2>1, Zenon
  <2> QED  BY <1>1, <1>5, <2>2, AtSame, Zenon
<1>11. \A h \in Handles : Known(h)' => Known(h)
  BY <1>1, <1>2, <1>4, HandleFacts, Zenon DEF Known
<1>12. MadeInv' /\ ApartInv' /\ KeptInv'  BY <1>5, <1>10, <1>11, Stays, Zenon
<1> QED  BY <1>4, <1>6, <1>7, <1>8, <1>9, <1>12, Zenon DEF OnceInv

\* The handle goes from the call to the slot, which held nothing.
LEMMA DepositWriteOnce ==
    ASSUME OneProducer, OnceInv, NEW t \in Threads, DepositWrite(t)
    PROVE  OnceInv'
<1>0. HandleTypes /\ CallInv /\ DepositInv /\ KindInv  BY Zenon DEF OnceInv
<1>1. Pc(t) = "write" /\ UNCHANGED <<driver, agent, client, served, outcome, dropped>>
  BY DEF DepositWrite, Pc
<1>2. PICK g \in Handles : Item(t) = g  BY <1>1, OneCalls, Zenon
<1>3. PICK k \in Kinds : k = KindOf(g)  BY HandleFacts, Zenon
<1>4. PICK s \in Slots : s = Try(t)  BY <1>0, <1>1 DEF DepositInv
<1> DEFINE m == [thread[t] EXCEPT !.pc = "store"]
<1>5. m \in ThreadRecord /\ m.pc = "store" /\ m.at = s /\ m.item = g
  <2>1. thread[t] \in ThreadRecord  BY <1>0, Zenon DEF HandleTypes
  <2> QED  BY <1>2, <1>4, <2>1 DEF ThreadRecord, Item, Try
<1>6. WritesCall(t, m)  BY DEF DepositWrite, WritesCall
<1>7. WritesData(k, s, g)
  BY <1>2, <1>3, <1>4, Zenon DEF DepositWrite, Item, Try, KindOf, WritesData
<1> HIDE DEF m
<1>8. /\ thread' \in [Threads -> ThreadRecord] /\ CallInv'
      /\ Pc(t)' = "store" /\ Try(t)' = s /\ Item(t)' = g
      /\ \A u \in Threads \ {t} : /\ Pc(u) = "idle" /\ Item(u) = None
                                  /\ Pc(u)' = "idle" /\ Item(u)' = None
  <2>1. Pc(t) # "idle" /\ (m.pc = "idle" <=> m.item = None)  BY <1>1, <1>5, HandleFacts, Zenon
  <2>2. m \in ThreadRecord  BY <1>5, Zenon
  <2>3. /\ thread' \in [Threads -> ThreadRecord] /\ CallInv'
        /\ Pc(t)' = m.pc /\ Try(t)' = m.at /\ Item(t)' = m.item
        /\ \A u \in Threads \ {t} : /\ Pc(u) = "idle" /\ Item(u) = None
                                    /\ Pc(u)' = "idle" /\ Item(u)' = None
    BY <1>6, <2>1, <2>2, CallGoesOn, Zenon
  <2> QED  BY <1>5, <2>3, Zenon
<1>9. State(k, s) = "EMPTY" /\ Data(k, s) = None
  <2>1. State(k, s) = "EMPTY"  BY <1>0, <1>1, <1>2, <1>3, <1>4, Zenon DEF DepositInv
  <2>2. \A u \in Threads : Pc(u) # "store"  BY <1>1, <1>8, Zenon
  <2> QED  BY <1>0, <2>1, <2>2, Zenon DEF DepositInv
<1>10. /\ bridge' \in [Kinds -> BridgeRecord]
       /\ \A l \in Kinds, z \in Slots : State(l, z)' = State(l, z)
       /\ \A l \in Kinds, z \in Slots : Data(l, z)' = IF l = k /\ z = s THEN g ELSE Data(l, z)
  <2>1. g \in MaybeHandle  BY Zenon DEF MaybeHandle
  <2> QED  BY <1>0, <1>7, <2>1, DataWritten
<1>11. /\ \A a \in Agents : Doing(a)' = Doing(a) /\ Scan(a)' = Scan(a) /\ Hand(a)' = Hand(a)
       /\ \A l, i, h : Listed(l, i, h)' <=> Listed(l, i, h)
       /\ \A h \in Handles : Counted(h) => Counted(h)'
  BY <1>1, SameAgents, SameLists, SameCounts, Zenon
<1>12. HandleTypes'  BY <1>0, <1>1, <1>8, <1>10, Zenon DEF HandleTypes
<1>13. TakeInv' /\ LaunchInv'
  <2>1. \A l \in Kinds, z \in Slots : State(l, z) = "FILLED" =>
          State(l, z)' = "FILLED" /\ Data(l, z)' = Data(l, z)
    BY <1>9, <1>10, Zenon
  <2> QED  BY <1>1, <2>1, CallTakes, Zenon
<1>14. KindInv'  BY <1>0, <1>3, <1>10, SMTT(40) DEF KindInv
<1>15. DepositInv'
  <2>1. \A u \in Threads : Pc(u) # "store"  BY <1>1, <1>8
  <2>2. ASSUME NEW u \in Threads, Pc(u)' \in {"write", "store"}
        PROVE  Try(u)' = s /\ Item(u)' = g
    BY <1>8, <2>2, Zenon
  <2>3. ASSUME NEW u \in Threads, NEW l \in Kinds, NEW z \in Slots,
               Pc(u)' \in {"write", "store"}, KindOf(Item(u)') = l, Try(u)' = z
        PROVE  State(l, z)' = "EMPTY"
    BY <1>3, <1>9, <1>10, <2>2, <2>3, Zenon
  <2>4. ASSUME NEW l \in Kinds, NEW z \in Slots, State(l, z)' = "EMPTY", Data(l, z)' # None
        PROVE  \E u \in Threads : Pc(u)' = "store" /\ KindOf(Item(u)') = l /\ Try(u)' = z
    <3>1. l = k /\ z = s  BY <1>0, <1>10, <2>1, <2>4 DEF DepositInv
    <3> QED  BY <1>3, <1>8, <3>1, Zenon
  <2> QED  BY <2>2, <2>3, <2>4, Zenon DEF DepositInv
<1>16. (\A w, i : At(g, w, i) => w = "call" /\ i = t) /\ Counted(g)
  <2>1. At(g, "call", t)  BY <1>1, <1>2, Zenon DEF At
  <2> QED  BY <2>1, OnlyThere, Zenon
<1>17. Moved(g, "slot", s)
  <2>1. ASSUME NEW h \in Handles, h # g, NEW w, NEW i
        PROVE  At(h, w, i)' <=> At(h, w, i)
    <3>1. KindOf(h) \in Kinds /\ h # None  BY HandleFacts, Zenon
    <3>2. \A z \in Slots : Data(KindOf(h), z)' = h <=> Data(KindOf(h), z) = h
      BY <1>9, <1>10, <2>1, <3>1, Zenon
    <3>3. \A u \in Threads : ~(Item(u)' = h) /\ ~(Item(u) = h)  BY <1>2, <1>8, <2>1, <3>1, Zenon
    <3> QED  BY <1>1, <1>11, <3>2, <3>3, Zenon DEF At
  <2>2. ASSUME NEW w, NEW i
        PROVE  At(g, w, i)' <=> w = "slot" /\ i = s
    <3>1. \A u \in Threads : ~(Pc(u)' \in {"load", "write"} /\ Item(u)' = g)
      <4>1. g # None  BY HandleFacts, Zenon
      <4> QED  BY <1>8, <4>1
    <3>2. \A z \in Slots : Data(KindOf(g), z)' = g <=> z = s
      <4>1. \A z \in Slots : Data(KindOf(g), z) # g  BY <1>16 DEF At
      <4> QED  BY <1>3, <1>10, <4>1, Zenon
    <3>3. ~At(g, "hand", i) /\ ~At(g, "list", i) /\ ~At(g, "drop", i)  BY <1>16, SMTT(40)
    <3> QED  BY <1>1, <1>11, <3>1, <3>2, <3>3, Zenon DEF At
  <2>3. \A h \in Handles \ {g} : Known(h)' => Known(h)  BY <1>1, <1>8, HandleFacts, Zenon DEF Known
  <2>4. Counted(g)'  BY <1>11, <1>16, Zenon
  <2>5. \A h \in Handles : Counted(h) => Counted(h)'  BY <1>11, Zenon
  <2> QED  BY <2>1, <2>2, <2>3, <2>4, <2>5, Zenon DEF Moved
<1>18. MadeInv' /\ ApartInv' /\ KeptInv'  BY <1>17, Moves, Zenon
<1> QED  BY <1>8, <1>12, <1>13, <1>14, <1>15, <1>18 DEF OnceInv

\* The slot is published: no handle moves.
LEMMA DepositStoreOnce ==
    ASSUME OneProducer, OnceInv, NEW t \in Threads, DepositStore(t)
    PROVE  OnceInv'
<1>0. HandleTypes /\ CallInv /\ DepositInv /\ KindInv  BY DEF OnceInv
<1>1. Pc(t) = "store" /\ UNCHANGED <<driver, agent, client, served, outcome, dropped>>
  BY Zenon DEF DepositStore, Pc
<1>2. PICK g \in Handles : Item(t) = g  BY <1>1, OneCalls, Zenon
<1>3. PICK k \in Kinds : k = KindOf(g)  BY HandleFacts
<1>4. PICK s \in Slots : s = Try(t)  BY <1>0, <1>1 DEF DepositInv
<1> DEFINE m == [thread[t] EXCEPT !.pc = "send"]
<1>5. m \in ThreadRecord /\ m.pc = "send" /\ m.item = g
  <2>1. thread[t] \in ThreadRecord  BY <1>0 DEF HandleTypes
  <2> QED  BY <1>2, <2>1, Zenon DEF ThreadRecord, Item
<1>6. WritesCall(t, m)  BY DEF DepositStore, WritesCall
<1>7. WritesState(k, s, "FILLED")
  BY <1>2, <1>3, <1>4, Zenon DEF DepositStore, Item, Try, KindOf, WritesState
<1> HIDE DEF m
<1>8. /\ thread' \in [Threads -> ThreadRecord] /\ CallInv'
      /\ Pc(t)' = "send" /\ Item(t)' = g
      /\ \A u \in Threads \ {t} : /\ Pc(u) = "idle" /\ Item(u) = None
                                  /\ Pc(u)' = "idle" /\ Item(u)' = None
  <2>1. Pc(t) # "idle" /\ (m.pc = "idle" <=> m.item = None)  BY <1>1, <1>5, HandleFacts
  <2>2. m \in ThreadRecord  BY <1>5, Zenon
  <2>3. /\ thread' \in [Threads -> ThreadRecord] /\ CallInv'
        /\ Pc(t)' = m.pc /\ Item(t)' = m.item
        /\ \A u \in Threads \ {t} : /\ Pc(u) = "idle" /\ Item(u) = None
                                    /\ Pc(u)' = "idle" /\ Item(u)' = None
    BY <1>6, <2>1, <2>2, CallGoesOn, Zenon
  <2> QED  BY <1>5, <2>3, Zenon
<1>9. /\ bridge' \in [Kinds -> BridgeRecord]
      /\ \A l \in Kinds, z \in Slots : Data(l, z)' = Data(l, z)
      /\ \A l \in Kinds, z \in Slots : State(l, z)' = IF l = k /\ z = s THEN "FILLED" ELSE State(l, z)
  BY <1>0, <1>7, StateWritten, Zenon
<1>10. /\ \A a \in Agents : Doing(a)' = Doing(a) /\ Scan(a)' = Scan(a) /\ Hand(a)' = Hand(a)
       /\ \A l, i, h : Listed(l, i, h)' <=> Listed(l, i, h)
       /\ \A h \in Handles : Counted(h) => Counted(h)'
  BY <1>1, SameAgents, SameLists, SameCounts, Zenon
<1>11. HandleTypes'  BY <1>0, <1>1, <1>8, <1>9, Zenon DEF HandleTypes
<1>12. TakeInv' /\ LaunchInv'
  <2>1. \A l \in Kinds, z \in Slots : State(l, z) = "FILLED" =>
          State(l, z)' = "FILLED" /\ Data(l, z)' = Data(l, z)
    BY <1>9, Zenon
  <2> QED  BY <1>1, <2>1, CallTakes, Zenon
<1>13. KindInv'  BY <1>0, <1>9, Zenon DEF KindInv
<1>14. DepositInv'
  <2>1. \A u \in Threads : Pc(u)' \notin {"write", "store"}  BY <1>8, Zenon
  <2>2. ASSUME NEW l \in Kinds, NEW z \in Slots, State(l, z)' = "EMPTY"
        PROVE  Data(l, z)' = None
    <3>1. ~(l = k /\ z = s) /\ State(l, z) = "EMPTY"  BY <1>9, <2>2, Zenon
    <3>2. ~\E u \in Threads : Pc(u) = "store" /\ KindOf(Item(u)) = l /\ Try(u) = z
      BY <1>2, <1>3, <1>4, <1>8, <3>1, Zenon
    <3> QED  BY <1>0, <1>9, <3>1, <3>2, SMTT(40) DEF DepositInv
  <2> QED  BY <2>1, <2>2, Zenon DEF DepositInv
<1>15. \A h \in Handles : \A w, i : At(h, w, i)' <=> At(h, w, i)
  BY <1>1, <1>8, <1>9, <1>10, HandleFacts, SMTT(40) DEF At
<1>16. \A h \in Handles : Known(h)' => Known(h)  BY <1>1, <1>2, <1>8, HandleFacts, Zenon DEF Known
<1>17. MadeInv' /\ ApartInv' /\ KeptInv'  BY <1>10, <1>15, <1>16, Stays, Zenon
<1> QED  BY <1>8, <1>11, <1>12, <1>13, <1>14, <1>17, Zenon DEF OnceInv

\* The agent of bridge k goes on with its scan.
LEMMA AgentGoesOn ==
    ASSUME OnceInv, NEW k \in Kinds, NEW b \in Agents, b = AgentOf[k],
           Doing(b) \in {"load", "take", "store"},
           NEW m \in AgentRecord, WritesAgent(b, m), driver' = driver
    PROVE  /\ agent' \in [Agents -> AgentRecord] /\ LaunchInv'
           /\ Doing(b)' = m.pc /\ Scan(b)' = m.at /\ Hand(b)' = m.item
           /\ \A a \in Agents \ {b} : Doing(a)' = Doing(a) /\ Scan(a)' = Scan(a) /\ Hand(a)' = Hand(a)
           /\ \A l \in Kinds : AgentOf[l] = b => l = k
<1>0. HandleTypes /\ LaunchInv  BY Zenon DEF OnceInv
<1>1. /\ agent' \in [Agents -> AgentRecord]
      /\ Doing(b)' = m.pc /\ Scan(b)' = m.at /\ Hand(b)' = m.item
      /\ \A a \in Agents \ {b} : Doing(a)' = Doing(a) /\ Scan(a)' = Scan(a) /\ Hand(a)' = Hand(a)
  BY <1>0, AgentWritten
<1>2. driver.state # "none"  BY <1>0 DEF LaunchInv
<1>3. LaunchInv'  BY <1>0, <1>2 DEF LaunchInv
<1>4. \A l \in Kinds : AgentOf[l] = b => l = k  BY AgentsOfBridges, Zenon
<1> QED  BY <1>1, <1>3, <1>4

\* What the agent of bridge k and the slots must satisfy for TakeInv to hold
\* after a step of this agent.
LEMMA TakesOn ==
    ASSUME OnceInv, NEW k \in Kinds, NEW b \in Agents, b = AgentOf[k],
           \A a \in Agents \ {b} : Doing(a)' = Doing(a) /\ Scan(a)' = Scan(a) /\ Hand(a)' = Hand(a),
           \A l \in Kinds : AgentOf[l] = b => l = k,
           \A l \in Kinds \ {k}, z \in Slots : State(l, z)' = State(l, z) /\ Data(l, z)' = Data(l, z),
           \A s \in Slots : Scan(b)' = s =>
             /\ Doing(b)' \in {"take", "store"} => State(k, s)' = "FILLED"
             /\ Doing(b)' = "store" => Data(k, s)' = None,
           Hand(b)' # None => KindOf(Hand(b)') = k,
           Doing(b)' # "store" => Hand(b)' = None
    PROVE  TakeInv'
<1>0. TakeInv  BY Zenon DEF OnceInv
<1>1. ASSUME NEW l \in Kinds, NEW a \in Agents, NEW s \in Slots, a = AgentOf[l], Scan(a)' = s
      PROVE  /\ Doing(a)' \in {"take", "store"} => State(l, s)' = "FILLED"
             /\ Doing(a)' = "store" => Data(l, s)' = None
  <2>1. CASE l = k  BY <1>1, <2>1, Zenon
  <2>2. CASE l # k
    <3>1. a # b  BY <1>1, <2>2, Zenon
    <3> QED  BY <1>0, <1>1, <2>2, <3>1, SMTT(40) DEF TakeInv
  <2> QED  BY <2>1, <2>2, Zenon
<1>2. ASSUME NEW l \in Kinds, NEW a \in Agents, a = AgentOf[l], Hand(a)' # None
      PROVE  KindOf(Hand(a)') = l
  <2>1. CASE l = k  BY <1>2, <2>1, Zenon
  <2>2. CASE l # k
    <3>1. a # b  BY <1>2, <2>2, Zenon
    <3> QED  BY <1>0, <1>2, <3>1, Zenon DEF TakeInv
  <2> QED  BY <2>1, <2>2, Zenon
<1>3. \A a \in Agents : Doing(a)' # "store" => Hand(a)' = None  BY <1>0 DEF TakeInv
<1> QED  BY <1>1, <1>2, <1>3, Zenon DEF TakeInv

\* The scan stays within the bridge.
LEMMA NextSlotType == \A s \in Slots : NextSlot(s) \in Slots
<1>1. BRIDGE_CAPACITY \in Nat \ {0}  BY RegistrationAssumption, Zenon
<1> QED  BY <1>1 DEF NextSlot, Slots

\* What TakeLoad writes.
LEMMA TakeLoadWrites ==
    ASSUME OnceInv, NEW k \in Kinds, TakeLoad(k), NEW b \in Agents, b = AgentOf[k]
    PROVE  /\ Doing(b) = "load"
           /\ UNCHANGED <<driver, bridge, client, thread, served, outcome, dropped>>
           /\ \E m \in AgentRecord :
                /\ WritesAgent(b, m)
                /\ m.item = Hand(b)
                /\ \/ m.pc = "load"
                   \/ m.pc = "take" /\ m.at = Scan(b) /\ State(k, Scan(b)) = "FILLED"
<1>0. HandleTypes  BY DEF OnceInv
<1>1. Doing(b) = "load" /\ UNCHANGED <<driver, bridge, client, thread, served, outcome, dropped>>
  BY DEF TakeLoad, Doing
<1>2. agent[b] \in AgentRecord  BY <1>0, Zenon DEF HandleTypes
<1>3. CASE State(k, Scan(b)) = "FILLED"
  <2> DEFINE m == [agent[b] EXCEPT !.pc = "take"]
  <2>1. WritesAgent(b, m)  BY <1>3 DEF TakeLoad, State, Scan, WritesAgent
  <2>2. m \in AgentRecord /\ m.item = Hand(b) /\ m.pc = "take" /\ m.at = Scan(b)
    BY <1>2, Zenon DEF AgentRecord, Hand, Scan
  <2> HIDE DEF m
  <2> QED  BY <1>1, <1>3, <2>1, <2>2, Zenon
<1>4. CASE State(k, Scan(b)) # "FILLED"
  <2> DEFINE m == [agent[b] EXCEPT !.at = NextSlot(agent[b].at)]
  <2>1. WritesAgent(b, m)  BY <1>4, Zenon DEF TakeLoad, State, Scan, WritesAgent
  <2>2. NextSlot(agent[b].at) \in Slots  BY <1>2, NextSlotType DEF AgentRecord
  <2>3. m \in AgentRecord /\ m.item = Hand(b) /\ m.pc = "load"
    BY <1>1, <1>2, <2>2, Zenon DEF AgentRecord, Hand, Doing
  <2> HIDE DEF m
  <2> QED  BY <1>1, <2>1, <2>3, Zenon
<1> QED  BY <1>3, <1>4

\* The agent looks at a slot.
LEMMA TakeLoadOnce ==
    ASSUME OnceInv, NEW k \in Kinds, TakeLoad(k)
    PROVE  OnceInv'
<1>0. HandleTypes /\ CallInv /\ TakeInv /\ DepositInv /\ KindInv  BY DEF OnceInv
<1>1. PICK b \in Agents : b = AgentOf[k]  BY AgentsOfBridges, Zenon
<1>2. /\ Doing(b) = "load"
      /\ UNCHANGED <<driver, bridge, client, thread, served, outcome, dropped>>
  BY <1>1, TakeLoadWrites, Zenon
<1>3. PICK m \in AgentRecord : /\ WritesAgent(b, m)
                               /\ m.item = Hand(b)
                               /\ \/ m.pc = "load"
                                  \/ m.pc = "take" /\ m.at = Scan(b) /\ State(k, Scan(b)) = "FILLED"
  BY <1>1, TakeLoadWrites, Zenon
<1>4. /\ agent' \in [Agents -> AgentRecord] /\ LaunchInv'
      /\ Doing(b)' = m.pc /\ Scan(b)' = m.at /\ Hand(b)' = m.item
      /\ \A a \in Agents \ {b} : Doing(a)' = Doing(a) /\ Scan(a)' = Scan(a) /\ Hand(a)' = Hand(a)
      /\ \A l \in Kinds : AgentOf[l] = b => l = k
  <2>1. driver' = driver /\ Doing(b) \in {"load", "take", "store"}  BY <1>2
  <2>2. WritesAgent(b, m)  BY <1>3, Zenon
  <2> QED  BY <1>1, <2>1, <2>2, AgentGoesOn
<1>5. /\ \A t \in Threads : Pc(t)' = Pc(t) /\ Try(t)' = Try(t) /\ Item(t)' = Item(t)
      /\ \A l \in Kinds, z \in Slots : State(l, z)' = State(l, z) /\ Data(l, z)' = Data(l, z)
      /\ \A l, i, h : Listed(l, i, h)' <=> Listed(l, i, h)
      /\ \A h \in Handles : Counted(h) => Counted(h)'
  BY <1>2, SameCalls, SameSlots, SameLists, SameCounts, Zenon
<1>6. Hand(b) = None /\ \A a \in Agents : Hand(a)' = Hand(a)
  <2>1. Hand(b)' = Hand(b)  BY <1>3, <1>4, Zenon
  <2> QED  BY <1>0, <1>2, <1>4, <2>1, Zenon DEF TakeInv
<1>7. HandleTypes'  BY <1>0, <1>2, <1>4, Zenon DEF HandleTypes
<1>8. CallInv' /\ KindInv' /\ DepositInv'
  <2>1. CallInv' /\ KindInv'  BY <1>0, <1>5, Zenon DEF CallInv, KindInv
  <2>2. DepositInv'  BY <1>0, <1>5, SMTT(40) DEF DepositInv
  <2> QED  BY <2>1, <2>2, Zenon
<1>9. TakeInv'
  <2>1. \A s \in Slots : Scan(b)' = s =>
          /\ Doing(b)' \in {"take", "store"} => State(k, s)' = "FILLED"
          /\ Doing(b)' = "store" => Data(k, s)' = None
    BY <1>3, <1>4, <1>5
  <2>2. Hand(b)' = None  BY <1>6, Zenon
  <2> QED  BY <1>1, <1>4, <1>5, <2>1, <2>2, TakesOn, Zenon
<1>10. \A h \in Handles : \A w, i : At(h, w, i)' <=> At(h, w, i)
  BY <1>2, <1>5, <1>6, HandleFacts, SMTT(40) DEF At
<1>11. \A h \in Handles : Known(h)' => Known(h)  BY <1>2, <1>5, Zenon DEF Known
<1>12. MadeInv' /\ ApartInv' /\ KeptInv'  BY <1>5, <1>10, <1>11, Stays, Zenon
<1> QED  BY <1>4, <1>7, <1>8, <1>9, <1>12 DEF OnceInv

\* What TakeData writes.
LEMMA TakeDataWrites ==
    ASSUME OnceInv, NEW k \in Kinds, TakeData(k), NEW b \in Agents, b = AgentOf[k],
           NEW s \in Slots, s = Scan(b), NEW g \in MaybeHandle, g = Data(k, s)
    PROVE  /\ Doing(b) = "take" /\ WritesData(k, s, None)
           /\ UNCHANGED <<driver, client, thread, served, outcome, dropped>>
           /\ \E m \in AgentRecord : /\ WritesAgent(b, m)
                                     /\ m.pc = "store" /\ m.at = s /\ m.item = g
<1>0. agent \in [Agents -> AgentRecord] /\ agent[b] \in AgentRecord  BY Zenon DEF OnceInv, HandleTypes
<1>1. /\ Doing(b) = "take" /\ WritesData(k, s, None)
      /\ UNCHANGED <<driver, client, thread, served, outcome, dropped>>
  BY Zenon DEF TakeData, Doing, Scan, WritesData
<1>2. agent' = [agent EXCEPT ![b].pc = "store", ![b].item = g]
  BY DEF TakeData, Scan, Data
<1> DEFINE m == [agent[b] EXCEPT !.pc = "store", !.item = g]
<1>3. WritesAgent(b, m)  BY <1>0, <1>2, Zenon DEF WritesAgent
<1>4. m \in AgentRecord /\ m.pc = "store" /\ m.at = s /\ m.item = g
  BY <1>0, Zenon DEF AgentRecord, Scan, MaybeHandle
<1> HIDE DEF m
<1> QED  BY <1>1, <1>3, <1>4, Zenon

\* The handle goes from the slot to the agent's hand.
LEMMA TakeDataOnce ==
    ASSUME OnceInv, NEW k \in Kinds, TakeData(k)
    PROVE  OnceInv'
<1>0. HandleTypes /\ CallInv /\ TakeInv /\ DepositInv /\ KindInv  BY DEF OnceInv
<1>1. PICK b \in Agents : b = AgentOf[k]  BY AgentsOfBridges
<1>2. PICK s \in Slots : s = Scan(b)  BY <1>0, ReadTypes, Zenon
<1>3. PICK g \in MaybeHandle : g = Data(k, s)  BY <1>0, ReadTypes, Zenon DEF MaybeHandle
<1>4. /\ Doing(b) = "take" /\ WritesData(k, s, None)
      /\ UNCHANGED <<driver, client, thread, served, outcome, dropped>>
  BY <1>1, <1>2, <1>3, TakeDataWrites, Zenon
<1>5. PICK m \in AgentRecord : /\ WritesAgent(b, m)
                               /\ m.pc = "store" /\ m.at = s /\ m.item = g
  BY <1>1, <1>2, <1>3, TakeDataWrites, SMTT(40)
<1>6. /\ agent' \in [Agents -> AgentRecord] /\ LaunchInv'
      /\ Doing(b)' = "store" /\ Scan(b)' = s /\ Hand(b)' = g
      /\ \A a \in Agents \ {b} : Doing(a)' = Doing(a) /\ Scan(a)' = Scan(a) /\ Hand(a)' = Hand(a)
      /\ \A l \in Kinds : AgentOf[l] = b => l = k
  <2>1. driver' = driver /\ Doing(b) \in {"load", "take", "store"}  BY <1>4, Zenon
  <2>2. WritesAgent(b, m)  BY <1>5, Zenon
  <2>3. /\ agent' \in [Agents -> AgentRecord] /\ LaunchInv'
        /\ Doing(b)' = m.pc /\ Scan(b)' = m.at /\ Hand(b)' = m.item
        /\ \A a \in Agents \ {b} : Doing(a)' = Doing(a) /\ Scan(a)' = Scan(a) /\ Hand(a)' = Hand(a)
        /\ \A l \in Kinds : AgentOf[l] = b => l = k
    BY <1>1, <2>1, <2>2, AgentGoesOn, Zenon
  <2> QED  BY <1>5, <2>3, Zenon
<1>7. /\ bridge' \in [Kinds -> BridgeRecord]
      /\ \A l \in Kinds, z \in Slots : State(l, z)' = State(l, z)
      /\ \A l \in Kinds, z \in Slots : Data(l, z)' = IF l = k /\ z = s THEN None ELSE Data(l, z)
  <2>1. None \in MaybeHandle  BY Zenon DEF MaybeHandle
  <2> QED  BY <1>0, <1>4, <2>1, DataWritten
<1>8. /\ \A t \in Threads : Pc(t)' = Pc(t) /\ Try(t)' = Try(t) /\ Item(t)' = Item(t)
      /\ \A l, i, h : Listed(l, i, h)' <=> Listed(l, i, h)
      /\ \A h \in Handles : Counted(h) => Counted(h)'
  BY <1>4, SameCalls, SameLists, SameCounts, Zenon
<1>9. HandleTypes'  BY <1>0, <1>4, <1>6, <1>7, Zenon DEF HandleTypes
<1>10. CallInv' /\ KindInv'  BY <1>0, <1>7, <1>8, Zenon DEF CallInv, KindInv
<1>11. DepositInv'  BY <1>0, <1>7, <1>8, SMTT(40) DEF DepositInv
<1>12. State(k, s) = "FILLED" /\ Hand(b) = None /\ (g # None => g \in Handles /\ KindOf(g) = k)
  BY <1>0, <1>1, <1>2, <1>3, <1>4, Zenon DEF TakeInv, KindInv, MaybeHandle
<1>13. TakeInv'
  <2>1. \A z \in Slots : Scan(b)' = z =>
          /\ Doing(b)' \in {"take", "store"} => State(k, z)' = "FILLED"
          /\ Doing(b)' = "store" => Data(k, z)' = None
    BY <1>6, <1>7, <1>12, Zenon
  <2>2. \A l \in Kinds \ {k}, z \in Slots : State(l, z)' = State(l, z) /\ Data(l, z)' = Data(l, z)
    BY <1>7, Zenon
  <2>3. Doing(b)' = "store" /\ (Hand(b)' # None => KindOf(Hand(b)') = k)  BY <1>6, <1>12, Zenon
  <2> QED  BY <1>1, <1>6, <2>1, <2>2, <2>3, TakesOn, Zenon
<1>14. ASSUME NEW h \in Handles, h # g, NEW w, NEW i
       PROVE  At(h, w, i)' <=> At(h, w, i)
  <2>1. KindOf(h) \in Kinds /\ h # None  BY HandleFacts, Zenon
  <2>2. \A a \in Agents : Hand(a)' = h <=> Hand(a) = h  BY <1>6, <1>12, <1>14, <2>1, Zenon
  <2>3. \A z \in Slots : Data(KindOf(h), z)' = h <=> Data(KindOf(h), z) = h
    BY <1>3, <1>7, <1>14, <2>1, Zenon
  <2> QED  BY <1>4, <1>8, <2>2, <2>3, Zenon DEF At
<1>15. \A h \in Handles : Known(h)' => Known(h)  BY <1>4, <1>8, Zenon DEF Known
<1>16. CASE g = None
  <2>1. \A h \in Handles : \A w, i : At(h, w, i)' <=> At(h, w, i)  BY <1>14, <1>16, HandleFacts, Zenon
  <2>2. MadeInv' /\ ApartInv' /\ KeptInv'  BY <1>8, <1>15, <2>1, Stays, Zenon
  <2> QED  BY <1>6, <1>9, <1>10, <1>11, <1>13, <2>2, Zenon DEF OnceInv
<1>17. CASE g # None
  <2>0. g \in Handles /\ KindOf(g) = k  BY <1>12, <1>17, Zenon
  <2>1. (\A w, i : At(g, w, i) => w = "slot" /\ i = s) /\ Counted(g)
    <3>1. At(g, "slot", s)  BY <1>3, <2>0, SMTT(40) DEF At
    <3> QED  BY <2>0, <3>1, OnlyThere, Zenon
  <2>2. ASSUME NEW w, NEW i PROVE At(g, w, i)' <=> w = "hand" /\ i = b
    <3>1. \A a \in Agents : Hand(a)' = g <=> a = b
      <4>1. \A a \in Agents : Hand(a) # g  BY <2>1 DEF At
      <4> QED  BY <1>6, <4>1, Zenon
    <3>2. \A z \in Slots : Data(KindOf(g), z)' # g
      <4>1. \A z \in Slots \ {s} : Data(KindOf(g), z) # g  BY <2>1, Zenon DEF At
      <4> QED  BY <1>7, <1>17, <2>0, <4>1, Zenon
    <3>3. ~At(g, "call", i) /\ ~At(g, "list", i) /\ ~At(g, "drop", i)  BY <2>1, SMTT(40)
    <3> QED  BY <1>4, <1>8, <3>1, <3>2, <3>3, ZenonT(40) DEF At
  <2>3. Moved(g, "hand", b)
    <3>1. Counted(g)'  BY <1>8, <2>0, <2>1, Zenon
    <3>2. \A h \in Handles : Counted(h) => Counted(h)'  BY <1>8, Zenon
    <3> QED  BY <1>14, <1>15, <2>2, <3>1, <3>2, Zenon DEF Moved
  <2>4. MadeInv' /\ ApartInv' /\ KeptInv'  BY <2>0, <2>3, Moves, SMTT(40)
  <2> QED  BY <1>6, <1>9, <1>10, <1>11, <1>13, <2>4 DEF OnceInv
<1> QED  BY <1>16, <1>17, Zenon

\* What TakeStore writes; g is what the agent holds.
LEMMA TakeStoreWrites ==
    ASSUME OnceInv, NEW k \in Kinds, TakeStore(k), NEW b \in Agents, b = AgentOf[k],
           NEW s \in Slots, s = Scan(b), NEW g \in MaybeHandle, g = Hand(b)
    PROVE  /\ Doing(b) = "store" /\ WritesState(k, s, "EMPTY")
           /\ UNCHANGED <<driver, client, thread, outcome>>
           /\ \/ g = None /\ UNCHANGED <<served, dropped>>
              \/ g # None /\ served' = [served EXCEPT ![k] = Append(served[k], g)] /\ UNCHANGED dropped
              \/ g # None /\ dropped' = dropped \cup {g} /\ UNCHANGED served
           /\ \E m \in AgentRecord : /\ WritesAgent(b, m)
                                     /\ m.pc = "load" /\ m.item = None
<1>0. agent \in [Agents -> AgentRecord] /\ agent[b] \in AgentRecord  BY Zenon DEF OnceInv, HandleTypes
<1>1. /\ Doing(b) = "store" /\ WritesState(k, s, "EMPTY")
      /\ UNCHANGED <<driver, client, thread, outcome>>
  BY Zenon DEF TakeStore, Doing, Scan, WritesState
<1>2. \/ g = None /\ UNCHANGED <<served, dropped>>
      \/ g # None /\ served' = [served EXCEPT ![k] = Append(served[k], g)] /\ UNCHANGED dropped
      \/ g # None /\ dropped' = dropped \cup {g} /\ UNCHANGED served
  BY Zenon DEF TakeStore, Hand
<1> DEFINE n == NextSlot(agent[b].at)
<1>3. agent' = [agent EXCEPT ![b].pc = "load", ![b].at = n, ![b].item = None]
  BY Zenon DEF TakeStore
<1>4. n \in Slots  BY <1>0, NextSlotType DEF AgentRecord
<1> HIDE DEF n
<1> DEFINE m == [agent[b] EXCEPT !.pc = "load", !.at = n, !.item = None]
<1>5. WritesAgent(b, m)  BY <1>0, <1>3, Zenon DEF WritesAgent
<1>6. m \in AgentRecord /\ m.pc = "load" /\ m.item = None  BY <1>0, <1>4, Zenon DEF AgentRecord
<1> HIDE DEF m
<1> QED  BY <1>1, <1>2, <1>5, <1>6, Zenon

\* The slot is free, and the handle goes to the agent's list or is given up.
LEMMA TakeStoreOnce ==
    ASSUME OnceInv, NEW k \in Kinds, TakeStore(k)
    PROVE  OnceInv'
<1>0. HandleTypes /\ CallInv /\ TakeInv /\ DepositInv /\ KindInv  BY DEF OnceInv
<1>1. PICK b \in Agents : b = AgentOf[k]  BY AgentsOfBridges
<1>2. PICK s \in Slots : s = Scan(b)  BY <1>0, ReadTypes
<1>3. PICK g \in MaybeHandle : g = Hand(b)  BY <1>0, ReadTypes, SMTT(40) DEF MaybeHandle
<1>4. /\ Doing(b) = "store" /\ WritesState(k, s, "EMPTY")
      /\ UNCHANGED <<driver, client, thread, outcome>>
  BY <1>1, <1>2, <1>3, TakeStoreWrites, ZenonT(40)
<1>5. \/ g = None /\ UNCHANGED <<served, dropped>>
      \/ g # None /\ served' = [served EXCEPT ![k] = Append(served[k], g)] /\ UNCHANGED dropped
      \/ g # None /\ dropped' = dropped \cup {g} /\ UNCHANGED served
  BY <1>1, <1>2, <1>3, TakeStoreWrites, ZenonT(40)
<1>6. PICK m \in AgentRecord : /\ WritesAgent(b, m)
                               /\ m.pc = "load" /\ m.item = None
  BY <1>1, <1>2, <1>3, TakeStoreWrites, ZenonT(40)
<1>7. /\ agent' \in [Agents -> AgentRecord] /\ LaunchInv'
      /\ Doing(b)' = "load" /\ Hand(b)' = None
      /\ \A a \in Agents \ {b} : Doing(a)' = Doing(a) /\ Scan(a)' = Scan(a) /\ Hand(a)' = Hand(a)
      /\ \A l \in Kinds : AgentOf[l] = b => l = k
  <2>1. driver' = driver /\ Doing(b) \in {"load", "take", "store"}  BY <1>4, Zenon
  <2>2. WritesAgent(b, m)  BY <1>6, Zenon
  <2>3. /\ agent' \in [Agents -> AgentRecord] /\ LaunchInv'
        /\ Doing(b)' = m.pc /\ Scan(b)' = m.at /\ Hand(b)' = m.item
        /\ \A a \in Agents \ {b} : Doing(a)' = Doing(a) /\ Scan(a)' = Scan(a) /\ Hand(a)' = Hand(a)
        /\ \A l \in Kinds : AgentOf[l] = b => l = k
    BY <1>1, <2>1, <2>2, AgentGoesOn
  <2> QED  BY <1>6, <2>3, Zenon
<1>8. /\ bridge' \in [Kinds -> BridgeRecord]
      /\ \A l \in Kinds, z \in Slots : Data(l, z)' = Data(l, z)
      /\ \A l \in Kinds, z \in Slots : State(l, z)' = IF l = k /\ z = s THEN "EMPTY" ELSE State(l, z)
  BY <1>0, <1>4, StateWritten, Zenon
<1>9. /\ \A t \in Threads : Pc(t)' = Pc(t) /\ Try(t)' = Try(t) /\ Item(t)' = Item(t)
      /\ \A h \in Handles : Counted(h) => Counted(h)'
  BY <1>4, SameCalls, SameCounts, Zenon
<1>10. /\ State(k, s) = "FILLED" /\ Data(k, s) = None
       /\ g # None => g \in Handles /\ KindOf(g) = k
  BY <1>0, <1>1, <1>2, <1>3, <1>4, Zenon DEF TakeInv, MaybeHandle
<1>11. CallInv' /\ KindInv'  BY <1>0, <1>8, <1>9, Zenon DEF CallInv, KindInv
<1>12. DepositInv'
  <2>1. \A t \in Threads : Pc(t)' \in {"write", "store"} => Try(t)' \in Slots
    BY <1>0, <1>9, Zenon DEF DepositInv
  <2>2. \A t \in Threads, l \in Kinds, z \in Slots :
          Pc(t)' \in {"write", "store"} /\ KindOf(Item(t)') = l /\ Try(t)' = z =>
            State(l, z)' = "EMPTY"
    BY <1>0, <1>8, <1>9, SMTT(40) DEF DepositInv
  <2>3. ASSUME NEW l \in Kinds, NEW z \in Slots, State(l, z)' = "EMPTY"
        PROVE  \/ Data(l, z)' = None
               \/ \E t \in Threads : Pc(t)' = "store" /\ KindOf(Item(t)') = l /\ Try(t)' = z
    <3>1. CASE l = k /\ z = s  BY <1>8, <1>10, <3>1, Zenon
    <3>2. CASE ~(l = k /\ z = s)
      <4>1. State(l, z) = "EMPTY"  BY <1>8, <2>3, <3>2, Zenon
      <4> QED  BY <1>0, <1>8, <1>9, <4>1 DEF DepositInv
    <3> QED  BY <3>1, <3>2, Zenon
  <2> QED  BY <2>1, <2>2, <2>3, Zenon DEF DepositInv
<1>13. TakeInv'
  <2>1. \A z \in Slots : Scan(b)' = z =>
          /\ Doing(b)' \in {"take", "store"} => State(k, z)' = "FILLED"
          /\ Doing(b)' = "store" => Data(k, z)' = None
    BY <1>7, Zenon
  <2>2. \A l \in Kinds \ {k}, z \in Slots : State(l, z)' = State(l, z) /\ Data(l, z)' = Data(l, z)
    BY <1>8, Zenon
  <2>3. Hand(b)' = None  BY <1>7, Zenon
  <2> QED  BY <1>1, <1>7, <2>1, <2>2, <2>3, TakesOn, Zenon
<1>14. \A h \in Handles : Known(h)' => Known(h)  BY <1>4, <1>9, Zenon DEF Known
<1>15. ASSUME NEW h \in Handles, h # g
       PROVE  \A a \in Agents : Hand(a)' = h <=> Hand(a) = h
  <2>1. h # None  BY HandleFacts, Zenon
  <2> QED  BY <1>3, <1>7, <1>15, <2>1, Zenon
<1>16. CASE g = None
  <2>1. served' = served /\ dropped' = dropped  BY <1>5, <1>16, Zenon
  <2>2. HandleTypes'  BY <1>0, <1>4, <1>7, <1>8, <2>1, Zenon DEF HandleTypes
  <2>3. ASSUME NEW h \in Handles, NEW w, NEW i PROVE At(h, w, i)' <=> At(h, w, i)
    <3>1. KindOf(h) \in Kinds /\ h # g  BY <1>16, HandleFacts, Zenon
    <3>2. \A l, j : Listed(l, j, h)' <=> Listed(l, j, h)  BY <2>1, SameLists, Zenon
    <3>3. \A a \in Agents : Hand(a)' = h <=> Hand(a) = h  BY <1>15, <3>1, Zenon
    <3> QED  BY <1>8, <1>9, <2>1, <3>1, <3>2, <3>3, Zenon DEF At
  <2>4. MadeInv' /\ ApartInv' /\ KeptInv'  BY <1>9, <1>14, <2>3, Stays, Zenon
  <2> QED  BY <1>7, <1>11, <1>12, <1>13, <2>2, <2>4, Zenon DEF OnceInv
<1>17. CASE g # None
  <2>0. g \in Handles /\ KindOf(g) = k  BY <1>10, <1>17, Zenon
  <2>1. (\A w, i : At(g, w, i) => w = "hand" /\ i = b) /\ Counted(g)
    <3>1. At(g, "hand", b)  BY <1>3, <2>0, Zenon DEF At
    <3> QED  BY <2>0, <3>1, OnlyThere, Zenon
  <2>2. /\ \A a \in Agents : Hand(a)' # g
        /\ \A i : ~At(g, "call", i) /\ ~At(g, "slot", i) /\ ~Listed(k, i, g)
        /\ g \notin dropped
    <3>1. \A a \in Agents \ {b} : Hand(a) # g  BY <2>1, Zenon DEF At
    <3>2. \A a \in Agents : Hand(a)' # g  BY <1>7, <1>17, <3>1, Zenon
    <3>3. \A i : ~At(g, "list", i) /\ ~At(g, "drop", i)  BY <2>1, SMTT(40)
    <3>4. (\A i : ~Listed(k, i, g)) /\ g \notin dropped  BY <2>0, <3>3, Zenon DEF At
    <3> QED  BY <2>1, <3>2, <3>4, SMTT(40)
  <2>3. Counted(g)' /\ \A h \in Handles : Counted(h) => Counted(h)'  BY <1>9, <2>0, <2>1, Zenon
  <2>4. CASE served' = [served EXCEPT ![k] = Append(served[k], g)] /\ dropped' = dropped
    <3>1. served' \in [Kinds -> Seq(Handles)]  BY <1>0, <2>0, <2>4, ListWritten, Zenon
    <3>2. PICK x \in Nat : \A l \in Kinds : \A i, h :
            Listed(l, i, h)' <=> Listed(l, i, h) \/ (l = k /\ i = x /\ h = g)
      BY <1>0, <2>0, <2>4, ListWritten, ZenonT(40)
    <3>3. HandleTypes'  BY <1>0, <1>4, <1>7, <1>8, <2>4, <3>1, Zenon DEF HandleTypes
    <3>4. ASSUME NEW h \in Handles, h # g, NEW w, NEW i PROVE At(h, w, i)' <=> At(h, w, i)
      <4>1. KindOf(h) \in Kinds  BY HandleFacts, Zenon
      <4>2. \A a \in Agents : Hand(a)' = h <=> Hand(a) = h  BY <1>15, <3>4, Zenon
      <4>3. \A j : Listed(KindOf(h), j, h)' <=> Listed(KindOf(h), j, h)  BY <3>2, <3>4, <4>1, SMTT(40)
      <4> QED  BY <1>8, <1>9, <2>4, <4>1, <4>2, <4>3, Zenon DEF At
    <3>5. ASSUME NEW w, NEW i PROVE At(g, w, i)' <=> w = "list" /\ i = x
      <4>1. Listed(KindOf(g), i, g)' <=> i = x  BY <2>0, <2>2, <3>2, SMTT(40)
      <4>2. ~At(g, "call", i) /\ ~At(g, "slot", i)  BY <2>2, Zenon
      <4> QED  BY <1>8, <1>9, <2>0, <2>2, <2>4, <4>1, <4>2, ZenonT(40) DEF At
    <3>6. Moved(g, "list", x)  BY <1>14, <2>3, <3>4, <3>5, Zenon DEF Moved
    <3>7. MadeInv' /\ ApartInv' /\ KeptInv'  BY <2>0, <3>6, Moves, Zenon
    <3> QED  BY <1>7, <1>11, <1>12, <1>13, <3>3, <3>7, Zenon DEF OnceInv
  <2>5. CASE dropped' = dropped \cup {g} /\ served' = served
    <3>1. HandleTypes'  BY <1>0, <1>4, <1>7, <1>8, <2>0, <2>5, Zenon DEF HandleTypes
    <3>2. \A l, i, h : Listed(l, i, h)' <=> Listed(l, i, h)  BY <2>5, SameLists, Zenon
    <3>3. ASSUME NEW h \in Handles, h # g, NEW w, NEW i PROVE At(h, w, i)' <=> At(h, w, i)
      <4>1. KindOf(h) \in Kinds  BY HandleFacts, Zenon
      <4>2. \A a \in Agents : Hand(a)' = h <=> Hand(a) = h  BY <1>15, <3>3
      <4>3. h \in dropped' <=> h \in dropped  BY <2>5, <3>3, SMTT(40)
      <4> QED  BY <1>8, <1>9, <3>2, <4>1, <4>2, <4>3, Zenon DEF At
    <3>4. ASSUME NEW w, NEW i PROVE At(g, w, i)' <=> w = "drop" /\ i = g
      <4>1. g \in dropped' /\ ~Listed(KindOf(g), i, g)'  BY <2>0, <2>2, <2>5, <3>2, Zenon
      <4>2. ~At(g, "call", i) /\ ~At(g, "slot", i)  BY <2>2, Zenon
      <4> QED  BY <1>8, <1>9, <2>0, <2>2, <4>1, <4>2, ZenonT(40) DEF At
    <3>5. Moved(g, "drop", g)  BY <1>14, <2>3, <3>3, <3>4, Zenon DEF Moved
    <3>6. MadeInv' /\ ApartInv' /\ KeptInv'  BY <2>0, <3>5, Moves, Zenon
    <3> QED  BY <1>7, <1>11, <1>12, <1>13, <3>1, <3>6 DEF OnceInv
  <2> QED  BY <1>5, <1>17, <2>4, <2>5, Zenon
<1> QED  BY <1>16, <1>17

\* Every step keeps handles in one place.
LEMMA NextOnce == OneProducer /\ OnceInv /\ [Next]_vars => OnceInv'
<1> SUFFICES ASSUME OneProducer, OnceInv, [Next]_vars PROVE OnceInv'  OBVIOUS
<1>1. ASSUME NEW a \in Agents, Agent(a) PROVE OnceInv'
  <2>1. CASE RunEnds(a)  BY <2>1, OwnerOnce
  <2>2. CASE ConductorWork  BY <2>2, ClientOnce
  <2>3. ASSUME NEW k \in Kinds, TakeLoad(k) \/ TakeData(k) \/ TakeStore(k) PROVE OnceInv'
    BY <2>3, TakeLoadOnce, TakeDataOnce, TakeStoreOnce, Zenon
  <2> QED  BY <1>1, <2>1, <2>2, <2>3 DEF Agent, poll_publication_bridge, poll_recv_endpoint_bridge, Kinds
<1>2. ASSUME NEW c \in Clients, Client(c) PROVE OnceInv'
  BY <1>2, ClientOnce, AddOnce, Zenon DEF Client
<1>3. ASSUME NEW t \in Threads, Call(t) PROVE OnceInv'
  BY <1>3, DepositLoadOnce, DepositWriteOnce, DepositStoreOnce, SendOnce, Zenon DEF Call
<1>4. ASSUME NEW cmd, AskRemoval(cmd) PROVE OnceInv'  BY <1>4, ClientOnce
<1>5. CASE launch \/ CloseBegin \/ Close  BY <1>5, OwnerOnce DEF Close
<1>6. CASE UNCHANGED vars  BY <1>6, ClientOnce
<1> QED  BY <1>1, <1>2, <1>3, <1>4, <1>5, <1>6 DEF Next

\* What is at one place at most counts one or none.
LEMMA CountOne ==
    ASSUME NEW S, \A i, j \in S : i = j
    PROVE  Cardinality(S) = IF S = {} THEN 0 ELSE 1
<1> DEFINE Less(T) == T \ {CHOOSE x : x \in T}
           IsCount(f) == f = [T \in SUBSET S |-> IF T = {} THEN 0 ELSE 1 + f[Less(T)]]
           count == CHOOSE f : IsCount(f)
           one == [T \in SUBSET S |-> IF T = {} THEN 0 ELSE 1]
<1>1. Cardinality(S) = count[S]  BY DEF Cardinality
<1>2. \A T \in SUBSET S : T # {} => Less(T) = {}
  <2> SUFFICES ASSUME NEW T \in SUBSET S, T # {} PROVE Less(T) = {}  OBVIOUS
  <2>1. (CHOOSE x : x \in T) \in T  OBVIOUS
  <2> QED  BY <2>1
<1>3. {} \in SUBSET S /\ S \in SUBSET S  OBVIOUS
<1> HIDE DEF Less
<1>4. IsCount(one)  BY <1>2, <1>3
<1> HIDE DEF one
<1>5. IsCount(count)  BY <1>4, Zenon
<1>6. count = [T \in SUBSET S |-> IF T = {} THEN 0 ELSE 1 + count[Less(T)]]  BY <1>5, Zenon
<1> HIDE DEF count, IsCount
<1>7. count[{}] = 0  BY <1>3, <1>6, Zenon
<1>8. CASE S = {}  BY <1>1, <1>7, <1>8, Zenon
<1>9. CASE S # {}
  <2>1. Less(S) = {}  BY <1>2, <1>3, <1>9, Zenon
  <2>2. count[S] = 1 + count[{}]  BY <1>3, <1>6, <1>9, <2>1, Zenon
  <2> QED  BY <1>1, <1>7, <1>9, <2>2
<1> QED  BY <1>8, <1>9, Zenon

\* Places counts what At says.
LEMMA PlacesOne ==
    ASSUME OnceInv, NEW h \in Handles, Known(h)
    PROVE  Places(h) = 1
<1> DEFINE A == {t \in Threads : thread[t].pc \in {"load", "write"} /\ thread[t].item = h}
           B == {s \in Slots : bridge[h.kind].data[s] = h}
           C == {a \in Agents : agent[a].item = h}
           D == {i \in DOMAIN served[h.kind] : served[h.kind][i] = h}
           E == {h} \cap dropped
<1>0. ApartInv /\ Somewhere(h)  BY SMTT(40) DEF OnceInv, KeptInv
<1>1. \A i : /\ i \in A <=> At(h, "call", i)
             /\ i \in B <=> At(h, "slot", i)
             /\ i \in C <=> At(h, "hand", i)
             /\ i \in D <=> At(h, "list", i)
             /\ i \in E <=> At(h, "drop", i)
  BY ZenonT(40) DEF At, Pc, Item, Data, Hand, Listed, KindOf
<1>2. Places(h) = Cardinality(A) + Cardinality(B) + Cardinality(C) + Cardinality(D) + Cardinality(E)
  BY Zenon DEF Places
<1>3. PICK w, i : At(h, w, i)  BY <1>0, Zenon DEF Somewhere
<1>4. w \in {"call", "slot", "hand", "list", "drop"}  BY <1>3, Zenon DEF At
<1>5. \A v, j : At(h, v, j) => v = w /\ j = i  BY <1>0, <1>3, Zenon DEF ApartInv
<1> HIDE DEF A, B, C, D, E
<1>6. /\ \A x, y \in A : x = y
      /\ \A x, y \in B : x = y
      /\ \A x, y \in C : x = y
      /\ \A x, y \in D : x = y
      /\ \A x, y \in E : x = y
  BY <1>1, <1>5, SMTT(40)
<1>7. /\ Cardinality(A) = IF A = {} THEN 0 ELSE 1
      /\ Cardinality(B) = IF B = {} THEN 0 ELSE 1
      /\ Cardinality(C) = IF C = {} THEN 0 ELSE 1
      /\ Cardinality(D) = IF D = {} THEN 0 ELSE 1
      /\ Cardinality(E) = IF E = {} THEN 0 ELSE 1
  BY <1>6, CountOne, Zenon
<1>8. /\ A # {} <=> w = "call"
      /\ B # {} <=> w = "slot"
      /\ C # {} <=> w = "hand"
      /\ D # {} <=> w = "list"
      /\ E # {} <=> w = "drop"
  <2>1. /\ w = "call" => i \in A
        /\ w = "slot" => i \in B
        /\ w = "hand" => i \in C
        /\ w = "list" => i \in D
        /\ w = "drop" => i \in E
    BY <1>1, <1>3
  <2> QED  BY <1>1, <1>5, <2>1, Zenon
<1> QED  BY <1>2, <1>4, <1>7, <1>8

(***************************************************************************)
(* When one thread uses all clients, no handle that a call has handed over *)
(* is copied, overwritten or lost, wherever the sender and the receiver    *)
(* are in their scans: it is in one place, whichever way the call returned *)
(* and whatever the driver's owner does.                                   *)
(***************************************************************************)
THEOREM HandlesMoveOnce ==
    ASSUME OneProducer
    PROVE  Spec => []HandleOnce
<1>1. OnceInv => HandleOnce
  <2> SUFFICES ASSUME OnceInv,
                      NEW h \in DOMAIN outcome \cup {thread[t].item : t \in Threads}, h # None
               PROVE  Places(h) = 1
    BY SMTT(40) DEF HandleOnce
  <2>1. h \in Handles /\ Known(h)
    <3>1. HandleTypes  BY DEF OnceInv
    <3> QED  BY <3>1, ReadTypes, Zenon DEF HandleTypes, Known, Item
  <2> QED  BY <2>1, PlacesOne, Zenon
<1>2. OnceInv /\ [Next]_vars => OnceInv'  BY NextOnce
<1> QED  BY <1>1, <1>2, InitOnce, PTL DEF Spec
=============================================================================
