----------------------------- MODULE CncProofs -----------------------------
(***************************************************************************)
(* A client that finds a version in the CnC file finds the whole region,   *)
(* for any number of clients, any capacities and any number of driver      *)
(* starts, crashes and shutdowns; and a client that keeps up with the      *)
(* broadcast buffer in the region receives whole records.                  *)
(***************************************************************************)
EXTENDS MCCnc, Integers, TLAPS

Files == [length : Nat, version : {0, 1}, to_driver : Nat, to_clients : Nat,
          heartbeat : Nat, generation : Nat]
Drivers == [pc : {"none", "opened", "sized", "init", "running"}, at : 1 .. 4,
            to_driver : Nat, to_clients : Nat]
Mappings ==
    [pc : {"none", "version", "to_driver", "to_clients", "tail", "open", "killed"},
     length : Nat, to_driver : Nat, to_clients : Nat, generation : Nat,
     error : {"none", "IoError", "NotReady", "InvalidCapacity"}]

Typed ==
    /\ file \in Files
    /\ driver \in Drivers
    /\ client \in [Clients -> Mappings]

\* The header and the length say the same, and the heartbeat is there.
Whole ==
    /\ file.to_driver > 0
    /\ file.to_clients > 0
    /\ file.length = 1 + file.to_driver + file.to_clients
    /\ file.heartbeat = 1

\* The header of this generation was completed.
Completed == driver.pc \in {"none", "running"} /\ Whole

\* What the driver has written when it gets to each word, version last.
DriverInv ==
    /\ driver.pc # "none" => driver.to_driver > 0 /\ driver.to_clients > 0
    /\ driver.pc = "opened" => file.length = 0
    /\ driver.pc \in {"sized", "init"} =>
         file.length = 1 + driver.to_driver + driver.to_clients
    /\ driver.pc = "init" /\ driver.at > 1 => file.to_driver = driver.to_driver
    /\ driver.pc = "init" /\ driver.at > 2 => file.to_clients = driver.to_clients
    /\ driver.pc = "init" /\ driver.at > 3 => file.heartbeat = 1
    /\ driver.pc = "running" => Whole
    /\ driver.pc \in {"opened", "sized"} => driver.at = 1
    /\ file.version = 1 => Completed

\* What the mapping m has seen of the file, when it is of this generation.
MappingInv(m) ==
    /\ m.generation <= file.generation
    /\ m.generation = file.generation =>
         /\ m.pc # "none" => m.length = file.length /\ file.length > 0
         /\ m.pc # "killed"
         /\ m.pc \in {"to_driver", "to_clients", "tail", "open"} => Completed
         /\ m.pc \in {"to_clients", "tail", "open"} => m.to_driver = file.to_driver
         /\ m.pc \in {"tail", "open"} => m.to_clients = file.to_clients
         /\ m.error # "InvalidCapacity"

CncInv == Typed /\ DriverInv /\ \A c \in Clients : MappingInv(client[c])

\* Before the first start there is nothing to map.
LEMMA InitCnc == Init => CncInv
<1> SUFFICES ASSUME Init PROVE CncInv
  OBVIOUS
<1> USE DEF Init, Zeroed
<1>1. file \in Files /\ driver \in Drivers
  BY DEF Files, Drivers
<1>2. NoMapping \in Mappings
  BY DEF Mappings, NoMapping
<1>3. client \in [Clients -> Mappings]
  BY <1>2
<1>4. DriverInv
  BY DEF DriverInv
<1>5. ASSUME NEW c \in Clients PROVE MappingInv(client[c])
  BY DEF MappingInv, NoMapping
<1> QED BY <1>1, <1>3, <1>4, <1>5 DEF CncInv, Typed

\* init writes the words of the header one after the other, version last.
LEMMA HeaderWritten ==
    ASSUME CncInv, driver.pc = "init", client' = client,
           \/ /\ driver.at = 1
              /\ file' = [file EXCEPT !.to_driver = driver.to_driver]
              /\ driver' = [driver EXCEPT !.at = 2]
           \/ /\ driver.at = 2
              /\ file' = [file EXCEPT !.to_clients = driver.to_clients]
              /\ driver' = [driver EXCEPT !.at = 3]
           \/ /\ driver.at = 3
              /\ file' = [file EXCEPT !.heartbeat = 1]
              /\ driver' = [driver EXCEPT !.at = 4]
           \/ /\ driver.at = 4
              /\ file' = [file EXCEPT !.version = 1]
              /\ driver' = [driver EXCEPT !.pc = "running"]
    PROVE  CncInv'
<1>0. file \in Files /\ driver \in Drivers /\ client \in [Clients -> Mappings]
  BY DEF CncInv, Typed
<1>1. Typed'
  BY <1>0 DEF Typed, Files, Drivers
<1>2. /\ file'.length = file.length
      /\ file'.generation = file.generation
  BY <1>0 DEF Files
<1>3. DriverInv'
  BY <1>0 DEF CncInv, Files, Drivers, DriverInv, Whole, Completed
<1>4. ASSUME NEW c \in Clients PROVE MappingInv(client[c])'
  BY <1>0, <1>2 DEF CncInv, Files, Mappings, MappingInv, Completed
<1> QED BY <1>1, <1>3, <1>4 DEF CncInv

\* A step of the driver keeps what it and the clients rely on.
LEMMA DriverCnc ==
    ASSUME Capacities \subseteq Nat \ {0}, CncInv, Driver
    PROVE  CncInv'
<1>0. /\ file \in Files /\ driver \in Drivers
      /\ client \in [Clients -> Mappings]
      /\ DriverInv /\ \A c \in Clients : MappingInv(client[c])
  BY DEF CncInv, Typed
<1>1. ASSUME NEW m \in Capacities, NEW n \in Capacities, CreateOpen(m, n)
      PROVE  CncInv'
  <2>1. Typed'
    BY <1>1, Capacities \subseteq Nat \ {0}, <1>0 DEF CreateOpen, Zeroed, Typed, Files, Drivers
  <2>2. DriverInv'
    BY <1>1, Capacities \subseteq Nat \ {0}, <1>0 DEF CreateOpen, Zeroed, Files, Drivers, DriverInv, Whole, Completed
  <2>3. ASSUME NEW c \in Clients PROVE MappingInv(client[c])'
    BY <1>1, Capacities \subseteq Nat \ {0}, <1>0 DEF CreateOpen, Zeroed, Files, Drivers, Mappings, DriverInv,
       MappingInv, Whole, Completed
  <2> QED BY <2>1, <2>2, <2>3 DEF CncInv
<1>2. CASE CreateSize
  <2>1. Typed'
    BY <1>2, <1>0 DEF CreateSize, cnc_file_length, Typed, Files, Drivers
  <2>2. DriverInv'
    BY <1>2, <1>0 DEF CreateSize, cnc_file_length, Files, Drivers, DriverInv, Whole, Completed
  <2>3. ASSUME NEW c \in Clients PROVE MappingInv(client[c])'
    BY <1>2, <1>0 DEF CreateSize, cnc_file_length, Files, Drivers, Mappings, DriverInv,
       MappingInv, Whole, Completed
  <2> QED BY <2>1, <2>2, <2>3 DEF CncInv
<1>3. CASE CreateFails
  <2>1. Typed'
    BY <1>3, <1>0 DEF CreateFails, Typed, Files, Drivers
  <2>2. DriverInv'
    BY <1>3, <1>0 DEF CreateFails, Files, Drivers, DriverInv, Whole, Completed
  <2>3. ASSUME NEW c \in Clients PROVE MappingInv(client[c])'
    BY <1>3, <1>0 DEF CreateFails, Files, Drivers, Mappings, DriverInv,
       MappingInv, Whole, Completed
  <2> QED BY <2>1, <2>2, <2>3 DEF CncInv
<1>4. CASE InitZero
  <2>1. Typed'
    BY <1>4, <1>0 DEF InitZero, Zeroed, Typed, Files, Drivers
  <2>2. DriverInv'
    BY <1>4, <1>0 DEF InitZero, Zeroed, Files, Drivers, DriverInv, Whole, Completed
  <2>3. ASSUME NEW c \in Clients PROVE MappingInv(client[c])'
    BY <1>4, <1>0 DEF InitZero, Zeroed, Files, Drivers, Mappings, DriverInv,
       MappingInv, Whole, Completed
  <2> QED BY <2>1, <2>2, <2>3 DEF CncInv
<1>5. CASE DropDriverCnc
  <2>1. Typed'
    BY <1>5, <1>0 DEF DropDriverCnc, Typed, Files, Drivers
  <2>2. DriverInv'
    BY <1>5, <1>0 DEF DropDriverCnc, Files, Drivers, DriverInv, Whole, Completed
  <2>3. ASSUME NEW c \in Clients PROVE MappingInv(client[c])'
    BY <1>5, <1>0 DEF DropDriverCnc, Files, Drivers, Mappings, DriverInv,
       MappingInv, Whole, Completed
  <2> QED BY <2>1, <2>2, <2>3 DEF CncInv
<1>6. CASE Crash
  <2>1. Typed'
    BY <1>6, <1>0 DEF Crash, Typed, Files, Drivers
  <2>2. DriverInv'
    BY <1>6, <1>0 DEF Crash, Files, Drivers, DriverInv, Whole, Completed
  <2>3. ASSUME NEW c \in Clients PROVE MappingInv(client[c])'
    BY <1>6, <1>0 DEF Crash, Files, Drivers, Mappings, DriverInv,
       MappingInv, Whole, Completed
  <2> QED BY <2>1, <2>2, <2>3 DEF CncInv
<1>7. CASE InitWrite
  <2> USE <1>7 DEF InitWrite
  <2>1. driver \in Drivers /\ driver.pc = "init"
    BY DEF CncInv, Typed
  <2>2. /\ Header[1] = "to_driver" /\ Header[2] = "to_clients"
        /\ Header[3] = "heartbeat" /\ Header[4] = "version"
    BY DEF Header
  <2>3. /\ HeaderValue("to_driver") = driver.to_driver
        /\ HeaderValue("to_clients") = driver.to_clients
        /\ HeaderValue("heartbeat") = 1 /\ HeaderValue("version") = 1
    BY DEF HeaderValue
  <2>4. CASE driver.at = 1
    <3>1. file' = [file EXCEPT !.to_driver = driver.to_driver]
      BY <2>4, <2>2, <2>3, Zenon
    <3>2. driver' = [driver EXCEPT !.at = 2]
      BY <2>4 DEF Header
    <3> QED BY <2>1, <2>4, <3>1, <3>2, HeaderWritten, Zenon
  <2>5. CASE driver.at = 2
    <3>1. file' = [file EXCEPT !.to_clients = driver.to_clients]
      BY <2>5, <2>2, <2>3, Zenon
    <3>2. driver' = [driver EXCEPT !.at = 3]
      BY <2>5 DEF Header
    <3> QED BY <2>1, <2>5, <3>1, <3>2, HeaderWritten, Zenon
  <2>6. CASE driver.at = 3
    <3>1. file' = [file EXCEPT !.heartbeat = 1]
      BY <2>6, <2>2, <2>3, Zenon
    <3>2. driver' = [driver EXCEPT !.at = 4]
      BY <2>6 DEF Header
    <3> QED BY <2>1, <2>6, <3>1, <3>2, HeaderWritten, Zenon
  <2>7. CASE driver.at = 4
    <3>1. file' = [file EXCEPT !.version = 1]
      BY <2>7, <2>2, <2>3, Zenon
    <3>2. driver' = [driver EXCEPT !.pc = "running"]
      BY <2>7 DEF Header
    <3> QED BY <2>1, <2>7, <3>1, <3>2, HeaderWritten, Zenon
  <2> QED BY <2>1, <2>4, <2>5, <2>6, <2>7 DEF Drivers
<1> QED BY <1>1, <1>2, <1>3, <1>4, <1>5, <1>6, <1>7 DEF Driver

\* The mapping of one client may be replaced by any that fits the file.
LEMMA OneMapping ==
    ASSUME CncInv, NEW c \in Clients, NEW m \in Mappings, MappingInv(m),
           client' = [client EXCEPT ![c] = m], UNCHANGED <<file, driver>>
    PROVE  CncInv'
<1>1. Typed' /\ DriverInv'
  BY DEF CncInv, Typed, DriverInv, Completed, Whole
<1>2. ASSUME NEW d \in Clients PROVE MappingInv(client[d])'
  <2>1. client'[d] = m \/ client'[d] = client[d]
    BY DEF CncInv, Typed
  <2> QED BY <2>1 DEF CncInv, MappingInv, Completed, Whole
<1> QED BY <1>1, <1>2 DEF CncInv

\* A load of from_ptr within the header: the file has one, for a mapping of
\* this generation, and then the client goes on as m.
LEMMA HeaderLoad ==
    ASSUME CncInv, NEW c \in Clients, NEW pc, NEW m \in Mappings,
           pc \in {"version", "to_driver", "to_clients"},
           Load(c, pc, 1, m),
           m.generation = client[c].generation,
           client[c].generation = file.generation => MappingInv(m)
    PROVE  CncInv'
<1> DEFINE killed == [client[c] EXCEPT !.pc = "killed"]
<1>1. client[c] \in Mappings /\ MappingInv(client[c]) /\ client[c].pc = pc
  BY DEF CncInv, Typed, Load
<1>2. CASE client[c].generation = file.generation
  <2>1. Accessible(c, 1)
    BY <1>1, <1>2 DEF CncInv, Typed, Files, Mappings, MappingInv, Accessible
  <2> QED BY <1>2, <2>1, OneMapping, Zenon DEF Load
<1>3. CASE client[c].generation # file.generation
  <2>1. killed \in Mappings /\ killed.generation = client[c].generation
    BY <1>1 DEF Mappings
  <2>2. MappingInv(killed) /\ MappingInv(m)
    BY <1>1, <1>3, <2>1 DEF MappingInv
  <2> QED BY <2>1, <2>2, OneMapping, Zenon DEF Load
<1> QED BY <1>2, <1>3

\* A step of client c keeps what is known of it and of the others.
LEMMA ClientCnc ==
    ASSUME CncInv, NEW c \in Clients,
           MapFile(c) \/ FromPtr(c) \/ DropClientCnc(c)
    PROVE  CncInv'
<1>0. /\ client[c] \in Mappings /\ MappingInv(client[c])
      /\ file \in Files /\ DriverInv
  BY DEF CncInv, Typed
<1>1. CASE MapFile(c)
  <2> DEFINE m == [NoMapping EXCEPT
                     !.pc = IF file.length = 0 THEN "none" ELSE "version",
                     !.length = file.length,
                     !.generation = file.generation,
                     !.error = IF file.length = 0 THEN "IoError" ELSE "none"]
  <2>1. m \in Mappings
    BY <1>0, Zenon DEF Files, Mappings, NoMapping
  <2>2. MappingInv(m)
    BY <1>0 DEF Files, MappingInv, NoMapping
  <2> QED BY <1>1, <2>1, <2>2, OneMapping, Zenon DEF MapFile
<1>2. CASE LoadVersion(c)
  <2> DEFINE m == IF file.version = 0 THEN Failed(c, "NotReady")
                  ELSE [client[c] EXCEPT !.pc = "to_driver"]
  <2>1. m \in Mappings /\ m.generation = client[c].generation
    BY <1>0, Zenon DEF Mappings, Failed
  <2>2. client[c].pc = "version"
    BY <1>2 DEF LoadVersion, Load
  <2>3. client[c].generation = file.generation => MappingInv(m)
    BY <1>0, <2>2 DEF Files, Mappings, MappingInv, Failed, DriverInv
  <2> HIDE DEF m
  <2>4. Load(c, "version", 1, m)
    BY <1>2 DEF LoadVersion, m
  <2> QED BY <2>1, <2>3, <2>4, HeaderLoad
<1>3. CASE ReadToDriver(c)
  <2> DEFINE m == [client[c] EXCEPT !.pc = "to_clients",
                                    !.to_driver = file.to_driver]
  <2>1. m \in Mappings /\ m.generation = client[c].generation
    BY <1>0, Zenon DEF Files, Mappings
  <2>2. client[c].pc = "to_driver"
    BY <1>3 DEF ReadToDriver, Load
  <2>3. client[c].generation = file.generation => MappingInv(m)
    BY <1>0, <2>2 DEF Files, Mappings, MappingInv
  <2> HIDE DEF m
  <2>4. Load(c, "to_driver", 1, m)
    BY <1>3 DEF ReadToDriver, m
  <2> QED BY <2>1, <2>3, <2>4, HeaderLoad
<1>4. CASE ReadToClients(c)
  <2> DEFINE m == IF client[c].to_driver = 0 \/ file.to_clients = 0
                  THEN Failed(c, "InvalidCapacity")
                  ELSE [client[c] EXCEPT !.pc = "tail",
                                         !.to_clients = file.to_clients]
  <2>1. m \in Mappings /\ m.generation = client[c].generation
    BY <1>0, Zenon DEF Files, Mappings, Failed
  <2>2. client[c].pc = "to_clients"
    BY <1>4 DEF ReadToClients, Load
  <2>3. client[c].generation = file.generation => MappingInv(m)
    BY <1>0, <2>2 DEF Files, Mappings, MappingInv, Completed, Whole
  <2> HIDE DEF m
  <2>4. Load(c, "to_clients", 1, m)
    BY <1>4 DEF ReadToClients, m
  <2> QED BY <2>1, <2>3, <2>4, HeaderLoad
<1>5. CASE ReadTail(c)
  <2> DEFINE open   == [client[c] EXCEPT !.pc = "open"]
             killed == [client[c] EXCEPT !.pc = "killed"]
             n      == cnc_file_length(client[c].to_driver, client[c].to_clients)
  <2>1. open \in Mappings /\ killed \in Mappings
    BY <1>0 DEF Mappings
  <2>2. client[c].pc = "tail"
    BY <1>5 DEF ReadTail, Load
  <2>3. MappingInv(open)
    BY <1>0, <2>2 DEF Mappings, MappingInv
  <2>4. client[c].generation = file.generation => Accessible(c, n)
    BY <1>0, <2>2 DEF Files, Mappings, MappingInv, Completed, Whole, Accessible,
                      cnc_file_length
  <2>5. client[c].generation # file.generation => MappingInv(killed)
    BY <1>0 DEF Mappings, MappingInv
  <2>6. /\ client' = [client EXCEPT ![c] = IF Accessible(c, n) THEN open ELSE killed]
        /\ UNCHANGED <<file, driver>>
    BY <1>5 DEF ReadTail, Load
  <2> HIDE DEF open, killed, n
  <2> QED BY <2>1, <2>3, <2>4, <2>5, <2>6, OneMapping, Zenon
<1>6. CASE DropClientCnc(c)
  <2>1. NoMapping \in Mappings
    BY DEF Mappings, NoMapping
  <2>2. MappingInv(NoMapping)
    BY <1>0 DEF Files, MappingInv, NoMapping
  <2> QED BY <1>6, <2>1, <2>2, OneMapping, Zenon DEF DropClientCnc
<1> QED BY <1>1, <1>2, <1>3, <1>4, <1>5, <1>6 DEF FromPtr

(***************************************************************************)
(* from_ptr's Acquire load of the version, which init stores last, is      *)
(* enough: as long as no driver truncates the file again, the client gets  *)
(* the layout and the length the driver chose, is not killed on a page     *)
(* that is not there, and sees no zero capacity.                           *)
(***************************************************************************)
THEOREM VersionMeansWhole ==
    ASSUME Capacities \subseteq Nat \ {0}
    PROVE  Spec => []MappedWhole
<1>1. Init => CncInv
  BY InitCnc
<1>2. CncInv /\ [Next]_vars => CncInv'
  <2>1. ASSUME CncInv, UNCHANGED vars PROVE CncInv'
    BY <2>1 DEF vars, CncInv, Typed, DriverInv, MappingInv, Whole, Completed
  <2> QED
    BY <2>1, DriverCnc, ClientCnc, Capacities \subseteq Nat \ {0} DEF Next
<1>3. CncInv => MappedWhole
  BY DEF CncInv, Typed, Files, MappingInv, Completed, Whole, MappedWhole
<1> QED BY <1>1, <1>2, <1>3, PTL DEF Spec

-----------------------------------------------------------------------------
(***************************************************************************)
(* The broadcast buffer, for any number of receivers, any capacity and any *)
(* length of record, as long as all records have the same length.  (With   *)
(* records of several lengths a lapped receiver may resume inside one.)    *)
(***************************************************************************)

\* The length of all records.
Size == CHOOSE n \in RecordSizes : TRUE
OneSize == RecordSizes = {Size}

\* The units at which a record or a pad starts, in every lap.
Units == Responses!Units
Starts == {i \in Units : i % Size = 0}

UnitOf(at) == Responses!Index(at)
Start(at) == at \in Nat /\ UnitOf(at) \in Starts

\* Whether a record fits where it is to start, and what starts there.
Fits(at)   == UnitOf(at) + Size <= Capacity
Extent(at) == IF Fits(at) THEN Size ELSE Capacity - UnitOf(at)
KindAt(at) == IF Fits(at) THEN "msg" ELSE "pad"

\* The header of what starts at a position has been written, in some lap.
HeaderAt(at) ==
    buffer[UnitOf(at)].len = Extent(at) /\ buffer[UnitOf(at)].type = KindAt(at)

\* The payload of the record at position at, or all of the record, is there.
PayloadAt(at) ==
    \A i \in Units : UnitOf(at) < i /\ i < UnitOf(at) + Size =>
        buffer[i].type = "payload" /\ buffer[i].at = at
RecordAt(at) == Fits(at) => buffer[UnitOf(at)].at = at /\ PayloadAt(at)

\* How far transmit is with what starts at tail.
TransmitInv ==
    /\ Start(tail)
    /\ transmit.pc # "idle" => transmit.len = Size /\ transmit.at = tail
    /\ transmit.pc \in {"pad_length", "pad_type", "pad_tail"} => ~Fits(tail)
    /\ transmit.pc \in {"payload", "length", "type", "tail"} => Fits(tail)
    /\ transmit.pc \in {"pad_type", "pad_tail", "type", "tail"} =>
         buffer[UnitOf(tail)].len = Extent(tail)
    /\ transmit.pc \in {"pad_tail", "tail"} => buffer[UnitOf(tail)].type = KindAt(tail)
    /\ transmit.pc \in {"length", "type", "tail"} => PayloadAt(tail)
    /\ transmit.pc = "tail" => buffer[UnitOf(tail)].at = tail

\* What was transmitted: headers stay what they are lap after lap, and the
\* records of the last lap are whole.
WrittenInv ==
    \A at \in Nat : Start(at) /\ at < tail =>
        HeaderAt(at) /\ (Responses!WriteEnd <= at + Capacity => RecordAt(at))

\* A receiver with local variables g stands on starts, and has seen the header
\* of the one it is at.
ReceiveInv(g) ==
    /\ g.pc # "closed" => Start(g.cursor) /\ g.cursor <= tail
    /\ g.pc \notin {"closed", "idle"} =>
         Start(g.current) /\ Start(g.tail) /\ g.current <= g.tail /\ g.tail <= tail
    /\ g.pc \in {"type", "deliver"} => g.current < g.tail /\ g.len = Extent(g.current)
    /\ g.pc = "deliver" => g.type = KindAt(g.current)

(***************************************************************************)
(* InLapIntact speaks of the record a receiver delivers.  That the length  *)
(* and the type it has read belong to that record depends on where records *)
(* start: at the same units in every lap, so that also a header that is    *)
(* being overwritten reads as it was.                                      *)
(***************************************************************************)
BroadcastInv ==
    /\ Responses!TypeOK
    /\ TransmitInv
    /\ WrittenInv
    /\ \A r \in Receivers : ReceiveInv(receive[r])

-----------------------------------------------------------------------------
(* Positions and units. *)

\* A multiple grows with its factor, by at least n.
LEMMA Product ==
    ASSUME NEW a \in Int, NEW b \in Int, NEW n \in Nat, a < b
    PROVE  a * n + n <= b * n /\ a * n \in Int /\ b * n \in Int
<1>1. b - a - 1 \in Nat /\ (b - a - 1) * n \in Nat  BY SMT
<1>2. (b - a - 1) * n = b * n - a * n - n  BY SMT
<1>3. a * n \in Int /\ b * n \in Int  OBVIOUS
<1> QED  BY <1>1, <1>2, <1>3

\* Quotient and remainder.
LEMMA Division ==
    ASSUME NEW x \in Nat, NEW n \in Nat \ {0}
    PROVE  x \div n \in Nat /\ x % n \in 0 .. n - 1 /\ x = (x \div n) * n + (x % n)
BY SMT

\* There is only one remainder.
LEMMA Remainder ==
    ASSUME NEW q \in Nat, NEW n \in Nat \ {0}, NEW r \in 0 .. n - 1, NEW x \in Nat,
           x = q * n + r
    PROVE  x % n = r
<1> DEFINE d == x \div n
           m == x % n
<1>1. d \in Nat /\ m \in 0 .. n - 1 /\ x = d * n + m  BY Division, Zenon
<1> HIDE DEF d, m
<1>2. ASSUME d < q PROVE FALSE
  <2>1. d * n + n <= q * n /\ d * n \in Int /\ q * n \in Int  BY <1>1, <1>2, Product
  <2> QED  BY <1>1, <2>1
<1>3. ASSUME q < d PROVE FALSE
  <2>1. q * n + n <= d * n /\ d * n \in Int /\ q * n \in Int  BY <1>1, <1>3, Product
  <2> QED  BY <1>1, <2>1
<1>4. d = q  BY <1>1, <1>2, <1>3
<1>5. q * n \in Int  OBVIOUS
<1>6. m = r  BY <1>1, <1>4, <1>5
<1> QED  BY <1>6 DEF m

\* A multiple leaves none.
LEMMA Multiple ==
    ASSUME NEW q \in Nat, NEW n \in Nat \ {0}, NEW x \in Nat, x = q * n
    PROVE  x % n = 0
<1> DEFINE z == 0
<1>1. z \in 0 .. n - 1 /\ x = q * n + z  OBVIOUS
<1> HIDE DEF z
<1>2. x % n = z  BY <1>1, Remainder
<1> QED  BY <1>2 DEF z

\* The unit of a position, and of one at most a lap further on.
LEMMA UnitStep ==
    ASSUME NEW at \in Nat, NEW k \in 0 .. Capacity
    PROVE  /\ UnitOf(at) \in Units
           /\ UnitOf(at) + k < Capacity => UnitOf(at + k) = UnitOf(at) + k
           /\ UnitOf(at) + k >= Capacity => UnitOf(at + k) = UnitOf(at) + k - Capacity
<1> USE BroadcastAssumption
<1> DEFINE q == at \div Capacity
           i == UnitOf(at)
<1>1. q \in Nat /\ i \in 0 .. Capacity - 1 /\ at = q * Capacity + i
  BY Division, Zenon DEF UnitOf, Responses!Index
<1> HIDE DEF q, i
<1>2. q * Capacity \in Int /\ (q + 1) * Capacity = q * Capacity + Capacity
  BY <1>1
<1>3. ASSUME i + k < Capacity PROVE UnitOf(at + k) = i + k
  <2>1. at + k = q * Capacity + (i + k)  BY <1>1, <1>2
  <2>2. at + k \in Nat /\ i + k \in 0 .. Capacity - 1  BY <1>1, <1>3
  <2> QED  BY <1>1, <2>1, <2>2, Remainder DEF UnitOf, Responses!Index
<1>4. ASSUME i + k >= Capacity PROVE UnitOf(at + k) = i + k - Capacity
  <2> DEFINE x == at + k
             l == i + k - Capacity
             r == q + 1
  <2>1. x = r * Capacity + l /\ x \in Nat /\ r \in Nat /\ l \in 0 .. Capacity - 1
    BY <1>1, <1>2, <1>4
  <2> HIDE DEF x, l, r
  <2>2. x % Capacity = l  BY <2>1, Remainder
  <2> QED  BY <2>2 DEF UnitOf, Responses!Index, x, l
<1> QED  BY <1>1, <1>3, <1>4 DEF Units, Responses!Units, i

\* A position with the same unit as a later one is at least a lap before it.
LEMMA SameUnit ==
    ASSUME NEW a \in Nat, NEW b \in Nat, a < b, UnitOf(a) = UnitOf(b)
    PROVE  a + Capacity <= b
<1> USE BroadcastAssumption
<1> SUFFICES ASSUME b < a + Capacity PROVE FALSE  OBVIOUS
<1> DEFINE k == b - a
           i == UnitOf(a)
<1>1. k \in 1 .. Capacity - 1 /\ k \in 0 .. Capacity /\ a + k = b  OBVIOUS
<1> HIDE DEF k
<1>2. /\ i \in 0 .. Capacity - 1
      /\ i + k < Capacity => UnitOf(a + k) = i + k
      /\ i + k >= Capacity => UnitOf(a + k) = i + k - Capacity
  BY <1>1, UnitStep DEF Units, Responses!Units
<1>3. UnitOf(a + k) = i  BY <1>1
<1> HIDE DEF i
<1> QED  BY <1>1, <1>2, <1>3

-----------------------------------------------------------------------------
(* Where records start. *)

\* The length of the records.
LEMMA SizeType ==
    ASSUME OneSize
    PROVE  Size \in Nat \ {0} /\ Size <= Capacity /\ Size \in RecordSizes
BY BroadcastAssumption DEF OneSize

\* Starts are Size apart, from the first unit to the last that fits.
LEMMA StartsSpaced ==
    ASSUME OneSize
    PROVE  /\ 0 \in Starts /\ Starts \subseteq 0 .. Capacity - 1
           /\ \A i \in Starts : i + Size < Capacity => i + Size \in Starts
           /\ \A i, j \in Starts : i < j => i + Size <= j
<1> USE BroadcastAssumption, SizeType
<1>1. 0 \in Starts /\ Starts \subseteq 0 .. Capacity - 1
  BY DEF Starts, Units, Responses!Units
<1>2. ASSUME NEW i \in Starts
      PROVE  i \in Nat /\ i \div Size \in Nat /\ i = (i \div Size) * Size
  <2> DEFINE q == i \div Size
             r == i % Size
  <2>1. i \in Nat /\ r = 0  BY <1>1 DEF Starts
  <2>2. q \in Nat /\ i = q * Size + r  BY <2>1, Division, Zenon
  <2> HIDE DEF q, r
  <2>3. i = q * Size  BY <2>1, <2>2
  <2> QED  BY <2>1, <2>2, <2>3 DEF q
<1>3. ASSUME NEW i \in Starts, i + Size < Capacity PROVE i + Size \in Starts
  <2> DEFINE q == i \div Size
             r == q + 1
             x == i + Size
  <2>1. q \in Nat /\ i \in Nat /\ i = q * Size  BY <1>2
  <2> HIDE DEF q
  <2>2. x = r * Size /\ x \in Nat /\ r \in Nat
    BY <2>1
  <2> HIDE DEF x, r
  <2>3. x % Size = 0  BY <2>2, Multiple, Zenon
  <2> QED  BY <1>3, <2>1, <2>3 DEF Starts, Units, Responses!Units, x
<1>4. ASSUME NEW i \in Starts, NEW j \in Starts, i < j PROVE i + Size <= j
  <2> DEFINE q == i \div Size
             r == j \div Size
  <2>1. q \in Nat /\ i = q * Size /\ r \in Nat /\ j = r * Size  BY <1>2
  <2> HIDE DEF q, r
  <2>2. q < r
    <3>1. ASSUME r < q PROVE FALSE
      <4>1. r * Size + Size <= q * Size /\ r * Size \in Int /\ q * Size \in Int
        BY <2>1, <3>1, Product
      <4> QED  BY <1>4, <2>1, <4>1
    <3> QED  BY <1>4, <2>1, <3>1
  <2>3. q * Size + Size <= r * Size  BY <2>1, <2>2, Product
  <2> QED  BY <2>1, <2>3
<1> QED  BY <1>1, <1>3, <1>4

\* What starts at a start keeps within the region and ends at the next start.
LEMMA NextStart ==
    ASSUME OneSize, NEW at, Start(at)
    PROVE  /\ at \in Nat /\ UnitOf(at) \in Starts /\ UnitOf(at) \in 0 .. Capacity - 1
           /\ Extent(at) \in 1 .. Size
           /\ UnitOf(at) + Extent(at) <= Capacity
           /\ Start(at + Extent(at))
           /\ ~Fits(at) => Fits(at + Extent(at))
<1> USE BroadcastAssumption, SizeType
<1> DEFINE n == Extent(at)
           u == UnitOf(at)
<1>1. at \in Nat /\ u \in Starts /\ u \in 0 .. Capacity - 1
  BY StartsSpaced DEF Start
<1>2. /\ n = IF u + Size <= Capacity THEN Size ELSE Capacity - u
      /\ Fits(at) <=> u + Size <= Capacity
  BY DEF Extent, Fits
<1> HIDE DEF u, n
<1>3. n \in 1 .. Size /\ n \in 0 .. Capacity /\ u + n <= Capacity  BY <1>1, <1>2
<1>4. /\ u + n < Capacity => UnitOf(at + n) = u + n
      /\ u + n >= Capacity => UnitOf(at + n) = u + n - Capacity
  BY <1>1, <1>3, UnitStep DEF u
<1>5. at + n \in Nat  BY <1>1, <1>3
<1>6. CASE u + n < Capacity
  <2>1. n = Size /\ u + Size \in Starts  BY <1>1, <1>2, <1>3, <1>6, StartsSpaced
  <2>2. UnitOf(at + n) \in Starts  BY <1>4, <1>6, <2>1
  <2>3. Fits(at)  BY <1>2, <1>3, <1>6, <2>1
  <2> QED  BY <1>1, <1>3, <1>5, <2>2, <2>3 DEF Start, u, n
<1>7. CASE u + n = Capacity
  <2>1. UnitOf(at + n) = 0  BY <1>1, <1>3, <1>4, <1>7
  <2>2. UnitOf(at + n) \in Starts  BY <2>1, StartsSpaced
  <2>3. Fits(at + n)  BY <2>1 DEF Fits
  <2> QED  BY <1>1, <1>3, <1>5, <2>2, <2>3 DEF Start, u, n
<1> QED  BY <1>1, <1>3, <1>6, <1>7

\* Nothing starts in the middle of it.
LEMMA StartsApart ==
    ASSUME OneSize, NEW a, NEW b, Start(a), Start(b), a < b
    PROVE  a + Extent(a) <= b
<1> USE BroadcastAssumption, SizeType
<1> DEFINE k == b - a
           n == Extent(a)
           u == UnitOf(a)
           v == UnitOf(b)
<1> SUFFICES ASSUME b < a + n PROVE FALSE
  BY NextStart
<1>1. /\ a \in Nat /\ b \in Nat /\ n \in 1 .. Size
      /\ u \in Starts /\ v \in Starts /\ u \in 0 .. Capacity - 1
      /\ u + n <= Capacity
  BY NextStart
<1> HIDE DEF n
<1>2. k \in Nat /\ k > 0 /\ a + k = b /\ k < n /\ k \in 0 .. Capacity  BY <1>1
<1> HIDE DEF k
<1>3. u + k < Capacity => UnitOf(a + k) = u + k  BY <1>1, <1>2, UnitStep
<1>4. v = u + k  BY <1>1, <1>2, <1>3
<1> HIDE DEF u, v
<1>5. u + Size <= v  BY <1>1, <1>2, <1>4, StartsSpaced
<1> QED  BY <1>1, <1>2, <1>4, <1>5

\* One lap back is the same unit.
LEMMA LapBack ==
    ASSUME NEW at, Start(at), at > Capacity
    PROVE  Start(at - Capacity)
<1> USE BroadcastAssumption
<1> DEFINE a == at - Capacity
<1>1. at \in Nat /\ a \in Nat /\ a + Capacity = at /\ Capacity \in 0 .. Capacity
  BY DEF Start
<1> HIDE DEF a
<1>2. /\ UnitOf(a) \in 0 .. Capacity - 1
      /\ UnitOf(a) + Capacity >= Capacity =>
           UnitOf(a + Capacity) = UnitOf(a) + Capacity - Capacity
  BY <1>1, UnitStep DEF Units, Responses!Units
<1>3. UnitOf(at) = UnitOf(a)  BY <1>1, <1>2
<1> QED  BY <1>1, <1>3 DEF Start, a

\* A unit of a record, and a unit less than a lap after it, differ.
LEMMA UnitsApart ==
    ASSUME OneSize, NEW a, NEW b, Start(a), Start(b), a < b, Fits(a),
           NEW j \in 0 .. Size - 1, NEW k \in Nat,
           UnitOf(b) + k < Capacity, b + k < a + Capacity
    PROVE  UnitOf(a) + j # UnitOf(b) + k
<1> USE BroadcastAssumption, SizeType
<1>1. a \in Nat /\ b \in Nat /\ UnitOf(a) \in 0 .. Capacity - 1
      /\ UnitOf(b) \in 0 .. Capacity - 1 /\ a + Size <= b
  BY NextStart, StartsApart DEF Extent
<1>2. UnitOf(a + j) = UnitOf(a) + j
  <2>1. UnitOf(a) + j < Capacity /\ j \in 0 .. Capacity  BY <1>1 DEF Fits
  <2> QED  BY <1>1, <2>1, UnitStep
<1>3. UnitOf(b + k) = UnitOf(b) + k
  <2>1. k \in 0 .. Capacity  BY <1>1
  <2> QED  BY <1>1, <2>1, UnitStep
<1>4. a + j \in Nat /\ b + k \in Nat /\ a + j < b + k /\ b + k < a + j + Capacity
  BY <1>1
<1>5. UnitOf(a + j) # UnitOf(b + k)  BY <1>4, SameUnit
<1> QED  BY <1>2, <1>3, <1>5

-----------------------------------------------------------------------------
(* The steps. *)

\* The fields of the region's units and of the transmitter.
LEMMA Fields ==
    ASSUME Responses!TypeOK
    PROVE  /\ tail \in Nat
           /\ \A i \in Units : buffer[i] \in Responses!Cells
           /\ transmit.pc \in {"idle", "pad_length", "pad_type", "pad_tail", "payload",
                               "length", "type", "tail"}
           /\ transmit.at \in Nat /\ transmit.len \in 0 .. Capacity
           /\ transmit = [pc |-> transmit.pc, at |-> transmit.at, len |-> transmit.len]
BY DEF Responses!TypeOK, Units

\* A step that writes n units from tail on keeps what was transmitted, as long
\* as the header at tail gets the values of its start.
LEMMA WrittenStep ==
    ASSUME OneSize, Responses!TypeOK, TransmitInv, WrittenInv,
           tail' = tail, Responses!WriteEnd' = Responses!WriteEnd,
           NEW n \in 1 .. Size, UnitOf(tail) + n <= Capacity,
           tail + n <= Responses!WriteEnd, Responses!WriteEnd \in Nat,
           \A i \in Units : i < UnitOf(tail) \/ i >= UnitOf(tail) + n =>
               buffer'[i] = buffer[i],
           buffer'[UnitOf(tail)].len \in {buffer[UnitOf(tail)].len, Extent(tail)},
           buffer'[UnitOf(tail)].type \in {buffer[UnitOf(tail)].type, KindAt(tail)}
    PROVE  WrittenInv'
<1> USE BroadcastAssumption, SizeType
<1> DEFINE u == UnitOf(tail)
           end == Responses!WriteEnd
<1>1. Start(tail)  BY DEF TransmitInv
<1>2. tail \in Nat /\ u \in Starts /\ u \in 0 .. Capacity - 1  BY <1>1, NextStart
<1> SUFFICES ASSUME NEW at \in Nat, Start(at), at < tail
             PROVE  HeaderAt(at)' /\ (end <= at + Capacity => RecordAt(at)')
  <2>1. \A at \in Nat : Start(at)' <=> Start(at)
    BY DEF Start, UnitOf, Starts, Units, Responses!Units, Responses!Index
  <2> QED  BY <2>1, Zenon DEF WrittenInv
<1> DEFINE v == UnitOf(at)
<1>3. v \in Starts /\ v \in 0 .. Capacity - 1 /\ v \in Units
  BY NextStart DEF Units, Responses!Units
<1>4. HeaderAt(at) /\ (end <= at + Capacity => RecordAt(at))
  BY Zenon DEF WrittenInv
<1>5. v # u => buffer'[v] = buffer[v]
  <2>1. v < u \/ v >= u + n \/ v = u
    <3>1. u < v => u + Size <= v  BY <1>2, <1>3, StartsSpaced
    <3> HIDE DEF u, v
    <3> QED  BY <1>2, <1>3, <3>1
  <2> QED  BY <1>3, <2>1
<1>6. v = u => Extent(at) = Extent(tail) /\ KindAt(at) = KindAt(tail)
  BY DEF Extent, KindAt, Fits
<1>7. HeaderAt(at)'
  <2>1. buffer'[v].len = Extent(at) /\ buffer'[v].type = KindAt(at)
    <3>1. CASE v = u
      <4>1. buffer[u].len = Extent(tail) /\ buffer[u].type = KindAt(tail)
        BY <1>4, <1>6, <3>1 DEF HeaderAt
      <4> QED  BY <1>6, <3>1, <4>1
    <3>2. CASE v # u  BY <1>4, <1>5, <3>2 DEF HeaderAt
    <3> QED  BY <3>1, <3>2
  <2> QED  BY <2>1, Zenon DEF HeaderAt, Extent, KindAt, Fits, UnitOf, Responses!Index
<1>8. ASSUME end <= at + Capacity PROVE RecordAt(at)'
  <2> SUFFICES ASSUME Fits(at)
               PROVE  /\ buffer'[v].at = at
                      /\ \A i \in Units : v < i /\ i < v + Size =>
                             buffer'[i].type = "payload" /\ buffer'[i].at = at
    BY Zenon DEF RecordAt, PayloadAt, Fits, UnitOf, Responses!Index, Units, Responses!Units
  <2>1. ASSUME NEW i \in Units, v <= i, i < v + Size PROVE buffer'[i] = buffer[i]
    <3> SUFFICES ASSUME i >= u, i < u + n PROVE FALSE
      <4>1. i \in Nat  BY DEF Units, Responses!Units
      <4> HIDE DEF u
      <4>2. i < u \/ i >= u + n  BY <1>2, <4>1
      <4> QED  BY <4>2 DEF u
    <3> DEFINE j == i - v
               k == i - u
    <3>1. i \in 0 .. Capacity - 1  BY DEF Units, Responses!Units
    <3> HIDE DEF u, v, end
    <3>2. /\ j \in 0 .. Size - 1 /\ k \in Nat /\ u + k < Capacity
          /\ tail + k < at + Capacity /\ v + j = u + k
      BY <1>2, <1>3, <1>8, <2>1, <3>1 DEF end
    <3> HIDE DEF j, k
    <3>3. v + j # u + k  BY <1>1, <3>2, UnitsApart DEF u, v
    <3> QED  BY <3>2, <3>3
  <2>2. buffer'[v] = buffer[v]
    <3>1. v <= v /\ v < v + Size  BY <1>3
    <3> QED  BY <1>3, <2>1, <3>1
  <2>3. ASSUME NEW i \in Units, v < i, i < v + Size PROVE buffer'[i] = buffer[i]
    <3>1. v <= i  BY <1>3, <2>3 DEF Units, Responses!Units
    <3> QED  BY <2>1, <2>3, <3>1
  <2>4. buffer[v].at = at /\ \A i \in Units : v < i /\ i < v + Size =>
            buffer[i].type = "payload" /\ buffer[i].at = at
    BY <1>4, <1>8, Zenon DEF RecordAt, PayloadAt
  <2> QED  BY <2>2, <2>3, <2>4, Zenon
<1> QED  BY <1>7, <1>8, Zenon

\* Receivers do not mind that tail grows.
LEMMA ReceiversKept ==
    ASSUME Responses!TypeOK, \A r \in Receivers : ReceiveInv(receive[r]),
           tail' \in Nat, tail' >= tail, receive' = receive
    PROVE  \A r \in Receivers : ReceiveInv(receive[r])'
<1> SUFFICES ASSUME NEW r \in Receivers PROVE ReceiveInv(receive[r])'
  OBVIOUS
<1> DEFINE g == receive[r]
<1>1. tail \in Nat /\ g.cursor \in Nat /\ g.tail \in Nat  BY DEF Responses!TypeOK
<1>2. ReceiveInv(g)  OBVIOUS
<1>3. receive'[r] = g  OBVIOUS
<1> HIDE DEF g
<1>4. (g.cursor <= tail => g.cursor <= tail') /\ (g.tail <= tail => g.tail <= tail')
  BY <1>1
<1> QED  BY <1>2, <1>3, <1>4, Zenon
         DEF ReceiveInv, Start, Starts, Extent, KindAt, Fits, Units, Responses!Units,
             UnitOf, Responses!Index

\* A step that writes nothing, and may store the tail after what is complete.
LEMMA WrittenOn ==
    ASSUME OneSize, Responses!TypeOK, TransmitInv, WrittenInv, buffer' = buffer,
           \/ tail' = tail
           \/ tail' = tail + Extent(tail) /\ HeaderAt(tail) /\ RecordAt(tail),
           Responses!WriteEnd \in Nat, Responses!WriteEnd' \in Nat,
           Responses!WriteEnd' >= Responses!WriteEnd
    PROVE  WrittenInv'
<1> USE BroadcastAssumption
<1> DEFINE end == Responses!WriteEnd
           end2 == Responses!WriteEnd'
<1>1. Start(tail) /\ tail \in Nat /\ Extent(tail) \in Nat
  <2>1. Start(tail)  BY DEF TransmitInv
  <2> QED  BY <2>1, NextStart, SizeType
<1> SUFFICES ASSUME NEW at \in Nat, Start(at), at < tail'
             PROVE  HeaderAt(at) /\ (end2 <= at + Capacity => RecordAt(at))
  BY Zenon DEF WrittenInv, HeaderAt, RecordAt, PayloadAt, Extent, KindAt, Fits, Start,
               Starts, Units, Responses!Units, UnitOf, Responses!Index
<1>2. end2 <= at + Capacity => end <= at + Capacity
  <2> HIDE DEF end, end2
  <2>1. end \in Nat /\ end2 \in Nat /\ end2 >= end  BY DEF end, end2
  <2> QED  BY <2>1
<1>3. CASE at < tail  BY <1>2, <1>3, Zenon DEF WrittenInv
<1>4. CASE ~(at < tail)
  <2>1. tail' = tail + Extent(tail) /\ HeaderAt(tail) /\ RecordAt(tail)  BY <1>4
  <2>2. ~(tail < at)
    <3>1. tail < at => tail + Extent(tail) <= at  BY <1>1, StartsApart
    <3> QED  BY <1>1, <2>1, <3>1
  <2>3. at = tail  BY <1>1, <1>4, <2>2
  <2> QED  BY <2>1, <2>3
<1> QED  BY <1>3, <1>4

\* How far what the transmitter has written reaches.
LEMMA EndOfWrites ==
    ASSUME Responses!TypeOK
    PROVE  /\ Responses!WriteEnd \in Nat
           /\ transmit.pc = "idle" => Responses!WriteEnd = tail
           /\ transmit.pc \in {"pad_length", "pad_type", "pad_tail"} =>
                Responses!WriteEnd = tail + 1
           /\ transmit.pc \in {"payload", "length", "type", "tail"} =>
                Responses!WriteEnd = tail + transmit.len
<1> DEFINE p == transmit.pc
           l == transmit.len
<1>1. tail \in Nat /\ l \in Nat
      /\ p \in {"idle", "pad_length", "pad_type", "pad_tail", "payload", "length",
                "type", "tail"}
  BY Fields, BroadcastAssumption
<1>2. Responses!WriteEnd = CASE p = "idle" -> tail
                             [] p \in {"pad_length", "pad_type", "pad_tail"} -> tail + 1
                             [] OTHER -> tail + l
  BY Zenon DEF Responses!WriteEnd
<1> HIDE DEF p, l
<1>3. p = "idle" => Responses!WriteEnd = tail  BY <1>2
<1>4. p \in {"pad_length", "pad_type", "pad_tail"} => Responses!WriteEnd = tail + 1
  BY <1>2
<1>5. p \in {"payload", "length", "type", "tail"} => Responses!WriteEnd = tail + l
  BY <1>2
<1>6. Responses!WriteEnd \in Nat  BY <1>1, <1>3, <1>4, <1>5
<1> QED  BY <1>3, <1>4, <1>5, <1>6 DEF p, l

\* transmit begins: with a pad when the record does not fit.
LEMMA TransmitBeginInv ==
    ASSUME OneSize, BroadcastInv, NEW n \in RecordSizes, Responses!TransmitBegin(n)
    PROVE  BroadcastInv'
<1> USE BroadcastAssumption, SizeType
<1> DEFINE u == UnitOf(tail)
           p == IF Size > Capacity - u THEN "pad_length" ELSE "payload"
<1>1. Responses!TypeOK /\ TransmitInv /\ WrittenInv
  BY DEF BroadcastInv
<1>2. tail \in Nat /\ u \in 0 .. Capacity - 1 /\ Start(tail)
  <2>1. Start(tail)  BY <1>1 DEF TransmitInv
  <2> QED  BY <2>1, NextStart
<1>3. n = Size  BY DEF OneSize
<1>4. /\ transmit' = [pc |-> p, at |-> tail, len |-> Size]
      /\ buffer' = buffer /\ tail' = tail /\ receive' = receive /\ transmit.pc = "idle"
  BY <1>3, Zenon DEF Responses!TransmitBegin, Responses!Contiguous, UnitOf
<1>5. p \in {"pad_length", "payload"} /\ (p = "payload" <=> Fits(tail))
  <2> HIDE DEF u
  <2> QED  BY <1>2 DEF Fits, u
<1> HIDE DEF p, u
<1>6. transmit'.pc = p /\ transmit'.at = tail /\ transmit'.len = Size  BY <1>4
<1>7. Responses!TypeOK'
  <2>1. transmit' \in [pc : {"idle", "pad_length", "pad_type", "pad_tail", "payload",
                             "length", "type", "tail"}, at : Nat, len : 0 .. Capacity]
    BY <1>2, <1>4, <1>5
  <2> QED  BY <1>1, <1>4, <2>1, Zenon
           DEF Responses!TypeOK, Responses!Units, Responses!Cells
<1>8. Fits(tail)' <=> Fits(tail)  BY <1>4 DEF Fits, UnitOf, Responses!Index
<1>9. Start(tail)'
  BY <1>2, <1>4, Zenon DEF Start, Starts, UnitOf, Responses!Index, Units, Responses!Units
<1>10. TransmitInv'
  BY <1>4, <1>5, <1>6, <1>8, <1>9 DEF TransmitInv
<1>11. WrittenInv'
  <2>1. Responses!WriteEnd = tail /\ Responses!WriteEnd \in Nat  BY <1>1, <1>4, EndOfWrites
  <2>2. Responses!WriteEnd' \in Nat /\ Responses!WriteEnd' >= tail
    <3>1. Responses!WriteEnd' = tail + 1 \/ Responses!WriteEnd' = tail + Size
      BY <1>4, <1>5, <1>6 DEF Responses!WriteEnd
    <3> QED  BY <1>2, <3>1
  <2>3. Responses!WriteEnd' >= Responses!WriteEnd  BY <2>1, <2>2
  <2>4. tail' = tail /\ buffer' = buffer  BY <1>4
  <2> QED  BY <1>1, <2>1, <2>2, <2>3, <2>4, WrittenOn
<1>12. \A r \in Receivers : ReceiveInv(receive[r])'
  BY <1>1, <1>2, <1>4, ReceiversKept DEF BroadcastInv
<1> QED  BY <1>7, <1>10, <1>11, <1>12, Zenon DEF BroadcastInv

\* What is at tail does not change while tail does not.
LEMMA SameTail ==
    ASSUME tail' = tail
    PROVE  /\ Start(tail)' = Start(tail) /\ Fits(tail)' = Fits(tail)
           /\ UnitOf(tail)' = UnitOf(tail) /\ Extent(tail)' = Extent(tail)
           /\ KindAt(tail)' = KindAt(tail)
BY DEF Start, Starts, Fits, UnitOf, Extent, KindAt, Responses!Index, Units, Responses!Units

\* A step of transmit that changes the header at tail to c.
LEMMA HeaderStep ==
    ASSUME OneSize, BroadcastInv, NEW c \in Responses!Cells, NEW p,
           \/ transmit.pc \in {"pad_length", "pad_type"} /\ p \in {"pad_type", "pad_tail"}
           \/ transmit.pc \in {"length", "type"} /\ p \in {"type", "tail"},
           buffer' = [buffer EXCEPT ![UnitOf(tail)] = c],
           c.len \in {buffer[UnitOf(tail)].len, Extent(tail)},
           c.type \in {buffer[UnitOf(tail)].type, KindAt(tail)},
           transmit' = [transmit EXCEPT !.pc = p], tail' = tail, receive' = receive,
           p \in {"pad_type", "pad_tail", "type", "tail"} => c.len = Extent(tail),
           p \in {"pad_tail", "tail"} => c.type = KindAt(tail),
           p = "tail" => c.at = tail
    PROVE  BroadcastInv'
<1> USE BroadcastAssumption, SizeType
<1> DEFINE u == UnitOf(tail)
           q == transmit.pc
<1>1. Responses!TypeOK /\ TransmitInv /\ WrittenInv
  BY DEF BroadcastInv
<1>2. /\ tail \in Nat /\ u \in 0 .. Capacity - 1 /\ Start(tail)
      /\ u \in Units /\ Units = 0 .. Capacity - 1
  <2>1. Start(tail)  BY <1>1 DEF TransmitInv
  <2> QED  BY <2>1, NextStart DEF Units, Responses!Units
<1>3. /\ buffer'[u] = c
      /\ \A i \in Units : i # u => buffer'[i] = buffer[i]
      /\ buffer' \in [Units -> Responses!Cells]
  <2>1. buffer \in [Units -> Responses!Cells]
    BY <1>1, Zenon DEF Responses!TypeOK, Units
  <2> HIDE DEF u
  <2>2. buffer' = [buffer EXCEPT ![u] = c]  BY DEF u
  <2> QED  BY <1>2, <2>1, <2>2, Zenon
<1>4. /\ transmit'.pc = p /\ transmit'.at = tail /\ transmit'.len = Size
      /\ transmit.at = tail /\ transmit.len = Size
  <2>1. transmit.at = tail /\ transmit.len = Size  BY <1>1 DEF TransmitInv
  <2>2. transmit = [pc |-> q, at |-> transmit.at, len |-> transmit.len]  BY <1>1, Fields
  <2> HIDE DEF q
  <2>3. transmit' = [pc |-> p, at |-> transmit.at, len |-> transmit.len]
    BY <2>2
  <2> QED  BY <2>1, <2>3
<1>5. Responses!TypeOK'
  <2>1. transmit' \in [pc : {"idle", "pad_length", "pad_type", "pad_tail", "payload",
                             "length", "type", "tail"}, at : Nat, len : 0 .. Capacity]
    BY <1>1 DEF Responses!TypeOK
  <2> QED  BY <1>1, <1>3, <2>1, Zenon
           DEF Responses!TypeOK, Units, Responses!Units, Responses!Cells
<1>6. /\ (Fits(tail) => q \in {"length", "type"} /\ p \in {"type", "tail"})
      /\ (~Fits(tail) => q \in {"pad_length", "pad_type"} /\ p \in {"pad_type", "pad_tail"})
  BY <1>1 DEF TransmitInv
<1>7. PayloadAt(tail) => PayloadAt(tail)'
  <2> HIDE DEF u
  <2>1. \A i \in Units : u < i => i # u  BY <1>2
  <2>2. UnitOf(tail)' = u /\ tail' = tail /\ Units' = Units
    BY SameTail DEF u, Units, Responses!Units
  <2> QED  BY <1>3, <2>1, <2>2, Zenon DEF PayloadAt, u
<1>8. TransmitInv'
  <2>1. q \in {"length", "type"} => PayloadAt(tail)  BY <1>1 DEF TransmitInv
  <2> DEFINE cell == buffer'[u]
  <2>2. UnitOf(tail)' = u /\ cell = c  BY <1>3, SameTail
  <2> HIDE DEF q, u, cell
  <2> QED  BY <1>2, <1>4, <1>6, <1>7, <2>1, <2>2, SameTail DEF TransmitInv, cell
<1>9. Responses!WriteEnd' = Responses!WriteEnd /\ Responses!WriteEnd \in Nat
      /\ tail + 1 <= Responses!WriteEnd
  <2>1. /\ q \in {"pad_length", "pad_type"} => Responses!WriteEnd = tail + 1
        /\ q \in {"length", "type"} => Responses!WriteEnd = tail + Size
    BY <1>1, <1>4, EndOfWrites
  <2>2. /\ p \in {"pad_type", "pad_tail"} => Responses!WriteEnd' = tail + 1
        /\ p \in {"type", "tail"} => Responses!WriteEnd' = tail + Size
    BY <1>4 DEF Responses!WriteEnd
  <2> QED  BY <1>2, <1>6, <2>1, <2>2
<1>10. WrittenInv'
  <2> DEFINE n == 1
  <2>1. n \in 1 .. Size /\ u + n <= Capacity /\ tail + n <= Responses!WriteEnd
    BY <1>2, <1>9
  <2>2. \A i \in Units : i < u \/ i >= u + n => buffer'[i] = buffer[i]
    <3> HIDE DEF u
    <3>1. \A i \in Units : i < u \/ i >= u + n => i # u  BY <1>2
    <3> QED  BY <1>3, <3>1
  <2> HIDE DEF n
  <2> QED  BY <1>1, <1>3, <1>9, <2>1, <2>2, WrittenStep, Zenon
<1>11. \A r \in Receivers : ReceiveInv(receive[r])'
  BY <1>1, <1>2, ReceiversKept DEF BroadcastInv
<1> QED  BY <1>5, <1>8, <1>10, <1>11, Zenon DEF BroadcastInv

\* The header of a pad, or of a record, is written in two steps.
LEMMA HeaderWrites ==
    ASSUME OneSize, BroadcastInv,
           \/ Responses!WritePadLength \/ Responses!WritePadType
           \/ Responses!WriteLength \/ Responses!WriteType
    PROVE  BroadcastInv'
<1> USE BroadcastAssumption, SizeType
<1> DEFINE u == UnitOf(tail)
           b == buffer[u]
           kinds == {"none", "msg", "pad", "payload"}
<1>1. Responses!TypeOK /\ TransmitInv
  BY DEF BroadcastInv
<1>2. /\ tail \in Nat /\ u \in 0 .. Capacity - 1 /\ Start(tail) /\ u \in Units
  <2>1. Start(tail)  BY <1>1 DEF TransmitInv
  <2> QED  BY <2>1, NextStart DEF Units, Responses!Units
<1>3. /\ b \in Responses!Cells /\ b.len \in 0 .. Capacity /\ b.type \in kinds /\ b.at \in Nat
  <2>1. b \in Responses!Cells  BY <1>1, <1>2, Fields
  <2> HIDE DEF b
  <2> QED  BY <2>1 DEF Responses!Cells
<1>4. Extent(tail) \in 0 .. Capacity /\ KindAt(tail) \in kinds
  <2>1. Extent(tail) \in 1 .. Size  BY <1>2, NextStart
  <2> QED  BY <2>1 DEF KindAt
<1>5. ASSUME NEW l \in 0 .. Capacity
      PROVE  LET c == [b EXCEPT !.len = l]
             IN  c \in Responses!Cells /\ c.len = l /\ c.type = b.type
  <2> HIDE DEF b
  <2> QED  BY <1>3 DEF Responses!Cells
<1>6. ASSUME NEW k \in kinds
      PROVE  LET c == [b EXCEPT !.type = k, !.at = tail]
             IN  c \in Responses!Cells /\ c.len = b.len /\ c.type = k /\ c.at = tail
  <2> HIDE DEF b
  <2> QED  BY <1>2, <1>3, Zenon DEF Responses!Cells
<1>7. CASE Responses!WritePadLength
  <2> DEFINE c == [b EXCEPT !.len = Extent(tail)]
  <2>1. transmit.pc = "pad_length" /\ transmit' = [transmit EXCEPT !.pc = "pad_type"]
        /\ tail' = tail /\ receive' = receive
    BY <1>7 DEF Responses!WritePadLength
  <2>2. Extent(tail) = Responses!Contiguous(tail)
    BY <1>1, <2>1 DEF TransmitInv, Extent, Responses!Contiguous, UnitOf
  <2>3. buffer' = [buffer EXCEPT ![u] = c]
    BY <1>7, <2>2, Zenon DEF Responses!WritePadLength, UnitOf
  <2>4. c \in Responses!Cells /\ c.len = Extent(tail) /\ c.type = b.type
    BY <1>4, <1>5, Zenon
  <2> HIDE DEF c
  <2> QED  BY <2>1, <2>3, <2>4, HeaderStep, Zenon
<1>8. CASE Responses!WritePadType
  <2> DEFINE c == [b EXCEPT !.type = KindAt(tail), !.at = tail]
  <2>1. transmit.pc = "pad_type" /\ transmit' = [transmit EXCEPT !.pc = "pad_tail"]
        /\ tail' = tail /\ receive' = receive
    BY <1>8 DEF Responses!WritePadType
  <2>2. KindAt(tail) = "pad" /\ b.len = Extent(tail)
    BY <1>1, <2>1 DEF TransmitInv, KindAt
  <2>3. buffer' = [buffer EXCEPT ![u] = c]
    <3>1. buffer' = [buffer EXCEPT ![u].type = "pad", ![u].at = tail]
      BY <1>8, Zenon DEF Responses!WritePadType, UnitOf
    <3> HIDE DEF u
    <3> QED  BY <2>2, <3>1, Zenon
  <2>4. c \in Responses!Cells /\ c.len = b.len /\ c.type = KindAt(tail) /\ c.at = tail
    BY <1>4, <1>6, Zenon
  <2> HIDE DEF c
  <2> QED  BY <2>1, <2>2, <2>3, <2>4, HeaderStep, Zenon
<1>9. CASE Responses!WriteLength
  <2> DEFINE c == [b EXCEPT !.len = Extent(tail)]
  <2>1. transmit.pc = "length" /\ transmit' = [transmit EXCEPT !.pc = "type"]
        /\ tail' = tail /\ receive' = receive
    BY <1>9 DEF Responses!WriteLength
  <2>2. Extent(tail) = transmit.len /\ transmit.at = tail
    BY <1>1, <2>1 DEF TransmitInv, Extent
  <2>3. buffer' = [buffer EXCEPT ![u] = c]
    BY <1>9, <2>2, Zenon DEF Responses!WriteLength, UnitOf
  <2>4. c \in Responses!Cells /\ c.len = Extent(tail) /\ c.type = b.type
    BY <1>4, <1>5, Zenon
  <2> HIDE DEF c
  <2> QED  BY <2>1, <2>3, <2>4, HeaderStep, Zenon
<1>10. CASE Responses!WriteType
  <2> DEFINE c == [b EXCEPT !.type = KindAt(tail), !.at = tail]
  <2>1. transmit.pc = "type" /\ transmit' = [transmit EXCEPT !.pc = "tail"]
        /\ tail' = tail /\ receive' = receive
    BY <1>10 DEF Responses!WriteType
  <2>2. KindAt(tail) = "msg" /\ b.len = Extent(tail) /\ transmit.at = tail
    BY <1>1, <2>1 DEF TransmitInv, KindAt
  <2>3. buffer' = [buffer EXCEPT ![u] = c]
    <3>1. buffer' = [buffer EXCEPT ![u].type = "msg", ![u].at = tail]
      BY <1>10, <2>2, Zenon DEF Responses!WriteType, UnitOf
    <3> HIDE DEF u
    <3> QED  BY <2>2, <3>1, Zenon
  <2>4. c \in Responses!Cells /\ c.len = b.len /\ c.type = KindAt(tail) /\ c.at = tail
    BY <1>4, <1>6, Zenon
  <2> HIDE DEF c
  <2> QED  BY <2>1, <2>2, <2>3, <2>4, HeaderStep, Zenon
<1> QED  BY <1>7, <1>8, <1>9, <1>10

\* The payload is written, behind the header.
LEMMA WritePayloadInv ==
    ASSUME OneSize, BroadcastInv, Responses!WritePayload
    PROVE  BroadcastInv'
<1> USE BroadcastAssumption, SizeType
<1> DEFINE u == UnitOf(tail)
           c == [len |-> 0, type |-> "payload", at |-> tail]
<1>1. Responses!TypeOK /\ TransmitInv /\ WrittenInv
  BY DEF BroadcastInv
<1>2. /\ tail \in Nat /\ u \in 0 .. Capacity - 1 /\ Start(tail)
      /\ u \in Units /\ Units = 0 .. Capacity - 1
  <2>1. Start(tail)  BY <1>1 DEF TransmitInv
  <2> QED  BY <2>1, NextStart DEF Units, Responses!Units
<1>3. /\ transmit.pc = "payload" /\ transmit' = [transmit EXCEPT !.pc = "length"]
      /\ tail' = tail /\ receive' = receive
      /\ transmit.at = tail /\ transmit.len = Size /\ Fits(tail)
  BY <1>1 DEF Responses!WritePayload, TransmitInv
<1>4. buffer' = [i \in Units |-> IF u < i /\ i < u + Size THEN c ELSE buffer[i]]
  BY <1>3, Zenon DEF Responses!WritePayload, Units, UnitOf
<1>5. c \in Responses!Cells /\ c.type = "payload" /\ c.at = tail
  BY <1>2 DEF Responses!Cells
<1> HIDE DEF c
<1>6. /\ buffer' \in [Units -> Responses!Cells]
      /\ buffer'[u] = buffer[u]
      /\ \A i \in Units : u < i /\ i < u + Size => buffer'[i] = c
      /\ \A i \in Units : i < u \/ i >= u + Size => buffer'[i] = buffer[i]
  <2>1. buffer \in [Units -> Responses!Cells]
    BY <1>1, Zenon DEF Responses!TypeOK, Units
  <2> HIDE DEF u
  <2> QED  BY <1>2, <1>4, <1>5, <2>1
<1>7. /\ transmit'.pc = "length" /\ transmit'.at = tail /\ transmit'.len = Size
      /\ Responses!TypeOK'
  <2>1. /\ transmit' \in [pc : {"idle", "pad_length", "pad_type", "pad_tail", "payload",
                                "length", "type", "tail"}, at : Nat, len : 0 .. Capacity]
        /\ transmit'.pc = "length" /\ transmit'.at = tail /\ transmit'.len = Size
    BY <1>1, <1>3 DEF Responses!TypeOK
  <2>2. Responses!TypeOK'
    BY <1>1, <1>3, <1>6, <2>1, Zenon
       DEF Responses!TypeOK, Units, Responses!Units, Responses!Cells
  <2> QED  BY <2>1, <2>2
<1>8. TransmitInv'
  <2>1. PayloadAt(tail)'
    <3>1. UnitOf(tail)' = u /\ tail' = tail /\ Units' = Units
      BY <1>3, SameTail DEF u, Units, Responses!Units
    <3> HIDE DEF u
    <3> QED  BY <1>5, <1>6, <3>1, Zenon DEF PayloadAt
  <2> QED  BY <1>2, <1>3, <1>7, <2>1, SameTail DEF TransmitInv
<1>9. WrittenInv'
  <2> DEFINE n == Size
  <2>1. Responses!WriteEnd = tail + n /\ Responses!WriteEnd \in Nat
    BY <1>1, <1>3, EndOfWrites
  <2>2. Responses!WriteEnd' = tail + n
    BY <1>3, <1>7 DEF Responses!WriteEnd
  <2>3. n \in 1 .. Size /\ u + n <= Capacity /\ tail + n <= Responses!WriteEnd
    BY <1>2, <1>3, <2>1 DEF Fits
  <2>4. Responses!WriteEnd' = Responses!WriteEnd  BY <2>1, <2>2
  <2>5. \A i \in Units : i < u \/ i >= u + n => buffer'[i] = buffer[i]  BY <1>6
  <2>6. /\ buffer'[u].len \in {buffer[u].len, Extent(tail)}
        /\ buffer'[u].type \in {buffer[u].type, KindAt(tail)}
    BY <1>6
  <2> HIDE DEF n
  <2> QED  BY <1>1, <1>3, <2>1, <2>3, <2>4, <2>5, <2>6, WrittenStep, Zenon
<1>10. \A r \in Receivers : ReceiveInv(receive[r])'
  BY <1>1, <1>2, <1>3, ReceiversKept DEF BroadcastInv
<1> QED  BY <1>7, <1>8, <1>9, <1>10, Zenon DEF BroadcastInv

\* The tail is stored behind a pad, or behind a record.
LEMMA TailStores ==
    ASSUME OneSize, BroadcastInv, Responses!StorePadTail \/ Responses!StoreTail
    PROVE  BroadcastInv'
<1> USE BroadcastAssumption, SizeType
<1> DEFINE n == Extent(tail)
<1>1. Responses!TypeOK /\ TransmitInv /\ WrittenInv
  BY DEF BroadcastInv
<1>2. /\ Start(tail) /\ tail \in Nat /\ n \in 1 .. Size /\ Start(tail + n)
      /\ ~Fits(tail) => Fits(tail + n)
  <2>1. Start(tail)  BY <1>1 DEF TransmitInv
  <2> QED  BY <2>1, NextStart
<1>3. /\ buffer' = buffer /\ receive' = receive /\ tail' = tail + n
      /\ HeaderAt(tail) /\ RecordAt(tail)
      /\ \/ /\ transmit.pc = "pad_tail" /\ ~Fits(tail)
            /\ transmit' = [transmit EXCEPT !.pc = "payload", !.at = tail']
         \/ transmit.pc = "tail" /\ n = Size /\ transmit' = Responses!TransmitIdle
  <2>1. CASE Responses!StorePadTail
    <3>1. transmit.pc = "pad_tail" /\ ~Fits(tail)
      BY <1>1, <2>1 DEF TransmitInv, Responses!StorePadTail
    <3>2. n = Responses!Contiguous(tail)
      BY <3>1 DEF Extent, Responses!Contiguous, UnitOf
    <3>3. HeaderAt(tail) /\ RecordAt(tail)
      BY <1>1, <3>1 DEF TransmitInv, HeaderAt, RecordAt
    <3> QED  BY <2>1, <3>1, <3>2, <3>3, Zenon DEF Responses!StorePadTail
  <2>2. CASE Responses!StoreTail
    <3>1. transmit.pc = "tail" /\ Fits(tail) /\ transmit.len = Size
      BY <1>1, <2>2 DEF TransmitInv, Responses!StoreTail
    <3>2. n = Size  BY <3>1 DEF Extent
    <3>3. HeaderAt(tail) /\ RecordAt(tail)
      BY <1>1, <3>1 DEF TransmitInv, HeaderAt, RecordAt
    <3> QED  BY <2>2, <3>1, <3>2, <3>3, Zenon DEF Responses!StoreTail
  <2> QED  BY <2>1, <2>2
<1>4. tail' \in Nat /\ tail' >= tail /\ Start(tail)' /\ (~Fits(tail) => Fits(tail)')
  <2>1. Start(tail)' /\ (~Fits(tail) => Fits(tail)')
    BY <1>2, <1>3, Zenon
       DEF Start, Starts, Fits, UnitOf, Responses!Index, Units, Responses!Units
  <2> HIDE DEF n
  <2> QED  BY <1>2, <1>3, <2>1
<1> HIDE DEF n
<1>5. /\ Responses!TypeOK' /\ TransmitInv'
      /\ Responses!WriteEnd' \in Nat /\ Responses!WriteEnd' >= Responses!WriteEnd
      /\ Responses!WriteEnd \in Nat
  <2>1. transmit.at \in Nat /\ transmit.len \in 0 .. Capacity /\ transmit.len = Size
        /\ transmit = [pc |-> transmit.pc, at |-> transmit.at, len |-> transmit.len]
    BY <1>1, <1>3, Fields DEF TransmitInv
  <2>2. CASE transmit.pc = "pad_tail"
    <3>1. transmit' = [pc |-> "payload", at |-> tail', len |-> Size]
      BY <1>3, <2>1, <2>2, Zenon
    <3>2. transmit' \in [pc : {"idle", "pad_length", "pad_type", "pad_tail", "payload",
                               "length", "type", "tail"}, at : Nat, len : 0 .. Capacity]
      BY <1>4, <3>1
    <3>3. Responses!TypeOK'
      BY <1>1, <1>3, <1>4, <3>2, Zenon
         DEF Responses!TypeOK, Responses!Units, Responses!Cells
    <3>4. Responses!WriteEnd' = tail' + Size  BY <3>1 DEF Responses!WriteEnd
    <3>5. Responses!WriteEnd = tail + 1  BY <1>1, <2>2, EndOfWrites
    <3>6. TransmitInv'
      BY <1>3, <1>4, <2>2, <3>1 DEF TransmitInv
    <3> QED  BY <1>2, <1>3, <1>4, <3>3, <3>4, <3>5, <3>6
  <2>3. CASE transmit.pc = "tail"
    <3>1. transmit' = [pc |-> "idle", at |-> 0, len |-> 0] /\ n = Size
      BY <1>3, <2>3 DEF Responses!TransmitIdle
    <3>2. transmit' \in [pc : {"idle", "pad_length", "pad_type", "pad_tail", "payload",
                               "length", "type", "tail"}, at : Nat, len : 0 .. Capacity]
      BY <3>1
    <3>3. Responses!TypeOK'
      BY <1>1, <1>3, <1>4, <3>2, Zenon
         DEF Responses!TypeOK, Responses!Units, Responses!Cells
    <3>4. Responses!WriteEnd' = tail'  BY <3>1 DEF Responses!WriteEnd
    <3>5. Responses!WriteEnd = tail + Size  BY <1>1, <2>1, <2>3, EndOfWrites
    <3>6. TransmitInv'
      BY <1>4, <3>1 DEF TransmitInv
    <3> QED  BY <1>2, <1>3, <1>4, <3>1, <3>3, <3>4, <3>5, <3>6
  <2> QED  BY <1>3, <2>2, <2>3
<1>6. WrittenInv'  BY <1>1, <1>3, <1>5, WrittenOn, Zenon DEF n
<1>7. \A r \in Receivers : ReceiveInv(receive[r])'
  BY <1>1, <1>3, <1>4, ReceiversKept DEF BroadcastInv
<1> QED  BY <1>5, <1>6, <1>7, Zenon DEF BroadcastInv

\* The local variables of a receiver.
Locals == [pc : {"closed", "idle", "length", "type", "deliver", "end"},
           cursor : Nat, current : Nat, tail : Nat, len : 0 .. Capacity,
           type : {"none", "msg", "pad", "payload"}]

\* The invariants of the region speak of nothing else.
LEMMA RegionUnchanged ==
    ASSUME UNCHANGED <<buffer, tail, transmit>>
    PROVE  /\ TransmitInv => TransmitInv'
           /\ WrittenInv => WrittenInv'
           /\ \A g : ReceiveInv(g) => ReceiveInv(g)'
<1>1. buffer' = buffer /\ tail' = tail /\ transmit' = transmit  OBVIOUS
<1>2. /\ \A at : Start(at)' = Start(at) /\ Fits(at)' = Fits(at)
      /\ \A at : Extent(at)' = Extent(at) /\ KindAt(at)' = KindAt(at)
      /\ Start(tail)' = Start(tail) /\ Fits(tail)' = Fits(tail)
      /\ UnitOf(tail)' = UnitOf(tail) /\ Extent(tail)' = Extent(tail)
      /\ KindAt(tail)' = KindAt(tail)
  BY <1>1 DEF Start, Starts, Fits, UnitOf, Extent, KindAt, Responses!Index, Units,
              Responses!Units
<1>3. \A at : HeaderAt(at)' = HeaderAt(at)
  BY <1>1, Zenon DEF HeaderAt, Extent, KindAt, Fits, UnitOf, Responses!Index
<1>4. \A at : RecordAt(at)' = RecordAt(at)
  BY <1>1, Zenon DEF RecordAt, PayloadAt, Fits, UnitOf, Responses!Index, Units,
                     Responses!Units
<1>5. PayloadAt(tail)' = PayloadAt(tail)
  BY <1>1, Zenon DEF PayloadAt, UnitOf, Responses!Index, Units, Responses!Units
<1>6. Responses!WriteEnd' = Responses!WriteEnd
  BY <1>1, Zenon DEF Responses!WriteEnd
<1>7. TransmitInv => TransmitInv'
  BY <1>1, <1>2, <1>5, Zenon DEF TransmitInv
<1>8. WrittenInv => WrittenInv'
  BY <1>1, <1>2, <1>3, <1>4, <1>6, Zenon DEF WrittenInv
<1>9. \A g : ReceiveInv(g) => ReceiveInv(g)'
  BY <1>1, Zenon DEF ReceiveInv, Start, Starts, Extent, KindAt, Fits, Units,
                     Responses!Units, UnitOf, Responses!Index
<1> QED  BY <1>7, <1>8, <1>9

\* A receiver writes nothing but its local variables.
LEMMA ReceiverStep ==
    ASSUME BroadcastInv, NEW r \in Receivers, NEW g \in Locals, ReceiveInv(g),
           receive' = [receive EXCEPT ![r] = g], UNCHANGED <<buffer, tail, transmit>>
    PROVE  BroadcastInv'
<1>1. Responses!TypeOK /\ TransmitInv /\ WrittenInv
  BY DEF BroadcastInv
<1>2. buffer' = buffer /\ tail' = tail /\ transmit' = transmit  OBVIOUS
<1>3. receive \in [Receivers -> Locals]  BY <1>1, Zenon DEF Responses!TypeOK, Locals
<1>4. /\ receive' \in [Receivers -> Locals] /\ receive'[r] = g
      /\ \A s \in Receivers : s # r => receive'[s] = receive[s]
  BY <1>3
<1>5. Responses!TypeOK'
  BY <1>1, <1>2, <1>4, Zenon DEF Responses!TypeOK, Responses!Units, Responses!Cells, Locals
<1>6. TransmitInv' /\ WrittenInv'  BY <1>1, RegionUnchanged
<1>7. ASSUME NEW s \in Receivers PROVE ReceiveInv(receive[s])'
  <2>1. ReceiveInv(receive'[s])
    <3>1. CASE s = r  BY <1>4, <3>1
    <3>2. CASE s # r
      <4>1. receive'[s] = receive[s]  BY <1>4, <3>2
      <4>2. ReceiveInv(receive[s])  BY DEF BroadcastInv
      <4> QED  BY <4>1, <4>2
    <3> QED  BY <3>1, <3>2
  <2> QED  BY <1>2, <2>1, Zenon
           DEF ReceiveInv, Start, Starts, Extent, KindAt, Fits, Units, Responses!Units,
               UnitOf, Responses!Index
<1> QED  BY <1>5, <1>6, <1>7, Zenon DEF BroadcastInv

\* A receiver that is inside receive, and what it knows.
LEMMA ReceiverFields ==
    ASSUME BroadcastInv, NEW r \in Receivers
    PROVE  LET h == receive[r]
           IN  /\ ReceiveInv(h) /\ h \in Locals
               /\ tail \in Nat /\ Start(tail) /\ WrittenInv /\ Responses!TypeOK
BY DEF BroadcastInv, TransmitInv, Responses!TypeOK, Locals

\* A receiver opens, and resumes after a lap, on a start.
LEMMA OpenInv ==
    ASSUME OneSize, BroadcastInv, NEW r \in Receivers,
           Responses!Connect(r) \/ Responses!ReceiveBegin(r)
    PROVE  BroadcastInv'
<1> USE BroadcastAssumption
<1> DEFINE h == receive[r]
<1>1. ReceiveInv(h) /\ h \in Locals /\ tail \in Nat /\ Start(tail)
  BY ReceiverFields
<1>2. CASE Responses!Connect(r)
  <2> DEFINE g == [Responses!ReceiveIdle EXCEPT !.cursor = tail]
  <2>1. g = [pc |-> "idle", cursor |-> tail, current |-> 0, tail |-> 0,
             len |-> 0, type |-> "none"]
    BY DEF Responses!ReceiveIdle
  <2>2. receive' = [receive EXCEPT ![r] = g] /\ UNCHANGED <<buffer, tail, transmit>>
    BY <1>2 DEF Responses!Connect
  <2> HIDE DEF g
  <2>3. g \in Locals  BY <1>1, <2>1 DEF Locals
  <2>4. ReceiveInv(g)  BY <1>1, <2>1 DEF ReceiveInv
  <2> QED  BY <2>2, <2>3, <2>4, ReceiverStep, Zenon
<1>3. CASE Responses!ReceiveBegin(r)
  <2> DEFINE to == IF tail - h.cursor > Capacity THEN tail - Capacity ELSE h.cursor
             g == [h EXCEPT !.pc = "length", !.tail = tail, !.cursor = to, !.current = to]
  <2>1. h.pc = "idle" /\ UNCHANGED <<buffer, tail, transmit>>
    BY <1>3 DEF Responses!ReceiveBegin
  <2>2. receive' = [receive EXCEPT ![r] = g]
    <3>1. receive' = [receive EXCEPT ![r].pc = "length", ![r].tail = tail,
                        ![r].cursor = to, ![r].current = to]
      BY <1>3, Zenon DEF Responses!ReceiveBegin, Responses!Resume
    <3> HIDE DEF to
    <3> QED  BY <3>1, Zenon
  <2>3. Start(h.cursor) /\ h.cursor <= tail /\ h.cursor \in Nat
    <3> HIDE DEF h
    <3> QED  BY <1>1, <2>1 DEF ReceiveInv, Locals
  <2> HIDE DEF h
  <2>4. Start(to) /\ to \in Nat /\ to <= tail
    <3>1. CASE tail - h.cursor > Capacity
      <4>1. tail > Capacity /\ to = tail - Capacity  BY <1>1, <2>3, <3>1
      <4>2. Start(tail - Capacity)  BY <1>1, <4>1, LapBack
      <4> QED  BY <1>1, <4>1, <4>2
    <3>2. CASE ~(tail - h.cursor > Capacity)  BY <2>3, <3>2
    <3> QED  BY <3>1, <3>2
  <2> HIDE DEF to
  <2>5. /\ g \in Locals /\ g.pc = "length" /\ g.tail = tail /\ g.cursor = to
        /\ g.current = to
    BY <1>1, <2>4, Zenon DEF Locals
  <2> HIDE DEF g
  <2>6. ReceiveInv(g)  BY <1>1, <2>4, <2>5 DEF ReceiveInv
  <2> QED  BY <2>1, <2>2, <2>5, <2>6, ReceiverStep, Zenon
<1> QED  BY <1>2, <1>3

\* A receiver reads the header of what is at its position.
LEMMA ReadInv ==
    ASSUME OneSize, BroadcastInv, NEW r \in Receivers,
           Responses!ReadLength(r) \/ Responses!ReadType(r)
    PROVE  BroadcastInv'
<1> USE BroadcastAssumption, SizeType
<1> DEFINE h == receive[r]
           b == Responses!ReceiveCell(r)
<1>1. ReceiveInv(h) /\ h \in Locals /\ tail \in Nat /\ WrittenInv
  BY ReceiverFields
<1>2. h.pc \in {"length", "type"} /\ (h.pc = "length" => h.current # h.tail)
  BY DEF Responses!ReadLength, Responses!ReadType
<1>3. b = buffer[UnitOf(h.current)]
  BY Zenon DEF Responses!ReceiveCell, UnitOf
<1> HIDE DEF h, b
<1>4. /\ h.current \in Nat /\ h.tail \in Nat /\ Start(h.current) /\ Start(h.tail)
      /\ h.current < h.tail /\ h.tail <= tail /\ Start(h.cursor) /\ h.cursor <= tail
  BY <1>1, <1>2 DEF ReceiveInv, Locals
<1>5. h.current < tail  BY <1>1, <1>4
<1>6. b.len = Extent(h.current) /\ b.type = KindAt(h.current)
  <2>1. HeaderAt(h.current)  BY <1>1, <1>4, <1>5, Zenon DEF WrittenInv
  <2> QED  BY <1>3, <2>1 DEF HeaderAt
<1>7. /\ Extent(h.current) \in 1 .. Size /\ Extent(h.current) \in 0 .. Capacity
      /\ KindAt(h.current) \in {"msg", "pad"}
  <2>1. Extent(h.current) \in 1 .. Size  BY <1>4, NextStart
  <2> QED  BY <2>1 DEF KindAt
<1>8. CASE Responses!ReadLength(r)
  <2> DEFINE l == Extent(h.current)
             g == [h EXCEPT !.pc = "type", !.len = l]
  <2>1. Responses!LengthsRead(b) = {l}
    BY <1>6, <1>7 DEF Responses!LengthsRead
  <2>2. receive' = [receive EXCEPT ![r] = g] /\ UNCHANGED <<buffer, tail, transmit>>
    <3>1. receive' = [receive EXCEPT ![r].pc = IF l = 0 THEN "end" ELSE "type",
                                     ![r].len = l]
      BY <1>8, <2>1, Zenon DEF Responses!ReadLength, b
    <3>2. l # 0  BY <1>7
    <3> HIDE DEF l
    <3>3. receive' = [receive EXCEPT ![r].pc = "type", ![r].len = l]  BY <3>1, <3>2, Zenon
    <3>4. receive' = [receive EXCEPT ![r] = g]  BY <3>3, Zenon DEF h
    <3>5. UNCHANGED <<buffer, tail, transmit>>  BY <1>8 DEF Responses!ReadLength
    <3> QED  BY <3>4, <3>5
  <2>3. l \in 0 .. Capacity  BY <1>7
  <2> HIDE DEF l
  <2>4. /\ g \in Locals /\ g.pc = "type" /\ g.tail = h.tail /\ g.cursor = h.cursor
        /\ g.current = h.current /\ g.len = l
    BY <1>1, <2>3, Zenon DEF Locals
  <2> HIDE DEF g
  <2>5. ReceiveInv(g)  BY <1>4, <2>4 DEF ReceiveInv, l
  <2> QED  BY <2>2, <2>4, <2>5, ReceiverStep, Zenon
<1>9. CASE Responses!ReadType(r)
  <2> DEFINE k == KindAt(h.current)
             g == [h EXCEPT !.pc = "deliver", !.type = k]
  <2>1. h.pc = "type"  BY <1>9 DEF Responses!ReadType, h
  <2>2. h.len = Extent(h.current)  BY <1>1, <2>1 DEF ReceiveInv
  <2>3. receive' = [receive EXCEPT ![r] = g] /\ UNCHANGED <<buffer, tail, transmit>>
    <3>1. receive' = [receive EXCEPT ![r].pc = "deliver", ![r].type = k]
      BY <1>6, <1>9, Zenon DEF Responses!ReadType, b
    <3> HIDE DEF k
    <3>2. receive' = [receive EXCEPT ![r] = g]  BY <3>1, Zenon DEF h
    <3>3. UNCHANGED <<buffer, tail, transmit>>  BY <1>9 DEF Responses!ReadType
    <3> QED  BY <3>2, <3>3
  <2>4. k \in {"none", "msg", "pad", "payload"}  BY <1>7
  <2> HIDE DEF k
  <2>5. /\ g \in Locals /\ g.pc = "deliver" /\ g.tail = h.tail /\ g.cursor = h.cursor
        /\ g.current = h.current /\ g.len = h.len /\ g.type = k
    BY <1>1, <2>4, Zenon DEF Locals
  <2> HIDE DEF g
  <2>6. ReceiveInv(g)  BY <1>4, <2>2, <2>5 DEF ReceiveInv, k
  <2> QED  BY <2>3, <2>5, <2>6, ReceiverStep, Zenon
<1> QED  BY <1>8, <1>9

\* A receiver goes on to the next start, and stops at the tail it has seen.
LEMMA MoveOnInv ==
    ASSUME OneSize, BroadcastInv, NEW r \in Receivers,
           Responses!Deliver(r) \/ Responses!ReadAll(r) \/ Responses!ReceiveEnd(r)
    PROVE  BroadcastInv'
<1> USE BroadcastAssumption, SizeType
<1> DEFINE h == receive[r]
<1>1. ReceiveInv(h) /\ h \in Locals /\ tail \in Nat
  BY ReceiverFields
<1>2. h.pc \in {"length", "deliver", "end"}
  BY DEF Responses!Deliver, Responses!ReadAll, Responses!ReceiveEnd
<1>3. UNCHANGED <<buffer, tail, transmit>>
  BY DEF Responses!Deliver, Responses!ReadAll, Responses!ReceiveEnd
<1> HIDE DEF h
<1>4. /\ h.current \in Nat /\ h.tail \in Nat /\ Start(h.current) /\ Start(h.tail)
      /\ h.current <= h.tail /\ h.tail <= tail /\ Start(h.cursor) /\ h.cursor <= tail
  BY <1>1, <1>2 DEF ReceiveInv, Locals
<1>5. CASE Responses!Deliver(r)
  <2> DEFINE to == h.current + h.len
             g == [h EXCEPT !.pc = "length", !.current = to]
  <2>1. h.pc = "deliver"  BY <1>5 DEF Responses!Deliver, h
  <2>2. h.len = Extent(h.current) /\ h.current < h.tail
    BY <1>1, <2>1 DEF ReceiveInv
  <2>3. receive' = [receive EXCEPT ![r] = g]
    <3>1. receive' = [receive EXCEPT ![r].pc = "length", ![r].current = @ + receive[r].len]
      BY <1>5 DEF Responses!Deliver
    <3> QED  BY <3>1, Zenon DEF h
  <2>4. Start(to) /\ to \in Nat /\ to <= h.tail
    <3>1. Start(h.current + Extent(h.current)) /\ Extent(h.current) \in 1 .. Size
      BY <1>4, NextStart
    <3>2. h.current + Extent(h.current) <= h.tail  BY <1>4, <2>2, StartsApart
    <3> QED  BY <1>4, <2>2, <3>1, <3>2
  <2> HIDE DEF to
  <2>5. /\ g \in Locals /\ g.pc = "length" /\ g.tail = h.tail /\ g.cursor = h.cursor
        /\ g.current = to
    BY <1>1, <2>4, Zenon DEF Locals
  <2> HIDE DEF g
  <2>6. ReceiveInv(g)  BY <1>4, <2>4, <2>5 DEF ReceiveInv
  <2> QED  BY <1>3, <2>3, <2>5, <2>6, ReceiverStep, Zenon
<1>6. CASE Responses!ReadAll(r)
  <2> DEFINE g == [h EXCEPT !.pc = "end"]
  <2>1. receive' = [receive EXCEPT ![r] = g]
    BY <1>6, Zenon DEF Responses!ReadAll, h
  <2>2. /\ g \in Locals /\ g.pc = "end" /\ g.tail = h.tail /\ g.cursor = h.cursor
        /\ g.current = h.current
    BY <1>1 DEF Locals
  <2> HIDE DEF g
  <2>3. ReceiveInv(g)  BY <1>4, <2>2 DEF ReceiveInv
  <2> QED  BY <1>3, <2>1, <2>2, <2>3, ReceiverStep, Zenon
<1>7. CASE Responses!ReceiveEnd(r)
  <2> DEFINE g == [Responses!ReceiveIdle EXCEPT !.cursor = h.current]
  <2>1. g = [pc |-> "idle", cursor |-> h.current, current |-> 0, tail |-> 0,
             len |-> 0, type |-> "none"]
    BY DEF Responses!ReceiveIdle
  <2>2. receive' = [receive EXCEPT ![r] = g]
    BY <1>7, Zenon DEF Responses!ReceiveEnd, h
  <2> HIDE DEF g
  <2>3. g \in Locals  BY <1>4, <2>1 DEF Locals
  <2>4. ReceiveInv(g)  BY <1>1, <1>4, <2>1 DEF ReceiveInv
  <2> QED  BY <1>3, <2>2, <2>3, <2>4, ReceiverStep, Zenon
<1> QED  BY <1>5, <1>6, <1>7

\* BroadcastInv is inductive.
LEMMA BroadcastInductive ==
    ASSUME OneSize
    PROVE  /\ Responses!Init => BroadcastInv
           /\ BroadcastInv /\ [Responses!Next]_Responses!vars => BroadcastInv'
<1> USE BroadcastAssumption, SizeType
<1>1. ASSUME Responses!Init PROVE BroadcastInv
  <2>1. /\ tail = 0 /\ transmit = [pc |-> "idle", at |-> 0, len |-> 0]
        /\ buffer = [i \in Responses!Units |-> [len |-> 0, type |-> "none", at |-> 0]]
    BY <1>1 DEF Responses!Init, Responses!TransmitIdle
  <2>2. receive = [r \in Receivers |-> [pc |-> "closed", cursor |-> 0, current |-> 0,
                                        tail |-> 0, len |-> 0, type |-> "none"]]
    BY <1>1 DEF Responses!Init, Responses!ReceiveIdle
  <2>3. Responses!TypeOK
    BY <2>1, <2>2 DEF Responses!TypeOK, Responses!Cells
  <2>4. Start(tail)
    <3>1. 0 \in 0 .. Capacity - 1 /\ 0 \in Nat  OBVIOUS
    <3>2. UnitOf(0) = 0
      <4> DEFINE z == 0
      <4>1. z = z * Capacity + z /\ z \in Nat /\ z \in 0 .. Capacity - 1  BY <3>1
      <4> HIDE DEF z
      <4>2. z % Capacity = z  BY <4>1, Remainder
      <4> QED  BY <4>2 DEF UnitOf, Responses!Index, z
    <3> QED  BY <2>1, <3>2, StartsSpaced DEF Start
  <2>5. TransmitInv  BY <2>1, <2>4 DEF TransmitInv
  <2>6. WrittenInv  BY <2>1 DEF WrittenInv
  <2>7. \A r \in Receivers : ReceiveInv(receive[r])
    BY <2>2 DEF ReceiveInv
  <2> QED  BY <2>3, <2>5, <2>6, <2>7 DEF BroadcastInv
<1>2. ASSUME BroadcastInv, Responses!Next PROVE BroadcastInv'
  <2>1. ASSUME NEW n \in RecordSizes, Responses!TransmitBegin(n) PROVE BroadcastInv'
    BY <1>2, <2>1, TransmitBeginInv
  <2>2. CASE \/ Responses!WritePadLength \/ Responses!WritePadType
             \/ Responses!WriteLength \/ Responses!WriteType
    BY <1>2, <2>2, HeaderWrites
  <2>3. CASE Responses!WritePayload  BY <1>2, <2>3, WritePayloadInv
  <2>4. CASE Responses!StorePadTail \/ Responses!StoreTail  BY <1>2, <2>4, TailStores
  <2>5. ASSUME NEW r \in Receivers, Responses!Receiver(r) PROVE BroadcastInv'
    <3>1. CASE Responses!Connect(r) \/ Responses!ReceiveBegin(r)  BY <1>2, <3>1, OpenInv
    <3>2. CASE Responses!ReadLength(r) \/ Responses!ReadType(r)  BY <1>2, <3>2, ReadInv
    <3>3. CASE Responses!Deliver(r) \/ Responses!ReadAll(r) \/ Responses!ReceiveEnd(r)
      BY <1>2, <3>3, MoveOnInv
    <3> QED  BY <2>5, <3>1, <3>2, <3>3, Zenon DEF Responses!Receiver
  <2> QED  BY <1>2, <2>1, <2>2, <2>3, <2>4, <2>5, Zenon
           DEF Responses!Next, Responses!Transmitter
<1>3. ASSUME BroadcastInv, UNCHANGED Responses!vars PROVE BroadcastInv'
  <2>1. UNCHANGED <<buffer, tail, transmit>> /\ receive' = receive
    BY <1>3 DEF Responses!vars
  <2>2. TransmitInv' /\ WrittenInv'  BY <1>3, <2>1, RegionUnchanged DEF BroadcastInv
  <2>3. Responses!TypeOK'
    BY <1>3, <2>1 DEF BroadcastInv, Responses!TypeOK, Responses!Units, Responses!Cells
  <2>4. \A r \in Receivers : ReceiveInv(receive[r])'
    BY <1>3, <2>1, <2>3, ReceiversKept DEF BroadcastInv, Responses!TypeOK
  <2> QED  BY <2>2, <2>3, <2>4, Zenon DEF BroadcastInv
<1> QED  BY <1>1, <1>2, <1>3

\* What a receiver delivers while it is less than a lap behind is whole.
LEMMA DeliveredWhole ==
    ASSUME OneSize, BroadcastInv
    PROVE  InLapIntact
<1> USE BroadcastAssumption, SizeType
<1> SUFFICES ASSUME NEW r \in Receivers,
                    Responses!WriteEnd - receive[r].current <= Capacity,
                    receive[r].pc = "deliver", receive[r].type # "pad"
             PROVE  /\ receive[r].type = "msg"
                    /\ Responses!ReceiveCell(r)
                         = [len |-> receive[r].len, type |-> "msg", at |-> receive[r].current]
                    /\ \A i \in 1 .. receive[r].len - 1 :
                         /\ buffer[UnitOf(receive[r].current + i)].type = "payload"
                         /\ buffer[UnitOf(receive[r].current + i)].at = receive[r].current
  BY Zenon DEF InLapIntact, Responses!InLapIntact, Responses!Intact, UnitOf
<1> DEFINE h == receive[r]
           at == h.current
           u == UnitOf(at)
           b == buffer[u]
<1>1. ReceiveInv(h) /\ h \in Locals /\ tail \in Nat /\ WrittenInv /\ Responses!TypeOK
  BY ReceiverFields
<1>2. Responses!ReceiveCell(r) = b
  BY Zenon DEF Responses!ReceiveCell, UnitOf
<1> HIDE DEF h
<1>3. /\ at \in Nat /\ h.tail \in Nat /\ Start(at) /\ at < h.tail /\ h.tail <= tail
      /\ h.len = Extent(at) /\ h.type = KindAt(at)
  BY <1>1 DEF ReceiveInv, Locals, h
<1>4. h.type = "msg" /\ Fits(at) /\ h.len = Size
  BY <1>3 DEF KindAt, Extent, h
<1>5. at < tail  BY <1>1, <1>3
<1>6. Responses!WriteEnd <= at + Capacity
  <2>1. Responses!WriteEnd \in Nat  BY <1>1, EndOfWrites
  <2>2. Responses!WriteEnd - at <= Capacity  BY DEF h
  <2> HIDE DEF at
  <2> QED  BY <1>3, <2>1, <2>2
<1>7. HeaderAt(at) /\ RecordAt(at)  BY <1>1, <1>3, <1>5, <1>6, Zenon DEF WrittenInv
<1>8. u \in 0 .. Capacity - 1 /\ u \in Units
  BY <1>3, NextStart DEF Units, Responses!Units
<1> HIDE DEF at
<1>9. b = [len |-> h.len, type |-> "msg", at |-> at]
  <2>1. b.len = h.len /\ b.type = "msg" /\ b.at = at
    BY <1>3, <1>4, <1>7, Zenon DEF HeaderAt, RecordAt
  <2>2. b \in Responses!Cells  BY <1>1, <1>8, Fields
  <2> HIDE DEF b
  <2> QED  BY <2>1, <2>2 DEF Responses!Cells
<1>10. ASSUME NEW i \in 1 .. h.len - 1
       PROVE  buffer[UnitOf(at + i)].type = "payload" /\ buffer[UnitOf(at + i)].at = at
  <2> HIDE DEF u
  <2>1. i \in 0 .. Capacity /\ u + i < Capacity /\ u < u + i /\ u + i < u + Size
    BY <1>4, <1>8 DEF Fits, u
  <2>2. UnitOf(at + i) = u + i  BY <1>3, <2>1, UnitStep DEF u
  <2>3. u + i \in Units  BY <1>8, <2>1 DEF Units, Responses!Units
  <2>4. buffer[u + i].type = "payload" /\ buffer[u + i].at = at
    BY <1>4, <1>7, <2>1, <2>3, Zenon DEF RecordAt, PayloadAt, u
  <2> QED  BY <2>2, <2>4
<1> QED  BY <1>2, <1>4, <1>9, <1>10 DEF h, at

(***************************************************************************)
(* BroadcastReceiver::receive hands out whole records: a receiver that the *)
(* transmitter is not overtaking reads at its position the record that was *)
(* transmitted there, every unit of it, also when it has skipped ahead     *)
(* after a lap.  For any number of receivers and any capacity, when all    *)
(* records have one length.                                                *)
(***************************************************************************)
THEOREM DeliversWholeRecords ==
    ASSUME OneSize
    PROVE  Responses!Spec => []InLapIntact
<1>1. BroadcastInv => InLapIntact  BY DeliveredWhole
<1> QED  BY <1>1, BroadcastInductive, PTL DEF Responses!Spec
=============================================================================
