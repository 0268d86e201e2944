------------------------------ MODULE CncFile ------------------------------
(***************************************************************************)
(* How the CnC region comes about when it is a file (cnc/cnc_file.rs): the *)
(* driver creates or truncates the file, sizes and maps it and fills in    *)
(* the header, version last; client processes map it at any time and read  *)
(* the header to find ring and broadcast buffer.  The driver may fail, be  *)
(* shut down or crash at any point, and start again on the same file with  *)
(* other capacities.                                                       *)
(*                                                                         *)
(* Lengths are in units of which the header takes one.  A process that     *)
(* touches a page behind the end of the file, or of its mapping, is killed *)
(* by the system.  The pid, which is written before the capacities, is     *)
(* left out.                                                               *)
(***************************************************************************)
EXTENDS Naturals, Sequences

CONSTANTS
    Clients,     \* client processes
    Capacities,  \* capacities a driver is started with
    MaxStarts    \* bound: how often a driver starts

VARIABLES
    file,    \* the file: its length, the words of the header, and of ghosts
             \* only generation, the number of times it was truncated
    driver,  \* the driver process: [pc, at, to_driver, to_clients]
    client   \* each client process

vars == <<file, driver, client>>

cnc_file_length(to_driver, to_clients) == 1 + to_driver + to_clients

Zeroed(length, generation) ==
    [length |-> length, version |-> 0, to_driver |-> 0, to_clients |-> 0,
     heartbeat |-> 0, generation |-> generation]

NoMapping == [pc |-> "none", length |-> 0, to_driver |-> 0, to_clients |-> 0,
              generation |-> 0, error |-> "none"]

Init ==
    /\ file = Zeroed(0, 0)
    /\ driver = [pc |-> "none", at |-> 1, to_driver |-> 0, to_clients |-> 0]
    /\ client = [c \in Clients |-> NoMapping]

-----------------------------------------------------------------------------
(***************************************************************************)
(* DriverCnc.                                                              *)
(***************************************************************************)

\* create_file opens the file, which truncates it.
CreateOpen(to_driver, to_clients) ==
    /\ driver.pc = "none"
    /\ file.generation < MaxStarts
    /\ driver' = [pc |-> "opened", at |-> 1, to_driver |-> to_driver,
                  to_clients |-> to_clients]
    /\ file' = Zeroed(0, file.generation + 1)
    /\ UNCHANGED client

CreateSize ==
    /\ driver.pc = "opened"
    /\ driver' = [driver EXCEPT !.pc = "sized"]
    /\ file' = [file EXCEPT !.length =
         cnc_file_length(driver.to_driver, driver.to_clients)]
    /\ UNCHANGED client

\* It cannot be sized, or not be mapped.
CreateFails ==
    /\ driver.pc \in {"opened", "sized"}
    /\ driver' = [driver EXCEPT !.pc = "none"]
    /\ UNCHANGED <<file, client>>

\* The file is mapped; init zeroes the region.
InitZero ==
    /\ driver.pc = "sized"
    /\ driver' = [driver EXCEPT !.pc = "init"]
    /\ file' = Zeroed(file.length, file.generation)
    /\ UNCHANGED client

\* A slip: the header is written from its first word on.
HeaderInOrder == <<"version", "to_driver", "to_clients", "heartbeat">>

\* A slip: the version is left to the heartbeat's writer.
HeaderUnversioned == <<"to_driver", "to_clients", "heartbeat">>

\* The words of the header in the order init writes them.
Header == <<"to_driver", "to_clients", "heartbeat", "version">>

HeaderValue(word) ==
    CASE word = "to_driver"  -> driver.to_driver
      [] word = "to_clients" -> driver.to_clients
      [] word = "heartbeat"  -> 1
      [] word = "version"    -> 1

InitWrite ==
    /\ driver.pc = "init"
    /\ file' = [file EXCEPT ![Header[driver.at]] = HeaderValue(Header[driver.at])]
    /\ driver' = IF driver.at = Len(Header)
                 THEN [driver EXCEPT !.pc = "running"]
                 ELSE [driver EXCEPT !.at = @ + 1]
    /\ UNCHANGED client

\* Drop clears the version and unmaps; the file stays.
DropDriverCnc ==
    /\ driver.pc = "running"
    /\ driver' = [driver EXCEPT !.pc = "none"]
    /\ file' = [file EXCEPT !.version = 0]
    /\ UNCHANGED client

Crash ==
    /\ driver.pc # "none"
    /\ driver' = [driver EXCEPT !.pc = "none"]
    /\ UNCHANGED <<file, client>>

-----------------------------------------------------------------------------
(***************************************************************************)
(* ClientCnc.                                                              *)
(***************************************************************************)

\* map_file opens the file and takes its length; an empty file cannot be
\* mapped.
MapFile(c) ==
    /\ client[c].pc = "none"
    /\ file.generation > 0
    /\ client' = [client EXCEPT ![c] =
         [NoMapping EXCEPT !.pc = IF file.length = 0 THEN "none" ELSE "version",
                           !.length = file.length,
                           !.generation = file.generation,
                           !.error = IF file.length = 0 THEN "IoError" ELSE "none"]]
    /\ UNCHANGED <<file, driver>>

\* Client c may touch the first n units of the region.
Accessible(c, n) == n <= file.length /\ n <= client[c].length

\* A load from the first n units, after which the client is as mapped says.
Load(c, pc, n, mapped) ==
    /\ client[c].pc = pc
    /\ client' = [client EXCEPT ![c] =
         IF Accessible(c, n) THEN mapped ELSE [@ EXCEPT !.pc = "killed"]]
    /\ UNCHANGED <<file, driver>>

\* from_ptr returned an error.
Failed(c, error) == [client[c] EXCEPT !.pc = "none", !.error = error]

\* from_ptr, word by word.
LoadVersion(c) ==
    Load(c, "version", 1,
         IF file.version = 0 THEN Failed(c, "NotReady")
                             ELSE [client[c] EXCEPT !.pc = "to_driver"])

ReadToDriver(c) ==
    Load(c, "to_driver", 1,
         [client[c] EXCEPT !.pc = "to_clients", !.to_driver = file.to_driver])

\* The capacities are looked at when both are read.
ReadToClients(c) ==
    Load(c, "to_clients", 1,
         IF client[c].to_driver = 0 \/ file.to_clients = 0
         THEN Failed(c, "InvalidCapacity")
         ELSE [client[c] EXCEPT !.pc = "tail", !.to_clients = file.to_clients])

\* The tail of the broadcast buffer lies behind both regions.
ReadTail(c) ==
    Load(c, "tail", cnc_file_length(client[c].to_driver, client[c].to_clients),
         [client[c] EXCEPT !.pc = "open"])

\* The client drops its handle, or its process is started again.
DropClientCnc(c) ==
    /\ client[c].pc \in {"open", "killed"}
    /\ client' = [client EXCEPT ![c] = NoMapping]
    /\ UNCHANGED <<file, driver>>

-----------------------------------------------------------------------------

FromPtr(c) ==
    \/ LoadVersion(c)
    \/ ReadToDriver(c)
    \/ ReadToClients(c)
    \/ ReadTail(c)

Driver ==
    \/ \E m, n \in Capacities : CreateOpen(m, n)
    \/ CreateSize
    \/ CreateFails
    \/ InitZero
    \/ InitWrite
    \/ DropDriverCnc
    \/ Crash

Next ==
    \/ Driver
    \/ \E c \in Clients : MapFile(c) \/ FromPtr(c) \/ DropClientCnc(c)

\* A client that has no handle keeps trying; one that was killed is started
\* again.
Trying(c) ==
    MapFile(c) \/ FromPtr(c) \/ (client[c].pc = "killed" /\ DropClientCnc(c))

Spec == Init /\ [][Next]_vars /\ \A c \in Clients : WF_vars(Trying(c))

-----------------------------------------------------------------------------
(***************************************************************************)
(* Properties.                                                             *)
(***************************************************************************)

\* While the file is not truncated again, a client that finds a version finds
\* everything: it gets a handle with the layout the driver chose, over a
\* region that is there as a whole, and the first heartbeat has been written.
\* It is never killed, nor told that a capacity is invalid.
MappedWhole ==
    \A c \in Clients :
      client[c].generation = file.generation =>
        /\ client[c].pc = "open" =>
             /\ client[c].to_driver = file.to_driver
             /\ client[c].to_clients = file.to_clients
             /\ client[c].length = file.length
             /\ file.heartbeat = 1
        /\ client[c].pc # "killed"
        /\ client[c].error # "InvalidCapacity"

\* When a driver stays up, every client that keeps trying gets a handle,
\* whatever became of earlier drivers and of its earlier attempts.
ReadyIsMapped ==
    \A c \in Clients :
      <>[](driver.pc = "running") => []<>(client[c].pc = "open")

\* Not so for a driver that starts again: handles of the one before it keep
\* its layout.
HandlesFollowRestart ==
    \A c \in Clients :
      client[c].pc = "open" /\ driver.pc = "running" =>
        client[c].to_driver = file.to_driver /\ client[c].to_clients = file.to_clients
=============================================================================
