------------------------------ MODULE Broadcast ------------------------------
(***************************************************************************)
(* The driver-to-clients broadcast buffer (cnc/broadcast.rs): the          *)
(* conductor transmits records over the oldest ones, each client receives  *)
(* with a cursor of its own and nobody waits for anybody.  Lengths and     *)
(* positions are counted in units of RECORD_ALIGNMENT.  latest_counter,    *)
(* which transmit stores and nothing loads, is left out.                   *)
(***************************************************************************)
EXTENDS Integers

CONSTANTS
    Receivers,
    Capacity,       \* units in the data region
    RecordSizes,    \* aligned lengths of the records transmitted
    MaxTail         \* bound: no transmit begins once tail is here

VARIABLES
    buffer,     \* unit -> what it holds
    tail,       \* shared: tail_counter
    transmit,   \* control state of BroadcastTransmitter::transmit
    receive     \* per client: cursor and control state of receive

vars == <<buffer, tail, transmit, receive>>

Units     == 0 .. Capacity - 1
Index(at) == at % Capacity

(***************************************************************************)
(* len and type are the two header words of a unit; payload units have     *)
(* type "payload" and any value when read as a header.  at is the position *)
(* the unit was last written for; no code reads it.                        *)
(***************************************************************************)
Cells == [len : 0 .. Capacity, type : {"none", "msg", "pad", "payload"}, at : Nat]

LengthsRead(cell) == IF cell.type = "payload" THEN 0 .. Capacity ELSE {cell.len}

TransmitIdle == [pc |-> "idle", at |-> 0, len |-> 0]
ReceiveIdle  == [pc |-> "idle", cursor |-> 0, current |-> 0, tail |-> 0,
                 len |-> 0, type |-> "none"]

Init ==
    /\ buffer = [i \in Units |-> [len |-> 0, type |-> "none", at |-> 0]]
    /\ tail = 0
    /\ transmit = TransmitIdle
    /\ receive = [r \in Receivers |-> [ReceiveIdle EXCEPT !.pc = "closed"]]

-----------------------------------------------------------------------------
(* BroadcastTransmitter::transmit, on the conductor's thread. *)

Contiguous(at) == Capacity - Index(at)

\* A record that does not fit before the end is preceded by padding.
TransmitBegin(n) ==
    /\ transmit.pc = "idle"
    /\ tail < MaxTail
    /\ transmit' = [pc |-> IF n > Contiguous(tail) THEN "pad_length" ELSE "payload",
                    at |-> tail, len |-> n]
    /\ UNCHANGED <<buffer, tail, receive>>

WritePadLength ==
    /\ transmit.pc = "pad_length"
    /\ buffer' = [buffer EXCEPT ![Index(tail)].len = Contiguous(tail)]
    /\ transmit' = [transmit EXCEPT !.pc = "pad_type"]
    /\ UNCHANGED <<tail, receive>>

WritePadType ==
    /\ transmit.pc = "pad_type"
    /\ buffer' = [buffer EXCEPT ![Index(tail)].type = "pad", ![Index(tail)].at = tail]
    /\ transmit' = [transmit EXCEPT !.pc = "pad_tail"]
    /\ UNCHANGED <<tail, receive>>

StorePadTail ==
    /\ transmit.pc = "pad_tail"
    /\ tail' = tail + Contiguous(tail)
    /\ transmit' = [transmit EXCEPT !.pc = "payload", !.at = tail']
    /\ UNCHANGED <<buffer, receive>>

\* write_record: the payload, which does not touch the header, ...
WritePayload ==
    /\ transmit.pc = "payload"
    /\ buffer' = [i \in Units |->
                    IF Index(transmit.at) < i /\ i < Index(transmit.at) + transmit.len
                    THEN [len |-> 0, type |-> "payload", at |-> transmit.at]
                    ELSE buffer[i]]
    /\ transmit' = [transmit EXCEPT !.pc = "length"]
    /\ UNCHANGED <<tail, receive>>

\* ... then record_length and msg_type.
WriteLength ==
    /\ transmit.pc = "length"
    /\ buffer' = [buffer EXCEPT ![Index(transmit.at)].len = transmit.len]
    /\ transmit' = [transmit EXCEPT !.pc = "type"]
    /\ UNCHANGED <<tail, receive>>

WriteType ==
    /\ transmit.pc = "type"
    /\ buffer' = [buffer EXCEPT ![Index(transmit.at)].type = "msg",
                                ![Index(transmit.at)].at = transmit.at]
    /\ transmit' = [transmit EXCEPT !.pc = "tail"]
    /\ UNCHANGED <<tail, receive>>

StoreTail ==
    /\ transmit.pc = "tail"
    /\ tail' = tail + transmit.len
    /\ transmit' = TransmitIdle
    /\ UNCHANGED <<buffer, receive>>

Transmitter ==
    \/ \E n \in RecordSizes : TransmitBegin(n)
    \/ WritePadLength \/ WritePadType \/ StorePadTail
    \/ WritePayload \/ WriteLength \/ WriteType \/ StoreTail

-----------------------------------------------------------------------------
(* BroadcastReceiver, on a client's thread. *)

ReceiveCell(r) == buffer[Index(receive[r].current)]

\* BroadcastReceiver::new with the transmitter's tail_counter.
Connect(r) ==
    /\ receive[r].pc = "closed"
    /\ receive' = [receive EXCEPT ![r] = [ReceiveIdle EXCEPT !.cursor = tail]]
    /\ UNCHANGED <<buffer, tail, transmit>>

\* A slip: the jump is one unit too far.
ResumeOffByOne(cursor) == IF tail - cursor > Capacity THEN tail - Capacity + 1 ELSE cursor

\* A receiver more than a lap behind jumps to one lap behind.
Resume(cursor) == IF tail - cursor > Capacity THEN tail - Capacity ELSE cursor

ReceiveBegin(r) ==
    /\ receive[r].pc = "idle"
    /\ receive[r].cursor # tail
    /\ receive' = [receive EXCEPT ![r].pc = "length", ![r].tail = tail,
                     ![r].cursor = Resume(@), ![r].current = Resume(receive[r].cursor)]
    /\ UNCHANGED <<buffer, tail, transmit>>

\* record_length 0 ends the loop.
ReadLength(r) ==
    /\ receive[r].pc = "length"
    /\ receive[r].current # receive[r].tail
    /\ \E len \in LengthsRead(ReceiveCell(r)) :
         receive' = [receive EXCEPT ![r].pc = IF len = 0 THEN "end" ELSE "type",
                                    ![r].len = len]
    /\ UNCHANGED <<buffer, tail, transmit>>

ReadType(r) ==
    /\ receive[r].pc = "type"
    /\ receive' = [receive EXCEPT ![r].pc = "deliver", ![r].type = ReceiveCell(r).type]
    /\ UNCHANGED <<buffer, tail, transmit>>

\* The handler reads the payload, unless the record is padding.
Deliver(r) ==
    /\ receive[r].pc = "deliver"
    /\ receive' = [receive EXCEPT ![r].pc = "length", ![r].current = @ + receive[r].len]
    /\ UNCHANGED <<buffer, tail, transmit>>

ReadAll(r) ==
    /\ receive[r].pc = "length"
    /\ receive[r].current = receive[r].tail
    /\ receive' = [receive EXCEPT ![r].pc = "end"]
    /\ UNCHANGED <<buffer, tail, transmit>>

ReceiveEnd(r) ==
    /\ receive[r].pc = "end"
    /\ receive' = [receive EXCEPT ![r] = [ReceiveIdle EXCEPT !.cursor = receive[r].current]]
    /\ UNCHANGED <<buffer, tail, transmit>>

Receiver(r) == Connect(r) \/ ReceiveBegin(r) \/ ReadLength(r) \/ ReadType(r)
                  \/ Deliver(r) \/ ReadAll(r) \/ ReceiveEnd(r)

Next == Transmitter \/ \E r \in Receivers : Receiver(r)

Spec == Init /\ [][Next]_vars

-----------------------------------------------------------------------------
\* Types of the region, the transmitter and the receivers; every record
\* length, written or read, fits the region.
TypeOK ==
    /\ buffer \in [Units -> Cells]
    /\ tail \in Nat
    /\ transmit \in [pc : {"idle", "pad_length", "pad_type", "pad_tail", "payload",
                           "length", "type", "tail"}, at : Nat, len : 0 .. Capacity]
    /\ receive \in [Receivers ->
                      [pc : {"closed", "idle", "length", "type", "deliver", "end"},
                       cursor : Nat, current : Nat, tail : Nat, len : 0 .. Capacity,
                       type : {"none", "msg", "pad", "payload"}]]

\* What receiver r hands to the handler is the record transmitted for its
\* position, complete.
Intact(r) ==
    LET at == receive[r].current IN
    receive[r].pc = "deliver" /\ receive[r].type # "pad" =>
        /\ receive[r].type = "msg"
        /\ ReceiveCell(r) = [len |-> receive[r].len, type |-> "msg", at |-> at]
        /\ \A i \in 1 .. receive[r].len - 1 :
             LET cell == buffer[Index(at + i)] IN cell.type = "payload" /\ cell.at = at

\* Everything the transmitter has written, or is writing now; of padding it
\* writes the header only.
WriteEnd ==
    CASE transmit.pc = "idle" -> tail
      [] transmit.pc \in {"pad_length", "pad_type", "pad_tail"} -> tail + 1
      [] OTHER -> tail + transmit.len

(***************************************************************************)
(* A receiver that is never overtaken gets every record once, in order and *)
(* whole.  Also after it was lapped: once it has skipped ahead, receive    *)
(* delivers the records from there on.                                     *)
(***************************************************************************)
InLapIntact ==
    \A r \in Receivers : WriteEnd - receive[r].current <= Capacity => Intact(r)
=============================================================================
