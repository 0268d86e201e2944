----------------------------- MODULE RingBuffer -----------------------------
(***************************************************************************)
(* MpscRingBuffer (cnc/ring_buffer.rs): the command ring.  Any number of   *)
(* client threads or processes write records, the conductor reads them.    *)
(* Lengths and positions are counted in units of RECORD_ALIGNMENT (32      *)
(* bytes); the two words of a record header are the first words of a unit. *)
(***************************************************************************)
EXTENDS Integers

CONSTANTS
    Producers,
    Capacity,       \* units in the data region
    RecordSizes,    \* aligned lengths of the records written
    MsgTypes,       \* message types written
    MaxTail         \* bound: no write begins once tail is here

ASSUME CapacityAssumption == Capacity \in Nat \ {0}
ASSUME RecordAssumption   == RecordSizes \subseteq 1 .. Capacity
ASSUME MsgTypesAssumption == MsgTypes \subseteq Nat
ASSUME MaxTailAssumption  == MaxTail \in Nat

VARIABLES
    buffer,     \* unit -> what it holds
    head,       \* shared: everything before it has been read
    tail,       \* shared: everything before it has been claimed
    write,      \* per producer: control state of write
    read        \* control state of read

vars == <<buffer, head, tail, write, read>>

UNCOMMITTED      == 0
MSG_TYPE_PADDING == -1
PAYLOAD          == -2  \* the first word of the unit is payload bytes

Units     == 0 .. Capacity - 1
Index(at) == at % Capacity

(***************************************************************************)
(* type and len are the two header words of a unit, len in units.  at is   *)
(* the position the unit was last written for; no code reads it.           *)
(***************************************************************************)
Cells == [type : MsgTypes \cup {UNCOMMITTED, MSG_TYPE_PADDING, PAYLOAD},
          len : 0 .. Capacity, at : Nat]

\* What a load of the header words can return: payload bytes can be anything.
TypesRead(cell) ==
    IF cell.type = PAYLOAD THEN MsgTypes \cup {UNCOMMITTED} ELSE {cell.type}

LengthsRead(cell) ==
    IF cell.type = PAYLOAD THEN 0 .. Capacity ELSE {cell.len}

WriteIdle == [pc |-> "idle", type |-> 0, len |-> 0, tail |-> 0, head |-> 0]
ReadIdle  == [pc |-> "idle", current |-> 0, tail |-> 0, type |-> 0, len |-> 0]

Init ==
    /\ buffer = [i \in Units |-> [type |-> UNCOMMITTED, len |-> 0, at |-> 0]]
    /\ head = 0
    /\ tail = 0
    /\ write = [p \in Producers |-> WriteIdle]
    /\ read = ReadIdle

-----------------------------------------------------------------------------
(* write, on a client's thread. *)

Contiguous(at) == Capacity - Index(at)

\* A record that does not fit before the end of the region is preceded by a
\* padding record.
Wraps(w) == w.len > Contiguous(w.tail)

\* A slip: room for a pad is asked for whether or not there is one.
NeededWithPad(w) == Contiguous(w.tail) + w.len

Needed(w) == IF Wraps(w) THEN Contiguous(w.tail) + w.len ELSE w.len

\* Where the record itself goes, once claimed.
RecordAt(w) == IF Wraps(w) THEN w.tail + Contiguous(w.tail) ELSE w.tail

WriteBegin(p, type, n) ==
    /\ write[p].pc = "idle"
    /\ tail < MaxTail
    /\ write' = [write EXCEPT ![p] = [WriteIdle EXCEPT
                   !.pc = "load_tail", !.type = type, !.len = n]]
    /\ UNCHANGED <<buffer, head, tail, read>>

LoadTail(p) ==
    /\ write[p].pc = "load_tail"
    /\ write' = [write EXCEPT ![p].pc = "load_head", ![p].tail = tail]
    /\ UNCHANGED <<buffer, head, tail, read>>

\* Claim if there is room, as far as the two loads tell.
LoadHead(p) ==
    /\ write[p].pc = "load_head"
    /\ LET available == Capacity - (write[p].tail - head) IN
       write' = [write EXCEPT
                   ![p].pc = IF Needed(write[p]) > available THEN "full" ELSE "claim",
                   ![p].head = head]
    /\ UNCHANGED <<buffer, head, tail, read>>

ReturnFull(p) ==
    /\ write[p].pc = "full"
    /\ write' = [write EXCEPT ![p] = WriteIdle]
    /\ UNCHANGED <<buffer, head, tail, read>>

\* A slip: a plain store of tail instead of a compare-and-exchange.
ClaimUnchecked(p) ==
    /\ write[p].pc = "claim"
    /\ tail' = write[p].tail + Needed(write[p])
    /\ write' = [write EXCEPT
                   ![p].pc = IF Wraps(write[p]) THEN "pad_type" ELSE "payload"]
    /\ UNCHANGED <<buffer, head, read>>

ClaimTail(p) ==
    /\ write[p].pc = "claim"
    /\ tail = write[p].tail
    /\ tail' = write[p].tail + Needed(write[p])
    /\ write' = [write EXCEPT
                   ![p].pc = IF Wraps(write[p]) THEN "pad_type" ELSE "payload"]
    /\ UNCHANGED <<buffer, head, read>>

\* compare_exchange_weak may also fail for no reason.
ClaimFails(p) ==
    /\ write[p].pc = "claim"
    /\ write' = [write EXCEPT ![p].pc = "load_tail"]
    /\ UNCHANGED <<buffer, head, tail, read>>

WritePadType(p) ==
    /\ write[p].pc = "pad_type"
    /\ buffer' = [buffer EXCEPT
                    ![Index(write[p].tail)].type = MSG_TYPE_PADDING,
                    ![Index(write[p].tail)].at = write[p].tail]
    /\ write' = [write EXCEPT ![p].pc = "pad_length"]
    /\ UNCHANGED <<head, tail, read>>

WritePadLength(p) ==
    /\ write[p].pc = "pad_length"
    /\ buffer' = [buffer EXCEPT ![Index(write[p].tail)].len = Contiguous(write[p].tail)]
    /\ write' = [write EXCEPT ![p].pc = "payload"]
    /\ UNCHANGED <<head, tail, read>>

\* Payload bytes fill the units after the first; they do not touch the header.
WritePayload(p) ==
    LET at == RecordAt(write[p]) IN
    /\ write[p].pc = "payload"
    /\ buffer' = [i \in Units |->
                    IF Index(at) < i /\ i < Index(at) + write[p].len
                    THEN [type |-> PAYLOAD, len |-> 0, at |-> at]
                    ELSE buffer[i]]
    /\ write' = [write EXCEPT ![p].pc = "length"]
    /\ UNCHANGED <<head, tail, read>>

WriteLength(p) ==
    LET at == RecordAt(write[p]) IN
    /\ write[p].pc = "length"
    /\ buffer' = [buffer EXCEPT ![Index(at)].len = write[p].len, ![Index(at)].at = at]
    /\ write' = [write EXCEPT ![p].pc = "commit"]
    /\ UNCHANGED <<head, tail, read>>

\* msg_type last: the record becomes visible to read.
WriteType(p) ==
    /\ write[p].pc = "commit"
    /\ buffer' = [buffer EXCEPT ![Index(RecordAt(write[p]))].type = write[p].type]
    /\ write' = [write EXCEPT ![p] = WriteIdle]
    /\ UNCHANGED <<head, tail, read>>

\* What a producer does between its claim and the return of write.
Fill(p) == WritePadType(p) \/ WritePadLength(p) \/ WritePayload(p)
              \/ WriteLength(p) \/ WriteType(p)

Producer(p) ==
    \/ \E type \in MsgTypes, n \in RecordSizes : WriteBegin(p, type, n)
    \/ LoadTail(p) \/ LoadHead(p) \/ ReturnFull(p) \/ ClaimTail(p) \/ ClaimFails(p)
    \/ Fill(p)

-----------------------------------------------------------------------------
(* read, on the conductor's thread. *)

ReadCell == buffer[Index(read.current)]

\* Nothing to do, and 0 returned, when head = tail.
ReadBegin ==
    /\ read.pc = "idle"
    /\ head # tail
    /\ read' = [ReadIdle EXCEPT !.pc = "type", !.current = head, !.tail = tail]
    /\ UNCHANGED <<buffer, head, tail, write>>

ReadType ==
    /\ read.pc = "type"
    /\ read.current # read.tail
    /\ \E type \in TypesRead(ReadCell) :
         read' = [read EXCEPT !.pc = IF type = UNCOMMITTED THEN "store" ELSE "length",
                              !.type = type]
    /\ UNCHANGED <<buffer, head, tail, write>>

ReadLength ==
    /\ read.pc = "length"
    /\ \E len \in LengthsRead(ReadCell) :
         read' = [read EXCEPT !.pc = "deliver", !.len = len]
    /\ UNCHANGED <<buffer, head, tail, write>>

\* A slip: a record that was read keeps its msg_type.
DeliverUncleared ==
    /\ read.pc = "deliver"
    /\ read' = [read EXCEPT !.pc = "type", !.current = @ + read.len]
    /\ UNCHANGED <<buffer, head, tail, write>>

\* The handler is called unless the record is padding; either way its
\* msg_type is zeroed and the cursor moves on.
Deliver ==
    /\ read.pc = "deliver"
    /\ buffer' = [buffer EXCEPT ![Index(read.current)].type = UNCOMMITTED]
    /\ read' = [read EXCEPT !.pc = "type", !.current = @ + read.len]
    /\ UNCHANGED <<head, tail, write>>

ReadAll ==
    /\ read.pc = "type"
    /\ read.current = read.tail
    /\ read' = [read EXCEPT !.pc = "store"]
    /\ UNCHANGED <<buffer, head, tail, write>>

\* A slip: head is stored only by a read that got to the end.
StoreHeadIfDrained ==
    /\ read.pc = "store"
    /\ head' = IF read.current = read.tail THEN read.current ELSE head
    /\ read' = ReadIdle
    /\ UNCHANGED <<buffer, tail, write>>

StoreHead ==
    /\ read.pc = "store"
    /\ head' = read.current
    /\ read' = ReadIdle
    /\ UNCHANGED <<buffer, tail, write>>

Consumer == ReadBegin \/ ReadType \/ ReadLength \/ Deliver \/ ReadAll \/ StoreHead

Next == Consumer \/ \E p \in Producers : Producer(p)

\* The conductor reads in every duty cycle, and a producer that has claimed
\* space fills it.
Fairness == WF_vars(Consumer) /\ \A p \in Producers : WF_vars(Fill(p))

Spec     == Init /\ [][Next]_vars
FairSpec == Spec /\ Fairness

-----------------------------------------------------------------------------
\* Types of the ring and of the local variables of write and read; a record
\* header never leaves the region.
TypeOK ==
    /\ buffer \in [Units -> Cells]
    /\ head \in Nat
    /\ tail \in Nat
    /\ write \in [Producers ->
                    [pc : {"idle", "load_tail", "load_head", "full", "claim", "pad_type",
                           "pad_length", "payload", "length", "commit"},
                     type : Nat, len : Nat, tail : Nat, head : Nat]]
    /\ read \in [pc : {"idle", "type", "length", "deliver", "store"}, current : Nat,
                 tail : Nat, type : MsgTypes \cup {UNCOMMITTED, MSG_TYPE_PADDING}, len : Nat]

Filling(p) == write[p].pc \in {"pad_type", "pad_length", "payload", "length", "commit"}

\* The positions producer p has claimed and not yet let read see: a pad is
\* visible as soon as its msg_type is written.
Claim(p) ==
    LET w == write[p] IN
    (IF w.pc = "pad_type" THEN w.tail ELSE RecordAt(w))
        .. w.tail + Needed(w) - 1

(***************************************************************************)
(* write's safety comments, "we have exclusive access": what a producer is *)
(* filling has been claimed by no other, lies between head and tail, and   *)
(* at most one lap of the region lies between those, however old the two   *)
(* loads were on which the claim was decided.                              *)
(***************************************************************************)
ClaimsExclusive ==
    /\ tail - head <= Capacity
    /\ \A p \in Producers : Filling(p) =>
         /\ Claim(p) \subseteq head .. tail - 1
         /\ \A q \in Producers \ {p} : Filling(q) => Claim(p) \cap Claim(q) = {}

(***************************************************************************)
(* When read calls the handler, the header it has read is that of the      *)
(* record written for exactly this position, and the record is committed   *)
(* and complete.  As read's positions are contiguous, every command is     *)
(* delivered at most once, and in the order of the claims.                 *)
(***************************************************************************)
ReadsCommitted ==
    read.pc = "deliver" /\ read.type # MSG_TYPE_PADDING =>
        /\ ReadCell = [type |-> read.type, len |-> read.len, at |-> read.current]
        /\ \A i \in 1 .. read.len - 1 :
             LET cell == buffer[Index(read.current + i)] IN
             cell.type = PAYLOAD /\ cell.at = read.current

\* Full means what its doc says, "producers cannot keep up with consumer":
\* when write gives up, it has seen records that are not read yet.
FullMeansUnread == \A p \in Producers : write[p].pc = "full" => write[p].head # write[p].tail

\* read has taken the pad at head for a record of length zero: it has cleared
\* the type, and nobody will write it again.
PadMissed ==
    /\ read.pc = "idle"
    /\ head < tail
    /\ buffer[Index(head)] = [type |-> UNCOMMITTED, len |-> Contiguous(head), at |-> head]
    /\ \A p \in Producers : Filling(p) => RecordAt(write[p]) # head

\* Whatever write claimed is eventually read, and the ring never jams, but
\* for a pad whose type was read before its length was written.
ClaimedIsRead == \A k \in 1 .. MaxTail : tail >= k ~> (head >= k \/ PadMissed)
=============================================================================
