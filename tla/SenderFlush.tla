---------------------------- MODULE SenderFlush ----------------------------
(***************************************************************************)
(* do_send of the sender agent around sender_scan (agent/sender.rs): emit  *)
(* makes a submission entry that points into the log, and the kernel reads *)
(* the bytes when the entries are submitted, at the flush behind the scan. *)
(* Between the two sender_position is stored, and the publisher may go on. *)
(***************************************************************************)
EXTENDS ConcurrentPublication

VARIABLE unflushed  \* the positions of the frames submitted since the flush

flushVars == <<vars, unflushed>>

FlushInit == Init /\ unflushed = {}

\* A slip: a scan may follow on another without a flush between them.
DoSendUnflushed ==
    /\ \E limit \in ScanLimits : ScanBegin(limit)
    /\ UNCHANGED unflushed

\* One scan of the publication, then the flush.
DoSendBegin ==
    /\ unflushed = {}
    /\ \E limit \in ScanLimits : ScanBegin(limit)
    /\ UNCHANGED unflushed

\* Pads are not sent.
SendData ==
    /\ ScanEmit
    /\ unflushed' = IF ScanCell.kind = "pad" THEN unflushed
                                             ELSE unflushed \cup {ScanPosition}

\* The kernel copies the frames.
Flush ==
    /\ scan.pc = "idle"
    /\ unflushed # {}
    /\ unflushed' = {}
    /\ UNCHANGED vars

DoSend ==
    \/ DoSendBegin
    \/ SendData
    \/ (ScanLoad \/ ScanStop \/ ScanStore) /\ UNCHANGED unflushed
    \/ Flush

FlushNext == (Publisher /\ UNCHANGED unflushed) \/ DoSend

\* As for the publication alone.
FlushSpec ==
    /\ FlushInit
    /\ [][FlushNext]_flushVars
    /\ WF_flushVars(DoSend)
    /\ WF_flushVars(Write /\ UNCHANGED unflushed)

-----------------------------------------------------------------------------
\* The frame published for position p is in the log.
Intact(p) ==
    LET partition == log[partition_index(TermOf(p))]
        frame     == partition[OffsetOf(p)]
    IN  /\ frame.kind = "data" /\ frame.pos = p /\ frame.len > 0
        /\ \A o \in OffsetOf(p) + 1 .. OffsetOf(p) + frame.len - 1 :
             partition[o] = Body(p)

\* The term before the active one was left with a pad.
LeftWithPad ==
    \E o \in Offsets : log[partition_index(active_term_id - 1)][o].kind = "pad"

(***************************************************************************)
(* "Data must remain valid" after submit_send: a frame that was submitted  *)
(* is neither cleaned nor overwritten before the kernel has read it,       *)
(* although sender_position has passed it.  Not so when the publisher      *)
(* leaves a term with a pad: back-pressure does not count the pad.         *)
(***************************************************************************)
UnflushedKept == LeftWithPad \/ \A p \in unflushed : Intact(p)

\* Without the exception it does not hold.
UnflushedIntact == \A p \in unflushed : Intact(p)
=============================================================================
