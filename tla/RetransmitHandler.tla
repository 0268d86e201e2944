------------------------- MODULE RetransmitHandler -------------------------
(***************************************************************************)
(* The NAK driven retransmit scheduler of media/retransmit_handler.rs.     *)
(* A range stands for the (session, stream, term id, offset) a NAK names.  *)
(* Time is the wrapping i64 of the code with Width values instead of 2^64; *)
(* a comparison looks at a quarter of them, as i64::MAX / 2 does.          *)
(***************************************************************************)
EXTENDS Integers, FiniteSets, FiniteSetsExt

CONSTANTS
    Ranges,                  \* what NAKs ask for
    MAX_RETRANSMIT_ACTIONS,  \* length of the table
    delay_ns, linger_ns,     \* the two intervals, in ticks
    Width,                   \* number of clock values
    MaxPause                 \* ticks between two passes over the table

\* The sender passes over the table in every poll of its control transports,
\* so a timer is never late by a quarter of the clock's range.
ASSUME TimerAssumption ==
    /\ {MAX_RETRANSMIT_ACTIONS, linger_ns, MaxPause} \subseteq Nat \ {0}
    /\ delay_ns \in Nat
    /\ Width \in Nat
    /\ 4 * (delay_ns + linger_ns + MaxPause) < Width

Actions == 1 .. MAX_RETRANSMIT_ACTIONS
Clock == 0 .. Width - 1
NoRange == "none"
INACTIVE == [range |-> NoRange, state |-> "Inactive", expiry |-> 0]

VARIABLES
    actions,
    now,      \* the sender's clock
    pause,    \* ticks since the last pass over the table
    age       \* ticks since each range was last retransmitted, up to Spacing

vars == <<actions, now, pause, age>>

\* The least distance of two retransmissions of one range.
Spacing == delay_ns + linger_ns

Init ==
    /\ actions = [i \in Actions |-> INACTIVE]
    /\ now \in Clock
    /\ pause = 0
    /\ age = [r \in Ranges |-> Spacing]

-----------------------------------------------------------------------------

WrappingAdd(t, d) == (t + d) % Width

\* A slip: instants are compared as plain numbers.
ExpiredPlain(expiry) == now >= expiry

\* elapsed = now - expiry, wrapping, at least 0 and below the half range.
Expired(expiry) == (now - expiry) % Width < Width \div 4

Tick ==
    /\ pause < MaxPause
    /\ now' = WrappingAdd(now, 1)
    /\ pause' = pause + 1
    /\ age' = [r \in Ranges |-> Min({age[r] + 1, Spacing})]
    /\ UNCHANGED actions

\* A slip: a lingering action does not count.
ScheduledInDelay(r) ==
    \E i \in Actions : actions[i].state = "Delay" /\ actions[i].range = r

Scheduled(r) ==
    \E i \in Actions : actions[i].state # "Inactive" /\ actions[i].range = r

\* on_nak that is accepted: not scheduled yet, and the first free slot.  A NAK
\* that finds its range in the table, or the table full, changes nothing.
OnNak(r) ==
    LET free == {i \in Actions : actions[i].state = "Inactive"}
    IN  /\ ~Scheduled(r)
        /\ \E at \in free :
             /\ \A i \in free : at <= i
             /\ actions' = [actions EXCEPT ![at] =
                  [range |-> r, state |-> "Delay",
                   expiry |-> WrappingAdd(now, delay_ns)]]
        /\ UNCHANGED <<now, pause, age>>

\* A slip: a free slot ends the pass.
DueUpToFree ==
    {i \in Actions :
       /\ \A j \in 1 .. i : actions[j].state # "Inactive"
       /\ Expired(actions[i].expiry)}

Due == {i \in Actions : actions[i].state # "Inactive" /\ Expired(actions[i].expiry)}

\* process_timeouts: an expired delay retransmits and lingers, an expired
\* linger frees its slot.
ProcessTimeouts ==
    LET fired == {i \in Due : actions[i].state = "Delay"}
    IN  /\ actions' = [i \in Actions |->
             IF i \in fired
             THEN [actions[i] EXCEPT !.state = "Linger",
                                     !.expiry = WrappingAdd(now, linger_ns)]
             ELSE IF i \in Due THEN INACTIVE ELSE actions[i]]
        /\ age' = [r \in Ranges |->
             IF \E i \in fired : actions[i].range = r THEN 0 ELSE age[r]]
        /\ pause' = 0
        /\ UNCHANGED now

Next ==
    \/ Tick
    \/ \E r \in Ranges : OnNak(r)
    \/ ProcessTimeouts

\* The clock runs and the sender's duty cycle repeats.
Fairness == WF_vars(Tick) /\ WF_vars(ProcessTimeouts)

Spec == Init /\ [][Next]_vars /\ Fairness

-----------------------------------------------------------------------------

\* Types of the action table and the clock; expiry times keep their width.
TypeOK ==
    /\ actions \in [Actions -> [range : Ranges \cup {NoRange},
                                state : {"Inactive", "Delay", "Linger"},
                                expiry : Clock]]
    /\ now \in Clock
    /\ pause \in 0 .. MaxPause
    /\ age \in [Ranges -> 0 .. Spacing]

\* Duplicate NAKs are coalesced: no range has two actions, whatever slots
\* were freed and reused in between.
Coalesced ==
    \A i, j \in Actions :
      i # j /\ actions[i].state # "Inactive" /\ actions[j].state # "Inactive"
      => actions[i].range # actions[j].range

\* Linger keeps the same range from being sent again too soon: a step that
\* retransmits a range comes at least delay and linger after the last one,
\* also where the clock wraps between them.
RetransmitsSpaced ==
    [][\A i \in Actions :
         actions[i].state = "Delay" /\ actions'[i].state = "Linger"
         => age[actions[i].range] = Spacing]_vars

\* An accepted NAK is answered, and its slot is freed for another.
NakCompletes ==
    \A i \in Actions :
      /\ actions[i].state = "Delay" ~> actions[i].state = "Linger"
      /\ actions[i].state = "Linger" ~> actions[i].state = "Inactive"
=============================================================================
