-------------------------- MODULE RetransmitProofs --------------------------
(***************************************************************************)
(* Proofs about the retransmit scheduler, for every table length, delay,   *)
(* linger and clock width that TimerAssumption allows: NAKs for one range  *)
(* are coalesced, and its retransmissions keep their distance.             *)
(*                                                                         *)
(* That they do is not inductive: the expiry of an action has to be        *)
(* related, across a wrap of the clock, to the age of its range.           *)
(***************************************************************************)
EXTENDS RetransmitHandler, TLAPS

Active(i) == actions[i].state # "Inactive"

\* How old the range of action i is at least when the action expires.
AgeAtExpiry(i) == IF actions[i].state = "Delay" THEN Spacing ELSE linger_ns

\* The action has some ticks left, or is late by no more than the ticks since
\* the last pass, and its range is old enough for what is left.
Timed(i) ==
    \E left \in -pause .. Spacing :
      /\ actions[i].expiry = WrappingAdd(now, left)
      /\ \/ age[actions[i].range] = Spacing
         \/ age[actions[i].range] + left >= AgeAtExpiry(i)

\* The inductive invariant.
RetransmitInv ==
    /\ TypeOK
    /\ Coalesced
    /\ \A i \in Actions : Active(i) => actions[i].range \in Ranges /\ Timed(i)
    /\ \A r \in Ranges : Scheduled(r) \/ age[r] >= linger_ns

-----------------------------------------------------------------------------
(***************************************************************************)
(* Arithmetic of the wrapping clock.                                       *)
(***************************************************************************)

\* A clock value plus a distance below the width wraps at most once.
LEMMA WrapOnce ==
    ASSUME NEW t \in Clock, NEW d \in -Width .. Width
    PROVE  /\ WrappingAdd(t, d) \in Clock
           /\ WrappingAdd(t, d) = IF t + d < 0 THEN t + d + Width
                                    ELSE IF t + d >= Width THEN t + d - Width
                                    ELSE t + d
<1>1. Width \in Nat \ {0}  BY TimerAssumption
<1>2. ASSUME NEW x \in Clock
      PROVE  x % Width = x /\ (x + Width) % Width = x /\ (x - Width) % Width = x
  BY <1>1, <1>2 DEF Clock
<1>3. CASE t + d < 0
  <2>1. t + d + Width \in Clock  BY <1>1, <1>3 DEF Clock
  <2>2. ((t + d + Width) - Width) % Width = t + d + Width  BY <1>2, <2>1
  <2>3. (t + d + Width) - Width = t + d  BY <1>1 DEF Clock
  <2> QED  BY <1>1, <1>3, <2>1, <2>2, <2>3 DEF WrappingAdd, Clock
<1>4. CASE t + d >= Width /\ t + d < 2 * Width
  <2>1. t + d - Width \in Clock  BY <1>1, <1>4 DEF Clock
  <2>2. ((t + d - Width) + Width) % Width = t + d - Width  BY <1>2, <2>1
  <2>3. (t + d - Width) + Width = t + d  BY <1>1 DEF Clock
  <2> QED  BY <1>1, <1>4, <2>1, <2>2, <2>3 DEF WrappingAdd, Clock
<1>5. CASE 0 <= t + d /\ t + d < Width
  <2>1. t + d \in Clock  BY <1>1, <1>5 DEF Clock
  <2> QED  BY <1>1, <1>2, <1>5, <2>1 DEF WrappingAdd, Clock
<1> QED  BY <1>1, <1>3, <1>4, <1>5 DEF Clock

\* What the assumption on the constants says of the distances that occur.
LEMMA Distances ==
    /\ Spacing \in Nat /\ linger_ns \in Nat \ {0} /\ delay_ns \in Nat
    /\ MaxPause \in Nat \ {0} /\ Width \in Nat \ {0}
    /\ Spacing = delay_ns + linger_ns
    /\ 4 * Spacing < Width /\ 4 * MaxPause < Width
    /\ Width \div 4 \in Nat
    /\ Spacing <= Width \div 4 /\ MaxPause < Width \div 4
    /\ 4 * (Width \div 4) <= Width
BY TimerAssumption DEF Spacing

\* The comparison of process_timeouts is right across a wrap: an action has
\* expired exactly when it has no ticks left.
LEMMA ExpiredIsOver ==
    ASSUME now \in Clock, NEW left \in -MaxPause .. Spacing
    PROVE  Expired(WrappingAdd(now, left)) <=> left <= 0
<1> DEFINE e == WrappingAdd(now, left)
<1>1. left \in -Width .. Width  BY Distances
<1>2. /\ e \in Clock
      /\ e = IF now + left < 0 THEN now + left + Width
               ELSE IF now + left >= Width THEN now + left - Width
               ELSE now + left
  BY <1>1, WrapOnce
<1> HIDE DEF e
<1>3. -e \in -Width .. Width  BY <1>2, Distances DEF Clock
<1>4. WrappingAdd(now, -e) = IF now + (-e) < 0 THEN now + (-e) + Width
                               ELSE IF now + (-e) >= Width THEN now + (-e) - Width
                               ELSE now + (-e)
  BY <1>3, WrapOnce
<1>5. now + (-e) = now - e  BY <1>2 DEF Clock
<1>6. Expired(e) <=> WrappingAdd(now, -e) < Width \div 4
  BY <1>5 DEF Expired, WrappingAdd
<1>7. Expired(e) <=> left <= 0
  BY <1>1, <1>2, <1>4, <1>6, Distances DEF Clock
<1> QED  BY <1>7 DEF e

\* A tick takes one from what is left.
LEMMA TickTakesOne ==
    ASSUME now \in Clock, NEW left \in -MaxPause .. Spacing,
           left - 1 \in -MaxPause .. Spacing
    PROVE  /\ WrappingAdd(now, 1) \in Clock
           /\ WrappingAdd(WrappingAdd(now, 1), left - 1) = WrappingAdd(now, left)
<1> DEFINE n == WrappingAdd(now, 1)
<1>1. {left, left - 1, 1} \subseteq -Width .. Width  BY Distances
<1>2. /\ n \in Clock
      /\ n = IF now + 1 < 0 THEN now + 1 + Width
               ELSE IF now + 1 >= Width THEN now + 1 - Width
               ELSE now + 1
  BY <1>1, WrapOnce
<1>3. WrappingAdd(now, left) = IF now + left < 0 THEN now + left + Width
                                 ELSE IF now + left >= Width THEN now + left - Width
                                 ELSE now + left
  BY <1>1, WrapOnce
<1> HIDE DEF n
<1>4. WrappingAdd(n, left - 1) =
        IF n + (left - 1) < 0 THEN n + (left - 1) + Width
          ELSE IF n + (left - 1) >= Width THEN n + (left - 1) - Width
          ELSE n + (left - 1)
  BY <1>1, <1>2, WrapOnce
<1>5. WrappingAdd(n, left - 1) = WrappingAdd(now, left)
  BY <1>1, <1>2, <1>3, <1>4, Distances DEF Clock
<1> QED  BY <1>2, <1>5 DEF n

\* The lesser of two numbers.
LEMMA MinOfTwo ==
    ASSUME NEW a \in Int, NEW b \in Int
    PROVE  Min({a, b}) = IF a <= b THEN a ELSE b
BY DEF Min

-----------------------------------------------------------------------------
(***************************************************************************)
(* The invariant is inductive.                                             *)
(***************************************************************************)

\* An empty table satisfies the invariant.
LEMMA InitRetransmit == Init => RetransmitInv
<1> SUFFICES ASSUME Init PROVE RetransmitInv
  OBVIOUS
<1>1. 0 \in Clock  BY Distances DEF Clock
<1>2. TypeOK  BY <1>1, Distances DEF Init, TypeOK, INACTIVE
<1>3. \A i \in Actions : ~Active(i)  BY DEF Init, INACTIVE, Active
<1>4. \A r \in Ranges : age[r] >= linger_ns  BY Distances DEF Init
<1> QED  BY <1>2, <1>3, <1>4 DEF RetransmitInv, Coalesced, Active

\* Time: every action is one tick nearer, every range one tick older.
LEMMA TickRetransmit == RetransmitInv /\ Tick => RetransmitInv'
<1> SUFFICES ASSUME RetransmitInv, Tick PROVE RetransmitInv'
  OBVIOUS
<1> USE Distances
<1>1. \A r \in Ranges : age'[r] = IF age[r] + 1 <= Spacing THEN age[r] + 1 ELSE Spacing
  <2> TAKE r \in Ranges
  <2>1. age[r] \in 0 .. Spacing  BY DEF RetransmitInv, TypeOK
  <2> QED  BY <2>1, MinOfTwo DEF Tick
<1>2. TypeOK'
  <2>1. now' \in Clock
    <3>1. 1 \in -Width .. Width  OBVIOUS
    <3> QED  BY <3>1, WrapOnce DEF RetransmitInv, TypeOK, Tick
  <2>2. pause' \in 0 .. MaxPause  BY DEF RetransmitInv, TypeOK, Tick
  <2>3. age' \in [Ranges -> 0 .. Spacing]
    <3>1. \A r \in Ranges : age'[r] \in 0 .. Spacing  BY <1>1 DEF RetransmitInv, TypeOK
    <3> QED  BY <3>1 DEF Tick
  <2> QED  BY <2>1, <2>2, <2>3 DEF RetransmitInv, TypeOK, Tick
<1>3. Coalesced'  BY DEF RetransmitInv, Coalesced, Tick
<1>4. ASSUME NEW i \in Actions, Active(i)'
      PROVE  (actions[i].range \in Ranges /\ Timed(i))'
  <2>1. Active(i) /\ actions[i].range \in Ranges /\ Timed(i)
    BY <1>4 DEF RetransmitInv, Active, Tick
  <2>2. PICK left \in -pause .. Spacing :
          /\ actions[i].expiry = WrappingAdd(now, left)
          /\ \/ age[actions[i].range] = Spacing
             \/ age[actions[i].range] + left >= AgeAtExpiry(i)
    BY <2>1 DEF Timed
  <2>3. pause \in 0 .. MaxPause - 1 /\ pause' = pause + 1
    BY DEF RetransmitInv, TypeOK, Tick
  <2>4. left - 1 \in -pause' .. Spacing  BY <2>2, <2>3
  <2>5. left \in -MaxPause .. Spacing /\ left - 1 \in -MaxPause .. Spacing
    BY <2>2, <2>3
  <2>6. actions'[i].expiry = WrappingAdd(now', left - 1)
    BY <2>2, <2>5, TickTakesOne DEF RetransmitInv, TypeOK, Tick
  <2>7. AgeAtExpiry(i) \in Nat /\ AgeAtExpiry(i)' = AgeAtExpiry(i)
    BY DEF AgeAtExpiry, Tick
  <2>8. \/ age'[actions[i].range] = Spacing
        \/ age'[actions[i].range] + (left - 1) >= AgeAtExpiry(i)
    BY <1>1, <2>1, <2>2, <2>7 DEF RetransmitInv, TypeOK
  <2> QED  BY <2>1, <2>4, <2>6, <2>7, <2>8 DEF Timed, Tick
<1>5. \A r \in Ranges : Scheduled(r)' \/ age'[r] >= linger_ns
  BY <1>1 DEF RetransmitInv, TypeOK, Scheduled, Tick
<1> QED  BY <1>2, <1>3, <1>4, <1>5 DEF RetransmitInv

\* An accepted NAK: the range it schedules lingers no more, so it is old
\* enough for the delay to complete its spacing.
LEMMA NakRetransmit ==
    ASSUME RetransmitInv, NEW r \in Ranges, OnNak(r)
    PROVE  RetransmitInv'
<1> USE Distances
<1> DEFINE new == [range |-> r, state |-> "Delay", expiry |-> WrappingAdd(now, delay_ns)]
<1>1. PICK at \in Actions :
        /\ ~Active(at)
        /\ actions' = [actions EXCEPT ![at] = new]
  BY Zenon DEF OnNak, Active
<1>2. /\ ~Scheduled(r) /\ age[r] >= linger_ns
      /\ now' = now /\ pause' = pause /\ age' = age
  BY DEF RetransmitInv, OnNak
<1>3. WrappingAdd(now, delay_ns) \in Clock
  <2>1. delay_ns \in -Width .. Width  OBVIOUS
  <2> QED  BY <2>1, WrapOnce DEF RetransmitInv, TypeOK
<1>4. actions \in [Actions -> [range : Ranges \cup {NoRange},
                               state : {"Inactive", "Delay", "Linger"},
                               expiry : Clock]]
  BY DEF RetransmitInv, TypeOK
<1>5. \A i \in Actions : actions'[i] = IF i = at THEN new ELSE actions[i]
  BY <1>1, <1>4
<1>6. TypeOK'
  <2>1. new \in [range : Ranges \cup {NoRange},
                 state : {"Inactive", "Delay", "Linger"}, expiry : Clock]
    BY <1>3
  <2>2. actions' \in [Actions -> [range : Ranges \cup {NoRange},
                                  state : {"Inactive", "Delay", "Linger"},
                                  expiry : Clock]]
    BY <1>1, <1>4, <2>1
  <2> QED  BY <1>2, <2>2 DEF RetransmitInv, TypeOK
<1>7. \A i \in Actions : Active(i) => actions[i].range # r
  BY <1>2 DEF Scheduled, Active
<1>8. Coalesced'
  BY <1>5, <1>7 DEF RetransmitInv, Coalesced, Active
<1>9. ASSUME NEW i \in Actions, Active(i)'
      PROVE  (actions[i].range \in Ranges /\ Timed(i))'
  <2>1. CASE i = at
    <3>1. actions'[i] = new  BY <1>5, <2>1
    <3>2. delay_ns \in -pause' .. Spacing
      BY <1>2 DEF RetransmitInv, TypeOK
    <3>3. age'[r] + delay_ns >= Spacing
      BY <1>2 DEF RetransmitInv, TypeOK
    <3>4. AgeAtExpiry(i)' = Spacing  BY <3>1 DEF AgeAtExpiry
    <3> QED  BY <1>2, <3>1, <3>2, <3>3, <3>4 DEF Timed
  <2>2. CASE i # at
    <3>1. actions'[i] = actions[i]  BY <1>5, <2>2
    <3> QED  BY <1>2, <1>9, <3>1 DEF RetransmitInv, Active, Timed, AgeAtExpiry
  <2> QED  BY <2>1, <2>2
<1>10. ASSUME NEW q \in Ranges PROVE Scheduled(q)' \/ age'[q] >= linger_ns
  <2>1. CASE age[q] >= linger_ns  BY <1>2, <2>1
  <2>2. CASE Scheduled(q)
    <3>1. PICK i \in Actions : Active(i) /\ actions[i].range = q
      BY <2>2 DEF Scheduled, Active
    <3>2. CASE i = at
      BY <1>1, <3>1, <3>2
    <3>3. CASE i # at
      BY <1>5, <3>1, <3>3 DEF Scheduled, Active
    <3> QED  BY <3>2, <3>3
  <2> QED  BY <2>1, <2>2 DEF RetransmitInv
<1> QED  BY <1>6, <1>8, <1>9, <1>10 DEF RetransmitInv

\* What is left of an active action decides whether it is due.
LEMMA DueHasNoneLeft ==
    ASSUME RetransmitInv, NEW i \in Actions, Active(i)
    PROVE  \E left \in -pause .. Spacing :
             /\ actions[i].expiry = WrappingAdd(now, left)
             /\ i \in Due <=> left <= 0
             /\ \/ age[actions[i].range] = Spacing
                \/ age[actions[i].range] + left >= AgeAtExpiry(i)
<1>1. PICK left \in -pause .. Spacing :
        /\ actions[i].expiry = WrappingAdd(now, left)
        /\ \/ age[actions[i].range] = Spacing
           \/ age[actions[i].range] + left >= AgeAtExpiry(i)
  BY DEF RetransmitInv, Timed
<1>2. left \in -MaxPause .. Spacing  BY Distances DEF RetransmitInv, TypeOK
<1>3. Expired(actions[i].expiry) <=> left <= 0
  BY <1>1, <1>2, ExpiredIsOver DEF RetransmitInv, TypeOK
<1> QED  BY <1>1, <1>3 DEF Due, Active

\* A pass: an action that fires starts its linger with its range's age at
\* zero, one that lingered long enough leaves its range old enough, and the
\* others have ticks left.
LEMMA PassRetransmit == RetransmitInv /\ ProcessTimeouts => RetransmitInv'
<1> SUFFICES ASSUME RetransmitInv, ProcessTimeouts PROVE RetransmitInv'
  OBVIOUS
<1> USE Distances
<1> DEFINE fired == {i \in Due : actions[i].state = "Delay"}
           lingers(i) == [actions[i] EXCEPT !.state = "Linger",
                                            !.expiry = WrappingAdd(now, linger_ns)]
<1>1. /\ actions' = [i \in Actions |->
             IF i \in fired THEN lingers(i)
             ELSE IF i \in Due THEN INACTIVE ELSE actions[i]]
      /\ age' = [r \in Ranges |->
             IF \E i \in fired : actions[i].range = r THEN 0 ELSE age[r]]
      /\ pause' = 0 /\ now' = now
  BY Zenon DEF ProcessTimeouts
<1>2. /\ actions \in [Actions -> [range : Ranges \cup {NoRange},
                                  state : {"Inactive", "Delay", "Linger"},
                                  expiry : Clock]]
      /\ now \in Clock /\ age \in [Ranges -> 0 .. Spacing]
  BY DEF RetransmitInv, TypeOK
<1>3. WrappingAdd(now, linger_ns) \in Clock
  <2>1. linger_ns \in -Width .. Width  BY SMTT(40)
  <2> QED  BY <1>2, <2>1, WrapOnce
<1>4. ASSUME NEW i \in fired
      PROVE  /\ i \in Actions /\ Active(i)
             /\ actions'[i].state = "Linger"
             /\ actions'[i].range = actions[i].range
             /\ actions'[i].expiry = WrappingAdd(now, linger_ns)
  BY <1>1, <1>2, ZenonT(40) DEF Due, Active
<1>5. ASSUME NEW i \in Due \ fired
      PROVE  i \in Actions /\ actions[i].state = "Linger" /\ actions'[i] = INACTIVE
  BY <1>1, <1>2, ZenonT(40) DEF Due
<1>6. ASSUME NEW i \in Actions \ Due PROVE actions'[i] = actions[i]
  BY <1>1, ZenonT(40)
<1>7. ASSUME NEW r \in Ranges
       PROVE  /\ (\E i \in fired : actions[i].range = r) => age'[r] = 0
              /\ (\A i \in fired : actions[i].range # r) => age'[r] = age[r]
  BY <1>1, Zenon
<1>8. ASSUME NEW i \in fired
       PROVE  actions'[i] \in [range : Ranges \cup {NoRange},
                               state : {"Inactive", "Delay", "Linger"},
                               expiry : Clock]
  <2>1. actions'[i] = lingers(i) /\ i \in Actions  BY <1>1, Zenon DEF Due
  <2> QED  BY <1>2, <1>3, <2>1, ZenonT(40)
<1>9. /\ fired \subseteq Due
       /\ actions' = [i \in Actions |-> actions'[i]]
       /\ age' = [r \in Ranges |-> age'[r]]
       /\ pause' = 0 /\ now' = now
  BY <1>1, Zenon
<1> HIDE DEF fired, lingers
<1>10. ASSUME NEW i \in Actions, Active(i), i \notin fired
      PROVE  age'[actions[i].range] = age[actions[i].range]
  <2>1. \A j \in fired : actions[j].range # actions[i].range
    BY <1>4, <1>10 DEF RetransmitInv, Coalesced, Active
  <2>2. actions[i].range \in Ranges  BY <1>10 DEF RetransmitInv
  <2> QED  BY <1>7, <2>1, <2>2
<1>11. TypeOK'
  <2>1. 0 \in Clock  BY DEF Clock
  <2>2. \A i \in Actions : actions'[i] \in [range : Ranges \cup {NoRange},
                                            state : {"Inactive", "Delay", "Linger"},
                                            expiry : Clock]
    <3> TAKE i \in Actions
    <3>1. CASE i \in fired  BY <1>8, <3>1
    <3>2. CASE i \in Due \ fired  BY <1>5, <2>1, <3>2 DEF INACTIVE
    <3>3. CASE i \notin Due  BY <1>2, <1>6, <3>3
    <3> QED  BY <3>1, <3>2, <3>3
  <2>3. age' \in [Ranges -> 0 .. Spacing]
    <3>1. \A r \in Ranges : age'[r] = 0 \/ age'[r] = age[r]  BY <1>7
    <3> QED  BY <1>2, <1>9, <3>1
  <2> QED  BY <1>2, <1>9, <2>2, <2>3 DEF TypeOK
<1>12. \A i \in Actions : Active(i)' => Active(i) /\ actions'[i].range = actions[i].range
  BY <1>4, <1>5, <1>6 DEF Active, INACTIVE
<1>13. Coalesced'
  BY <1>12 DEF RetransmitInv, Coalesced, Active
<1>14. ASSUME NEW i \in Actions, Active(i)'
       PROVE  (actions[i].range \in Ranges /\ Timed(i))'
  <2>1. Active(i) /\ actions'[i].range = actions[i].range /\ actions[i].range \in Ranges
    BY <1>12, <1>14 DEF RetransmitInv
  <2>2. CASE i \in fired
    <3>1. age'[actions[i].range] = 0  BY <1>7, <2>1, <2>2
    <3>2. linger_ns \in -pause' .. Spacing  BY <1>9
    <3>3. AgeAtExpiry(i)' = linger_ns  BY <1>4, <2>2 DEF AgeAtExpiry
    <3> QED  BY <1>4, <1>9, <2>1, <2>2, <3>1, <3>2, <3>3 DEF Timed
  <2>3. CASE i \in Due \ fired
    BY <1>5, <1>14, <2>3 DEF Active, INACTIVE
  <2>4. CASE i \notin Due
    <3>1. PICK left \in -pause .. Spacing :
            /\ actions[i].expiry = WrappingAdd(now, left)
            /\ i \in Due <=> left <= 0
            /\ \/ age[actions[i].range] = Spacing
               \/ age[actions[i].range] + left >= AgeAtExpiry(i)
      BY <2>1, DueHasNoneLeft
    <3>2. left \in -pause' .. Spacing
      BY <1>9, <2>4, <3>1 DEF RetransmitInv, TypeOK
    <3>3. actions'[i] = actions[i] /\ age'[actions[i].range] = age[actions[i].range]
      BY <1>6, <1>10, <1>9, <2>1, <2>4
    <3>4. AgeAtExpiry(i)' = AgeAtExpiry(i)  BY <3>3 DEF AgeAtExpiry
    <3> QED  BY <1>9, <2>1, <3>1, <3>2, <3>3, <3>4 DEF Timed
  <2> QED  BY <2>2, <2>3, <2>4
<1>15. ASSUME NEW r \in Ranges PROVE Scheduled(r)' \/ age'[r] >= linger_ns
  <2>1. CASE Scheduled(r)
    <3>1. PICK i \in Actions : Active(i) /\ actions[i].range = r
      BY <2>1 DEF Scheduled, Active
    <3>2. CASE i \in fired  BY <1>4, <3>1, <3>2 DEF Scheduled
    <3>3. CASE i \in Due \ fired
      <4>1. PICK left \in -pause .. Spacing :
              /\ i \in Due <=> left <= 0
              /\ \/ age[r] = Spacing
                 \/ age[r] + left >= AgeAtExpiry(i)
        BY <3>1, DueHasNoneLeft
      <4>2. AgeAtExpiry(i) = linger_ns  BY <1>5, <3>3 DEF AgeAtExpiry
      <4>3. age[r] >= linger_ns
        BY <1>2, <3>3, <4>1, <4>2 DEF RetransmitInv, TypeOK
      <4> QED  BY <1>10, <3>1, <3>3, <4>3
    <3>4. CASE i \notin Due  BY <1>6, <3>1, <3>4 DEF Scheduled, Active
    <3> QED  BY <3>2, <3>3, <3>4
  <2>2. CASE ~Scheduled(r)
    <3>1. \A j \in fired : actions[j].range # r
      BY <1>4, <2>2 DEF Scheduled, Active
    <3>2. age[r] >= linger_ns  BY <2>2 DEF RetransmitInv
    <3> QED  BY <1>7, <3>1, <3>2
  <2> QED  BY <2>1, <2>2
<1> QED  BY <1>11, <1>13, <1>14, <1>15, SMTT(40) DEF RetransmitInv

\* Every step keeps the invariant.
LEMMA NextRetransmit == RetransmitInv /\ [Next]_vars => RetransmitInv'
<1> SUFFICES ASSUME RetransmitInv, [Next]_vars PROVE RetransmitInv'
  OBVIOUS
<1>1. CASE Tick  BY <1>1, TickRetransmit
<1>2. ASSUME NEW r \in Ranges, OnNak(r) PROVE RetransmitInv'
  BY <1>2, NakRetransmit
<1>3. CASE ProcessTimeouts  BY <1>3, PassRetransmit
<1>4. CASE UNCHANGED vars
  BY <1>4 DEF RetransmitInv, TypeOK, Coalesced, Active, Timed, AgeAtExpiry,
              Scheduled, vars
<1> QED  BY <1>1, <1>2, <1>3, <1>4 DEF Next

\* Duplicate NAKs are coalesced by on_nak, for every table length, interval
\* and clock width: no range ever has two actions.
THEOREM NaksCoalesced == Spec => []Coalesced
<1>1. RetransmitInv => Coalesced  BY DEF RetransmitInv
<1> QED  BY <1>1, InitRetransmit, NextRetransmit, PTL DEF Spec

\* process_timeouts never retransmits a range sooner than delay and linger
\* after the last time, wherever the clock wraps, as long as the table is
\* passed over every MaxPause ticks and the intervals are below a quarter of
\* the clock's range.
THEOREM RetransmitsKeepSpacing == Spec => RetransmitsSpaced
<1>1. RetransmitInv /\ [Next]_vars =>
        [\A i \in Actions :
           actions[i].state = "Delay" /\ actions'[i].state = "Linger"
           => age[actions[i].range] = Spacing]_vars
  <2> SUFFICES ASSUME RetransmitInv, Next, NEW i \in Actions,
                      actions[i].state = "Delay", actions'[i].state = "Linger"
               PROVE  age[actions[i].range] = Spacing
    OBVIOUS
  <2>1. CASE Tick  BY <2>1 DEF Tick
  <2>2. ASSUME NEW r \in Ranges, OnNak(r) PROVE FALSE
    BY <2>2 DEF OnNak, RetransmitInv, TypeOK
  <2>3. CASE ProcessTimeouts
    <3>1. i \in Due
      BY <2>3, Zenon DEF ProcessTimeouts
    <3>2. Active(i) /\ AgeAtExpiry(i) = Spacing  BY DEF Active, AgeAtExpiry
    <3>3. PICK left \in -pause .. Spacing :
            /\ i \in Due <=> left <= 0
            /\ \/ age[actions[i].range] = Spacing
               \/ age[actions[i].range] + left >= AgeAtExpiry(i)
      BY <3>2, DueHasNoneLeft
    <3>4. age[actions[i].range] \in 0 .. Spacing
      BY <3>2 DEF RetransmitInv, TypeOK
    <3> QED  BY <3>1, <3>2, <3>3, <3>4, Distances, SMTT(40) DEF RetransmitInv, TypeOK
  <2> QED  BY <2>1, <2>2, <2>3 DEF Next
<1> QED  BY <1>1, InitRetransmit, NextRetransmit, PTL DEF Spec, RetransmitsSpaced
=============================================================================
