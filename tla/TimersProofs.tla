---------------------------- MODULE TimersProofs ----------------------------
(***************************************************************************)
(* Proofs about Timers, for any number of timers and any time, and about   *)
(* MainLoop, whose every step is a step of Timers or leaves it alone.      *)
(*                                                                         *)
(* The list is sound because a timer's pointers agree with the order in    *)
(* which the pending timers were set: `Follows' says so without induction  *)
(* along the list.  Unlinking one keeps that only for a pending timer,     *)
(* hence WalkSound is part of the invariant; that to_del() and to_chk()    *)
(* are complete needs what they have established of the timers they        *)
(* passed, DelProgress and CheckProgress.                                  *)
(***************************************************************************)
EXTENDS MainLoop, TLAPS

\* to_del() has left no timer of the wanted key behind.
DelProgress ==
  pc = "del" => \A t \in pending : t < cur => key[t] # wanted

\* to_chk() has left no timer behind that was due when it was called.
CheckProgress ==
  pc = "check" =>
    /\ since <= now
    /\ \A t \in pending : cur = None \/ t < cur => due[t] > since

Inv == TypeOK /\ ListSound /\ WalkSound /\ DelProgress /\ CheckProgress

-----------------------------------------------------------------------------
(* The list *)

\* Unlinking a pending timer leaves a list of the others.
LEMMA UnlinkSound ==
  ASSUME TypeOK, ListSound, NEW t \in pending, Unlink(t)
  PROVE  /\ ListSound'
         /\ first' \in Timers \cup {None}
         /\ next' \in [Timers -> Timers \cup {None}]
         /\ prev' \in [Timers -> Timers \cup {None}]
         /\ next'[t] = next[t]
  <1> USE DEF TypeOK, ListSound, Follows, Unlink, Timers, None
  <1>1. t \in Timers /\ pending \subseteq Timers /\ pending' = pending \ {t}
    BY TimerBounds
  <1>2. /\ first' \in Timers \cup {None}
        /\ next' \in [Timers -> Timers \cup {None}]
        /\ prev' \in [Timers -> Timers \cup {None}]
    BY <1>1
  <1>3. prev[t] # t /\ next[t] # t
    BY <1>1
  <1>4. next'[t] = next[t]
    BY <1>1, <1>3
  <1>5. Follows(first, None)'
    BY <1>1
  <1>6. \A u \in pending' : Follows(next[u], u)'
    BY <1>1, <1>2
  <1>7. \A u \in pending' : /\ prev'[u] = None => first' = u
                            /\ prev'[u] # None => prev'[u] \in pending' /\ next'[prev'[u]] = u
    BY <1>1, <1>2
  <1> QED BY <1>2, <1>4, <1>5, <1>6, <1>7

\* Unlinking keeps the types of everything else.
LEMMA UnlinkType ==
  ASSUME TypeOK, ListSound, NEW t \in pending, Unlink(t),
         UNCHANGED <<made, key, due, now, wanted, since>>,
         pc' \in {"idle", "check", "add", "del"}, cur' \in Timers \cup {None}
  PROVE  TypeOK'
  BY UnlinkSound DEF TypeOK, Unlink

\* Nothing pending lies between a timer and the one that follows it.
LEMMA NothingBetween ==
  ASSUME NEW t, NEW s \in Nat, t \in Nat, pending \subseteq Nat, Follows(t, s)
  PROVE  \A u \in pending : t = None \/ u < t => u <= s
  <1> TAKE u \in pending
  <1>1. s \in Nat /\ u \in Nat /\ t \in Nat
    OBVIOUS
  <1>2. CASE t \in pending /\ s < t /\ (s < u => t <= u)
    BY <1>1, <1>2 DEF None
  <1>3. CASE t = None /\ u <= s
    BY <1>3
  <1> QED BY <1>2, <1>3 DEF Follows

-----------------------------------------------------------------------------
(* The functions of to.c, turn by turn *)

\* The walk of to_chk() or to_del() starts at the head of the list.
LEMMA StartInv ==
  ASSUME Inv, StartCheck \/ \E k \in Keys : StartDel(k)
  PROVE  Inv'
  <1> USE TimerBounds DEF Inv, TypeOK, StartCheck, StartDel, list
  <1>1. UNCHANGED list /\ UNCHANGED now /\ cur' = first /\ pc = "idle"
    OBVIOUS
  <1>2. TypeOK'
    OBVIOUS
  <1>3. ListSound'
    BY <1>1 DEF ListSound, Follows
  <1>4. first = None \/ (first \in pending /\ \A u \in pending : first <= u)
    BY DEF ListSound, Follows, None, Timers
  <1>5. WalkSound'
    BY <1>1, <1>4 DEF WalkSound
  <1>6. DelProgress'
    BY <1>1, <1>4 DEF DelProgress, ListSound, Follows, None, Timers
  <1>7. CheckProgress'
    <2> SUFFICES ASSUME pc' = "check"
                 PROVE  /\ since' <= now'
                        /\ \A t \in pending' : cur' = None \/ t < cur' => due'[t] > since'
      BY DEF CheckProgress
    <2>1. since' = now /\ now \in Nat
      BY DEF Times
    <2>2. \A t \in pending : ~(first = None \/ t < first)
      BY DEF ListSound, Follows, None, Timers
    <2> QED BY <1>1, <2>1, <2>2
  <1> QED BY <1>2, <1>3, <1>5, <1>6, <1>7

\* A turn of to_chk() passes a timer that is not due, or runs and unlinks it.
LEMMA CheckStepInv ==
  ASSUME Inv, CheckStep
  PROVE  Inv'
  <1> USE DEF Inv
  <1>1. cur \in pending /\ pc = "check" /\ pc' = "check"
    BY DEF CheckStep, WalkSound
  <1>2. /\ UNCHANGED <<made, key, due, now, wanted, since>>
        /\ cur' = next'[cur]
    BY DEF CheckStep
  <1>3. /\ ListSound' /\ cur' = next[cur] /\ TypeOK'
        /\ \/ pending' = pending \ {cur}
           \/ pending' = pending /\ now < due[cur]
    <2>0. cur \in Timers
      BY <1>1, TimerBounds DEF TypeOK, Timers
    <2>1. CASE Unlink(cur)
      <3>1. ListSound' /\ cur' = next[cur]
        BY <1>1, <1>2, <2>1, UnlinkSound
      <3>2. cur' \in Timers \cup {None}
        BY <2>0, <3>1 DEF TypeOK
      <3>3. TypeOK'
        BY <1>1, <1>2, <2>1, <3>2, UnlinkType
      <3> QED BY <2>1, <3>1, <3>3 DEF Unlink
    <2>2. CASE UNCHANGED <<first, next, prev, pending>> /\ now < due[cur]
      BY <1>1, <1>2, <2>0, <2>2 DEF ListSound, Follows, TypeOK
    <2> QED BY <2>1, <2>2 DEF CheckStep
  <1>4. /\ cur \in Nat /\ Follows(next[cur], cur)
        /\ pending \subseteq Nat /\ next[cur] \in Nat
    BY <1>1, TimerBounds DEF ListSound, TypeOK, Timers, None
  <1>5. WalkSound'
    BY <1>1, <1>3, <1>4 DEF WalkSound, Follows, None
  <1>6. DelProgress'
    BY <1>1 DEF DelProgress
  <1>7. CheckProgress'
    <2>1. since <= now /\ \A t \in pending : t < cur => due[t] > since
      BY <1>1 DEF CheckProgress
    <2>2. \A t \in pending : cur' = None \/ t < cur' => t <= cur
      BY <1>3, <1>4, NothingBetween
    <2>3. now < due[cur] => due[cur] > since
      <3> now \in Int /\ since \in Int /\ due[cur] \in Int
        BY <1>1, TimerBounds DEF TypeOK, Times, Timers
      <3> QED BY <2>1
    <2>4. \A t \in pending' : cur' = None \/ t < cur' => due[t] > since
      <3> TAKE t \in pending'
      <3>1. t \in pending /\ (t = cur => now < due[cur])
        BY <1>3
      <3>2. t \in Nat /\ cur \in Nat
        BY <1>4, <3>1
      <3> QED BY <2>1, <2>2, <2>3, <3>1, <3>2
    <2> QED BY <1>2, <2>1, <2>4 DEF CheckProgress
  <1> QED BY <1>3, <1>5, <1>6, <1>7

\* to_chk() returns, or time passes.
LEMMA QuietInv ==
  ASSUME Inv, EndCheck \/ Tick
  PROVE  Inv'
  <1> USE DEF Inv, list
  <1>1. /\ UNCHANGED <<list, wanted, since>> /\ now' \in {now, now + 1} /\ now' \in Times
        /\ (pc' = "idle" /\ cur' = None) \/ (pc' = pc /\ cur' = cur)
    BY TimerBounds DEF EndCheck, Tick, Return, TypeOK, Times
  <1>2. TypeOK'
    BY <1>1 DEF TypeOK, None
  <1>3. ListSound' /\ WalkSound' /\ DelProgress'
    BY <1>1 DEF ListSound, Follows, WalkSound, DelProgress
  <1>4. CheckProgress'
    BY <1>1, TimerBounds DEF CheckProgress, TypeOK, Times
  <1> QED BY <1>2, <1>3, <1>4

\* to_add() makes a timer.
LEMMA StartAddInv ==
  ASSUME Inv, NEW k \in Keys, NEW r \in Times, StartAdd(k, r)
  PROVE  Inv'
  <1> DEFINE new == made + 1
  <1> USE TimerBounds DEF Inv
  <1>1. /\ new \in Timers /\ new \notin pending /\ pending \subseteq Timers
        /\ \A t \in pending : t < new
        /\ pending \subseteq 1 .. new
    BY DEF StartAdd, TypeOK, Timers
  <1>2. /\ made' = new
        /\ key' = [key EXCEPT ![new] = k] /\ due' = [due EXCEPT ![new] = r]
        /\ next' = [next EXCEPT ![new] = None] /\ prev' = [prev EXCEPT ![new] = None]
        /\ UNCHANGED <<now, wanted, since>> /\ pc = "idle"
    BY DEF StartAdd
  <1>3. \A t \in pending : next'[t] = next[t] /\ prev'[t] = prev[t]
    BY <1>1, <1>2 DEF TypeOK
  <1>4. next'[new] = None /\ prev'[new] = None
    BY <1>1, <1>2 DEF TypeOK
  <1>5. CASE /\ first = None /\ first' = new /\ pending' = pending \cup {new}
             /\ UNCHANGED <<pc, cur>>
    <2>1. pending = {}
      BY <1>1, <1>5 DEF ListSound, Follows, None, Timers
    <2>2. TypeOK'
      BY <1>1, <1>2, <1>5 DEF TypeOK, None, Timers
    <2>3. ListSound'
      BY <1>1, <1>4, <1>5, <2>1 DEF ListSound, Follows, None, Timers
    <2>4. WalkSound' /\ DelProgress' /\ CheckProgress'
      BY <1>2, <1>5, <2>1 DEF WalkSound, DelProgress, CheckProgress
    <2> QED BY <2>2, <2>3, <2>4
  <1>6. CASE /\ first # None /\ pc' = "add" /\ cur' = first
             /\ UNCHANGED <<first, pending>>
    <2>1. first \in pending
      BY <1>6 DEF ListSound, Follows
    <2>2. TypeOK'
      BY <1>1, <1>2, <1>6 DEF TypeOK, None, Timers
    <2>3. ListSound'
      <3>1. Follows(first, None)'
        BY <1>6 DEF ListSound, Follows
      <3>2. \A t \in pending' : Follows(next[t], t)'
        BY <1>3, <1>6 DEF ListSound, Follows
      <3>3. \A t \in pending' :
              /\ prev'[t] = None => first' = t
              /\ prev'[t] # None => prev'[t] \in pending' /\ next'[prev'[t]] = t
        BY <1>3, <1>6 DEF ListSound
      <3> QED BY <3>1, <3>2, <3>3 DEF ListSound
    <2>4. WalkSound' /\ DelProgress' /\ CheckProgress'
      BY <1>1, <1>2, <1>4, <1>6, <2>1 DEF WalkSound, DelProgress, CheckProgress
    <2> QED BY <2>2, <2>3, <2>4
  <1> QED BY <1>5, <1>6 DEF StartAdd

\* to_add() goes to the last timer and appends the new one.
LEMMA AddStepInv ==
  ASSUME Inv, AddStep
  PROVE  Inv'
  <1> USE TimerBounds DEF Inv
  <1>1. /\ cur \in pending /\ pc = "add" /\ made \notin pending /\ next[made] = None
        /\ pending \subseteq Timers /\ UNCHANGED <<made, key, due, first, now, wanted, since>>
        /\ Follows(next[cur], cur)
    BY DEF AddStep, WalkSound, TypeOK, Timers, ListSound
  <1>2. CASE next[cur] # None /\ cur' = next[cur] /\ UNCHANGED <<next, prev, pending, pc>>
    <2>1. next[cur] \in pending
      BY <1>1, <1>2 DEF Follows
    <2>2. TypeOK'
      BY <1>1, <1>2, <2>1 DEF TypeOK
    <2>3. ListSound' /\ WalkSound' /\ DelProgress' /\ CheckProgress'
      BY <1>1, <1>2, <2>1 DEF ListSound, Follows, WalkSound, DelProgress, CheckProgress
    <2> QED BY <2>2, <2>3
  <1>3. CASE /\ next[cur] = None
             /\ next' = [next EXCEPT ![cur] = made] /\ prev' = [prev EXCEPT ![made] = cur]
             /\ pending' = pending \cup {made} /\ pc' = "idle" /\ cur' = None
    <2>1. \A u \in pending : u <= cur /\ u < made
      BY <1>1, <1>3 DEF Follows, TypeOK, Timers, None
    <2>2. made \in Timers
      BY <1>1, <2>1 DEF TypeOK, Timers
    <2>3. TypeOK'
      BY <1>1, <1>3, <2>2 DEF TypeOK, Timers, None
    <2>4. /\ next'[cur] = made /\ next'[made] = None /\ prev'[made] = cur
          /\ \A u \in pending : u # cur => next'[u] = next[u]
          /\ \A u \in pending : prev'[u] = prev[u]
      BY <1>1, <1>3, <2>2 DEF TypeOK
    <2>5. Follows(first, None)'
      BY <1>1, <1>3, <2>1, <2>2 DEF ListSound, Follows, TypeOK, Timers, None
    <2>6. \A u \in pending' : Follows(next[u], u)'
      <3> TAKE u \in pending'
      <3>1. CASE u = made
        BY <1>3, <2>1, <2>2, <2>4, <3>1 DEF Follows, Timers, None
      <3>2. CASE u = cur
        BY <1>1, <1>3, <2>1, <2>2, <2>4, <3>2 DEF Follows, Timers, None
      <3>3. CASE u \in pending /\ u # cur
        <4>1. Follows(next[u], u) /\ next'[u] = next[u]
          BY <1>1, <2>4, <3>3 DEF ListSound
        <4>2. u < cur /\ u \in Nat /\ cur \in Nat
          BY <1>1, <2>1, <3>3 DEF Timers
        <4>3. next[u] \in pending /\ u < next[u] /\ \A v \in pending : u < v => next[u] <= v
          BY <1>1, <4>1, <4>2 DEF Follows
        <4>4. next[u] < made /\ pending' = pending \cup {made}
          BY <1>3, <2>1, <4>3
        <4>5. \A v \in pending' : u < v => next[u] <= v
          <5> TAKE v \in pending'
          <5>1. CASE v = made
            <6>1. next[u] \in Timers /\ made \in Timers
              BY <1>1, <2>2, <4>3
            <6>2. next[u] \in Nat /\ made \in Nat
              BY <6>1 DEF Timers
            <6> QED BY <4>4, <5>1, <6>2
          <5>2. CASE v \in pending
            BY <4>3, <5>2
          <5> QED BY <4>4, <5>1, <5>2
        <4> QED BY <4>1, <4>3, <4>4, <4>5 DEF Follows
      <3> QED BY <1>3, <3>1, <3>2, <3>3
    <2>7. \A u \in pending' :
            /\ prev'[u] = None => first' = u
            /\ prev'[u] # None => prev'[u] \in pending' /\ next'[prev'[u]] = u
      <3> TAKE u \in pending'
      <3>1. CASE u = made
        BY <1>1, <1>3, <2>4, <3>1 DEF Timers, None
      <3>2. CASE u \in pending
        <4>1. prev[u] = cur => FALSE
          BY <1>1, <1>3, <3>2 DEF ListSound, Timers, None
        <4> QED BY <1>1, <1>3, <2>4, <3>2, <4>1 DEF ListSound
      <3> QED BY <1>3, <3>1, <3>2
    <2>8. ListSound'
      BY <2>5, <2>6, <2>7 DEF ListSound
    <2>9. WalkSound' /\ DelProgress' /\ CheckProgress'
      BY <1>3 DEF WalkSound, DelProgress, CheckProgress
    <2> QED BY <2>3, <2>8, <2>9
  <1> QED BY <1>2, <1>3 DEF AddStep, Return

\* A turn of to_del() passes a timer of another key, or unlinks it.
LEMMA DelStepInv ==
  ASSUME Inv, DelStep
  PROVE  Inv' /\ (pc' = "idle" => \A t \in pending' : key[t] # wanted)
  <1> USE TimerBounds DEF Inv
  <1>1. /\ cur \in pending /\ pc = "del"
        /\ UNCHANGED <<made, key, due, now, wanted, since>>
        /\ pending \subseteq Timers /\ Follows(next[cur], cur)
    BY DEF DelStep, WalkSound, TypeOK, Timers, ListSound
  <1>2. \/ next[cur] # None /\ cur' = next[cur] /\ pc' = "del"
        \/ next[cur] = None /\ cur' = None /\ pc' = "idle"
    BY <1>1 DEF DelStep, Return
  <1>3. cur' \in Timers \cup {None} /\ pc' \in {"idle", "check", "add", "del"}
    BY <1>1, <1>2 DEF TypeOK
  <1>4. /\ ListSound' /\ TypeOK'
        /\ \/ pending' = pending \ {cur}
           \/ pending' = pending /\ key[cur] # wanted
    <2>1. CASE Unlink(cur)
      BY <1>1, <1>3, <2>1, UnlinkSound, UnlinkType DEF Unlink
    <2>2. CASE UNCHANGED <<first, next, prev, pending>> /\ key[cur] # wanted
      BY <1>1, <1>3, <2>2 DEF ListSound, Follows, TypeOK
    <2> QED BY <2>1, <2>2 DEF DelStep
  <1>5. WalkSound'
    BY <1>1, <1>2, <1>4 DEF WalkSound, Follows, Timers, None
  <1>6. \A t \in pending' : (pc' = "idle" \/ t < cur') => key[t] # wanted
    <2>1. \A t \in pending : t < cur => key[t] # wanted
      BY <1>1 DEF DelProgress
    <2>2. cur \in Nat /\ next[cur] \in Nat /\ pending \subseteq Nat
      BY <1>1 DEF TypeOK, Timers, None
    <2>3. \A t \in pending : next[cur] = None \/ t < next[cur] => t <= cur
      BY <1>1, <2>2, NothingBetween
    <2> TAKE t \in pending'
    <2>4. t \in pending /\ (t = cur => key[cur] # wanted) /\ t \in Nat
      BY <1>4, <2>2
    <2>5. pc' = "idle" \/ t < cur' => t <= cur
      BY <1>2, <2>3, <2>4
    <2> QED BY <2>1, <2>2, <2>4, <2>5
  <1>7. DelProgress' /\ CheckProgress'
    BY <1>1, <1>2, <1>6 DEF DelProgress, CheckProgress
  <1> QED BY <1>4, <1>5, <1>6, <1>7

-----------------------------------------------------------------------------
(* The theorems *)

\* At the start the list is empty.
LEMMA InitInv == Init => Inv
  <1> SUFFICES ASSUME Init PROVE Inv
    OBVIOUS
  <1> USE TimerBounds DEF Init
  <1>1. (CHOOSE k \in Keys : TRUE) \in Keys
    BY KeysAssumption
  <1>2. key \in [Timers -> Keys] /\ wanted \in Keys
    BY <1>1
  <1>3. /\ made = 0 /\ due = [t \in Timers |-> 0] /\ next = [t \in Timers |-> None]
        /\ prev = [t \in Timers |-> None] /\ first = None /\ now = 0 /\ pc = "idle"
        /\ cur = None /\ pending = {} /\ since = 0
    OBVIOUS
  <1> HIDE DEF Init
  <1>4. TypeOK
    BY <1>2, <1>3 DEF TypeOK, Timers, Times, None
  <1> USE DEF Init
  <1>5. ListSound
    BY DEF ListSound, Follows
  <1>6. WalkSound /\ DelProgress /\ CheckProgress
    BY DEF WalkSound, DelProgress, CheckProgress
  <1> QED BY <1>4, <1>5, <1>6 DEF Inv

\* Every step keeps the invariant.
LEMMA NextInv == Inv /\ [Next]_vars => Inv'
  <1> SUFFICES ASSUME Inv, [Next]_vars PROVE Inv'
    OBVIOUS
  <1>1. CASE UNCHANGED vars
    BY <1>1 DEF vars, list, Inv, TypeOK, ListSound, Follows, WalkSound,
                DelProgress, CheckProgress
  <1>2. CASE Tick \/ EndCheck
    BY <1>2, QuietInv
  <1>3. CASE StartCheck \/ \E k \in Keys : StartDel(k)
    BY <1>3, StartInv
  <1>4. CASE CheckStep
    BY <1>4, CheckStepInv
  <1>5. CASE \E k \in Keys, r \in Times : StartAdd(k, r)
    BY <1>5, StartAddInv
  <1>6. CASE AddStep
    BY <1>6, AddStepInv
  <1>7. CASE DelStep
    BY <1>7, DelStepInv
  <1> QED BY <1>1, <1>2, <1>3, <1>4, <1>5, <1>6, <1>7 DEF Next

\* The invariant holds in every reachable state.
THEOREM InvCorrect == Spec => []Inv
  <1> QED BY InitInv, NextInv, PTL DEF Spec

\* The list of to.c holds exactly the pending timers, in the order in which
\* they were set, in both directions.
THEOREM ListCorrect == Spec => []ListSound
  <1>1. Inv => ListSound
    BY DEF Inv
  <1> QED BY InvCorrect, <1>1, PTL

\* The loops of to.c never stand at a timer that was unlinked.
THEOREM WalkCorrect == Spec => []WalkSound
  <1>1. Inv => WalkSound
    BY DEF Inv
  <1> QED BY InvCorrect, <1>1, PTL

\* to_del() returns only when no timer of the action and data is left.
THEOREM DelCorrect == Spec => DelComplete
  <1>1. Inv /\ [Next]_vars =>
          [pc = "del" /\ pc' = "idle" => \A t \in pending' : key[t] # wanted]_vars
    <2> SUFFICES ASSUME Inv, Next, pc = "del", pc' = "idle"
                 PROVE  \A t \in pending' : key[t] # wanted
      OBVIOUS
    <2>1. DelStep
      BY DEF Next, Tick, StartCheck, CheckStep, EndCheck, StartAdd, AddStep, StartDel
    <2> QED BY <2>1, DelStepInv
  <1> QED BY InvCorrect, <1>1, PTL DEF Spec, DelComplete

\* to_chk() returns only when no timer is left that was due when it was called.
THEOREM CheckCorrect == Spec => CheckComplete
  <1>1. Inv /\ [Next]_vars =>
          [pc = "check" /\ pc' = "idle" => \A t \in pending' : due[t] > since]_vars
    <2> SUFFICES ASSUME Inv, Next, pc = "check", pc' = "idle"
                 PROVE  \A t \in pending' : due[t] > since
      OBVIOUS
    <2>1. EndCheck
      BY DEF Next, Tick, StartCheck, CheckStep, StartAdd, AddStep, StartDel, DelStep
    <2>2. cur = None /\ pending' = pending
      BY <2>1 DEF EndCheck, list
    <2> QED BY <2>2 DEF Inv, CheckProgress
  <1> QED BY InvCorrect, <1>1, PTL DEF Spec, CheckComplete

\* main() uses the timers as Timers allows, so what holds of Timers holds in
\* the program.
THEOREM LoopUsesTimers == LoopSpec => Spec
  <1>1. LoopInit => Init
    BY DEF LoopInit
  <1>2. [LoopNext]_loopVars => [Next]_vars
    <2> SUFFICES ASSUME [LoopNext]_loopVars PROVE [Next]_vars
      OBVIOUS
    <2>1. CASE ReadStatus \/ WriteStatus \/ Test \/ RememberSecond
      BY <2>1 DEF ReadStatus, WriteStatus, Test, RememberSecond, Next
    <2>2. CASE RunTimers \/ Ran \/ InTimers \/ Callback
      BY <2>2 DEF RunTimers, Ran, InTimers, Callback, Next
    <2>3. CASE EndTurn \/ Die \/ Time
      BY <2>3 DEF EndTurn, Die, Time, Next
    <2>4. CASE UNCHANGED loopVars
      BY <2>4 DEF loopVars
    <2> QED BY <2>1, <2>2, <2>3, <2>4 DEF LoopNext, Thread
  <1> QED BY <1>1, <1>2, PTL DEF LoopSpec, Spec

\* Every variable of to.c holds a value of its kind; the pointers are timers.
THEOREM TypeCorrect == Spec => []TypeOK
  <1>1. Inv => TypeOK
    BY DEF Inv
  <1> QED BY InvCorrect, <1>1, PTL

\* What main() has of its own; while the loop runs, the third signal has not
\* come.
LoopInv ==
  /\ at \in {"start", "store", "test", "timers", "sockets", "over"}
  /\ status \subseteq {"INITIALIZED", "QUITTING"} /\ copy \subseteq status
  /\ last \in Times /\ SigCnt \in 0 .. 3
  /\ at # "over" => SigCnt < 3

LEMMA LoopStepInv ==
  ASSUME TypeOK, LoopInv, [LoopNext]_loopVars
  PROVE  LoopInv'
  <1> USE DEF LoopInv
  <1>1. CASE ReadStatus \/ WriteStatus
    BY <1>1 DEF ReadStatus, WriteStatus
  <1>2. CASE Test \/ EndTurn
    BY <1>2 DEF Test, EndTurn
  <1>3. CASE RunTimers \/ Ran \/ Callback \/ InTimers
    BY <1>3 DEF RunTimers, Ran, Callback, InTimers, own
  <1>4. CASE RememberSecond
    BY <1>4 DEF RememberSecond, TypeOK
  <1>5. CASE Die
    <2>1. SigCnt' \in 0 .. 3 /\ (at' # "over" => SigCnt' < 3)
      BY <1>5 DEF Die
    <2>2. at' = at \/ at' = "over"
      BY <1>5 DEF Die
    <2>3. status' \in {status, status \cup {"QUITTING"}}
          /\ UNCHANGED <<copy, last>>
      BY <1>5 DEF Die
    <2>4. Times' = Times
      BY DEF Times
    <2> QED BY <2>1, <2>2, <2>3, <2>4
  <1>6. CASE Time \/ UNCHANGED loopVars
    BY <1>6 DEF Time, own, loopVars
  <1> QED BY <1>1, <1>2, <1>3, <1>4, <1>5, <1>6 DEF LoopNext, Thread

\* main() keeps to its types, and the third signal is the last.
THEOREM LoopTypeCorrect == LoopSpec => []LoopTypeOK
  <1>1. LoopInit => LoopInv
    BY DEF LoopInit, LoopInv
  <1>2. TypeOK /\ LoopInv /\ [LoopNext]_loopVars => LoopInv'
    BY LoopStepInv
  <1>3. TypeOK /\ LoopInv => LoopTypeOK
    BY DEF LoopInv, LoopTypeOK
  <1> QED BY <1>1, <1>2, <1>3, LoopUsesTimers, TypeCorrect, PTL DEF LoopSpec
=============================================================================
