------------------------------- MODULE Timers -------------------------------
(***************************************************************************)
(* The timer list of src/to.c, a doubly linked list of struct _Timeout.    *)
(*                                                                         *)
(* A timer's address is the number of the malloc() that made it: to.c      *)
(* never frees a timer, so an address is never handed out twice.  Time     *)
(* passes between any two steps of the thread, and each turn of the loops  *)
(* over the list is a step, because to_chk() reads the clock in each.      *)
(*                                                                         *)
(* `pending' and `since' are history variables, for the properties only:   *)
(* no action reads them.                                                   *)
(*                                                                         *)
(* Abstracted: action and data of a timer are one key, since they are only *)
(* compared, and together.  _to_exec() is empty, so running a timer is     *)
(* unlinking it.                                                           *)
(***************************************************************************)
EXTENDS Integers

CONSTANTS
  Keys,       \* pairs of an action and its data
  MaxTimers,  \* bound: timers ever set
  MaxTime     \* bound: the latest time

ASSUME TimerBounds == MaxTimers \in Nat /\ MaxTime \in Nat
ASSUME KeysAssumption == Keys # {}

Timers == 1 .. MaxTimers
Times == 0 .. MaxTime
None == 0      \* the null pointer

VARIABLES
  made,      \* timers malloc() has returned so far: 1 .. made
  key,       \* tptr->action and tptr->data
  due,       \* tptr->run
  next,      \* tptr->next
  prev,      \* tptr->prev
  first,     \* _to_first
  now,       \* time(NULL)
  pc,        \* the function the thread is in, or "idle"
  cur,       \* its md or tptr
  wanted,    \* the key that to_del() looks for
  pending,   \* history: timers set, and neither run nor deleted
  since      \* history: when to_chk() was last called

list == <<made, key, due, next, prev, first, pending>>
vars == <<list, now, pc, cur, wanted, since>>

Init ==
  /\ made = 0
  /\ key = [t \in Timers |-> CHOOSE k \in Keys : TRUE]
  /\ due = [t \in Timers |-> 0]
  /\ next = [t \in Timers |-> None]
  /\ prev = [t \in Timers |-> None]
  /\ first = None
  /\ now = 0
  /\ pc = "idle" /\ cur = None /\ wanted = CHOOSE k \in Keys : TRUE
  /\ pending = {} /\ since = 0

Tick ==
  /\ now < MaxTime
  /\ now' = now + 1
  /\ UNCHANGED <<list, pc, cur, wanted, since>>

-----------------------------------------------------------------------------
\* slip: the successor keeps pointing back at the timer
UnlinkOneWay(t) ==
  /\ first' = IF first = t THEN next[t] ELSE first
  /\ next' = IF prev[t] # None THEN [next EXCEPT ![prev[t]] = next[t]] ELSE next
  /\ UNCHANGED prev
  /\ pending' = pending \ {t}

\* _to_del(): the neighbours are joined; the timer's own pointers stay.
Unlink(t) ==
  /\ first' = IF first = t THEN next[t] ELSE first
  /\ next' = IF prev[t] # None THEN [next EXCEPT ![prev[t]] = next[t]] ELSE next
  /\ prev' = IF next[t] # None THEN [prev EXCEPT ![next[t]] = prev[t]] ELSE prev
  /\ pending' = pending \ {t}

\* A function of to.c returns to its caller.
Return == pc' = "idle" /\ cur' = None

-----------------------------------------------------------------------------
(* to_chk() *)

StartCheck ==
  /\ pc = "idle"
  /\ pc' = "check" /\ cur' = first /\ since' = now
  /\ UNCHANGED <<list, now, wanted>>

\* slip: the walk ends at the first timer that is not due
CheckSorted ==
  /\ pc = "check" /\ cur # None
  /\ \/ now >= due[cur] /\ Unlink(cur) /\ cur' = next'[cur]
     \/ now < due[cur] /\ UNCHANGED <<first, next, prev, pending>> /\ cur' = None
  /\ UNCHANGED <<made, key, due, now, pc, wanted, since>>

\* slip: the loop goes on to the next timer only where none ran
CheckStay ==
  /\ pc = "check" /\ cur # None
  /\ \/ now >= due[cur] /\ Unlink(cur) /\ UNCHANGED cur
     \/ now < due[cur] /\ UNCHANGED <<first, next, prev, pending>> /\ cur' = next[cur]
  /\ UNCHANGED <<made, key, due, now, pc, wanted, since>>

\* One turn of the loop: md is due, runs and is unlinked, or is not; the loop
\* goes on at md->next, read after the unlinking.
CheckStep ==
  /\ pc = "check" /\ cur # None
  /\ \/ now >= due[cur] /\ Unlink(cur)
     \/ now < due[cur] /\ UNCHANGED <<first, next, prev, pending>>
  /\ cur' = next'[cur]
  /\ UNCHANGED <<made, key, due, now, pc, wanted, since>>

EndCheck ==
  /\ pc = "check" /\ cur = None
  /\ Return
  /\ UNCHANGED <<list, now, wanted, since>>

-----------------------------------------------------------------------------
(* to_add() *)

\* A timer is made; it is the list, or a walk to the last one begins.  An
\* invalid action or a failing malloc() changes nothing.
StartAdd(k, r) ==
  LET new == made + 1 IN
  /\ pc = "idle" /\ made < MaxTimers
  /\ made' = new
  /\ key' = [key EXCEPT ![new] = k]
  /\ due' = [due EXCEPT ![new] = r]
  /\ next' = [next EXCEPT ![new] = None]
  /\ prev' = [prev EXCEPT ![new] = None]
  /\ \/ /\ first = None
        /\ first' = new /\ pending' = pending \cup {new}
        /\ UNCHANGED <<pc, cur>>
     \/ /\ first # None
        /\ pc' = "add" /\ cur' = first
        /\ UNCHANGED <<first, pending>>
  /\ UNCHANGED <<now, wanted, since>>

\* One turn of that walk, or its end: the timer made last is appended.
AddStep ==
  /\ pc = "add"
  /\ \/ /\ next[cur] # None
        /\ cur' = next[cur]
        /\ UNCHANGED <<next, prev, pending, pc>>
     \/ /\ next[cur] = None
        /\ next' = [next EXCEPT ![cur] = made]
        /\ prev' = [prev EXCEPT ![made] = cur]
        /\ pending' = pending \cup {made}
        /\ Return
  /\ UNCHANGED <<made, key, due, first, now, wanted, since>>

-----------------------------------------------------------------------------
(* to_del() *)

StartDel(k) ==
  /\ pc = "idle" /\ first # None
  /\ pc' = "del" /\ cur' = first /\ wanted' = k
  /\ UNCHANGED <<list, now, since>>

\* slip: to_del() returns when it has deleted one timer
DelOne ==
  /\ pc = "del"
  /\ \/ key[cur] = wanted /\ Unlink(cur) /\ Return
     \/ /\ key[cur] # wanted /\ UNCHANGED <<first, next, prev, pending>>
        /\ \/ next[cur] # None /\ cur' = next[cur] /\ UNCHANGED pc
           \/ next[cur] = None /\ Return
  /\ UNCHANGED <<made, key, due, now, wanted, since>>

\* One turn of the loop: tmp_tptr is read before tptr may be unlinked.
DelStep ==
  /\ pc = "del"
  /\ \/ key[cur] = wanted /\ Unlink(cur)
     \/ key[cur] # wanted /\ UNCHANGED <<first, next, prev, pending>>
  /\ \/ next[cur] # None /\ cur' = next[cur] /\ UNCHANGED pc
     \/ next[cur] = None /\ Return
  /\ UNCHANGED <<made, key, due, now, wanted, since>>

-----------------------------------------------------------------------------
Next ==
  \/ Tick
  \/ StartCheck \/ CheckStep \/ EndCheck
  \/ (\E k \in Keys, r \in Times : StartAdd(k, r)) \/ AddStep
  \/ (\E k \in Keys : StartDel(k)) \/ DelStep

Spec == Init /\ [][Next]_vars

-----------------------------------------------------------------------------
(* Properties *)

\* Every variable holds a value of its kind.
TypeOK ==
  /\ made \in 0 .. MaxTimers
  /\ key \in [Timers -> Keys]
  /\ due \in [Timers -> Times]
  /\ next \in [Timers -> Timers \cup {None}]
  /\ prev \in [Timers -> Timers \cup {None}]
  /\ first \in Timers \cup {None}
  /\ now \in Times
  /\ pc \in {"idle", "check", "add", "del"}
  /\ cur \in Timers \cup {None}
  /\ wanted \in Keys /\ since \in Times
  /\ pending \subseteq 1 .. made

\* t is the first of the pending timers after s, or None when there is none;
\* after None means from the beginning.
Follows(t, s) ==
  \/ /\ t \in pending /\ s < t
     /\ \A u \in pending : s < u => t <= u
  \/ /\ t = None
     /\ \A u \in pending : u <= s

\* The list holds exactly the pending timers, in the order in which they were
\* set, and can be walked in both directions: no timer that is to run is lost,
\* none that ran or was deleted can be met again.
ListSound ==
  /\ Follows(first, None)
  /\ \A t \in pending : Follows(next[t], t)
  /\ \A t \in pending : /\ prev[t] = None => first = t
                        /\ prev[t] # None => prev[t] \in pending /\ next[prev[t]] = t

\* The loops over the list stand at a pending timer, or at the end: to_chk()
\* does not go on through a timer that it has unlinked before.
WalkSound ==
  /\ cur # None => cur \in pending
  /\ pc \in {"add", "del"} => cur # None
  /\ pc = "add" => made \notin pending /\ next[made] = None

\* When to_del() returns no timer of that action and data is left to run.
DelComplete ==
  [][pc = "del" /\ pc' = "idle" => \A t \in pending' : key[t] # wanted]_vars

\* When to_chk() returns no timer is left that was due when it was called,
\* though timers fall due while it walks.
CheckComplete ==
  [][pc = "check" /\ pc' = "idle" => \A t \in pending' : due[t] > since]_vars
=============================================================================
