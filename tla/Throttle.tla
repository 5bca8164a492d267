------------------------------ MODULE Throttle ------------------------------
(***************************************************************************)
(* The connection throttle of src/msocket/conn.c, compiled in (the         *)
(* --enable-throttling of HOWTO): addresses that sent bad credentials, how *)
(* often, and when last.                                                   *)
(*                                                                         *)
(* The list is the sequence of its entries, the element                    *)
(* _lms_throttle_last last; the code walks it backwards along prev.        *)
(*                                                                         *)
(* lms_throttle_expire() reads the prev of an entry it has just freed.     *)
(* That is what the entry had there, or, when free() has overwritten it,   *)
(* anything: the walk is then `wild' and nothing is claimed about the      *)
(* program any more.  The walk is one step for each entry, because the     *)
(* clock is read for each.                                                 *)
(***************************************************************************)
EXTENDS Integers, SequencesExt

CONSTANTS
  Addrs,        \* IPv4 addresses other than 0
  After,        \* LMS_THROTTLE_AFTER
  Expire,       \* LMS_THROTTLE_EXPIRE
  MaxOffenses,  \* bound: offenses of one address
  MaxTime       \* bound: the latest time

ASSUME AddrsAssumption == Addrs # {}
ASSUME ThrottleAssumption == After \in Nat \ {0} /\ Expire \in Nat
ASSUME ThrottleBounds == MaxOffenses \in Nat /\ MaxTime \in Nat

VARIABLES
  throttles,  \* the list: addr, last_bad and offenses of each entry
  walk,       \* where lms_throttle_expire() is in the list, or 0
  now,        \* time(NULL)
  bad,        \* history: when each address offended, kept by the clock alone
  wild        \* the expiry went on from a freed entry that was overwritten

throttleVars == <<throttles, walk, now, bad, wild>>

ThrottleInit ==
  /\ throttles = <<>> /\ walk = 0 /\ now = 0
  /\ bad = [a \in Addrs |-> <<>>] /\ wild = FALSE

Listed == {throttles[i].addr : i \in DOMAIN throttles}
Entry(a) == CHOOSE e \in ToSet(throttles) : e.addr = a

\* lms_throttle_check()
Offenses(a) == IF a \in Listed THEN Entry(a).offenses ELSE 0

Offense(a) == [addr |-> a, last_bad |-> now, offenses |-> 1]

\* lms_throttle_setbad(): an entry is updated, or put at the end of the list;
\* without memory for it nothing happens.
SetBad(a) ==
  /\ Len(bad[a]) < MaxOffenses
  /\ throttles' =
       IF a \in Listed
         THEN [i \in DOMAIN throttles |->
                 IF throttles[i].addr = a
                   THEN [Offense(a) EXCEPT !.offenses = throttles[i].offenses + 1]
                   ELSE throttles[i]]
         ELSE Append(throttles, Offense(a))
  /\ bad' = [bad EXCEPT ![a] = Append(@, now)]
  /\ UNCHANGED <<walk, now, wild>>

\* slip: forgets an entry a second early
QuietEarly(e) == e.last_bad <= now - Expire

Quiet(e) == e.last_bad < now - Expire

\* The last offense of an address was more than Expire seconds ago.
Overdue(a) == bad[a] # <<>> /\ bad[a][Len(bad[a])] < now - Expire

\* lms_throttle_expire() starts at the end of the list.  What it has to forget
\* is forgotten in the history, whatever it finds in the list.
StartExpire ==
  /\ walk' = Len(throttles)
  /\ bad' = [a \in Addrs |-> IF Overdue(a) THEN <<>> ELSE bad[a]]
  /\ UNCHANGED <<throttles, now, wild>>

\* lms_throttle_remove()
RemoveThrottle(i) == throttles' = RemoveAt(throttles, i)

\* slip: takes the list to be in the order of the last offenses
ExpireStepOrdered ==
  /\ walk > 0
  /\ \/ /\ Quiet(throttles[walk]) /\ RemoveThrottle(walk)
        /\ walk' = walk - 1 /\ wild' \in BOOLEAN
     \/ /\ ~Quiet(throttles[walk])
        /\ walk' = 0 /\ UNCHANGED <<throttles, wild>>
  /\ UNCHANGED <<now, bad>>

\* A turn of it: a quiet entry is removed, and its prev is then read.
ExpireStep ==
  /\ walk > 0 /\ walk' = walk - 1
  /\ \/ Quiet(throttles[walk]) /\ RemoveThrottle(walk) /\ wild' \in BOOLEAN
     \/ ~Quiet(throttles[walk]) /\ UNCHANGED <<throttles, wild>>
  /\ UNCHANGED <<now, bad>>

Tick == now < MaxTime /\ now' = now + 1 /\ UNCHANGED <<throttles, walk, bad, wild>>

-----------------------------------------------------------------------------
(* Properties *)

ThrottleTypeOK ==
  /\ throttles \in Seq([addr : Addrs, last_bad : 0 .. MaxTime,
                        offenses : 1 .. MaxOffenses])
  /\ walk \in 0 .. Len(throttles)
  /\ now \in 0 .. MaxTime
  /\ bad \in [Addrs -> Seq(0 .. MaxTime)]
  /\ \A a \in Addrs : Len(bad[a]) <= MaxOffenses
  /\ wild \in BOOLEAN
=============================================================================
