------------------------------ MODULE MainLoop ------------------------------
(***************************************************************************)
(* main() of src/main.c: the start, the loop that runs the timers of to.c  *)
(* at most once a second and libmsocket in every turn, and the signals     *)
(* that end it.  The loop runs to_chk() of Timers, and the callbacks of    *)
(* lms_loop() may set and delete timers.                                   *)
(*                                                                         *)
(* As committed main.c does not compile: it calls to_chk() by the name     *)
(* to_check(), declares the flags of `status' as a pointer, and counts     *)
(* signals in an undeclared SigCnt.  The model takes to_chk(), an integer, *)
(* and a global integer that starts at 0.                                  *)
(*                                                                         *)
(* `last' is read before it is set, so it starts with any value.  `status' *)
(* is neither volatile nor atomic and the handlers change it too: setting  *)
(* STATUS_INITIALIZED is a read and a write, between which a signal may    *)
(* come.  In the loop it is read in every turn, since lms_loop() might     *)
(* change it.                                                              *)
(***************************************************************************)
EXTENDS Timers

VARIABLES
  at,      \* where main() is: "start", "store", "test", "timers", "sockets"
           \* or "over"
  status,  \* the flags in status
  copy,    \* status as read, before STATUS_INITIALIZED is written back
  last,    \* last
  SigCnt   \* signals that asked for the end

own == <<at, status, copy, last, SigCnt>>
loopVars == <<vars, own>>

LoopInit ==
  /\ Init
  /\ at = "start" /\ status = {} /\ copy = {}
  /\ last \in Times
  /\ SigCnt = 0

\* status |= STATUS_INITIALIZED, after the init functions
ReadStatus ==
  /\ at = "start"
  /\ at' = "store" /\ copy' = status
  /\ UNCHANGED <<vars, status, last, SigCnt>>

WriteStatus ==
  /\ at = "store"
  /\ at' = "test" /\ status' = copy \cup {"INITIALIZED"}
  /\ UNCHANGED <<vars, copy, last, SigCnt>>

\* slip: the timers run only in the very next second
TestExact ==
  /\ at = "test"
  /\ \/ /\ "QUITTING" \in status
        /\ at' = "over" /\ UNCHANGED vars
     \/ /\ "QUITTING" \notin status /\ now = last + 1
        /\ StartCheck /\ at' = "timers"
     \/ /\ "QUITTING" \notin status /\ now # last + 1
        /\ at' = "sockets" /\ UNCHANGED vars
  /\ UNCHANGED <<status, copy, last, SigCnt>>

\* The condition of the loop, and whether the second has changed
Test ==
  /\ at = "test"
  /\ \/ /\ "QUITTING" \in status
        /\ at' = "over" /\ UNCHANGED vars
     \/ /\ "QUITTING" \notin status /\ now > last
        /\ StartCheck /\ at' = "timers"
     \/ /\ "QUITTING" \notin status /\ now <= last
        /\ at' = "sockets" /\ UNCHANGED vars
  /\ UNCHANGED <<status, copy, last, SigCnt>>

\* to_chk() works, and has returned
RunTimers == at = "timers" /\ CheckStep /\ UNCHANGED own
Ran == at = "timers" /\ EndCheck /\ UNCHANGED own

RememberSecond ==
  /\ at = "timers" /\ pc = "idle"
  /\ last' = now /\ at' = "sockets"
  /\ UNCHANGED <<vars, status, copy, SigCnt>>

\* lms_loop(): callbacks set and delete timers; then usleep() and the next turn.
Callback ==
  /\ at = "sockets"
  /\ \E k \in Keys : StartDel(k) \/ \E r \in Times : StartAdd(k, r)
  /\ UNCHANGED own

InTimers == at = "sockets" /\ (AddStep \/ DelStep) /\ UNCHANGED own

EndTurn ==
  /\ at = "sockets" /\ pc = "idle"
  /\ at' = "test"
  /\ UNCHANGED <<vars, status, copy, last, SigCnt>>

\* slip: the handler exits one signal late
DieLate ==
  /\ at # "over"
  /\ SigCnt' = SigCnt + 1
  /\ \/ SigCnt' <= 3 /\ status' = status \cup {"QUITTING"} /\ UNCHANGED at
     \/ SigCnt' > 3 /\ at' = "over" /\ UNCHANGED status
  /\ UNCHANGED <<vars, copy, last>>

\* sh_die(): asks for the end; the third time the process exits in the handler.
Die ==
  /\ at # "over"
  /\ SigCnt' = SigCnt + 1
  /\ \/ SigCnt' < 3 /\ status' = status \cup {"QUITTING"} /\ UNCHANGED at
     \/ SigCnt' >= 3 /\ at' = "over" /\ UNCHANGED status
  /\ UNCHANGED <<vars, copy, last>>

Time == at # "over" /\ Tick /\ UNCHANGED own

Thread ==
  \/ ReadStatus \/ WriteStatus \/ Test
  \/ RunTimers \/ Ran \/ RememberSecond \/ InTimers

LoopNext == Thread \/ Callback \/ EndTurn \/ Die \/ Time

LoopSpec == LoopInit /\ [][LoopNext]_loopVars

(* The thread goes on, lms_loop() calls finitely many callbacks and returns,  *)
(* and time passes.                                                           *)
LoopFairness ==
  /\ WF_loopVars(Thread) /\ SF_loopVars(EndTurn) /\ WF_loopVars(Time)

FairLoopSpec == LoopSpec /\ LoopFairness

-----------------------------------------------------------------------------
(* Properties *)

\* main() keeps to its types, and the third signal is the last.
LoopTypeOK ==
  /\ TypeOK
  /\ at \in {"start", "store", "test", "timers", "sockets", "over"}
  /\ status \subseteq {"INITIALIZED", "QUITTING"} /\ copy \subseteq status
  /\ last \in Times /\ SigCnt \in 0 .. 3

\* A timer that is due runs, or is deleted, unless the loop ends, if `last'
\* happens to start no later than the clock.  One that falls due behind the walk
\* of to_chk() runs in a later second, which the clock must still have: bound,
\* as the clock stops at MaxTime, are the timers that are due outside the walk
\* while that second has not been served.
DueTimersRun ==
  last <= now =>
    \A t \in Timers :
      t \in pending /\ due[t] <= now /\ at # "timers" /\ last < MaxTime
        ~> t \notin pending \/ at = "over"
=============================================================================
