----------------------------- MODULE SocketLife -----------------------------
(***************************************************************************)
(* What libmsocket promises about the life of its sockets, free of lists,  *)
(* flags and events: the abstract specification that Sockets implements    *)
(* (Sockets!Life).                                                         *)
(*                                                                         *)
(* A socket object is allocated, opened on a descriptor nobody has, closed *)
(* and released.  A descriptor belongs to one socket until that socket is  *)
(* closed.  A socket that is closed while the resolver still holds a       *)
(* pointer to it stays allocated, as a corpse, until the answer came.      *)
(***************************************************************************)
CONSTANTS Socks, None, Fds

VARIABLES
  phase,   \* of each address: "free", "fresh", "open" or "dead"
  owner,   \* the socket that has the descriptor, or None
  asked    \* sockets the resolver holds a pointer to

vars == <<phase, owner, asked>>

Init ==
  /\ phase = [m \in Socks |-> "free"]
  /\ owner = [f \in Fds |-> None]
  /\ asked = {}

Create(m) ==
  /\ phase[m] = "free" /\ m \notin asked
  /\ phase' = [phase EXCEPT ![m] = "fresh"]
  /\ UNCHANGED <<owner, asked>>

Discard(m) ==
  /\ phase[m] = "fresh"
  /\ phase' = [phase EXCEPT ![m] = "free"]
  /\ UNCHANGED <<owner, asked>>

Open(m, f) ==
  /\ phase[m] = "fresh" /\ owner[f] = None
  /\ phase' = [phase EXCEPT ![m] = "open"]
  /\ owner' = [owner EXCEPT ![f] = m]
  /\ UNCHANGED asked

Ask(m) ==
  /\ phase[m] = "open"
  /\ asked' = asked \cup {m}
  /\ UNCHANGED <<phase, owner>>

Answer(m) ==
  /\ asked' = asked \ {m}
  /\ UNCHANGED <<phase, owner>>

\* One socket, or all of one type, are closed together with their descriptors.
Close(S) ==
  /\ S # {} /\ \A m \in S : phase[m] = "open"
  /\ phase' = [m \in Socks |-> IF m \notin S THEN phase[m]
                               ELSE IF m \in asked THEN "dead" ELSE "free"]
  /\ owner' = [f \in Fds |-> IF owner[f] \in S THEN None ELSE owner[f]]
  /\ UNCHANGED asked

Bury(m) ==
  /\ phase[m] = "dead" /\ m \notin asked
  /\ phase' = [phase EXCEPT ![m] = "free"]
  /\ UNCHANGED <<owner, asked>>

Next ==
  \/ \E m \in Socks : Create(m) \/ Discard(m) \/ Ask(m) \/ Answer(m) \/ Bury(m)
  \/ \E m \in Socks, f \in Fds : Open(m, f)
  \/ \E S \in SUBSET Socks : Close(S)

Spec == Init /\ [][Next]_vars
=============================================================================
