-------------------------- MODULE SocketsLifeProofs --------------------------
(***************************************************************************)
(* Sockets implements SocketLife: every step of the code, seen through the *)
(* refinement mapping of Sockets!Life, is a step of the promised life of   *)
(* the sockets or leaves it unchanged.  SocketLife makes a corpse exactly  *)
(* of a socket that the resolver still holds, so no look-up may get lost   *)
(* here: a mark without a query makes a corpse that nobody asks about.     *)
(***************************************************************************)
EXTENDS SocketsProofs

\* The mapping's variables
Asked == {m \in Socks : ptrQ[m] + aQ[m] > 0}

-----------------------------------------------------------------------------
(* The phases, by cases *)

\* The phase of a socket in the present state
LEMMA PhaseNow ==
  ASSUME NEW m \in Socks
  PROVE  Phase(m) = IF type[m] = "free" THEN "free"
                    ELSE IF "WAITDESTROY" \in flags[m] THEN "dead"
                    ELSE IF fd[m] = NoFd THEN "fresh" ELSE "open"
  BY DEF Phase, Live, Dead

\* and in the next one
LEMMA PhaseNext ==
  ASSUME NEW m \in Socks
  PROVE  Phase(m)' = IF type'[m] = "free" THEN "free"
                     ELSE IF "WAITDESTROY" \in flags'[m] THEN "dead"
                     ELSE IF fd'[m] = NoFd THEN "fresh" ELSE "open"
  BY DEF Phase, Live, Dead

\* A socket whose type, descriptor and death mark stay keeps its phase.
LEMMA SamePhase ==
  ASSUME NEW m \in Socks, type'[m] = type[m], fd'[m] = fd[m],
         "WAITDESTROY" \in flags'[m] <=> "WAITDESTROY" \in flags[m]
  PROVE  Phase(m)' = Phase(m)
  BY PhaseNow, PhaseNext

\* With no look-up lost, the mark and the queries say the same.
LEMMA MarkedIsAsked ==
  ASSUME Allowed = {}, Inv, NEW m \in Socks
  PROVE  m \in Asked <=> "WAITDNS" \in flags[m]
  BY InvMeans DEF Asked, LookupsProtected, AnswersDue, WaitsForAnswer

\* A step that touches neither sockets, list nor queries
LEMMA LifeStutters ==
  ASSUME UNCHANGED <<type, fd, list, ptrQ, aQ>>,
         \A m \in Socks : "WAITDESTROY" \in flags'[m] <=> "WAITDESTROY" \in flags[m]
  PROVE  UNCHANGED Life!vars
  <1>1. \A m \in Socks : Phase(m)' = Phase(m)
    BY SamePhase
  <1>2. [m \in Socks |-> Phase(m)]' = [m \in Socks |-> Phase(m)]
    BY <1>1
  <1> QED BY <1>2 DEF Life!vars

\* A step that moves one socket to phase p and no other socket
LEMMA OneMoves ==
  ASSUME NEW m \in Socks, NEW p, Phase(m)' = p,
         \A x \in Socks : x # m =>
           type'[x] = type[x] /\ fd'[x] = fd[x] /\ flags'[x] = flags[x]
  PROVE  [x \in Socks |-> Phase(x)]' = [[x \in Socks |-> Phase(x)] EXCEPT ![m] = p]
  <1>1. \A x \in Socks : x # m => Phase(x)' = Phase(x)
    BY SamePhase
  <1> QED BY <1>1

-----------------------------------------------------------------------------
(* The steps of the library as steps of the promised life *)

\* lms_socket_create(), and the object that lms_conn_accept() makes
LEMMA CreateLife ==
  ASSUME Inv, NEW m \in Socks, NEW t \in {"LISTEN", "STREAM"}, ~Live(m),
         type' = [type EXCEPT ![m] = t], UNCHANGED <<fd, flags, list, ptrQ, aQ>>
  PROVE  Life!Create(m)
  <1>1. fd[m] = NoFd /\ flags[m] = {}
    BY InvMeans DEF Bookkeeping
  <1>2. m \notin Asked
    BY InvMeans DEF Asked, LookupsProtected
  <1>3. Phase(m) = "free" /\ Phase(m)' = "fresh"
    BY <1>1, PhaseNow, PhaseNext DEF Live, Inv, Registry, TypeOK
  <1>4. \A x \in Socks : x # m => type'[x] = type[x]
    BY DEF Inv, Registry, TypeOK
  <1>5. [x \in Socks |-> Phase(x)]' = [[x \in Socks |-> Phase(x)] EXCEPT ![m] = "fresh"]
    BY <1>3, <1>4, OneMoves
  <1> QED BY <1>2, <1>3, <1>5 DEF Life!Create, Asked

\* A socket that could not be opened is destroyed.
LEMMA DiscardLife ==
  ASSUME Inv, NEW m \in Socks, Live(m), fd[m] = NoFd,
         type' = [type EXCEPT ![m] = "free"], UNCHANGED <<list, ptrQ, aQ>>,
         \A x \in Socks : x # m => fd'[x] = fd[x] /\ flags'[x] = flags[x]
  PROVE  Life!Discard(m)
  <1>1. flags[m] = {}
    BY InvMeans DEF Bookkeeping
  <1>2. Phase(m) = "fresh" /\ Phase(m)' = "free"
    BY <1>1, PhaseNow, PhaseNext DEF Live, Inv, Registry, TypeOK
  <1>3. \A x \in Socks : x # m => type'[x] = type[x]
    BY DEF Inv, Registry, TypeOK
  <1>4. [x \in Socks |-> Phase(x)]' = [[x \in Socks |-> Phase(x)] EXCEPT ![m] = "free"]
    BY <1>2, <1>3, OneMoves
  <1> QED BY <1>2, <1>4 DEF Life!Discard

\* A socket gets a descriptor: lms_socket_ilisten(), lms_socket_iconn() or
\* lms_socket_iaccept().
LEMMA OpenLife ==
  ASSUME Inv, NEW m \in Socks, NEW f \in ClosedFds, Live(m), fd[m] = NoFd,
         fd' = [fd EXCEPT ![m] = f], list' = [list EXCEPT ![f] = m],
         UNCHANGED <<type, ptrQ, aQ>>, "WAITDESTROY" \notin flags'[m],
         \A x \in Socks : x # m => flags'[x] = flags[x]
  PROVE  Life!Open(m, f)
  <1>1. f \in Fds /\ list[f] = None /\ f # NoFd
    BY DEF ClosedFds, Inv, Registry, RegistrySound, Fds, NoFd
  <1>2. flags[m] = {}
    BY InvMeans DEF Bookkeeping
  <1>3. Phase(m) = "fresh" /\ Phase(m)' = "open"
    BY <1>1, <1>2, PhaseNow, PhaseNext DEF Live, Inv, Registry, TypeOK
  <1>4. \A x \in Socks : x # m => fd'[x] = fd[x]
    BY DEF Inv, Registry, TypeOK
  <1>5. [x \in Socks |-> Phase(x)]' = [[x \in Socks |-> Phase(x)] EXCEPT ![m] = "open"]
    BY <1>3, <1>4, OneMoves
  <1> QED BY <1>1, <1>3, <1>5 DEF Life!Open

\* A step of a look-up asks, answers, or passes from one query to the next.
LEMMA LookupLife ==
  ASSUME Inv, NEW m \in Socks, LookupStep(m),
         Phase(m) = "open" \/ m \in Asked
  PROVE  Life!Ask(m) \/ Life!Answer(m) \/ UNCHANGED Life!vars
  <1>1. UNCHANGED <<type, fd, list>>
    BY DEF LookupStep, tables
  <1>2. \A x \in Socks : "WAITDESTROY" \in flags'[x] <=> "WAITDESTROY" \in flags[x]
    BY DEF LookupStep, Settle, Inv, Registry, TypeOK
  <1>3. [x \in Socks |-> Phase(x)]' = [x \in Socks |-> Phase(x)]
    <2>1. \A x \in Socks : Phase(x)' = Phase(x)
      BY <1>1, <1>2, SamePhase
    <2> QED BY <2>1
  <1>4. Asked' = Asked \cup {m} \/ Asked' = Asked \ {m}
    <2>1. \A x \in Socks : x # m => ptrQ'[x] = ptrQ[x] /\ aQ'[x] = aQ[x]
      BY DEF LookupStep, Outstanding, Inv, Registry, TypeOK
    <2>2. \A x \in Socks : x # m => (x \in Asked' <=> x \in Asked)
      BY <2>1 DEF Asked
    <2> QED BY <2>2 DEF Asked
  <1>5. CASE Asked' = Asked \cup {m} /\ Phase(m) = "open"
    BY <1>1, <1>3, <1>5 DEF Life!Ask, Asked
  <1>6. CASE Asked' = Asked \cup {m} /\ m \in Asked
    <2> Asked' = Asked
      BY <1>6
    <2> QED BY <1>1, <1>3 DEF Life!vars, Asked
  <1>7. CASE Asked' = Asked \ {m}
    BY <1>1, <1>3, <1>7 DEF Life!Answer, Asked
  <1> QED BY <1>4, <1>5, <1>6, <1>7

\* An open socket is destroyed.
LEMMA CloseLife ==
  ASSUME Allowed = {}, Inv, NEW m \in Socks, Live(m), ~Dead(m), fd[m] # NoFd,
         Close(m), UNCHANGED queries
  PROVE  Life!Close({m})
  <1>1. Phase(m) = "open"
    BY PhaseNow DEF Live, Dead
  <1>2. Phase(m)' = IF m \in Asked THEN "dead" ELSE "free"
    <2>1. CASE "WAITDNS" \in flags[m]
      <3>1. UNCHANGED type /\ "WAITDESTROY" \in flags'[m]
        BY <2>1, CloseEffect DEF Inv
      <3> QED BY <2>1, <3>1, MarkedIsAsked, PhaseNext DEF Live
    <2>2. CASE "WAITDNS" \notin flags[m]
      <3>1. type'[m] = "free"
        BY <2>2, CloseEffect DEF Free, Inv, Registry, TypeOK
      <3> QED BY <2>2, <3>1, MarkedIsAsked, PhaseNext
    <2> QED BY <2>1, <2>2
  <1>3. \A x \in Socks : x # m => Phase(x)' = Phase(x)
    BY CloseEffect, SamePhase DEF Inv
  <1>4. \A x \in Socks : Phase(x)' = IF x \notin {m} THEN Phase(x)
                                   ELSE IF x \in Asked THEN "dead" ELSE "free"
    BY <1>2, <1>3
  <1>5. list' = [f \in Fds |-> IF list[f] \in {m} THEN None ELSE list[f]]
    <2>1. list' = [list EXCEPT ![fd[m]] = None] /\ list[fd[m]] = m
      BY CloseEffect DEF Inv
    <2>2. \A f \in Fds : list[f] = m <=> f = fd[m]
      BY <2>1, NoneAssumption DEF Inv, Registry, RegistrySound
    <2> QED BY <2>1, <2>2 DEF Inv, Registry, TypeOK
  <1>6. UNCHANGED <<ptrQ, aQ>>
    BY DEF queries
  <1> QED BY <1>1, <1>4, <1>5, <1>6 DEF Life!Close, Asked

\* lms_socket_destroytype() closes all sockets of the type at once.
LEMMA DestroyTypeLife ==
  ASSUME Allowed = {}, Inv, NEW t \in {"LISTEN", "STREAM"}, DestroyType(t)
  PROVE  \E S \in SUBSET Socks : Life!Close(S)
  <1> DEFINE doomed == {m \in Socks : Registered(m) /\ type[m] = t}
             freed  == {m \in doomed : "WAITDNS" \notin flags[m]}
  <1>1. /\ doomed # {}
        /\ list' = [f \in Fds |-> IF list[f] \in doomed THEN None ELSE list[f]]
        /\ type' = [m \in Socks |-> IF m \in freed THEN "free" ELSE type[m]]
        /\ fd' = [m \in Socks |-> IF m \in freed THEN NoFd ELSE fd[m]]
        /\ flags' = [m \in Socks |->
                       IF m \in freed THEN {}
                       ELSE IF m \in doomed
                         THEN (flags[m] \ {"CONNECTED", "MUXACTIVE"}) \cup {"WAITDESTROY"}
                         ELSE flags[m]]
        /\ UNCHANGED <<ptrQ, aQ>>
    BY DEF DestroyType, queries
  <1>2. \A m \in doomed : Phase(m) = "open" /\ Live(m)
    BY RegisteredIsOpen, PhaseNow DEF Live, Dead, Registered, Inv
  <1>3. \A m \in Socks : m \in freed <=> m \in doomed /\ m \notin Asked
    BY MarkedIsAsked
  <1>4. \A m \in Socks : Phase(m)' = IF m \notin doomed THEN Phase(m)
                                   ELSE IF m \in Asked THEN "dead" ELSE "free"
    <2> TAKE m \in Socks
    <2>1. CASE m \in freed
      BY <1>1, <1>3, <2>1, PhaseNext
    <2>2. CASE m \in doomed \ freed
      <3>1. type'[m] = type[m] /\ type[m] # "free" /\ "WAITDESTROY" \in flags'[m]
        BY <1>1, <1>2, <2>2 DEF Live
      <3> QED BY <1>3, <2>2, <3>1, PhaseNext
    <2>3. CASE m \notin doomed
      BY <1>1, <2>3, SamePhase
    <2> QED BY <2>1, <2>2, <2>3
  <1>5. Life!Close(doomed)
    BY <1>1, <1>2, <1>4 DEF Life!Close, Asked
  <1> QED BY <1>5

\* lms_socket_destroy() by any of its callers
LEMMA DestroyLife ==
  ASSUME Allowed = {}, Inv, NEW m \in Socks, Live(m), Destroy(m)
  PROVE  \/ \E S \in SUBSET Socks : Life!Close(S)
         \/ Life!Bury(m)
         \/ UNCHANGED Life!vars
  <1>1. CASE Crash("badIndex")
    BY <1>1, LifeStutters DEF Crash, objects, tables, queries
  <1>2. CASE fd[m] # NoFd /\ ~Dead(m) /\ Close(m) /\ UNCHANGED queries
    BY <1>2, CloseLife
  <1>3. CASE Dead(m) /\ Bury(m) /\ UNCHANGED queries
    <2>1. CASE "WAITDNS" \in flags[m]
      BY <1>3, <2>1, LifeStutters DEF Bury, objects, queries
    <2>2. CASE "WAITDNS" \notin flags[m]
      <3>1. UNCHANGED <<list, ptrQ, aQ>> /\ type' = [type EXCEPT ![m] = "free"]
        BY <1>3, <2>2 DEF Bury, Free, queries
      <3>2. Phase(m) = "dead" /\ Phase(m)' = "free"
        BY <1>3, <3>1, PhaseNow, PhaseNext DEF Live, Dead, Inv, Registry, TypeOK
      <3>3. \A x \in Socks : x # m =>
              type'[x] = type[x] /\ fd'[x] = fd[x] /\ flags'[x] = flags[x]
        BY <1>3, <2>2 DEF Bury, Free, Inv, Registry, TypeOK
      <3>4. [x \in Socks |-> Phase(x)]' = [[x \in Socks |-> Phase(x)] EXCEPT ![m] = "free"]
        BY <3>2, <3>3, OneMoves
      <3>5. m \notin Asked
        BY <2>2, MarkedIsAsked
      <3> QED BY <3>1, <3>2, <3>4, <3>5 DEF Life!Bury, Asked
    <2> QED BY <2>1, <2>2
  <1> QED BY <1>1, <1>2, <1>3 DEF Destroy

-----------------------------------------------------------------------------
(* The next-state relation *)

LifeStep == Life!Next \/ UNCHANGED Life!vars

\* Calls of the program are steps of the promised life.
LEMMA ProgramLife ==
  ASSUME Allowed = {}, Inv, Program
  PROVE  LifeStep
  <1>1. ASSUME NEW m \in Socks, AppDestroy(m)
        PROVE  LifeStep
    BY <1>1, DestroyLife DEF AppDestroy, LifeStep, Life!Next
  <1>2. ASSUME NEW m \in Socks, AddFd(m)
        PROVE  LifeStep
    <2>1. \A x \in Socks : "WAITDESTROY" \in flags'[x] <=> "WAITDESTROY" \in flags[x]
      BY <1>2 DEF AddFd, Watch, Inv, Registry, TypeOK
    <2> QED BY <1>2, <2>1, LifeStutters DEF AddFd, queries, LifeStep
  <1>3. ASSUME NEW m \in Socks, FindRev(m)
        PROVE  LifeStep
    <2>1. Phase(m) = "open"
      BY <1>3, RegisteredIsOpen, PhaseNow DEF FindRev, Live, Dead, Registered, Inv
    <2> QED BY <1>3, <2>1, FindRevStep, LookupLife DEF LifeStep, Life!Next
  <1>4. ASSUME NEW m \in Socks, NEW t \in {"LISTEN", "STREAM"}, Create(m, t)
        PROVE  LifeStep
    BY <1>4, CreateLife DEF Create, tables, queries, LifeStep, Life!Next
  <1>5. ASSUME NEW t \in {"LISTEN", "STREAM"}, DestroyType(t)
        PROVE  LifeStep
    BY <1>5, DestroyTypeLife DEF LifeStep, Life!Next
  <1>6. ASSUME NEW m \in Socks, NEW f \in ClosedFds, Listen(m, f) \/ Connect(m, f)
        PROVE  LifeStep
    <2>1. fd[m] = NoFd /\ flags[m] = {} /\ Live(m)
      BY <1>6, FreshIsUnopened, InvMeans DEF Listen, Connect, Fresh, Inv, Bookkeeping
    <2>2. PICK s \in {{"LISTEN"}, {"CONNECTED"}, {"WAITCONN"}} :
            flags' = [flags EXCEPT ![m] = @ \cup s]
      BY <1>6 DEF Listen, Connect, Open
    <2>3. /\ "WAITDESTROY" \notin flags'[m]
          /\ \A x \in Socks : x # m => flags'[x] = flags[x]
      BY <2>1, <2>2 DEF Inv, Registry, TypeOK
    <2>4. /\ fd' = [fd EXCEPT ![m] = f] /\ list' = [list EXCEPT ![f] = m]
          /\ UNCHANGED <<type, ptrQ, aQ>>
      BY <1>6 DEF Listen, Connect, Open, queries
    <2>5. Life!Open(m, f)
      BY <2>1, <2>3, <2>4, OpenLife
    <2> QED BY <2>5 DEF ClosedFds, LifeStep, Life!Next
  <1>7. ASSUME NEW m \in Socks, NEW f \in ClosedFds, OpenFails(m, f)
        PROVE  LifeStep
    <2>1. fd[m] = NoFd /\ flags[m] = {} /\ Live(m)
      BY <1>7, InvMeans DEF OpenFails, Fresh, Bookkeeping
    <2>2. Free(m) /\ flags' = [flags EXCEPT ![m] = {}] /\ UNCHANGED <<list, ptrQ, aQ>>
      BY <1>7, <2>1 DEF OpenFails, queries
    <2>3. Life!Discard(m)
      BY <2>1, <2>2, DiscardLife DEF Free, Inv, Registry, TypeOK
    <2> QED BY <2>3 DEF LifeStep, Life!Next
  <1> QED BY <1>1, <1>2, <1>3, <1>4, <1>5, <1>6, <1>7 DEF Program

\* Callbacks, answers and housekeeping are, too.
LEMMA LibraryLife ==
  ASSUME Allowed = {}, Inv, Library
  PROVE  LifeStep
  <1>1. ASSUME NEW f \in Fds, NEW n \in Socks, AcceptEvent(f, n)
        PROVE  LifeStep
    BY <1>1, CreateLife DEF AcceptEvent, tables, queries, LifeStep, Life!Next
  <1>2. ASSUME NEW g \in ClosedFds, AcceptReturn(g)
        PROVE  LifeStep
    <2>1. incoming \in Socks /\ Live(incoming) /\ fd[incoming] = NoFd
      BY <1>2, InvMeans DEF AcceptReturn, Bookkeeping, Live
    <2>2. UNCHANGED <<ptrQ, aQ>>
      BY <1>2 DEF AcceptReturn, queries
    <2>3. flags[incoming] = {} /\ flags' = [flags EXCEPT ![incoming] = @ \cup {"CONNECTED"}]
      BY <1>2, InvMeans, <2>1 DEF AcceptReturn, Open, Bookkeeping
    <2>4. /\ "WAITDESTROY" \notin flags'[incoming]
          /\ \A x \in Socks : x # incoming => flags'[x] = flags[x]
      BY <2>1, <2>3 DEF Inv, Registry, TypeOK
    <2>5. /\ fd' = [fd EXCEPT ![incoming] = g] /\ list' = [list EXCEPT ![g] = incoming]
          /\ type' = type
      BY <1>2 DEF AcceptReturn, Open
    <2>6. Life!Open(incoming, g)
      BY <2>1, <2>2, <2>4, <2>5, OpenLife
    <2> QED BY <2>1, <2>6 DEF ClosedFds, LifeStep, Life!Next
  <1>3. ASSUME NEW f \in Fds, ReadData(f) \/ ReadError(f)
        PROVE  LifeStep
    <2>1. ev[f] \in Socks /\ Live(ev[f])
      BY <1>3, WatchedIsOpen DEF ReadData, ReadError, Watched, Inv
    <2>2. CASE Destroy(ev[f])
      BY <2>1, <2>2, DestroyLife DEF LifeStep, Life!Next
    <2>3. CASE Crash("writeAfterFree")
      BY <2>3, LifeStutters DEF Crash, objects, tables, queries, LifeStep
    <2> QED BY <1>3, <2>2, <2>3 DEF ReadData, ReadError
  <1>4. ASSUME NEW f \in Fds, WriteEvent(f)
        PROVE  LifeStep
    <2>1. \A x \in Socks : "WAITDESTROY" \in flags'[x] <=> "WAITDESTROY" \in flags[x]
      BY <1>4 DEF WriteEvent, AfterWrite, Inv, Registry, TypeOK
    <2> QED BY <1>4, <2>1, LifeStutters DEF WriteEvent, tables, queries, LifeStep
  <1>5. ASSUME NEW m \in Socks, RecvRevA(m) \/ RecvRevB(m)
        PROVE  LifeStep
    <2>1. m \in Asked
      BY <1>5, AskedSocket DEF RecvRevA, RecvRevB, Asked
    <2>2. CASE LookupStep(m)
      BY <2>1, <2>2, LookupLife DEF LifeStep, Life!Next
    <2>3. CASE Crash("nullHost")
      BY <2>3, LifeStutters DEF Crash, objects, tables, queries, LifeStep
    <2> QED BY <1>5, <2>2, <2>3, RecvRevAStep, RecvRevBStep
  <1>6. CASE StartHousekeeping
    BY <1>6, LifeStutters DEF StartHousekeeping, objects, tables, queries, LifeStep
  <1>7. CASE HousekeepSlot
    <2>1. slot \in Fds
      BY DEF Inv, Registry, TypeOK
    <2>2. CASE BuryCorpse
      <3>1. corpses[slot] \in Socks /\ Live(corpses[slot])
        BY <2>1, <2>2 DEF BuryCorpse, HasCorpse, Inv, Registry, TypeOK, CorpsesSound
      <3> QED BY <2>2, <3>1, DestroyLife DEF BuryCorpse, LifeStep, Life!Next
    <2>3. CASE Expire
      <3>1. list[slot] \in Socks /\ Live(list[slot])
        BY <2>1, <2>3 DEF Expire, Inv, Registry, TypeOK, RegistrySound
      <3> QED BY <2>3, <3>1, DestroyLife DEF Expire, LifeStep, Life!Next
    <2>4. CASE CorpseOfNobody \/ Spare
      BY <2>4, LifeStutters
         DEF CorpseOfNobody, Spare, Crash, objects, tables, queries, LifeStep
    <2> QED BY <1>7, <2>2, <2>3, <2>4 DEF HousekeepSlot
  <1>8. CASE AcceptWatch
    <2>1. incoming \in Socks /\ Live(incoming)
      BY <1>8, RegisteredIsOpen DEF AcceptWatch, Inv, Registry, Unopened
    <2>2. CASE Watch(incoming) /\ UNCHANGED <<type, fd, list, queries>>
      <3> \A x \in Socks : "WAITDESTROY" \in flags'[x] <=> "WAITDESTROY" \in flags[x]
        BY <2>1, <2>2 DEF Watch, Inv, Registry, TypeOK
      <3> QED BY <2>2, LifeStutters DEF queries, LifeStep
    <2>3. CASE Destroy(incoming)
      BY <2>1, <2>3, DestroyLife DEF LifeStep, Life!Next
    <2> QED BY <1>8, <2>2, <2>3 DEF AcceptWatch
  <1> QED BY <1>1, <1>2, <1>3, <1>4, <1>5, <1>6, <1>7, <1>8 DEF Library

\* And so every step is.
LEMMA NextLife ==
  ASSUME Allowed = {}, Inv, [Next]_vars
  PROVE  LifeStep
  <1>1. CASE UNCHANGED vars
    BY <1>1, LifeStutters DEF vars, objects, tables, queries, LifeStep
  <1>2. CASE Environment
    <2> UNCHANGED <<objects, tables, queries>>
      BY <1>2 DEF Environment, Established, Refused, PeerCloses, LinkStep, Arrive, GiveUp
    <2> QED BY LifeStutters DEF objects, tables, queries, LifeStep
  <1> QED BY <1>1, <1>2, ProgramLife, LibraryLife DEF Next

\* At the start nothing is allocated, owned or asked.
LEMMA InitLife == Init => Life!Init
  <1> SUFFICES ASSUME Init PROVE Life!Init
    OBVIOUS
  <1>1. \A m \in Socks : Phase(m) = "free"
    BY PhaseNow DEF Init
  <1>2. Asked = {}
    BY DEF Init, Asked
  <1> QED BY <1>1, <1>2 DEF Init, Life!Init, Asked

\* The library implements SocketLife: whatever the program, the peers and the
\* resolver do, the objects of socket.c live the life that is promised, as long
\* as no look-up is lost.
THEOREM ImplementsLifeCorrect == ASSUME Allowed = {} PROVE Spec => ImplementsLife
  <1>1. Inv /\ [Next]_vars => [Life!Next]_(Life!vars)
    BY NextLife DEF LifeStep
  <1>2. Spec => []Inv
    BY InvCorrect
  <1> QED BY InitLife, <1>1, <1>2, PTL DEF Spec, ImplementsLife, Life!Spec
=============================================================================
