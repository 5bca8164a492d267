---------------------------- MODULE SocketsProofs ----------------------------
(***************************************************************************)
(* Proofs about the reverse look-ups of Sockets, for every number of       *)
(* sockets, descriptors, waiting connections and queries.  They assume     *)
(* that the program starts no look-up over another (NoUseAfterFree fails   *)
(* otherwise) and destroys a socket that could not be opened.  malloc()    *)
(* and evdns may fail in mid look-up ("lost"), except for WaitsForAnswer.  *)
(*                                                                         *)
(* On top of the registry, whose invariant holds without these             *)
(* assumptions, the invariant says of each socket that its mark and the    *)
(* queries about it are in step.  It needs that there is at most one query *)
(* for each socket, since the first answer clears the only mark.           *)
(***************************************************************************)
EXTENDS SocketsRegistryProofs

\* A marked socket has a query outstanding, unless queries get lost.
AnswersDue == "lost" \notin Allowed => WaitsForAnswer

\* The mark of a socket and the queries about it are in step.
InStep(m) ==
  /\ ptrQ[m] + aQ[m] <= 1
  /\ aQ[m] > 0 => m \in named
  /\ ptrQ[m] + aQ[m] > 0 => "WAITDNS" \in flags[m]
  /\ "WAITDNS" \in flags[m] => fd[m] # NoFd
  /\ "lost" \notin Allowed /\ "WAITDNS" \in flags[m] => ptrQ[m] + aQ[m] > 0

Inv == Registry /\ \A m \in Socks : InStep(m)

-----------------------------------------------------------------------------
(* What the invariant says *)

\* Queries name sockets that are allocated and marked, and the bookkeeping is
\* as Sockets states it.
LEMMA InvMeans ==
  ASSUME Inv
  PROVE  LookupsProtected /\ AnswersDue /\ Bookkeeping
  <1>1. LookupsProtected
    BY DEF Inv, InStep, LookupsProtected, Registry, Unopened
  <1>2. AnswersDue
    BY DEF Inv, InStep, AnswersDue, WaitsForAnswer
  <1>3. Bookkeeping
    <2>1. ASSUME NEW m \in Socks
          PROVE  /\ ~Live(m) => fd[m] = NoFd
                 /\ fd[m] = NoFd => flags[m] = {}
                 /\ Dead(m) => flags[m] \cap {"CONNECTED", "MUXACTIVE"} = {}
                 /\ ptrQ[m] + aQ[m] <= 1
                 /\ aQ[m] > 0 => m \in named
      BY DEF Inv, InStep, Registry, Unopened
    <2> QED BY <2>1 DEF Bookkeeping, Inv, Registry, Unopened
  <1> QED BY <1>1, <1>2, <1>3

\* What it says of a socket with a query outstanding
LEMMA AskedSocket ==
  ASSUME Inv, NEW m \in Socks
  PROVE  /\ ptrQ[m] \in Nat /\ aQ[m] \in Nat
         /\ ptrQ[m] > 0 => ptrQ[m] = 1 /\ aQ[m] = 0 /\ Live(m) /\ fd[m] # NoFd
         /\ aQ[m] > 0 => ptrQ[m] = 0 /\ aQ[m] = 1 /\ Live(m) /\ fd[m] # NoFd /\ m \in named
         /\ ptrQ[m] + aQ[m] > 0 => "WAITDNS" \in flags[m]
         /\ "WAITDNS" \notin flags[m] => ptrQ[m] = 0 /\ aQ[m] = 0
  <1>1. ptrQ[m] \in Nat /\ aQ[m] \in Nat
    BY BoundsAssumption DEF Inv, Registry, TypeOK
  <1>2. InStep(m) /\ (~Live(m) => fd[m] = NoFd)
    BY DEF Inv, Registry, Unopened
  <1> QED BY <1>1, <1>2 DEF InStep

\* A socket that is destroyed for good has no query outstanding.
LEMMA UnmarkedIsNotAsked ==
  ASSUME Inv, NEW m \in Socks, "WAITDNS" \notin flags[m]
  PROVE  ptrQ[m] = 0 /\ aQ[m] = 0
  BY AskedSocket

-----------------------------------------------------------------------------
(* Steps of a look-up *)

\* p and a queries are outstanding for m after the step, and the step concerns
\* no other socket.
Outstanding(m, p, a) ==
  /\ ptrQ' = [ptrQ EXCEPT ![m] = p]
  /\ aQ' = [aQ EXCEPT ![m] = a]

\* The ways a step of a look-up can leave m: settled, waiting for the one query
\* of its first or second phase, or waiting for one that was lost.
LookupStep(m) ==
  /\ \/ Settle(m) /\ Outstanding(m, 0, 0)
     \/ /\ flags' = [flags EXCEPT ![m] = @ \cup {"WAITDNS"}]
        /\ \/ Outstanding(m, 1, 0)
           \/ Outstanding(m, 0, 1) /\ m \in named'
           \/ "lost" \in Allowed /\ Outstanding(m, 0, 0)
  /\ named' \in SUBSET Socks /\ \A x \in Socks : x # m /\ x \in named => x \in named'
  /\ retried' \in SUBSET Socks
  /\ UNCHANGED <<type, fd, tables, kernel, control, fault>>

\* Whatever the outcome, such a step keeps mark and query in step.
LEMMA LookupStepInStep ==
  ASSUME Inv, NEW m \in Socks, fd[m] # NoFd, LookupStep(m)
  PROVE  \A x \in Socks : InStep(x)'
  <1>1. fd' = fd
    BY DEF LookupStep
  <1>2. \A x \in Socks : x # m =>
          /\ flags'[x] = flags[x] /\ ptrQ'[x] = ptrQ[x] /\ aQ'[x] = aQ[x]
          /\ x \in named => x \in named'
    BY DEF LookupStep, Settle, Outstanding, Inv, Registry, TypeOK
  <1>3. /\ \/ flags'[m] = flags[m] \ {"WAITDNS"} /\ ptrQ'[m] = 0 /\ aQ'[m] = 0
           \/ flags'[m] = flags[m] \cup {"WAITDNS"} /\ ptrQ'[m] = 1 /\ aQ'[m] = 0
           \/ flags'[m] = flags[m] \cup {"WAITDNS"} /\ ptrQ'[m] = 0 /\ aQ'[m] = 1 /\ m \in named'
           \/ /\ "lost" \in Allowed
              /\ flags'[m] = flags[m] \cup {"WAITDNS"} /\ ptrQ'[m] = 0 /\ aQ'[m] = 0
    BY DEF LookupStep, Settle, Outstanding, Inv, Registry, TypeOK
  <1>4. InStep(m)'
    BY <1>1, <1>3 DEF InStep
  <1>5. ASSUME NEW x \in Socks, x # m PROVE InStep(x)'
    BY <1>1, <1>2, <1>5 DEF Inv, InStep
  <1> QED BY <1>4, <1>5

\* lms_dns_findrev() when nothing else is outstanding for m
LEMMA LookupOutcomes ==
  ASSUME Inv, NEW m \in Socks, NEW p, NEW a, NEW h,
         h \in {named, named \ {m}},
         p = [ptrQ EXCEPT ![m] = 0], a = [aQ EXCEPT ![m] = 0],
         Lookup(m, p, a, h), retried' \in SUBSET Socks,
         UNCHANGED <<type, fd, tables, kernel, control, fault>>
  PROVE  LookupStep(m)
  <1> USE DEF Inv, Registry, TypeOK
  <1>1. CASE Settle(m) /\ named' \in {h, h \ {m}} /\ ptrQ' = p /\ aQ' = a
    BY <1>1 DEF LookupStep, Outstanding
  <1>2. CASE /\ flags' = [flags EXCEPT ![m] = @ \cup {"WAITDNS"}]
             /\ ptrQ' = [p EXCEPT ![m] = @ + 1] /\ named' = h /\ aQ' = a
    <2> Outstanding(m, 1, 0)
      BY <1>2 DEF Outstanding
    <2> QED BY <1>2 DEF LookupStep
  <1>3. CASE /\ flags' = [flags EXCEPT ![m] = @ \cup {"WAITDNS"}]
             /\ aQ' = [a EXCEPT ![m] = @ + 1] /\ named' = h \cup {m} /\ ptrQ' = p
    <2> Outstanding(m, 0, 1)
      BY <1>3 DEF Outstanding
    <2> QED BY <1>3 DEF LookupStep
  <1>4. CASE /\ flags' = [flags EXCEPT ![m] = @ \cup {"WAITDNS"}]
             /\ "lost" \in Allowed /\ ptrQ' = p /\ aQ' = a
             /\ named' \in {h, h \ {m}, h \cup {m}}
    <2> Outstanding(m, 0, 0)
      BY <1>4 DEF Outstanding
    <2> QED BY <1>4 DEF LookupStep
  <1> QED BY <1>1, <1>2, <1>3, <1>4 DEF Lookup

\* The program starts a look-up for a connection that waits for none.
LEMMA FindRevStep ==
  ASSUME Inv, Allowed \subseteq {"lost"}, NEW m \in Socks, FindRev(m)
  PROVE  LookupStep(m)
  <1>1. ptrQ = [ptrQ EXCEPT ![m] = 0] /\ aQ = [aQ EXCEPT ![m] = 0]
    BY AskedSocket DEF FindRev, Inv, Registry, TypeOK
  <1> QED BY <1>1, LookupOutcomes DEF FindRev, Inv, Registry, TypeOK

\* The PTR query comes back: the socket it names is still allocated, and the
\* query that goes out next is the only one.
LEMMA RecvRevAStep ==
  ASSUME Inv, Allowed \subseteq {"lost"}, NEW m \in Socks, RecvRevA(m)
  PROVE  LookupStep(m) \/ (Crash("nullHost") /\ UNCHANGED control)
  <1> DEFINE p == [ptrQ EXCEPT ![m] = @ - 1]
  <1>1. AtRest /\ Live(m) /\ fd[m] # NoFd /\ "WAITDNS" \in flags[m]
    <2>1. AtRest /\ ptrQ[m] > 0
      BY DEF RecvRevA
    <2> QED BY <2>1, AskedSocket
  <1>2. p = [ptrQ EXCEPT ![m] = 0] /\ aQ = [aQ EXCEPT ![m] = 0]
    <2>1. ptrQ[m] > 0
      BY DEF RecvRevA
    <2>2. ptrQ[m] = 1 /\ aQ[m] = 0
      BY <2>1, AskedSocket
    <2> QED BY <2>2 DEF Inv, Registry, TypeOK
  <1>3. named \subseteq Socks /\ retried \subseteq Socks
    BY DEF Inv, Registry, TypeOK
  <1> HIDE DEF p
  <1>4. CASE /\ UNCHANGED <<type, fd, tables, kernel, control, fault>>
             /\ \/ Finish(m) /\ ptrQ' = p /\ UNCHANGED aQ
                \/ retried' = retried \cup {m} /\ Lookup(m, p, aQ, named)
                \/ /\ Settle(m) /\ named' = named \cup {m}
                   /\ ptrQ' = p /\ UNCHANGED <<aQ, retried>>
                \/ /\ named' = named \cup {m}
                   /\ ptrQ' = p /\ aQ' = [aQ EXCEPT ![m] = @ + 1]
                   /\ UNCHANGED <<flags, retried>>
                \/ /\ "lost" \in Allowed /\ named' \in {named \ {m}, named \cup {m}}
                   /\ ptrQ' = p /\ UNCHANGED <<aQ, flags, retried>>
    <2>1. CASE Finish(m) /\ ptrQ' = p /\ UNCHANGED aQ
      <3>1. /\ named' \in SUBSET Socks /\ retried' \in SUBSET Socks
            /\ \A x \in Socks : x # m /\ x \in named => x \in named'
        BY <1>3, <2>1 DEF Finish
      <3>2. Settle(m) /\ Outstanding(m, 0, 0)
        BY <1>2, <2>1 DEF Finish, Outstanding
      <3> QED BY <1>4, <3>1, <3>2 DEF LookupStep
    <2>2. CASE retried' = retried \cup {m} /\ Lookup(m, p, aQ, named)
      BY <1>2, <1>3, <1>4, <2>2, LookupOutcomes
    <2>3. CASE /\ Settle(m) /\ named' = named \cup {m}
               /\ ptrQ' = p /\ UNCHANGED <<aQ, retried>>
      BY <1>2, <1>3, <1>4, <2>3 DEF LookupStep, Outstanding
    <2>4. CASE /\ named' = named \cup {m}
               /\ ptrQ' = p /\ aQ' = [aQ EXCEPT ![m] = @ + 1]
               /\ UNCHANGED <<flags, retried>>
      <3>1. flags' = [flags EXCEPT ![m] = @ \cup {"WAITDNS"}]
        BY <1>1, <2>4 DEF Inv, Registry, TypeOK
      <3>2. Outstanding(m, 0, 1)
        BY <1>2, <2>4 DEF Outstanding, Inv, Registry, TypeOK
      <3> QED BY <1>3, <1>4, <2>4, <3>1, <3>2 DEF LookupStep
    <2>5. CASE /\ "lost" \in Allowed /\ named' \in {named \ {m}, named \cup {m}}
               /\ ptrQ' = p /\ UNCHANGED <<aQ, flags, retried>>
      <3>1. flags' = [flags EXCEPT ![m] = @ \cup {"WAITDNS"}]
        BY <1>1, <2>5 DEF Inv, Registry, TypeOK
      <3>2. Outstanding(m, 0, 0)
        BY <1>2, <2>5 DEF Outstanding
      <3> QED BY <1>3, <1>4, <2>5, <3>1, <3>2 DEF LookupStep
    <2> QED BY <1>4, <2>1, <2>2, <2>3, <2>4, <2>5
  <1> QED BY <1>1, <1>4 DEF RecvRevA, p

\* The A query comes back; the name it was to confirm is still there.
LEMMA RecvRevBStep ==
  ASSUME Inv, Allowed \subseteq {"lost"}, NEW m \in Socks, RecvRevB(m)
  PROVE  LookupStep(m)
  <1> DEFINE a == [aQ EXCEPT ![m] = @ - 1]
  <1>1. AtRest /\ Live(m) /\ fd[m] # NoFd /\ m \in named /\ "WAITDNS" \in flags[m]
    <2>1. AtRest /\ aQ[m] > 0
      BY DEF RecvRevB
    <2> QED BY <2>1, AskedSocket
  <1>2. ptrQ = [ptrQ EXCEPT ![m] = 0] /\ a = [aQ EXCEPT ![m] = 0]
    <2>1. aQ[m] > 0
      BY DEF RecvRevB
    <2>2. aQ[m] = 1 /\ ptrQ[m] = 0
      BY <2>1, AskedSocket
    <2> QED BY <2>2 DEF Inv, Registry, TypeOK
  <1>3. named \subseteq Socks /\ retried \subseteq Socks
    BY DEF Inv, Registry, TypeOK
  <1> HIDE DEF a
  <1>4. /\ UNCHANGED <<type, fd, tables, kernel, control, fault>>
        /\ \/ /\ Settle(m) /\ named' = named \ {m} /\ retried' = retried \ {m}
              /\ aQ' = a /\ UNCHANGED ptrQ
           \/ Settle(m) /\ aQ' = a /\ UNCHANGED <<ptrQ, named, retried>>
           \/ retried' = retried \cup {m} /\ Lookup(m, ptrQ, a, named \ {m})
           \/ "lost" \in Allowed /\ aQ' = a /\ UNCHANGED <<ptrQ, flags, named, retried>>
    BY <1>1 DEF RecvRevB, a
  <1>5. CASE Settle(m) /\ named' = named \ {m} /\ retried' = retried \ {m}
             /\ aQ' = a /\ UNCHANGED ptrQ
    BY <1>2, <1>3, <1>4, <1>5 DEF LookupStep, Outstanding
  <1>6. CASE Settle(m) /\ aQ' = a /\ UNCHANGED <<ptrQ, named, retried>>
    BY <1>2, <1>3, <1>4, <1>6 DEF LookupStep, Outstanding
  <1>7. CASE retried' = retried \cup {m} /\ Lookup(m, ptrQ, a, named \ {m})
    BY <1>2, <1>3, <1>4, <1>7, LookupOutcomes
  <1>8. CASE "lost" \in Allowed /\ aQ' = a /\ UNCHANGED <<ptrQ, flags, named, retried>>
    <2>1. flags' = [flags EXCEPT ![m] = @ \cup {"WAITDNS"}]
      BY <1>1, <1>8 DEF Inv, Registry, TypeOK
    <2>2. Outstanding(m, 0, 0)
      BY <1>2, <1>8 DEF Outstanding
    <2> QED BY <1>3, <1>4, <1>8, <2>1, <2>2 DEF LookupStep
  <1> QED BY <1>4, <1>5, <1>6, <1>7, <1>8

-----------------------------------------------------------------------------
(* All other steps *)

\* What every other step does to a socket: it leaves the mark alone; a marked
\* socket stays allocated, at its number and with its name; and a corpse is
\* released by housekeeping only, at its own slot.
Kept(m) ==
  /\ "WAITDNS" \in flags'[m] <=> "WAITDNS" \in flags[m]
  /\ "WAITDNS" \in flags[m] =>
       type'[m] = type[m] /\ fd'[m] = fd[m] /\ (m \in named => m \in named')
  /\ Live(m) /\ Dead(m) /\ type'[m] = "free" =>
       pc = "housekeeping" /\ corpses[slot] = m

OthersKeep == UNCHANGED queries /\ \A m \in Socks : Kept(m)

\* Steps that change no mark and no memory
LEMMA QuietSteps ==
  ASSUME UNCHANGED <<queries, fd, named>>,
         \A m \in Socks : Live(m) => type'[m] = type[m],
         \A m \in Socks : "WAITDNS" \in flags'[m] <=> "WAITDNS" \in flags[m],
         Inv
  PROVE  OthersKeep
  <1> SUFFICES ASSUME NEW m \in Socks PROVE Kept(m)
    BY DEF OthersKeep
  <1>1. "WAITDNS" \in flags[m] => Live(m)
    BY DEF Inv, Registry, Unopened
  <1> QED BY <1>1 DEF Kept, Live

\* A fault
LEMMA CrashSteps ==
  ASSUME Inv, NEW kind, Crash(kind)
  PROVE  OthersKeep
  BY QuietSteps DEF Crash, objects

\* Destroying a socket releases it only if it is not marked.
LEMMA DestroySteps ==
  ASSUME Inv, NEW m \in Socks, Live(m), Destroy(m),
         Dead(m) => pc = "housekeeping" /\ corpses[slot] = m
  PROVE  OthersKeep
  <1>1. CASE Crash("badIndex")
    BY <1>1, CrashSteps
  <1>2. ASSUME UNCHANGED queries,
               flags' \in [Socks -> SUBSET FlagNames],
               \A x \in Socks : x # m =>
                 /\ flags'[x] = flags[x] /\ type'[x] = type[x] /\ fd'[x] = fd[x]
                 /\ x \in named => x \in named',
               \/ /\ "WAITDNS" \in flags[m] /\ "WAITDNS" \in flags'[m]
                  /\ UNCHANGED <<type, fd, named>>
               \/ "WAITDNS" \notin flags[m] /\ flags'[m] = {}
        PROVE  OthersKeep
    BY <1>2 DEF OthersKeep, Kept, Live
  <1>3. CASE fd[m] # NoFd /\ ~Dead(m) /\ Close(m) /\ UNCHANGED queries
    <2>1. \A x \in Socks : x # m => (x \in named => x \in named')
      BY <1>3 DEF Close, Free
    <2>2. \/ /\ "WAITDNS" \in flags[m] /\ "WAITDNS" \in flags'[m]
             /\ UNCHANGED <<type, fd, named>>
          \/ "WAITDNS" \notin flags[m] /\ flags'[m] = {}
      BY <1>3, CloseEffect DEF Inv
    <2> QED BY <1>2, <1>3, <2>1, <2>2, CloseEffect DEF Inv
  <1>4. CASE Bury(m) /\ UNCHANGED queries
    BY <1>2, <1>4 DEF Bury, Free, objects, Inv, Registry, TypeOK
  <1> QED BY <1>1, <1>3, <1>4 DEF Destroy

\* So does lms_socket_destroytype().
LEMMA DestroyTypeSteps ==
  ASSUME Inv, NEW t \in {"LISTEN", "STREAM"}, DestroyType(t)
  PROVE  OthersKeep
  <1> DEFINE doomed == {m \in Socks : Registered(m) /\ type[m] = t}
             freed  == {m \in doomed : "WAITDNS" \notin flags[m]}
  <1>1. \A m \in doomed : ~Dead(m)
    BY RegisteredIsOpen DEF Inv
  <1>2. \A m \in Socks \ freed : /\ type'[m] = type[m] /\ fd'[m] = fd[m]
                                 /\ m \in named => m \in named'
    BY DEF DestroyType
  <1>3. \A m \in Socks : "WAITDNS" \in flags'[m] <=> "WAITDNS" \in flags[m]
    BY DEF DestroyType
  <1>4. \A m \in freed : m \in doomed /\ "WAITDNS" \notin flags[m]
    OBVIOUS
  <1>5. UNCHANGED queries
    BY DEF DestroyType
  <1> HIDE DEF doomed, freed
  <1> SUFFICES ASSUME NEW m \in Socks PROVE Kept(m)
    BY <1>5 DEF OthersKeep
  <1>6. CASE m \in freed
    BY <1>1, <1>3, <1>4, <1>6 DEF Kept
  <1>7. CASE m \notin freed
    BY <1>2, <1>3, <1>7 DEF Kept, Live
  <1> QED BY <1>6, <1>7

\* A socket that is opened, or released because it could not be, is not marked.
LEMMA UnopenedSteps ==
  ASSUME Inv, UNCHANGED queries, NEW m \in Socks, fd[m] = NoFd, "WAITDNS" \notin flags'[m],
         \A x \in Socks : x # m =>
           /\ flags'[x] = flags[x] /\ type'[x] = type[x] /\ fd'[x] = fd[x]
           /\ x \in named => x \in named'
  PROVE  OthersKeep
  <1>1. "WAITDNS" \notin flags[m] /\ ~Dead(m)
    BY DEF Inv, InStep, Registry, Unopened, Dead
  <1> QED BY <1>1 DEF OthersKeep, Kept, Live

\* The steps that open a socket or fail to.
LEMMA OpenSteps ==
  ASSUME Allowed \subseteq {"lost"}, Inv, NEW m \in Socks, NEW f \in ClosedFds,
         Listen(m, f) \/ Connect(m, f) \/ OpenFails(m, f)
  PROVE  OthersKeep
  <1>1. fd[m] = NoFd /\ "WAITDNS" \notin flags[m]
    <2>1. fd[m] = NoFd
      BY FreshIsUnopened DEF Listen, Connect, OpenFails, Inv
    <2> QED BY <2>1 DEF Inv, InStep
  <1>2. UNCHANGED queries /\ \A x \in Socks : x # m => (x \in named => x \in named')
    BY DEF Listen, Connect, OpenFails, Free
  <1>3. /\ "WAITDNS" \notin flags'[m]
        /\ \A x \in Socks : x # m => flags'[x] = flags[x]
    <2>1. ASSUME NEW s, s \in {{"LISTEN"}, {"CONNECTED"}, {"WAITCONN"}},
                 flags' = [flags EXCEPT ![m] = @ \cup s]
          PROVE  /\ "WAITDNS" \notin flags'[m]
                 /\ \A x \in Socks : x # m => flags'[x] = flags[x]
      BY <1>1, <2>1 DEF Inv, Registry, TypeOK
    <2>2. CASE flags' = [flags EXCEPT ![m] = {}]
      BY <2>2 DEF Inv, Registry, TypeOK
    <2> QED BY <1>1, <2>1, <2>2 DEF Listen, Connect, Open, OpenFails
  <1>4. \A x \in Socks : x # m => type'[x] = type[x] /\ fd'[x] = fd[x]
    BY <1>1 DEF Listen, Connect, Open, OpenFails, Free, Inv, Registry, TypeOK
  <1> QED BY <1>1, <1>2, <1>3, <1>4, UnopenedSteps

\* The calls of the program
LEMMA ProgramSteps ==
  ASSUME Allowed \subseteq {"lost"}, Inv, Program
  PROVE  OthersKeep \/ \E m \in Socks : fd[m] # NoFd /\ LookupStep(m)
  <1>1. ASSUME NEW m \in Socks, AppDestroy(m)
        PROVE  OthersKeep
    BY <1>1, DestroySteps DEF AppDestroy
  <1>2. ASSUME NEW m \in Socks, AddFd(m)
        PROVE  OthersKeep
    <2> \A x \in Socks : "WAITDNS" \in flags'[x] <=> "WAITDNS" \in flags[x]
      BY <1>2 DEF AddFd, Watch, Inv, Registry, TypeOK
    <2> QED BY <1>2, QuietSteps DEF AddFd
  <1>3. ASSUME NEW m \in Socks, FindRev(m)
        PROVE  fd[m] # NoFd /\ LookupStep(m)
    BY <1>3, FindRevStep DEF FindRev, Registered
  <1>4. ASSUME NEW m \in Socks, NEW t \in {"LISTEN", "STREAM"}, Create(m, t)
        PROVE  OthersKeep
    BY <1>4, QuietSteps DEF Create, Live, Inv, Registry, TypeOK
  <1> QED BY <1>1, <1>2, <1>3, <1>4, DestroyTypeSteps, OpenSteps DEF Program

\* The library's callbacks, answers and housekeeping
LEMMA LibrarySteps ==
  ASSUME Allowed \subseteq {"lost"}, Inv, Library
  PROVE  OthersKeep \/ \E m \in Socks : fd[m] # NoFd /\ LookupStep(m)
  <1>1. ASSUME NEW f \in Fds, NEW n \in Socks, AcceptEvent(f, n)
        PROVE  OthersKeep
    BY <1>1, QuietSteps DEF AcceptEvent, Live, Inv, Registry, TypeOK
  <1>2. ASSUME NEW g \in ClosedFds, AcceptReturn(g)
        PROVE  OthersKeep
    <2>1. incoming \in Socks /\ flags[incoming] = {} /\ fd[incoming] = NoFd
      BY <1>2 DEF AcceptReturn, Inv, Registry, Unopened
    <2>2. /\ "WAITDNS" \notin flags'[incoming]
          /\ \A x \in Socks : x # incoming =>
               flags'[x] = flags[x] /\ type'[x] = type[x] /\ fd'[x] = fd[x]
      BY <1>2, <2>1 DEF AcceptReturn, Open, Inv, Registry, TypeOK
    <2> QED BY <1>2, <2>1, <2>2, UnopenedSteps DEF AcceptReturn
  <1>3. ASSUME NEW f \in Fds, ReadData(f) \/ ReadError(f)
        PROVE  OthersKeep
    <2>1. ev[f] \in Socks /\ Live(ev[f]) /\ ~Dead(ev[f])
      BY <1>3, WatchedIsOpen DEF ReadData, ReadError, Watched, Inv
    <2> QED BY <1>3, <2>1, DestroySteps, CrashSteps DEF ReadData, ReadError
  <1>4. ASSUME NEW f \in Fds, WriteEvent(f)
        PROVE  OthersKeep
    <2>1. \A x \in Socks : "WAITDNS" \in flags'[x] <=> "WAITDNS" \in flags[x]
      BY <1>4 DEF WriteEvent, AfterWrite, Inv, Registry, TypeOK
    <2> QED BY <1>4, <2>1, QuietSteps DEF WriteEvent
  <1>5. ASSUME NEW m \in Socks, RecvRevA(m) \/ RecvRevB(m)
        PROVE  OthersKeep \/ (fd[m] # NoFd /\ LookupStep(m))
    <2>1. fd[m] # NoFd
      BY <1>5, AskedSocket DEF RecvRevA, RecvRevB
    <2> QED BY <1>5, <2>1, RecvRevAStep, RecvRevBStep, CrashSteps
  <1>6. CASE StartHousekeeping
    BY <1>6, QuietSteps DEF StartHousekeeping, objects
  <1>7. CASE HousekeepSlot
    <2>1. slot \in Fds /\ pc = "housekeeping"
      BY <1>7 DEF HousekeepSlot, Inv, Registry, TypeOK
    <2>2. CASE BuryCorpse
      <3>1. corpses[slot] \in Socks /\ Live(corpses[slot])
        BY <2>1, <2>2 DEF BuryCorpse, HasCorpse, Inv, Registry, TypeOK, CorpsesSound
      <3> QED BY <2>1, <2>2, <3>1, DestroySteps DEF BuryCorpse
    <2>3. CASE Expire
      <3>1. list[slot] \in Socks /\ Live(list[slot]) /\ ~Dead(list[slot])
        BY <2>1, <2>3 DEF Expire, Inv, Registry, TypeOK, RegistrySound
      <3> QED BY <2>3, <3>1, DestroySteps DEF Expire
    <2>4. CASE CorpseOfNobody
      BY <2>4, CrashSteps DEF CorpseOfNobody
    <2>5. CASE Spare
      BY <2>5, QuietSteps DEF Spare, objects
    <2> QED BY <1>7, <2>2, <2>3, <2>4, <2>5 DEF HousekeepSlot
  <1>8. CASE AcceptWatch
    <2>1. incoming \in Socks /\ Live(incoming) /\ ~Dead(incoming)
      BY <1>8, RegisteredIsOpen DEF AcceptWatch, Inv, Registry, Unopened
    <2>2. CASE Watch(incoming) /\ UNCHANGED <<type, fd, named, queries>>
      <3> \A x \in Socks : "WAITDNS" \in flags'[x] <=> "WAITDNS" \in flags[x]
        BY <2>1, <2>2 DEF Watch, Inv, Registry, TypeOK
      <3> QED BY <2>2, QuietSteps
    <2> QED BY <1>8, <2>1, <2>2, DestroySteps DEF AcceptWatch
  <1> QED BY <1>1, <1>2, <1>3, <1>4, <1>5, <1>6, <1>7, <1>8 DEF Library

\* Every step is one of a look-up, about a socket that is allocated, or leaves
\* the marks alone.
LEMMA Steps ==
  ASSUME Allowed \subseteq {"lost"}, Inv, [Next]_vars
  PROVE  OthersKeep \/ \E m \in Socks : fd[m] # NoFd /\ LookupStep(m)
  <1>1. CASE UNCHANGED vars
    BY <1>1, QuietSteps DEF vars, objects
  <1>2. CASE Environment
    <2> UNCHANGED <<objects, queries>>
      BY <1>2 DEF Environment, Established, Refused, PeerCloses, LinkStep, Arrive, GiveUp
    <2> QED BY QuietSteps DEF objects
  <1> QED BY <1>1, <1>2, ProgramSteps, LibrarySteps DEF Next

-----------------------------------------------------------------------------
(* The invariant and the rules of release *)

\* Nothing is allocated or asked at first.
LEMMA InitInv == Init => Inv
  <1> SUFFICES ASSUME Init PROVE Inv
    OBVIOUS
  <1>1. ASSUME NEW m \in Socks PROVE InStep(m)
    <2>1. ptrQ[m] = 0 /\ aQ[m] = 0 /\ flags[m] = {}
      BY DEF Init
    <2> QED BY <2>1 DEF InStep
  <1> QED BY <1>1, InitKeeps DEF Inv

\* No step breaks the invariant.
LEMMA NextInv == ASSUME Allowed \subseteq {"lost"}, Inv, [Next]_vars PROVE Inv'
  <1>1. Registry'
    BY NextKeeps DEF Inv
  <1>2. CASE OthersKeep
    <2>1. ASSUME NEW m \in Socks PROVE InStep(m)'
      <3>1. InStep(m) /\ Kept(m) /\ ptrQ' = ptrQ /\ aQ' = aQ
        BY <1>2 DEF OthersKeep, queries, Inv
      <3>2. aQ[m] > 0 => ptrQ[m] + aQ[m] > 0
        BY AskedSocket
      <3> QED BY <3>1, <3>2 DEF InStep, Kept
    <2> QED BY <1>1, <2>1 DEF Inv
  <1>3. ASSUME NEW m \in Socks, fd[m] # NoFd, LookupStep(m)
        PROVE  Inv'
    BY <1>1, <1>3, LookupStepInStep DEF Inv
  <1> QED BY <1>2, <1>3, Steps

\* The sockets released in this step have no query outstanding, and a corpse is
\* released at its own slot.
Release ==
  \A m \in Socks : Live(m) /\ type'[m] = "free" =>
    /\ ptrQ[m] + aQ[m] = 0
    /\ Dead(m) => pc = "housekeeping" /\ corpses[slot] = m

\* Only what is not asked about is released.
LEMMA StepRelease == ASSUME Allowed \subseteq {"lost"}, Inv, [Next]_vars PROVE Release
  <1>1. CASE OthersKeep
    <2> SUFFICES ASSUME NEW m \in Socks, Live(m), type'[m] = "free"
                 PROVE  /\ ptrQ[m] + aQ[m] = 0
                        /\ Dead(m) => pc = "housekeeping" /\ corpses[slot] = m
      BY DEF Release
    <2>1. "WAITDNS" \notin flags[m]
      BY <1>1 DEF OthersKeep, Kept, Live
    <2> QED BY <1>1, <2>1, UnmarkedIsNotAsked DEF OthersKeep, Kept
  <1>2. ASSUME NEW m \in Socks, LookupStep(m)
        PROVE  Release
    BY <1>2 DEF LookupStep, Release, Live
  <1> QED BY <1>1, <1>2, Steps

\* The faults a step can newly run into
LEMMA AnswerSteps ==
  ASSUME Inv, [Next]_vars, fault # "useAfterFree"
  PROVE  fault' # "useAfterFree"
  <1>1. ASSUME NEW m \in Socks, RecvRevA(m) PROVE fault' # "useAfterFree"
    <2> Live(m)
      BY <1>1, AskedSocket DEF RecvRevA
    <2> QED BY <1>1 DEF RecvRevA, Crash
  <1>2. ASSUME NEW m \in Socks, RecvRevB(m) PROVE fault' # "useAfterFree"
    <2> Live(m)
      BY <1>2, AskedSocket DEF RecvRevB
    <2> QED BY <1>2 DEF RecvRevB
  <1>3. ASSUME NEW m \in Socks, Destroy(m) PROVE fault' # "useAfterFree"
    BY <1>3 DEF Destroy, Crash
  <1>4. CASE Program
    BY <1>3, <1>4 DEF Program, AppDestroy, AddFd, FindRev, Create, DestroyType,
                      Listen, Connect, OpenFails
  <1>5. ASSUME NEW f \in Fds, ReadData(f) \/ ReadError(f) PROVE fault' # "useAfterFree"
    BY <1>3, <1>5, WatchedIsOpen DEF ReadData, ReadError, Crash, Watched, Inv
  <1>6. CASE HousekeepSlot
    <2>1. slot \in Fds
      BY DEF Inv, Registry, TypeOK
    <2>2. corpses[slot] # None => corpses[slot] \in Socks
      BY <2>1 DEF Inv, Registry, TypeOK
    <2>3. list[slot] # None => list[slot] \in Socks
      BY <2>1 DEF Inv, Registry, TypeOK
    <2> QED BY <1>3, <1>6, <2>2, <2>3
            DEF HousekeepSlot, CorpseOfNobody, BuryCorpse, HasCorpse, Expire, Spare, Crash
  <1>7. CASE AcceptWatch
    BY <1>3, <1>7 DEF AcceptWatch, Inv, Registry, Unopened
  <1>8. CASE Library
    BY <1>1, <1>2, <1>5, <1>6, <1>8, <1>7 DEF Library, AcceptEvent, AcceptReturn, WriteEvent,
                                        StartHousekeeping
  <1>9. CASE Environment \/ UNCHANGED vars
    BY <1>9 DEF Environment, Established, Refused, PeerCloses, LinkStep, Arrive, GiveUp, vars
  <1> QED BY <1>4, <1>8, <1>9 DEF Next

-----------------------------------------------------------------------------
(* The theorems *)

\* Every reachable state satisfies the invariant.
THEOREM InvCorrect == ASSUME Allowed \subseteq {"lost"} PROVE Spec => []Inv
  <1>1. Inv /\ [Next]_vars => Inv'
    BY NextInv
  <1> QED BY InitInv, <1>1, PTL DEF Spec

\* A query that evdns holds names a socket that is allocated and marked.
THEOREM LookupsCorrect == ASSUME Allowed \subseteq {"lost"} PROVE Spec => []LookupsProtected
  <1>1. Inv => LookupsProtected
    BY InvMeans
  <1> QED BY InvCorrect, <1>1, PTL

\* A socket marked WAITDNS has a query outstanding, if none gets lost: its corpse
\* will be buried.
THEOREM WaitsCorrect == ASSUME Allowed = {} PROVE Spec => []WaitsForAnswer
  <1>1. Inv => WaitsForAnswer
    BY InvMeans DEF AnswersDue
  <1>2. Allowed \subseteq {"lost"}
    OBVIOUS
  <1> QED BY <1>1, <1>2, InvCorrect, PTL

\* At most one query is outstanding for a socket, a socket that is not open has
\* no flags, and accept() has both its sockets.
THEOREM BookkeepingCorrect == ASSUME Allowed \subseteq {"lost"} PROVE Spec => []Bookkeeping
  <1>1. Inv => Bookkeeping
    BY InvMeans
  <1> QED BY InvCorrect, <1>1, PTL

\* Memory is released only when no query is outstanding for it, and that of a
\* corpse only by housekeeping at its own slot.
THEOREM ReleasedWhenSettledCorrect ==
  ASSUME Allowed \subseteq {"lost"} PROVE Spec => ReleasedWhenSettled
  <1>1. Inv /\ [Next]_vars => [Release]_vars
    BY StepRelease
  <1>2. Spec => [][Release]_vars
    BY InvCorrect, <1>1, PTL DEF Spec
  <1> QED BY <1>2 DEF ReleasedWhenSettled, Release

\* lms_dns_recvrevA() and lms_dns_recvrevB() never touch a freed socket.
THEOREM NoUseAfterFreeCorrect == ASSUME Allowed \subseteq {"lost"} PROVE Spec => []NoUseAfterFree
  <1>1. Init => NoUseAfterFree
    BY DEF Init, NoUseAfterFree
  <1>2. Inv /\ NoUseAfterFree /\ [Next]_vars => NoUseAfterFree'
    BY AnswerSteps DEF NoUseAfterFree
  <1> QED BY InvCorrect, <1>1, <1>2, PTL DEF Spec
=============================================================================
