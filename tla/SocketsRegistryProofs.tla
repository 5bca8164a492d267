------------------------ MODULE SocketsRegistryProofs ------------------------
(***************************************************************************)
(* What holds of the registry of sockets, the mux and the corpse list for  *)
(* every number of sockets, descriptors, waiting connections and queries,  *)
(* whatever look-ups are under way: also when the program starts one over  *)
(* another, so that answers reach sockets that were released, and the      *)
(* next owners of their addresses.  Assumed is only that a socket that     *)
(* could not be opened is destroyed (RegistrySound fails otherwise).       *)
(*                                                                         *)
(* The invariant is inductive only as a whole.  That the mux never holds   *)
(* a socket that is gone needs the registry, since destroying goes by the  *)
(* descriptor's entry; the registry needs that no corpse is in it.  Of a   *)
(* look-up it needs that it touches no flag but WAITDNS, and of WAITDNS    *)
(* nothing: a stray answer may mark a socket that was never opened.        *)
(***************************************************************************)
EXTENDS Sockets, TLAPS

\* A freed socket carries nothing; one that is not open has no flags, but that
\* a stray answer may have marked it; a corpse keeps only its number; and a
\* lms_conn_accept() has its sockets.
Unopened ==
  /\ \A m \in Socks :
       /\ ~Live(m) => fd[m] = NoFd /\ flags[m] = {}
       /\ fd[m] = NoFd => flags[m] \subseteq {"WAITDNS"}
       /\ Dead(m) => flags[m] \cap {"CONNECTED", "MUXACTIVE"} = {}
  /\ pc = "accept" =>
       /\ listener \in Socks /\ Registered(listener)
       /\ incoming \in Socks /\ type[incoming] = "STREAM"
       /\ fd[incoming] = NoFd /\ flags[incoming] = {}
  /\ pc = "watch" => incoming \in Socks /\ Registered(incoming)

Registry ==
  /\ TypeOK /\ RegistrySound /\ MuxSound /\ CorpsesSound /\ FlagsMatchLink
  /\ Unopened

-----------------------------------------------------------------------------
(* Opening *)

\* A registered socket is allocated, no corpse, and has its descriptor's entry.
LEMMA RegisteredIsOpen ==
  ASSUME Registry, NEW m \in Socks, Registered(m)
  PROVE  Live(m) /\ ~Dead(m) /\ fd[m] \in Fds /\ list[fd[m]] = m
  <1>1. fd[m] \in Fds /\ list[fd[m]] = m /\ m # None
    BY NoneAssumption DEF Registered, Registry, TypeOK
  <1> QED BY <1>1 DEF Registry, RegistrySound, Live, Dead

\* A socket that may be opened has no descriptor and, but for a mark, no flags.
LEMMA FreshIsUnopened ==
  ASSUME Registry, NEW m \in Socks, Fresh(m)
  PROVE  fd[m] = NoFd /\ flags[m] \subseteq {"WAITDNS"}
  <1> USE NoneAssumption DEF Registry, TypeOK, Fresh, Live, Dead
  <1>1. ASSUME fd[m] # NoFd PROVE FALSE
    <2>1. fd[m] \in Fds /\ list[fd[m]] = m
      BY <1>1 DEF RegistrySound
    <2>2. link[fd[m]] = "listening" \/ "WAITCONN" \in flags[m] \/ "CONNECTED" \in flags[m]
      BY <2>1 DEF FlagsMatchLink
    <2>3. "LISTEN" \in flags[m]
      BY <2>1, <2>2 DEF FlagsMatchLink
    <2> QED BY <2>3
  <1> QED BY <1>1 DEF Unopened

\* A socket without descriptor is in no table.
LEMMA UnopenedIsNowhere ==
  ASSUME Registry, NEW m \in Socks, fd[m] = NoFd
  PROVE  \A h \in Fds : list[h] # m /\ corpses[h] # m /\ ev[h] # m
  <1>1. NoFd \notin Fds
    BY HighSockAssumption DEF Fds, NoFd
  <1> QED
    BY <1>1, NoneAssumption DEF Registry, TypeOK, RegistrySound, MuxSound, CorpsesSound

\* A socket without descriptor gets one that is closed: as a listener, or as
\* a connection that is up or undecided; accept() leaves it to be watched.
LEMMA OpenKeeps ==
  ASSUME Registry, NEW m \in Socks, NEW f \in ClosedFds, NEW s, NEW l,
         fd[m] = NoFd, flags[m] \subseteq {"WAITDNS"},
         Live(m),
         fd' = [fd EXCEPT ![m] = f],
         list' = [list EXCEPT ![f] = m],
         link' = [link EXCEPT ![f] = l],
         flags' = [flags EXCEPT ![m] = @ \cup s],
         ev' = ev,
         \/ type[m] = "LISTEN" /\ l = "listening" /\ s = {"LISTEN"}
         \/ type[m] = "STREAM" /\ l = "up" /\ s = {"CONNECTED"}
         \/ type[m] = "STREAM" /\ l = "connecting" /\ s = {"WAITCONN"},
         pc' = "run" \/ (pc' = "watch" /\ m = incoming),
         UNCHANGED <<type, retried, named, corpses, queries, slot, listener, incoming, fault>>,
         backlog' \in [Fds -> 0 .. MaxBacklog]
  PROVE  Registry'
  <1> USE NoneAssumption DEF Registry, ClosedFds, Live, Dead, queries
  <1>1. f \in Fds /\ f # NoFd /\ list[f] = None /\ ev[f] = None /\ fd[m] # f
    BY HighSockAssumption DEF Fds, NoFd, RegistrySound, MuxSound
  <1>2. \A x \in Socks : x # m => fd[x] # f \/ Dead(x)
    BY <1>1 DEF RegistrySound, Unopened, TypeOK
  <1>3. /\ \A x \in Socks : x # m => fd'[x] = fd[x] /\ flags'[x] = flags[x]
         /\ fd'[m] = f /\ flags'[m] = flags[m] \cup s
         /\ "WAITDESTROY" \notin flags'[m] /\ l # "closed"
    BY DEF TypeOK
  <1>4. TypeOK'
    BY <1>1 DEF TypeOK, Types, FlagNames, Links
  <1>5. RegistrySound'
    <2>1. \A h \in Fds : h # f => list'[h] = list[h] /\ link'[h] = link[h] /\ list[h] # m
      BY <1>1, UnopenedIsNowhere DEF TypeOK
    <2>2. list'[f] = m /\ link'[f] = l
      BY <1>1 DEF TypeOK
    <2>3. \A h \in Fds : list'[h] # None =>
            type'[list'[h]] # "free" /\ "WAITDESTROY" \notin flags'[list'[h]] /\ fd'[list'[h]] = h
      BY <1>3, <2>1, <2>2 DEF TypeOK, RegistrySound
    <2>4. \A x \in Socks : type'[x] # "free" /\ "WAITDESTROY" \notin flags'[x] /\ fd'[x] # NoFd
            => list'[fd'[x]] = x
      BY <1>2, <1>3, <2>1, <2>2 DEF TypeOK, RegistrySound
    <2> QED BY <1>3, <2>1, <2>2, <2>3, <2>4 DEF RegistrySound
  <1>6. MuxSound'
    <2>1. \A h \in Fds : h # f => ev'[h] = ev[h] /\ list'[h] = list[h] /\ ev[h] # m
      BY UnopenedIsNowhere DEF TypeOK
    <2>2. \A h \in Fds : ev'[h] # None => list'[h] = ev'[h] /\ "MUXACTIVE" \in flags'[ev'[h]]
      BY <1>1, <1>3, <2>1 DEF TypeOK, MuxSound
    <2>3. ASSUME NEW x \in Socks, "MUXACTIVE" \in flags'[x]
          PROVE  fd'[x] # NoFd /\ ev'[fd'[x]] = x
      <3>1. CASE x = m
        BY <1>1, <1>3, <2>3, <3>1 DEF TypeOK
      <3>2. CASE x # m
        <4>1. fd[x] \in Fds /\ ev[fd[x]] = x /\ fd[x] # f
          BY <1>1, <1>3, <2>3, <3>2 DEF TypeOK, MuxSound
        <4> QED BY <1>3, <2>1, <3>2, <4>1 DEF MuxSound
      <3> QED BY <3>1, <3>2
    <2> QED BY <2>2, <2>3 DEF MuxSound
  <1>7. CorpsesSound'
    BY <1>3, UnopenedIsNowhere DEF TypeOK, CorpsesSound
  <1>8. FlagsMatchLink'
    <2>1. \A h \in Fds : h # f => list'[h] = list[h] /\ link'[h] = link[h] /\ list[h] # m
      BY <1>1, UnopenedIsNowhere DEF TypeOK
    <2>2. list'[f] = m /\ link'[f] = l
      BY <1>1 DEF TypeOK
    <2> QED BY <1>1, <1>3, <2>1, <2>2 DEF TypeOK, FlagsMatchLink
  <1>9. Unopened'
    <2>1. ASSUME NEW x \in Socks
          PROVE  /\ type'[x] = "free" => fd'[x] = NoFd /\ flags'[x] = {}
                 /\ fd'[x] = NoFd => flags'[x] \subseteq {"WAITDNS"}
                 /\ "WAITDESTROY" \in flags'[x] => flags'[x] \cap {"CONNECTED", "MUXACTIVE"} = {}
      BY <1>1, <1>3 DEF TypeOK, Unopened
    <2> QED BY <1>1, <1>3, <2>1 DEF TypeOK, Unopened, Registered
  <1> QED BY <1>4, <1>5, <1>6, <1>7, <1>8, <1>9

\* lms_socket_ilisten() opens a listener.
LEMMA ListenKeeps ==
  ASSUME Registry, NEW m \in Socks, NEW f \in ClosedFds, Listen(m, f)
  PROVE  Registry'
  <1>1. fd[m] = NoFd /\ flags[m] \subseteq {"WAITDNS"}
    BY FreshIsUnopened DEF Listen
  <1>2. ev[f] = None /\ f \in Fds
    BY NoneAssumption DEF Registry, ClosedFds, RegistrySound, MuxSound
  <1>3. ev' = [ev EXCEPT ![f] = None]
    BY <1>1, <1>2 DEF Listen, Open, Registry, TypeOK
  <1> QED
    BY <1>1, <1>2, <1>3, OpenKeeps DEF Listen, Open, Fresh, AtRest, control, Registry, TypeOK

\* lms_socket_iconn() opens a connection.
LEMMA ConnectKeeps ==
  ASSUME Registry, NEW m \in Socks, NEW f \in ClosedFds, Connect(m, f)
  PROVE  Registry'
  <1>1. fd[m] = NoFd /\ flags[m] \subseteq {"WAITDNS"}
    BY FreshIsUnopened DEF Connect
  <1>2. ev[f] = None /\ f \in Fds
    BY NoneAssumption DEF Registry, ClosedFds, RegistrySound, MuxSound
  <1>3. ev' = [ev EXCEPT ![f] = None]
    BY <1>1, <1>2 DEF Connect, Open, Registry, TypeOK
  <1>4. PICK s, l : /\ Open(m, f, s, l)
                    /\ \/ s = {"CONNECTED"} /\ l = "up"
                       \/ s = {"WAITCONN"} /\ l = "connecting"
    BY DEF Connect
  <1> QED
    BY <1>1, <1>2, <1>3, <1>4, OpenKeeps DEF Connect, Open, Fresh, AtRest, control, Registry, TypeOK

\* An unmarked socket without descriptor is released; nothing refers to it.
LEMMA DiscardKeeps ==
  ASSUME Registry, NEW m \in Socks, fd[m] = NoFd, flags[m] = {},
         type' = [type EXCEPT ![m] = "free"],
         UNCHANGED <<fd, flags, tables, queries, link, fault>>,
         named' \in SUBSET Socks, retried' \in SUBSET Socks,
         backlog' \in [Fds -> 0 .. MaxBacklog],
         pc' = "run", slot' \in Fds,
         listener' \in {listener, None}, incoming' \in {incoming, None}
  PROVE  Registry'
  <1> USE DEF Registry, Live, Dead, tables, queries
  <1>1. \A h \in Fds : list[h] # m /\ corpses[h] # m
    BY UnopenedIsNowhere
  <1>2. TypeOK'
    BY DEF TypeOK, Types
  <1>3. RegistrySound' /\ MuxSound' /\ CorpsesSound'
    BY <1>1 DEF TypeOK, RegistrySound, MuxSound, CorpsesSound
  <1>4. FlagsMatchLink'
    BY <1>1 DEF TypeOK, FlagsMatchLink
  <1>5. Unopened'
    BY DEF TypeOK, Unopened
  <1> QED BY <1>2, <1>3, <1>4, <1>5

\* A socket whose opening failed is destroyed at once: released, or kept as a
\* corpse at the number of the descriptor that is closed again.
LEMMA OpenFailsKeeps ==
  ASSUME Registry, "keepFailed" \notin Allowed, NEW m \in Socks, NEW f \in ClosedFds,
         OpenFails(m, f)
  PROVE  Registry'
  <1>1. /\ fd[m] = NoFd /\ flags[m] \subseteq {"WAITDNS"} /\ Live(m) /\ f \in Fds
        /\ pc = "run" /\ UNCHANGED <<list, ev, queries, kernel, control, fault>>
    BY FreshIsUnopened DEF OpenFails, Fresh, AtRest, ClosedFds
  <1>2. CASE "WAITDNS" \notin flags[m]
    <2>1. Free(m) /\ flags' = [flags EXCEPT ![m] = {}] /\ UNCHANGED corpses
      BY <1>2 DEF OpenFails
    <2>2. flags[m] = {} /\ flags' = flags /\ fd' = fd
      BY <1>1, <1>2, <2>1 DEF Free, Registry, TypeOK
    <2> QED
      BY <1>1, <2>1, <2>2, DiscardKeeps
      DEF Free, tables, kernel, control, Registry, TypeOK
  <1>3. CASE "WAITDNS" \in flags[m]
    <2>1. /\ fd' = [fd EXCEPT ![m] = f]
          /\ flags' = [flags EXCEPT ![m] = @ \cup {"WAITDESTROY"}]
          /\ corpses' = [corpses EXCEPT ![f] = m]
          /\ UNCHANGED <<type, retried, named>>
      BY <1>3 DEF OpenFails
    <2>2. /\ \A x \in Socks : x # m => fd'[x] = fd[x] /\ flags'[x] = flags[x]
          /\ fd'[m] = f /\ flags'[m] = flags[m] \cup {"WAITDESTROY"}
      BY <2>1 DEF Registry, TypeOK
    <2>3. \A h \in Fds : list[h] # m /\ ev[h] # m /\ corpses[h] # m
      BY <1>1, UnopenedIsNowhere
    <2> USE <1>1, <2>1, <2>2, <2>3 DEF Registry, Live, Dead, queries, kernel, control
    <2>4. TypeOK'
      BY DEF TypeOK, FlagNames
    <2>5. RegistrySound'
      BY DEF TypeOK, RegistrySound
    <2>6. MuxSound'
      BY DEF TypeOK, MuxSound
    <2>7. CorpsesSound'
      BY DEF TypeOK, CorpsesSound
    <2>8. FlagsMatchLink'
      BY DEF TypeOK, FlagsMatchLink
    <2>9. Unopened'
      <3>1. f # NoFd /\ pc' = "run"
        BY HighSockAssumption DEF Fds, NoFd
      <3>2. ASSUME NEW x \in Socks
            PROVE  /\ type'[x] = "free" => fd'[x] = NoFd /\ flags'[x] = {}
                   /\ fd'[x] = NoFd => flags'[x] \subseteq {"WAITDNS"}
                   /\ "WAITDESTROY" \in flags'[x] =>
                        flags'[x] \cap {"CONNECTED", "MUXACTIVE"} = {}
        BY <3>1 DEF Unopened
      <3> QED BY <3>1, <3>2 DEF Unopened
    <2> QED BY <2>4, <2>5, <2>6, <2>7, <2>8, <2>9
  <1> QED BY <1>2, <1>3

\* lms_mux_addfd() gives the owner of a descriptor its event.
LEMMA WatchKeeps ==
  ASSUME Registry, NEW m \in Socks, Registered(m), Watch(m), pc' = "run",
         UNCHANGED <<type, fd, retried, named, list, corpses, queries, kernel, slot, fault>>,
         listener' \in {listener, None}, incoming' \in {incoming, None}
  PROVE  Registry'
  <1> USE DEF Watch, Registered, Live, Dead, Registry, queries, kernel
  <1>1. fd[m] \in Fds /\ list[fd[m]] = m
    BY DEF TypeOK
  <1>2. ~Dead(m)
    BY <1>1, NoneAssumption DEF RegistrySound
  <1>3. \A x \in Socks : x # m => flags'[x] = flags[x]
    BY DEF TypeOK
  <1>4. flags'[m] = flags[m] \cup {"MUXACTIVE"}
    BY DEF TypeOK
  <1>5. TypeOK'
    BY <1>1 DEF TypeOK, FlagNames
  <1>6. RegistrySound' /\ CorpsesSound'
    BY <1>1, <1>2, <1>3, <1>4 DEF TypeOK, RegistrySound, CorpsesSound
  <1>7. MuxSound'
    BY <1>1, <1>3, <1>4, NoneAssumption DEF TypeOK, RegistrySound, MuxSound
  <1>8. FlagsMatchLink'
    BY <1>3, <1>4 DEF FlagsMatchLink, TypeOK
  <1>9. Unopened'
    BY <1>1, <1>2, <1>3, <1>4 DEF Unopened, TypeOK
  <1> QED BY <1>5, <1>6, <1>7, <1>8, <1>9

\* It is called by the program,
LEMMA AddFdKeeps ==
  ASSUME Registry, NEW m \in Socks, AddFd(m)
  PROVE  Registry'
  BY WatchKeeps DEF AddFd, AtRest, control

\* lms_socket_create() hands out an address that no table mentions.
LEMMA CreateKeeps ==
  ASSUME Registry, NEW m \in Socks, NEW t \in {"LISTEN", "STREAM"}, Create(m, t)
  PROVE  Registry'
  <1> USE DEF Create, Live, Dead, Registry, tables, queries, kernel, control
  <1>1. fd[m] = NoFd /\ flags[m] = {}
    BY DEF Unopened
  <1>2. \A h \in Fds : list[h] # m
    BY <1>1, UnopenedIsNowhere
  <1>3. TypeOK'
    BY DEF TypeOK, Types
  <1>4. RegistrySound' /\ MuxSound' /\ CorpsesSound'
    BY <1>1 DEF TypeOK, RegistrySound, MuxSound, CorpsesSound
  <1>5. FlagsMatchLink'
    BY <1>2 DEF TypeOK, FlagsMatchLink
  <1>6. Unopened'
    BY <1>1 DEF TypeOK, Unopened, AtRest
  <1> QED BY <1>3, <1>4, <1>5, <1>6

-----------------------------------------------------------------------------
\* lms_conn_accept() allocates the socket of a connection to come.
LEMMA AcceptEventKeeps ==
  ASSUME Registry, NEW f \in Fds, NEW n \in Socks, AcceptEvent(f, n)
  PROVE  Registry'
  <1> USE DEF AcceptEvent, Live, Dead, Registry, tables, queries, kernel, AtRest
  <1>1. fd[n] = NoFd /\ flags[n] = {}
    BY DEF Unopened
  <1>2. \A h \in Fds : list[h] # n /\ ev[h] # n
    BY <1>1, UnopenedIsNowhere
  <1>3. ev[f] \in Socks /\ Registered(ev[f]) /\ ev[f] # n
    BY <1>2, NoneAssumption, HighSockAssumption
    DEF TypeOK, MuxSound, RegistrySound, Registered, Fds, NoFd
  <1>4. TypeOK'
    BY <1>3 DEF TypeOK, Types
  <1>5. RegistrySound' /\ MuxSound' /\ CorpsesSound'
    BY <1>1 DEF TypeOK, RegistrySound, MuxSound, CorpsesSound
  <1>6. FlagsMatchLink'
    BY <1>2 DEF TypeOK, FlagsMatchLink
  <1>7. Unopened'
    BY <1>1, <1>3 DEF TypeOK, Unopened, Registered
  <1> QED BY <1>4, <1>5, <1>6, <1>7

\* accept() returns: the new socket is opened.
LEMMA AcceptReturnKeeps ==
  ASSUME Registry, NEW g \in ClosedFds, AcceptReturn(g)
  PROVE  Registry'
  <1> DEFINE n == incoming
  <1> USE DEF AcceptReturn, Open
  <1>1. n \in Socks /\ type[n] = "STREAM" /\ fd[n] = NoFd /\ flags[n] = {}
    BY DEF Registry, Unopened
  <1>2. backlog' \in [Fds -> 0 .. MaxBacklog]
    <2> listener \in Socks /\ fd[listener] \in Fds
      BY DEF Registry, Unopened, Registered, TypeOK
    <2> QED BY BoundsAssumption DEF Registry, TypeOK
  <1> QED BY <1>1, <1>2, OpenKeeps DEF Live

\* A write event turns a waiting connection into a connected one.
LEMMA WriteEventKeeps ==
  ASSUME Registry, NEW f \in Fds, WriteEvent(f)
  PROVE  Registry'
  <1> DEFINE m == ev[f]
  <1> USE DEF WriteEvent, Watched, AfterWrite, Live, Dead, Registry, tables, queries,
          kernel, control, AtRest
  <1>1. m \in Socks /\ list[f] = m /\ fd[m] = f /\ "MUXACTIVE" \in flags[m]
        /\ ~Dead(m) /\ type[m] = "STREAM"
    BY NoneAssumption DEF TypeOK, MuxSound, RegistrySound
  <1>2. \A x \in Socks : x # m => flags'[x] = flags[x]
    BY DEF TypeOK
  <1>3. flags'[m] = (flags[m] \ {"WAITCONN"}) \cup {"CONNECTED"}
    BY <1>1 DEF TypeOK
  <1>4. TypeOK'
    BY <1>1 DEF TypeOK, FlagNames
  <1>5. RegistrySound' /\ CorpsesSound'
    BY <1>1, <1>2, <1>3 DEF TypeOK, RegistrySound, CorpsesSound
  <1>6. MuxSound'
    BY <1>1, <1>2, <1>3 DEF TypeOK, MuxSound
  <1>7. FlagsMatchLink'
    <2> SUFFICES ASSUME NEW h \in Fds, list[h] # None
                 PROVE  LET s == flags'[list[h]] IN
                        /\ link[h] = "listening" <=> type[list[h]] = "LISTEN"
                        /\ link[h] = "listening" <=> "LISTEN" \in s
                        /\ link[h] = "connecting" => "WAITCONN" \in s
                        /\ link[h] # "listening" => ("WAITCONN" \in s <=> "CONNECTED" \notin s)
      BY DEF FlagsMatchLink
    <2>1. CASE h = f
      BY <1>1, <1>3, <2>1, NoneAssumption DEF FlagsMatchLink
    <2>2. CASE h # f
      <3> list[h] \in Socks /\ list[h] # m
        BY <1>1, <2>2 DEF TypeOK, RegistrySound
      <3> QED BY <1>2 DEF FlagsMatchLink
    <2> QED BY <2>1, <2>2
  <1>8. Unopened'
    BY <1>1, <1>2, <1>3 DEF Unopened, TypeOK, Registered
  <1> QED BY <1>4, <1>5, <1>6, <1>7, <1>8

\* Only the kernel's side of the descriptors
LEMMA KernelKeeps ==
  ASSUME Registry, NEW f \in Fds,
         Established(f) \/ Refused(f) \/ PeerCloses(f) \/ Arrive(f) \/ GiveUp(f)
  PROVE  Registry'
  <1> USE DEF Registry, objects, tables, queries, kernel, control, Live, Dead
  <1>1. UNCHANGED <<objects, tables, queries, control, fault>>
    BY DEF Established, Refused, PeerCloses, LinkStep, Arrive, GiveUp
  <1>2. /\ link' \in [Fds -> Links] /\ backlog' \in [Fds -> 0 .. MaxBacklog]
        /\ \A h \in Fds : link'[h] # link[h] =>
             link[h] \in {"connecting", "up"} /\ link'[h] \in {"up", "refused", "eof"}
    <2>1. CASE Established(f) \/ Refused(f) \/ PeerCloses(f)
      BY <2>1 DEF Established, Refused, PeerCloses, LinkStep, TypeOK, Links
    <2>2. CASE Arrive(f) \/ GiveUp(f)
      BY <2>2, BoundsAssumption DEF Arrive, GiveUp, TypeOK
    <2> QED BY <2>1, <2>2
  <1>3. TypeOK'
    BY <1>1, <1>2 DEF TypeOK
  <1>4. MuxSound' /\ CorpsesSound' /\ Unopened'
    BY <1>1 DEF MuxSound, CorpsesSound, Unopened, Registered
  <1>5. RegistrySound'
    BY <1>1, <1>2 DEF RegistrySound
  <1>6. FlagsMatchLink'
    BY <1>1, <1>2 DEF FlagsMatchLink
  <1> QED BY <1>3, <1>4, <1>5, <1>6

\* Housekeeping starts at the first slot.
LEMMA StartHousekeepingKeeps ==
  ASSUME Registry, StartHousekeeping
  PROVE  Registry'
  <1> USE DEF Registry, StartHousekeeping, objects, tables, queries, kernel, control, Live, Dead
  <1>1. TypeOK'
    BY HighSockAssumption DEF TypeOK, Fds
  <1>2. RegistrySound' /\ MuxSound' /\ CorpsesSound' /\ FlagsMatchLink'
    BY DEF RegistrySound, MuxSound, CorpsesSound, FlagsMatchLink
  <1>3. Unopened'
    BY DEF Unopened
  <1> QED BY <1>1, <1>2, <1>3

\* A fault stops the program with its tables as they are.
LEMMA CrashKeeps ==
  ASSUME Registry, NEW kind \in Faults, Crash(kind),
         slot' \in Fds, pc' \in {"run", "housekeeping"} \/ UNCHANGED <<pc, listener, incoming>>,
         listener' \in {listener, None}, incoming' \in {incoming, None}
  PROVE  Registry'
  <1> USE DEF Registry, Crash, objects, tables, queries, kernel, Live, Dead
  <1>1. TypeOK'
    BY DEF TypeOK
  <1>2. RegistrySound' /\ MuxSound' /\ CorpsesSound' /\ FlagsMatchLink'
    BY DEF RegistrySound, MuxSound, CorpsesSound, FlagsMatchLink
  <1>3. Unopened'
    BY DEF Unopened, Registered
  <1> QED BY <1>1, <1>2, <1>3

\* A step that moves at most the thread.
LEMMA StutterKeeps ==
  ASSUME Registry, UNCHANGED <<objects, tables, queries, kernel>>, fault' = fault,
         slot' \in Fds, pc' \in {"run", "housekeeping"} \/ UNCHANGED <<pc, listener, incoming>>,
         listener' \in {listener, None}, incoming' \in {incoming, None}
  PROVE  Registry'
  <1> fault \in Faults
    BY DEF Registry, TypeOK
  <1> QED BY CrashKeeps DEF Crash

-----------------------------------------------------------------------------
(* Look-ups *)

\* What a step of a look-up does, whether it is the only one of its socket, one
\* of several, or one of an owner that its socket's address had before: it
\* changes the mark of an allocated socket and the queries, nothing else.
MarkStep(m) ==
  /\ AtRest /\ Live(m)
  /\ flags' \in {flags, [flags EXCEPT ![m] = @ \ {"WAITDNS"}],
                        [flags EXCEPT ![m] = @ \cup {"WAITDNS"}]}
  /\ ptrQ' \in [Socks -> 0 .. MaxLookups] /\ aQ' \in [Socks -> 0 .. MaxLookups]
  /\ named' \in SUBSET Socks /\ retried' \in SUBSET Socks
  /\ UNCHANGED <<type, fd, tables, kernel, control, fault>>

\* Neither the registry nor the mux depends on marks.
LEMMA MarkKeeps ==
  ASSUME Registry, NEW m \in Socks, MarkStep(m)
  PROVE  Registry'
  <1> USE DEF Registry, MarkStep, Live, Dead, tables, kernel, control, AtRest
  <1>1. \A x \in Socks : flags'[x] \ {"WAITDNS"} = flags[x] \ {"WAITDNS"}
    BY DEF TypeOK
  <1>2. \A x \in Socks, s \in FlagNames \ {"WAITDNS"} : s \in flags'[x] <=> s \in flags[x]
    BY <1>1
  <1>3. TypeOK'
    BY DEF TypeOK, FlagNames
  <1>4. RegistrySound' /\ MuxSound' /\ CorpsesSound'
    BY <1>2 DEF TypeOK, RegistrySound, MuxSound, CorpsesSound, FlagNames
  <1>5. FlagsMatchLink'
    BY <1>2 DEF TypeOK, FlagsMatchLink, FlagNames
  <1>6. Unopened'
    <2>1. ASSUME NEW x \in Socks
          PROVE  /\ type'[x] = "free" => fd'[x] = NoFd /\ flags'[x] = {}
                 /\ fd'[x] = NoFd => flags'[x] \subseteq {"WAITDNS"}
                 /\ "WAITDESTROY" \in flags'[x] => flags'[x] \cap {"CONNECTED", "MUXACTIVE"} = {}
      <3>1. type[x] = "free" => x # m
        OBVIOUS
      <3>2. x # m => flags'[x] = flags[x]
        BY DEF TypeOK
      <3> QED BY <1>1, <1>2, <3>1, <3>2 DEF Unopened, FlagNames
    <2> QED BY <2>1 DEF Unopened
  <1> QED BY <1>3, <1>4, <1>5, <1>6

\* lms_dns_findrev() is such a step.
LEMMA LookupMarks ==
  ASSUME Registry, AtRest, NEW m \in Socks, Live(m), NEW p, NEW a, NEW h,
         p \in [Socks -> 0 .. MaxLookups], a \in [Socks -> 0 .. MaxLookups],
         h \in SUBSET Socks,
         Lookup(m, p, a, h), retried' \in SUBSET Socks,
         UNCHANGED <<type, fd, tables, kernel, control, fault>>
  PROVE  MarkStep(m)
  <1>1. ASSUME NEW q \in [Socks -> 0 .. MaxLookups], q[m] < MaxLookups
        PROVE  [q EXCEPT ![m] = @ + 1] \in [Socks -> 0 .. MaxLookups]
    BY <1>1, BoundsAssumption
  <1>2. CASE Settle(m) /\ named' \in {h, h \ {m}} /\ ptrQ' = p /\ aQ' = a
    BY <1>2 DEF MarkStep, Settle
  <1>3. CASE /\ flags' = [flags EXCEPT ![m] = @ \cup {"WAITDNS"}]
             /\ p[m] < MaxLookups /\ ptrQ' = [p EXCEPT ![m] = @ + 1]
             /\ named' = h /\ aQ' = a
    BY <1>1, <1>3 DEF MarkStep
  <1>4. CASE /\ flags' = [flags EXCEPT ![m] = @ \cup {"WAITDNS"}]
             /\ a[m] < MaxLookups /\ aQ' = [a EXCEPT ![m] = @ + 1]
             /\ named' = h \cup {m} /\ ptrQ' = p
    BY <1>1, <1>4 DEF MarkStep
  <1>5. CASE /\ flags' = [flags EXCEPT ![m] = @ \cup {"WAITDNS"}]
             /\ ptrQ' = p /\ aQ' = a /\ named' \in {h, h \ {m}, h \cup {m}}
    BY <1>5 DEF MarkStep
  <1> QED BY <1>2, <1>3, <1>4, <1>5 DEF Lookup

\* An answer takes one query off.
LEMMA AnsweredTyped ==
  ASSUME NEW m \in Socks, NEW q \in [Socks -> 0 .. MaxLookups], q[m] > 0
  PROVE  [q EXCEPT ![m] = @ - 1] \in [Socks -> 0 .. MaxLookups]
  BY BoundsAssumption

\* Calls and answers of the resolver keep the registry, even when the answer
\* is to a query of a socket that was released since.
LEMMA ResolverKeeps ==
  ASSUME Registry, NEW m \in Socks, FindRev(m) \/ RecvRevA(m) \/ RecvRevB(m)
  PROVE  Registry'
  <1> DEFINE p == [ptrQ EXCEPT ![m] = @ - 1]
             a == [aQ EXCEPT ![m] = @ - 1]
             Counts == [Socks -> 0 .. MaxLookups]
  <1>1. /\ AtRest /\ ptrQ \in Counts /\ aQ \in Counts
        /\ named \in SUBSET Socks /\ retried \in SUBSET Socks
    BY DEF FindRev, RecvRevA, RecvRevB, Registry, TypeOK
  <1>2. CASE FindRev(m)
    <2>1. Live(m)
      BY <1>2, RegisteredIsOpen DEF FindRev
    <2> QED BY <1>1, <1>2, <2>1, LookupMarks, MarkKeeps DEF FindRev
  <1>3. ASSUME NEW kind \in Faults, Crash(kind), UNCHANGED control
        PROVE  Registry'
    BY <1>3, CrashKeeps DEF control, Registry, TypeOK
  <1>4. CASE RecvRevA(m) /\ Live(m)
    <2>1. p \in Counts
      BY <1>1, <1>4, AnsweredTyped DEF RecvRevA
    <2>2. CASE Crash("nullHost")
      BY <1>3, <1>4, <2>2 DEF RecvRevA, Faults
    <2>3. CASE UNCHANGED <<type, fd, tables, kernel, fault>>
      <3>1. UNCHANGED <<type, fd, tables, kernel, control, fault>>
        BY <1>4, <2>3 DEF RecvRevA
      <3>2. \/ Finish(m) /\ ptrQ' = p /\ UNCHANGED aQ
            \/ retried' = retried \cup {m} /\ Lookup(m, p, aQ, named)
            \/ /\ named' \in {named \ {m}, named \cup {m}}
               /\ ptrQ' = p /\ UNCHANGED <<aQ, flags, retried>>
            \/ /\ Settle(m) /\ named' = named \cup {m}
               /\ ptrQ' = p /\ UNCHANGED <<aQ, retried>>
            \/ /\ aQ[m] < MaxLookups /\ named' = named \cup {m}
               /\ ptrQ' = p /\ aQ' = [aQ EXCEPT ![m] = @ + 1]
               /\ UNCHANGED <<flags, retried>>
            \/ Crash("nullHost")
        BY <1>4 DEF RecvRevA
      <3> HIDE DEF p
      <3>3. CASE retried' = retried \cup {m} /\ Lookup(m, p, aQ, named)
        BY <1>1, <1>4, <2>1, <3>1, <3>3, LookupMarks, MarkKeeps
      <3>4. CASE /\ named' \in SUBSET Socks /\ retried' \in SUBSET Socks
                 /\ flags' = flags \/ Settle(m)
                 /\ ptrQ' = p /\ aQ' \in Counts
        <4>1. MarkStep(m)
          BY <1>1, <1>4, <2>1, <3>1, <3>4 DEF MarkStep, Settle
        <4> QED BY <4>1, MarkKeeps
      <3>5. CASE Finish(m) /\ ptrQ' = p /\ UNCHANGED aQ
        BY <1>1, <3>4, <3>5 DEF Finish
      <3>6. CASE aQ[m] < MaxLookups /\ aQ' = [aQ EXCEPT ![m] = @ + 1]
        <4>1. aQ' \in Counts
          BY <1>1, <3>6, BoundsAssumption
        <4> QED BY <1>1, <2>2, <3>2, <3>3, <3>4, <3>5, <4>1
      <3> QED BY <1>1, <2>2, <3>2, <3>3, <3>4, <3>5, <3>6
    <2> QED BY <1>4, <2>2, <2>3 DEF RecvRevA
  <1>5. CASE RecvRevB(m) /\ Live(m)
    <2>1. a \in Counts
      BY <1>1, <1>5, AnsweredTyped DEF RecvRevB
    <2>2. UNCHANGED <<type, fd, tables, kernel, control, fault>>
      BY <1>5 DEF RecvRevB
    <2> HIDE DEF a
    <2>3. \/ /\ flags' \in {flags, [flags EXCEPT ![m] = @ \ {"WAITDNS"}]}
             /\ named' \in {named, named \ {m}} /\ retried' \in {retried, retried \ {m}}
             /\ aQ' = a /\ ptrQ' = ptrQ
          \/ retried' = retried \cup {m} /\ Lookup(m, ptrQ, a, named \ {m})
      BY <1>5 DEF RecvRevB, Settle, a
    <2>4. CASE retried' = retried \cup {m} /\ Lookup(m, ptrQ, a, named \ {m})
      BY <1>1, <1>5, <2>1, <2>2, <2>4, LookupMarks, MarkKeeps
    <2>5. CASE /\ flags' \in {flags, [flags EXCEPT ![m] = @ \ {"WAITDNS"}]}
               /\ named' \in {named, named \ {m}} /\ retried' \in {retried, retried \ {m}}
               /\ aQ' = a /\ ptrQ' = ptrQ
      <3>1. MarkStep(m)
        BY <1>1, <1>5, <2>1, <2>2, <2>5 DEF MarkStep
      <3> QED BY <3>1, MarkKeeps
    <2> QED BY <2>3, <2>4, <2>5
  <1>6. CASE Crash("useAfterFree") /\ UNCHANGED control
    BY <1>3, <1>6 DEF Faults
  <1> QED BY <1>2, <1>4, <1>5, <1>6 DEF RecvRevA, RecvRevB

-----------------------------------------------------------------------------
(* Closing *)

\* A step of the thread that is not inside lms_conn_accept(), or leaves it
InLoop ==
  /\ pc' \in {"run", "housekeeping"} /\ slot' \in Fds
  /\ listener' \in {listener, None} /\ incoming' \in {incoming, None}

\* An open socket is destroyed: its entry, its event and its descriptor go, and
\* it stays allocated as a corpse exactly if a query still names it.
LEMMA CloseEffect ==
  ASSUME Registry, NEW m \in Socks, Live(m), ~Dead(m), fd[m] # NoFd, Close(m)
  PROVE  /\ fd[m] \in Fds /\ list[fd[m]] = m
         /\ ev' = [ev EXCEPT ![fd[m]] = None]
         /\ list' = [list EXCEPT ![fd[m]] = None]
         /\ link' = [link EXCEPT ![fd[m]] = "closed"]
         /\ backlog' = [backlog EXCEPT ![fd[m]] = 0]
         /\ flags' \in [Socks -> SUBSET FlagNames]
         /\ \A x \in Socks : x # m =>
              flags'[x] = flags[x] /\ type'[x] = type[x] /\ fd'[x] = fd[x]
         /\ \/ /\ "WAITDNS" \in flags[m]
               /\ flags'[m] = (flags[m] \ {"CONNECTED", "MUXACTIVE"}) \cup {"WAITDESTROY"}
               /\ corpses' = [corpses EXCEPT ![fd[m]] = m]
               /\ UNCHANGED <<type, fd, retried, named>>
            \/ /\ "WAITDNS" \notin flags[m]
               /\ flags'[m] = {}
               /\ Free(m)
               /\ UNCHANGED corpses
  <1> DEFINE g == fd[m]
  <1>1. g \in Fds /\ list[g] = m
    BY DEF Registry, TypeOK, RegistrySound
  <1>2. /\ ev' = [ev EXCEPT ![g] = None]
        /\ list' = [list EXCEPT ![g] = None]
        /\ link' = [link EXCEPT ![g] = "closed"]
        /\ backlog' = [backlog EXCEPT ![g] = 0]
    <2>1. ~RemFd(m) => ev[g] = None
      BY <1>1, NoneAssumption DEF RemFd, Registry, MuxSound
    <2> QED BY <1>1, <2>1 DEF Close, Registry, TypeOK
  <1>3. \A x \in Socks : x # m => flags'[x] = flags[x]
    BY <1>1 DEF Close, FlagsWithout, Registry, TypeOK
  <1>4. \/ /\ "WAITDNS" \in flags[m]
           /\ flags'[m] = (flags[m] \ {"CONNECTED", "MUXACTIVE"}) \cup {"WAITDESTROY"}
           /\ corpses' = [corpses EXCEPT ![g] = m]
           /\ UNCHANGED <<type, fd, retried, named>>
        \/ /\ "WAITDNS" \notin flags[m]
           /\ flags'[m] = {}
           /\ Free(m)
           /\ UNCHANGED corpses
    <2>1. CASE "WAITDNS" \notin flags[m]
      <3>1. flags' = [FlagsWithout(m) EXCEPT ![m] = {}] /\ Free(m) /\ UNCHANGED corpses
        BY <2>1 DEF Close
      <3>2. FlagsWithout(m) \in [Socks -> SUBSET FlagNames]
        BY <1>1 DEF FlagsWithout, Registry, TypeOK
      <3> QED BY <2>1, <3>1, <3>2
    <2>2. CASE "WAITDNS" \in flags[m]
      <3>1. /\ flags' = [FlagsWithout(m) EXCEPT ![m] =
                           (@ \ {"CONNECTED"}) \cup {"WAITDESTROY"}]
            /\ corpses' = [corpses EXCEPT ![g] = m]
            /\ UNCHANGED <<type, fd, retried, named>>
        BY <2>2 DEF Close
      <3>2. FlagsWithout(m) \in [Socks -> SUBSET FlagNames]
        BY <1>1 DEF FlagsWithout, Registry, TypeOK
      <3>3. FlagsWithout(m)[m] = flags[m] \ {"MUXACTIVE"}
        <4>1. CASE RemFd(m)
          BY <1>1, <4>1, NoneAssumption DEF FlagsWithout, Registry, TypeOK
        <4>2. CASE ~RemFd(m)
          <5> "MUXACTIVE" \notin flags[m]
            BY <1>1, <4>2, NoneAssumption DEF RemFd, Registry, MuxSound
          <5> QED BY <4>2 DEF FlagsWithout
        <4> QED BY <4>1, <4>2
      <3>4. flags'[m] = (FlagsWithout(m)[m] \ {"CONNECTED"}) \cup {"WAITDESTROY"}
        BY <3>1, <3>2
      <3> QED BY <2>2, <3>1, <3>3, <3>4
    <2> QED BY <2>1, <2>2
  <1>5. flags' \in [Socks -> SUBSET FlagNames]
    <2>1. FlagsWithout(m) \in [Socks -> SUBSET FlagNames]
      BY <1>1 DEF FlagsWithout, Registry, TypeOK
    <2> QED BY <2>1 DEF Close, FlagNames
  <1>6. \A x \in Socks : x # m => type'[x] = type[x] /\ fd'[x] = fd[x]
    BY <1>4 DEF Free, Registry, TypeOK
  <1> QED BY <1>1, <1>2, <1>3, <1>4, <1>5, <1>6

\* That step keeps the invariant.
LEMMA CloseKeeps ==
  ASSUME Registry, NEW m \in Socks, Live(m), ~Dead(m), fd[m] # NoFd,
         Close(m), InLoop, UNCHANGED <<queries, fault>>
  PROVE  Registry'
  <1> DEFINE g == fd[m]
  <1>1. g \in Fds /\ list[g] = m
    BY CloseEffect
  <1>2. /\ ev' = [ev EXCEPT ![g] = None]
        /\ list' = [list EXCEPT ![g] = None]
        /\ link' = [link EXCEPT ![g] = "closed"]
        /\ backlog' = [backlog EXCEPT ![g] = 0]
    BY CloseEffect
  <1>3. \A x \in Socks : x # m => flags'[x] = flags[x]
    BY CloseEffect
  <1>4. \/ /\ "WAITDNS" \in flags[m]
           /\ flags'[m] = (flags[m] \ {"CONNECTED", "MUXACTIVE"}) \cup {"WAITDESTROY"}
           /\ corpses' = [corpses EXCEPT ![g] = m]
           /\ UNCHANGED <<type, fd, retried, named>>
        \/ /\ "WAITDNS" \notin flags[m]
           /\ flags'[m] = {}
           /\ Free(m)
           /\ UNCHANGED corpses
    BY CloseEffect
  <1>5. flags' \in [Socks -> SUBSET FlagNames]
    BY CloseEffect
  <1>6. \A h \in Fds : h # g => list[h] # m /\ ev[h] # m /\ corpses[h] # m
    BY NoneAssumption DEF Registry, RegistrySound, MuxSound, CorpsesSound
  <1>7. corpses[g] # m
    BY <1>1, NoneAssumption DEF Registry, CorpsesSound
  <1>8. UNCHANGED <<ptrQ, aQ, fault>>
    BY DEF queries
  <1>9. \A x \in Socks : x # m =>
          type'[x] = type[x] /\ fd'[x] = fd[x]
    BY <1>4 DEF Free, Registry, TypeOK
  <1>10. \/ /\ "WAITDNS" \in flags[m]
            /\ flags'[m] = (flags[m] \ {"CONNECTED", "MUXACTIVE"}) \cup {"WAITDESTROY"}
            /\ type'[m] = type[m] /\ fd'[m] = g
            /\ corpses' = [corpses EXCEPT ![g] = m]
         \/ /\ flags'[m] = {} /\ type'[m] = "free" /\ fd'[m] = NoFd
            /\ corpses' = corpses
    BY <1>4 DEF Free, Registry, TypeOK
  <1>11. TypeOK'
    <2>1. type' \in [Socks -> Types] /\ fd' \in [Socks -> Fds \cup {NoFd}]
          /\ named' \subseteq Socks /\ retried' \subseteq Socks
          /\ corpses' \in [Fds -> Socks \cup {None}]
      BY <1>1, <1>4 DEF Free, Registry, TypeOK, Types
    <2>2. /\ list' \in [Fds -> Socks \cup {None}] /\ ev' \in [Fds -> Socks \cup {None}]
          /\ link' \in [Fds -> Links] /\ backlog' \in [Fds -> 0 .. MaxBacklog]
      BY <1>2, BoundsAssumption DEF Registry, TypeOK, Links
    <2>3. /\ pc' \in {"run", "housekeeping"} /\ slot' \in Fds
          /\ listener' \in Socks \cup {None} /\ incoming' \in Socks \cup {None}
          /\ fault' \in Faults
      BY <1>8 DEF Registry, TypeOK, InLoop
    <2> QED BY <1>5, <1>8, <2>1, <2>2, <2>3 DEF Registry, TypeOK
  <1> USE DEF Registry, Live, Dead
  <1>12. RegistrySound'
    BY <1>1, <1>2, <1>3, <1>6, <1>9, <1>10 DEF RegistrySound, TypeOK
  <1>13. MuxSound'
    BY <1>1, <1>2, <1>3, <1>6, <1>9, <1>10 DEF MuxSound, RegistrySound, TypeOK
  <1>14. CorpsesSound'
    BY <1>1, <1>3, <1>6, <1>7, <1>9, <1>10 DEF CorpsesSound, TypeOK
  <1>15. FlagsMatchLink'
    BY <1>1, <1>2, <1>3, <1>6, <1>9 DEF FlagsMatchLink, TypeOK
  <1>16. Unopened'
    <2>1. ASSUME NEW x \in Socks
          PROVE  /\ type'[x] = "free" => fd'[x] = NoFd /\ flags'[x] = {}
                 /\ fd'[x] = NoFd => flags'[x] \subseteq {"WAITDNS"}
                 /\ "WAITDESTROY" \in flags'[x] => flags'[x] \cap {"CONNECTED", "MUXACTIVE"} = {}
      BY <1>1, <1>3, <1>9, <1>10 DEF Unopened
    <2> QED BY <2>1 DEF Unopened, InLoop
  <1> QED BY <1>11, <1>12, <1>13, <1>14, <1>15, <1>16

\* A corpse is destroyed: it stays if it still waits, else it is released.
LEMMA BuryKeeps ==
  ASSUME Registry, NEW m \in Socks, Live(m), Dead(m), fd[m] # NoFd, corpses[fd[m]] = m,
         Bury(m), InLoop, UNCHANGED <<queries, fault>>
  PROVE  Registry'
  <1> DEFINE g == fd[m]
  <1>1. g \in Fds
    BY DEF Registry, TypeOK
  <1>2. CASE "WAITDNS" \in flags[m]
    <2>1. corpses' = corpses /\ UNCHANGED objects
      BY <1>1, <1>2 DEF Bury, Registry, TypeOK
    <2> QED BY <2>1, StutterKeeps DEF Bury, InLoop, tables, kernel
  <1>3. CASE "WAITDNS" \notin flags[m]
    <2>1. /\ UNCHANGED <<ev, list, link, backlog, ptrQ, aQ, fault>>
          /\ corpses' = [corpses EXCEPT ![g] = None]
          /\ flags' = [flags EXCEPT ![m] = {}]
          /\ type' = [type EXCEPT ![m] = "free"]
          /\ fd' = [fd EXCEPT ![m] = NoFd]
          /\ retried' = retried \ {m} /\ named' = named \ {m}
      BY <1>3 DEF Bury, Free, queries
    <2>2. \A h \in Fds : list[h] # m /\ ev[h] # m /\ (h # g => corpses[h] # m)
      BY NoneAssumption DEF Registry, RegistrySound, MuxSound, CorpsesSound, Live, Dead
    <2> USE <2>1, <2>2 DEF Registry, Live, Dead
    <2>3. TypeOK'
      BY DEF TypeOK, Types, InLoop
    <2>4. RegistrySound'
      BY DEF TypeOK, RegistrySound
    <2>5. MuxSound'
      BY DEF TypeOK, MuxSound
    <2>6. CorpsesSound'
      BY <1>1 DEF TypeOK, CorpsesSound
    <2>7. FlagsMatchLink'
      BY DEF TypeOK, FlagsMatchLink
    <2>8. Unopened'
      BY DEF TypeOK, Unopened, InLoop
    <2> QED BY <2>3, <2>4, <2>5, <2>6, <2>7, <2>8
  <1> QED BY <1>2, <1>3

\* lms_socket_destroy(), for a corpse only where its own entry has it
LEMMA DestroyKeeps ==
  ASSUME Registry, NEW m \in Socks, Live(m), Dead(m) => corpses[fd[m]] = m,
         Destroy(m), InLoop
  PROVE  Registry'
  <1>1. CASE fd[m] = NoFd /\ Crash("badIndex")
    BY <1>1, CrashKeeps DEF InLoop, Faults
  <1>2. CASE fd[m] # NoFd /\ Dead(m)
    BY <1>2, BuryKeeps DEF Destroy
  <1>3. CASE fd[m] # NoFd /\ ~Dead(m)
    BY <1>3, CloseKeeps DEF Destroy
  <1> QED BY <1>1, <1>2, <1>3 DEF Destroy

\* The program destroys a socket.
LEMMA AppDestroyKeeps ==
  ASSUME Registry, NEW m \in Socks, AppDestroy(m)
  PROVE  Registry'
  <1> InLoop
    BY DEF AppDestroy, AtRest, control, InLoop, Registry, TypeOK
  <1> QED BY DestroyKeeps DEF AppDestroy

\* and by lms_conn_accept(), which destroys the new socket when it fails.
LEMMA AcceptWatchKeeps ==
  ASSUME Registry, AcceptWatch
  PROVE  Registry'
  <1>1. incoming \in Socks /\ Registered(incoming)
    BY DEF AcceptWatch, Registry, Unopened
  <1>2. Live(incoming) /\ ~Dead(incoming)
    BY <1>1, RegisteredIsOpen
  <1>3. InLoop
    BY DEF AcceptWatch, InLoop, Registry, TypeOK
  <1> QED BY <1>1, <1>2, <1>3, WatchKeeps, DestroyKeeps DEF AcceptWatch

\* The socket of an event is registered.
LEMMA WatchedIsOpen ==
  ASSUME Registry, NEW f \in Fds, ev[f] # None
  PROVE  ev[f] \in Socks /\ Live(ev[f]) /\ ~Dead(ev[f])
  BY DEF Registry, TypeOK, MuxSound, RegistrySound

\* lms_socket_read() destroys the socket, or func_p does.
LEMMA ReadKeeps ==
  ASSUME Registry, NEW f \in Fds, ReadData(f) \/ ReadError(f)
  PROVE  Registry'
  <1>1. ev[f] \in Socks /\ Live(ev[f]) /\ ~Dead(ev[f])
    BY WatchedIsOpen DEF ReadData, ReadError, Watched
  <1>2. InLoop
    BY DEF ReadData, ReadError, AtRest, control, InLoop, Registry, TypeOK
  <1>3. CASE Destroy(ev[f])
    BY <1>1, <1>2, <1>3, DestroyKeeps
  <1>4. CASE Crash("writeAfterFree")
    BY <1>2, <1>4, CrashKeeps DEF Faults, InLoop
  <1> QED BY <1>3, <1>4 DEF ReadData, ReadError

\* One turn of the housekeeping loop
LEMMA HousekeepSlotKeeps ==
  ASSUME Registry, HousekeepSlot
  PROVE  Registry'
  <1>1. InLoop
    BY HighSockAssumption DEF HousekeepSlot, NextSlot, InLoop, Registry, TypeOK, Fds
  <1>2. slot \in Fds
    BY DEF Registry, TypeOK
  <1>3. CASE CorpseOfNobody
    BY <1>1, <1>3, CrashKeeps DEF CorpseOfNobody, Faults, InLoop
  <1>4. CASE BuryCorpse
    <2>1. corpses[slot] \in Socks /\ Live(corpses[slot]) /\ fd[corpses[slot]] = slot
      BY <1>2, <1>4 DEF BuryCorpse, HasCorpse, Registry, TypeOK, CorpsesSound
    <2> QED BY <1>1, <1>4, <2>1, DestroyKeeps DEF BuryCorpse
  <1>5. CASE Expire
    <2>1. list[slot] \in Socks /\ Live(list[slot]) /\ ~Dead(list[slot])
      BY <1>2, <1>5 DEF Expire, Registry, TypeOK, RegistrySound
    <2> QED BY <1>1, <1>5, <2>1, DestroyKeeps DEF Expire
  <1>6. CASE Spare
    BY <1>1, <1>6, StutterKeeps DEF Spare, InLoop
  <1> QED BY <1>3, <1>4, <1>5, <1>6 DEF HousekeepSlot

-----------------------------------------------------------------------------
\* lms_socket_destroytype() destroys several sockets in one step.
LEMMA DestroyTypeKeeps ==
  ASSUME Registry, NEW t \in {"LISTEN", "STREAM"}, DestroyType(t)
  PROVE  Registry'
  <1> DEFINE doomed == {m \in Socks : Registered(m) /\ type[m] = t}
             freed  == {m \in doomed : "WAITDNS" \notin flags[m]}
             At(f)  == list[f] \in doomed
  <1>1. \A m \in doomed : /\ m \in Socks /\ Live(m) /\ ~Dead(m)
                          /\ fd[m] \in Fds /\ list[fd[m]] = m
    BY RegisteredIsOpen
  <1>2. \A f \in Fds : At(f) => fd[list[f]] = f /\ (ev[f] # None => RemFd(list[f]))
    BY NoneAssumption DEF RemFd, Registered, Registry, TypeOK, RegistrySound, MuxSound
  <1>3. \A f \in Fds :
          /\ At(f) => /\ list'[f] = None /\ ev'[f] = None
                      /\ link'[f] = "closed" /\ backlog'[f] = 0
          /\ ~At(f) => /\ list'[f] = list[f] /\ ev'[f] = ev[f]
                       /\ link'[f] = link[f] /\ backlog'[f] = backlog[f]
    BY <1>2 DEF DestroyType
  <1>4. \A f \in Fds : corpses'[f] = IF list[f] \in doomed \ freed
                                       THEN list[f] ELSE corpses[f]
    BY DEF DestroyType
  <1>5. \A m \in Socks : m \notin doomed =>
          type'[m] = type[m] /\ fd'[m] = fd[m] /\ flags'[m] = flags[m]
    BY DEF DestroyType
  <1>6. \A m \in freed : type'[m] = "free" /\ fd'[m] = NoFd /\ flags'[m] = {}
    BY DEF DestroyType
  <1>7. \A m \in doomed \ freed :
          /\ type'[m] = type[m] /\ fd'[m] = fd[m]
          /\ flags'[m] = (flags[m] \ {"CONNECTED", "MUXACTIVE"}) \cup {"WAITDESTROY"}
    BY DEF DestroyType
  <1>8. UNCHANGED <<ptrQ, aQ, pc, slot, listener, incoming, fault>> /\ pc = "run"
    BY DEF DestroyType, queries, control, AtRest
  <1>9. TypeOK'
    <2>1. /\ type' \in [Socks -> Types] /\ fd' \in [Socks -> Fds \cup {NoFd}]
          /\ flags' \in [Socks -> SUBSET FlagNames]
          /\ retried' \subseteq Socks /\ named' \subseteq Socks
      BY DEF DestroyType, Registry, TypeOK, Types, FlagNames
    <2>2. /\ list' \in [Fds -> Socks \cup {None}] /\ corpses' \in [Fds -> Socks \cup {None}]
          /\ ev' \in [Fds -> Socks \cup {None}]
          /\ link' \in [Fds -> Links] /\ backlog' \in [Fds -> 0 .. MaxBacklog]
      BY BoundsAssumption DEF DestroyType, Registry, TypeOK, Links
    <2> QED BY <1>8, <2>1, <2>2 DEF Registry, TypeOK
  <1>10. \A f \in Fds : corpses[f] # None => corpses[f] \in Socks \ doomed
    BY <1>1 DEF Registry, TypeOK, CorpsesSound
  <1>11. freed \subseteq doomed /\ \A f \in Fds : list[f] \in doomed => list[f] \in Socks
    OBVIOUS
  <1> HIDE DEF doomed, freed
  <1>12. \A m \in Socks : \/ m \in freed \/ m \in doomed \ freed \/ m \notin doomed
    OBVIOUS
  <1> USE DEF Registry, Live, Dead
  <1>13. RegistrySound'
    <2>1. \A f \in Fds : list'[f] # None =>
            /\ list'[f] = list[f] /\ list[f] \in Socks \ doomed
      BY <1>3 DEF TypeOK
    <2>2. \A f \in Fds : list'[f] # None =>
            type'[list'[f]] # "free" /\ "WAITDESTROY" \notin flags'[list'[f]] /\ fd'[list'[f]] = f
      BY <1>5, <2>1 DEF RegistrySound
    <2>3. \A f \in Fds : link'[f] = "closed" <=> list'[f] = None
      BY <1>3, <1>1, NoneAssumption DEF RegistrySound
    <2>4. \A m \in Socks : type'[m] # "free" /\ "WAITDESTROY" \notin flags'[m] /\ fd'[m] # NoFd
            => list'[fd'[m]] = m
      BY <1>3, <1>5, <1>6, <1>7, <1>12 DEF RegistrySound, TypeOK
    <2> QED BY <2>2, <2>3, <2>4 DEF RegistrySound
  <1>14. MuxSound'
    <2>1. ASSUME NEW f \in Fds, ev'[f] # None
          PROVE  list'[f] = ev'[f] /\ "MUXACTIVE" \in flags'[ev'[f]]
      <3>1. list'[f] = list[f] /\ ev'[f] = ev[f] /\ list[f] \notin doomed
        BY <1>3, <2>1
      <3>2. list[f] = ev[f] /\ ev[f] \in Socks /\ "MUXACTIVE" \in flags[ev[f]]
        BY <2>1, <3>1 DEF MuxSound, TypeOK
      <3> QED BY <1>5, <3>1, <3>2
    <2>2. ASSUME NEW m \in Socks, "MUXACTIVE" \in flags'[m]
          PROVE  fd'[m] # NoFd /\ ev'[fd'[m]] = m
      <3>1. m \notin doomed
        BY <1>6, <1>7, <1>12, <2>2
      <3>2. fd[m] \in Fds /\ ev[fd[m]] = m /\ list[fd[m]] = m
        BY <1>5, <2>2, <3>1, NoneAssumption DEF MuxSound, TypeOK
      <3> QED BY <1>3, <1>5, <2>2, <3>1, <3>2 DEF MuxSound
    <2> QED BY <2>1, <2>2 DEF MuxSound
  <1>15. CorpsesSound'
    <2> SUFFICES ASSUME NEW f \in Fds, corpses'[f] # None
                 PROVE  /\ type'[corpses'[f]] # "free"
                        /\ "WAITDESTROY" \in flags'[corpses'[f]] /\ fd'[corpses'[f]] = f
      BY DEF CorpsesSound
    <2>1. CASE list[f] \in doomed \ freed
      BY <1>1, <1>4, <1>7, <2>1 DEF RegistrySound, TypeOK
    <2>2. CASE list[f] \notin doomed \ freed
      BY <1>4, <1>5, <1>10, <2>2 DEF CorpsesSound
    <2> QED BY <2>1, <2>2
  <1>16. FlagsMatchLink'
    <2>1. \A f \in Fds : list'[f] # None =>
            /\ list'[f] = list[f] /\ list[f] \in Socks \ doomed /\ link'[f] = link[f]
      BY <1>3 DEF TypeOK
    <2> QED BY <1>5, <2>1 DEF FlagsMatchLink
  <1>17. Unopened'
    <2>1. ASSUME NEW m \in Socks
          PROVE  /\ type'[m] = "free" => fd'[m] = NoFd /\ flags'[m] = {}
                 /\ fd'[m] = NoFd => flags'[m] \subseteq {"WAITDNS"}
                 /\ "WAITDESTROY" \in flags'[m] => flags'[m] \cap {"CONNECTED", "MUXACTIVE"} = {}
      <3>1. CASE m \in freed
        BY <1>6, <3>1
      <3>2. CASE m \in doomed \ freed
        BY <1>1, <1>7, <3>2, HighSockAssumption DEF Unopened, Fds, NoFd
      <3>3. CASE m \notin doomed
        BY <1>5, <3>3 DEF Unopened
      <3> QED BY <1>12, <3>1, <3>2, <3>3
    <2> QED BY <1>8, <2>1 DEF Unopened
  <1> QED BY <1>9, <1>13, <1>14, <1>15, <1>16, <1>17

-----------------------------------------------------------------------------
(* The invariant *)

\* Nothing is allocated at first.
LEMMA InitKeeps == Init => Registry
  <1> SUFFICES ASSUME Init PROVE Registry
    OBVIOUS
  <1> USE NoneAssumption, HighSockAssumption, BoundsAssumption DEF Init, Registry, Live, Dead
  <1>1. TypeOK
    BY DEF TypeOK, Types, Links, Faults, Fds
  <1>2. RegistrySound /\ MuxSound /\ CorpsesSound
    BY DEF RegistrySound, MuxSound, CorpsesSound
  <1>3. FlagsMatchLink /\ Unopened
    BY DEF FlagsMatchLink, Unopened
  <1> QED BY <1>1, <1>2, <1>3

\* No step of the program, the library or the kernel breaks the invariant.
LEMMA NextKeeps ==
  ASSUME "keepFailed" \notin Allowed, Registry, [Next]_vars
  PROVE  Registry'
  <1>1. CASE UNCHANGED vars
    BY <1>1, StutterKeeps DEF vars, control, Registry, TypeOK
  <1>2. CASE Program
    <2>1. ASSUME NEW m \in Socks, AppDestroy(m) \/ AddFd(m) \/ FindRev(m)
          PROVE  Registry'
      BY <2>1, AppDestroyKeeps, AddFdKeeps, ResolverKeeps
    <2>2. ASSUME NEW m \in Socks, NEW t \in {"LISTEN", "STREAM"}, Create(m, t)
          PROVE  Registry'
      BY <2>2, CreateKeeps
    <2>3. ASSUME NEW t \in {"LISTEN", "STREAM"}, DestroyType(t)
          PROVE  Registry'
      BY <2>3, DestroyTypeKeeps
    <2>4. ASSUME NEW m \in Socks, NEW f \in ClosedFds,
                 Listen(m, f) \/ Connect(m, f) \/ OpenFails(m, f)
          PROVE  Registry'
      BY <2>4, ListenKeeps, ConnectKeeps, OpenFailsKeeps
    <2> QED BY <1>2, <2>1, <2>2, <2>3, <2>4 DEF Program
  <1>3. CASE Library
    <2>1. ASSUME NEW f \in Fds, NEW n \in Socks, AcceptEvent(f, n)
          PROVE  Registry'
      BY <2>1, AcceptEventKeeps
    <2>2. ASSUME NEW g \in ClosedFds, AcceptReturn(g)
          PROVE  Registry'
      BY <2>2, AcceptReturnKeeps
    <2>3. ASSUME NEW f \in Fds, ReadData(f) \/ ReadError(f) \/ WriteEvent(f)
          PROVE  Registry'
      BY <2>3, ReadKeeps, WriteEventKeeps
    <2>4. ASSUME NEW m \in Socks, RecvRevA(m) \/ RecvRevB(m)
          PROVE  Registry'
      BY <2>4, ResolverKeeps
    <2> QED BY <1>3, <2>1, <2>2, <2>3, <2>4, AcceptWatchKeeps, StartHousekeepingKeeps,
               HousekeepSlotKeeps
            DEF Library
  <1>4. CASE Environment
    BY <1>4, KernelKeeps DEF Environment
  <1> QED BY <1>1, <1>2, <1>3, <1>4 DEF Next

-----------------------------------------------------------------------------
(* How descriptors change hands *)

\* The descriptors that change hands in this step are closed, and their owner
\* is destroyed.
Handover ==
  \A f \in Fds : list[f] # None /\ list'[f] # list[f] =>
    /\ list'[f] = None /\ link'[f] = "closed"
    /\ type'[list[f]] = "free" \/ "WAITDESTROY" \in flags'[list[f]]

\* Destroying a socket closes its own descriptor only.
LEMMA DestroyHandover ==
  ASSUME Registry, NEW m \in Socks, Live(m), Destroy(m)
  PROVE  Handover
  <1>1. CASE Dead(m) \/ fd[m] = NoFd
    <2> list' = list
      BY <1>1 DEF Destroy, Crash, Bury, tables
    <2> QED BY DEF Handover
  <1>2. CASE ~Dead(m) /\ fd[m] # NoFd
    <2>1. Close(m) /\ fd[m] \in Fds /\ list[fd[m]] = m
      BY <1>2 DEF Destroy, Registry, TypeOK, RegistrySound
    <2>2. \A f \in Fds : list'[f] # list[f] => f = fd[m]
      BY <2>1 DEF Close, Registry, TypeOK
    <2>3. list'[fd[m]] = None /\ link'[fd[m]] = "closed"
      BY <2>1 DEF Close, Registry, TypeOK
    <2>4. type'[m] = "free" \/ "WAITDESTROY" \in flags'[m]
      BY <1>2, <2>1, CloseEffect DEF Free, Registry, TypeOK
    <2> QED BY <2>1, <2>2, <2>3, <2>4 DEF Handover
  <1> QED BY <1>1, <1>2

\* Opening takes a descriptor nobody had.
LEMMA OpenHandover ==
  ASSUME Registry, NEW f \in ClosedFds, NEW m, list' = [list EXCEPT ![f] = m] \/ list' = list
  PROVE  Handover
  BY DEF Handover, ClosedFds, Registry, TypeOK, RegistrySound

\* lms_socket_destroytype() closes the descriptors of the type.
LEMMA DestroyTypeHandover ==
  ASSUME Registry, NEW t \in {"LISTEN", "STREAM"}, DestroyType(t)
  PROVE  Handover
  <1> DEFINE doomed == {m \in Socks : Registered(m) /\ type[m] = t}
  <1>1. \A f \in Fds : list'[f] # list[f] =>
          list[f] \in doomed /\ list'[f] = None /\ link'[f] = "closed"
    BY DEF DestroyType, Registry, TypeOK
  <1>2. \A m \in doomed : type'[m] = "free" \/ "WAITDESTROY" \in flags'[m]
    BY DEF DestroyType
  <1> QED BY <1>1, <1>2 DEF Handover

\* No step hands a descriptor over in any other way.
LEMMA StepHandover ==
  ASSUME "keepFailed" \notin Allowed, Registry, [Next]_vars
  PROVE  Handover
  <1>1. CASE list' = list
    BY <1>1 DEF Handover
  <1>2. ASSUME NEW f \in ClosedFds, NEW m \in Socks,
               Listen(m, f) \/ Connect(m, f) \/ OpenFails(m, f)
        PROVE  Handover
    BY <1>1, <1>2, OpenHandover DEF Listen, Connect, Open, OpenFails
  <1>3. ASSUME NEW m \in Socks, AppDestroy(m)
        PROVE  Handover
    BY <1>3, DestroyHandover DEF AppDestroy
  <1>4. CASE Program
    <2>1. ASSUME NEW m \in Socks, AddFd(m) \/ FindRev(m)
          PROVE  Handover
      BY <1>1, <2>1 DEF AddFd, FindRev, tables
    <2>2. ASSUME NEW m \in Socks, NEW t \in {"LISTEN", "STREAM"}, Create(m, t)
          PROVE  Handover
      BY <1>1, <2>2 DEF Create, tables
    <2> QED BY <1>2, <1>3, <1>4, <2>1, <2>2, DestroyTypeHandover DEF Program
  <1>5. CASE Library
    <2>1. ASSUME NEW f \in Fds, NEW n \in Socks, AcceptEvent(f, n)
          PROVE  Handover
      BY <1>1, <2>1 DEF AcceptEvent, tables
    <2>2. ASSUME NEW g \in ClosedFds, AcceptReturn(g)
          PROVE  Handover
      BY <2>2, OpenHandover DEF AcceptReturn, Open
    <2>3. ASSUME NEW f \in Fds, ReadData(f) \/ ReadError(f)
          PROVE  Handover
      <3>1. ev[f] \in Socks /\ Live(ev[f])
        BY <2>3, WatchedIsOpen DEF ReadData, ReadError, Watched
      <3> QED BY <1>1, <2>3, <3>1, DestroyHandover DEF ReadData, ReadError, Crash, tables
    <2>4. ASSUME NEW f \in Fds, WriteEvent(f)
          PROVE  Handover
      BY <1>1, <2>4 DEF WriteEvent, tables
    <2>5. ASSUME NEW m \in Socks, RecvRevA(m) \/ RecvRevB(m)
          PROVE  Handover
      BY <1>1, <2>5 DEF RecvRevA, RecvRevB, Crash, tables
    <2>6. CASE StartHousekeeping
      BY <1>1, <2>6 DEF StartHousekeeping, tables
    <2>7. CASE HousekeepSlot
      <3>1. slot \in Fds
        BY DEF Registry, TypeOK
      <3>2. CASE BuryCorpse
        <4>1. corpses[slot] \in Socks /\ Live(corpses[slot])
          BY <3>1, <3>2 DEF BuryCorpse, HasCorpse, Registry, TypeOK, CorpsesSound
        <4> QED BY <3>2, <4>1, DestroyHandover DEF BuryCorpse
      <3>3. CASE Expire
        <4>1. list[slot] \in Socks /\ Live(list[slot])
          BY <3>1, <3>3 DEF Expire, Registry, TypeOK, RegistrySound
        <4> QED BY <3>3, <4>1, DestroyHandover DEF Expire
      <3>4. CASE CorpseOfNobody \/ Spare
        BY <1>1, <3>4 DEF CorpseOfNobody, Spare, Crash, tables
      <3> QED BY <2>7, <3>2, <3>3, <3>4 DEF HousekeepSlot
    <2>8. CASE AcceptWatch
      <3>1. incoming \in Socks /\ Live(incoming)
        BY <2>8, RegisteredIsOpen DEF AcceptWatch, Registry, Unopened
      <3> QED BY <1>1, <2>8, <3>1, DestroyHandover DEF AcceptWatch
    <2> QED BY <1>5, <2>1, <2>2, <2>3, <2>4, <2>5, <2>6, <2>7, <2>8 DEF Library
  <1>6. CASE Environment \/ UNCHANGED vars
    <2> UNCHANGED tables
      BY <1>6 DEF Environment, Established, Refused, PeerCloses, LinkStep, Arrive, GiveUp, vars
    <2> QED BY <1>1 DEF tables
  <1> QED BY <1>4, <1>5, <1>6 DEF Next

-----------------------------------------------------------------------------
(* The theorems *)

\* Every reachable state satisfies the invariant, whatever look-ups the program
\* starts over others and however many of them get lost.
THEOREM RegistryInvCorrect == ASSUME "keepFailed" \notin Allowed PROVE Spec => []Registry
  <1>1. Registry /\ [Next]_vars => Registry'
    BY NextKeeps
  <1> QED BY InitKeeps, <1>1, PTL DEF Spec

\* The variables of socket.c, mux.c and dns.c keep to their types.
THEOREM TypeCorrect == ASSUME "keepFailed" \notin Allowed PROVE Spec => []TypeOK
  <1>1. Registry => TypeOK
    BY DEF Registry
  <1> QED BY RegistryInvCorrect, <1>1, PTL

\* The socket list, the sockets and the kernel agree about every descriptor: no
\* entry of _lms_socket_list is stale and no open descriptor is lost.
THEOREM RegistryCorrect == ASSUME "keepFailed" \notin Allowed PROVE Spec => []RegistrySound
  <1>1. Registry => RegistrySound
    BY DEF Registry
  <1> QED BY RegistryInvCorrect, <1>1, PTL

\* The mux never holds an event for a socket that is gone or for another one.
THEOREM MuxCorrect == ASSUME "keepFailed" \notin Allowed PROVE Spec => []MuxSound
  <1>1. Registry => MuxSound
    BY DEF Registry
  <1> QED BY RegistryInvCorrect, <1>1, PTL

\* The corpse list holds corpses only, each at the slot of its descriptor.
THEOREM CorpsesCorrect == ASSUME "keepFailed" \notin Allowed PROVE Spec => []CorpsesSound
  <1>1. Registry => CorpsesSound
    BY DEF Registry
  <1> QED BY RegistryInvCorrect, <1>1, PTL

\* The flags of an open socket agree with the state of its descriptor.
THEOREM FlagsCorrect == ASSUME "keepFailed" \notin Allowed PROVE Spec => []FlagsMatchLink
  <1>1. Registry => FlagsMatchLink
    BY DEF Registry
  <1> QED BY RegistryInvCorrect, <1>1, PTL

\* A descriptor changes hands only by the destruction of its owner.
THEOREM OwnerReleasesCorrect ==
  ASSUME "keepFailed" \notin Allowed PROVE Spec => OwnerReleases
  <1>1. Registry /\ [Next]_vars => [Handover]_vars
    BY StepHandover
  <1>2. Spec => [][Handover]_vars
    BY RegistryInvCorrect, <1>1, PTL DEF Spec
  <1> QED BY <1>2 DEF OwnerReleases, Handover
=============================================================================
