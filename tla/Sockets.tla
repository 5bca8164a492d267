------------------------------- MODULE Sockets -------------------------------
(***************************************************************************)
(* The life of MSocket objects in libmsocket: src/msocket/socket.c with    *)
(* the multiplexer (mux.c), the accept path and default callbacks          *)
(* (conn.c), the reverse look-ups that keep a pointer to a socket while a  *)
(* DNS query is outstanding (dns.c) and the loop that drives them (lms.c). *)
(*                                                                         *)
(* An MSocket is identified by its address: a member of Socks, which       *)
(* malloc() may hand out again once it has been free()d.  A pointer held   *)
(* by a table, an event or a DNS query is that address, so it dangles when *)
(* the object is freed and silently names another object when the address  *)
(* is reused.  Everything runs in one thread; the kernel and time take     *)
(* their steps between any two of ours.                                    *)
(*                                                                         *)
(* Undefined behaviour ends a behaviour: the step that runs into it        *)
(* records its kind in `fault' and nothing is claimed about the program    *)
(* afterwards.                                                             *)
(*                                                                         *)
(* Abstracted: the bytes in the queues, addresses and host names (the DNS  *)
(* cache answers arbitrarily), SSL, datagram and UNIX sockets.             *)
(***************************************************************************)
EXTENDS Integers

CONSTANTS
  Socks,        \* addresses malloc() may return for an MSocket
  None,         \* the null pointer
  HighSock,     \* LMS_HIGHSOCK: descriptors are 0 .. HighSock - 1
  MaxBacklog,   \* bound: connections waiting on one listener
  MaxLookups,   \* bound: queries of one kind outstanding for one address
  Allowed       \* which of Hazards the application or the system brings about

Hazards == {"overlap",     \* lms_dns_findrev() while a look-up is under way
            "keepFailed",  \* a socket kept after lms_socket_iconn() failed
            "lost"}        \* malloc() or evdns fails in mid look-up

ASSUME NoneAssumption == None \notin Socks
ASSUME HighSockAssumption == HighSock \in Nat \ {0}
ASSUME BoundsAssumption == MaxBacklog \in Nat /\ MaxLookups \in Nat \ {0}
ASSUME AllowedAssumption == Allowed \subseteq Hazards

Fds == 0 .. HighSock - 1
NoFd == -1
Types == {"free", "LISTEN", "STREAM"}
FlagNames == {"CONNECTED", "LISTEN", "WAITDNS", "MUXACTIVE", "WAITDESTROY",
              "WAITCONN"}
Links == {"closed", "listening", "connecting", "refused", "up", "eof"}
Faults == {"none", "nullList", "nullHost", "badIndex", "useAfterFree",
           "writeAfterFree"}

VARIABLES
  type,      \* m->type, "free" when m is not allocated
  fd,        \* m->fd
  flags,     \* m->flags
  retried,   \* sockets with m->retries > 0
  named,     \* sockets with m->possible_revdns set
  list,      \* _lms_socket_list
  corpses,   \* _lms_socket_corpses
  ev,        \* _lms_mux_revents and _lms_mux_wevents: the MSocket of the events
  ptrQ,      \* PTR queries outstanding in evdns, by the address they carry
  aQ,        \* A queries outstanding in evdns, by the address they carry
  link,      \* what the kernel has behind each descriptor
  backlog,   \* connections the kernel holds for a listening descriptor
  pc,        \* where the thread is: the loop, housekeeping, or lms_conn_accept(),
             \* in accept() ("accept") or on its way to lms_mux_addfd() ("watch")
  slot,      \* i of lms_socket_housekeeping()
  listener,  \* l of lms_conn_accept()
  incoming,  \* new of lms_conn_accept()
  fault      \* the undefined behaviour the program ran into

objects == <<type, fd, flags, retried, named>>
tables  == <<list, corpses, ev>>
queries == <<ptrQ, aQ>>
kernel  == <<link, backlog>>
control == <<pc, slot, listener, incoming>>
vars == <<objects, tables, queries, kernel, control, fault>>

Live(m) == type[m] # "free"
Dead(m) == "WAITDESTROY" \in flags[m]
Registered(m) == fd[m] # NoFd /\ list[fd[m]] = m
ClosedFds == {f \in Fds : link[f] = "closed"}

\* The thread is in the program's own code or about to poll: the only time
\* the library's functions are called and its callbacks fire.
AtRest == fault = "none" /\ pc = "run"

Init ==
  /\ type = [m \in Socks |-> "free"]
  /\ fd = [m \in Socks |-> NoFd]
  /\ flags = [m \in Socks |-> {}]
  /\ retried = {} /\ named = {}
  /\ list = [f \in Fds |-> None]
  /\ corpses = [f \in Fds |-> None]
  /\ ev = [f \in Fds |-> None]
  /\ ptrQ = [m \in Socks |-> 0]
  /\ aQ = [m \in Socks |-> 0]
  /\ link = [f \in Fds |-> "closed"]
  /\ backlog = [f \in Fds |-> 0]
  /\ pc = "run" /\ slot = 0 /\ listener = None /\ incoming = None
  /\ fault = "none"

Crash(kind) ==
  /\ fault' = kind
  /\ UNCHANGED <<objects, tables, queries, kernel>>

-----------------------------------------------------------------------------
(* Allocation and release *)

\* free(m): the fields of a freed object are those of no object at all.
Free(m) ==
  /\ type' = [type EXCEPT ![m] = "free"]
  /\ fd' = [fd EXCEPT ![m] = NoFd]
  /\ retried' = retried \ {m}
  /\ named' = named \ {m}

\* lms_mux_remfd(f) takes the events off the mux, and LMSFLG_MUXACTIVE off
\* the socket that the socket list has at f.
RemFdNever(m) == FALSE \* slip: destroying a socket leaves its events
RemFd(m) == "MUXACTIVE" \in flags[m] /\ ev[fd[m]] # None

FlagsWithout(m) ==
  IF RemFd(m) /\ list[fd[m]] # None
    THEN [flags EXCEPT ![list[fd[m]]] = @ \ {"MUXACTIVE"}]
    ELSE flags

\* lms_socket_destroy() for a socket whose descriptor is (believed) open
Close(m) ==
  /\ ev' = IF RemFd(m) THEN [ev EXCEPT ![fd[m]] = None] ELSE ev
  /\ list' = [list EXCEPT ![fd[m]] = None]
  /\ link' = [link EXCEPT ![fd[m]] = "closed"]
  /\ backlog' = [backlog EXCEPT ![fd[m]] = 0]
  /\ \/ /\ "WAITDNS" \in flags[m]
        /\ flags' = [FlagsWithout(m) EXCEPT ![m] =
                       (@ \ {"CONNECTED"}) \cup {"WAITDESTROY"}]
        /\ corpses' = [corpses EXCEPT ![fd[m]] = m]
        /\ UNCHANGED <<type, fd, retried, named>>
     \/ /\ "WAITDNS" \notin flags[m]
        /\ flags' = [FlagsWithout(m) EXCEPT ![m] = {}]
        /\ Free(m)
        /\ UNCHANGED corpses

\* slip: a corpse is released without a look at WAITDNS
BuryAtOnce(m) ==
  /\ UNCHANGED <<ev, list, link, backlog>>
  /\ corpses' = [corpses EXCEPT ![fd[m]] = None]
  /\ flags' = [flags EXCEPT ![m] = {}]
  /\ Free(m)

\* slip: the entry of a corpse outlives it
BuryKeepsEntry(m) ==
  /\ UNCHANGED <<ev, list, link, backlog, corpses>>
  /\ \/ "WAITDNS" \in flags[m] /\ UNCHANGED objects
     \/ "WAITDNS" \notin flags[m] /\ flags' = [flags EXCEPT ![m] = {}] /\ Free(m)

\* lms_socket_destroy() for a corpse: only now is its memory released
Bury(m) ==
  /\ UNCHANGED <<ev, list, link, backlog>>
  /\ \/ /\ "WAITDNS" \in flags[m]
        /\ corpses' = [corpses EXCEPT ![fd[m]] = m]
        /\ UNCHANGED objects
     \/ /\ "WAITDNS" \notin flags[m]
        /\ corpses' = [corpses EXCEPT ![fd[m]] = None]
        /\ flags' = [flags EXCEPT ![m] = {}]
        /\ Free(m)

\* slip: the test of WAITDESTROY is dropped, a corpse's descriptor closed again
DestroyTwice(m) ==
  \/ fd[m] = NoFd /\ Crash("badIndex")
  \/ fd[m] # NoFd /\ Close(m) /\ UNCHANGED <<queries, fault>>

\* lms_socket_destroy().  With no descriptor it stores to _lms_socket_list[-1].
Destroy(m) ==
  \/ fd[m] = NoFd /\ Crash("badIndex")
  \/ /\ fd[m] # NoFd
     /\ \/ Dead(m) /\ Bury(m)
        \/ ~Dead(m) /\ Close(m)
     /\ UNCHANGED <<queries, fault>>

\* lms_socket_create()
Create(m, t) ==
  /\ AtRest /\ ~Live(m)
  /\ type' = [type EXCEPT ![m] = t]
  /\ UNCHANGED <<fd, flags, retried, named, tables, queries, kernel,
                 control, fault>>

\* lms_socket_destroy() or lms_socket_close() called by the program, which has
\* no pointer to a corpse any more: its func_e was told that the socket is gone.
AppDestroy(m) ==
  /\ AtRest /\ Live(m) /\ ~Dead(m)
  /\ Destroy(m)
  /\ UNCHANGED control

\* lms_socket_destroytype(): every registered socket of type t
DestroyType(t) ==
  LET doomed == {m \in Socks : Registered(m) /\ type[m] = t}
      freed  == {m \in doomed : "WAITDNS" \notin flags[m]}
      At(f)  == list[f] \in doomed
  IN
  /\ AtRest /\ doomed # {}
  /\ list' = [f \in Fds |-> IF At(f) THEN None ELSE list[f]]
  /\ ev' = [f \in Fds |-> IF At(f) /\ RemFd(list[f]) THEN None ELSE ev[f]]
  /\ link' = [f \in Fds |-> IF At(f) THEN "closed" ELSE link[f]]
  /\ backlog' = [f \in Fds |-> IF At(f) THEN 0 ELSE backlog[f]]
  /\ corpses' = [f \in Fds |-> IF list[f] \in doomed \ freed
                                 THEN list[f] ELSE corpses[f]]
  /\ type' = [m \in Socks |-> IF m \in freed THEN "free" ELSE type[m]]
  /\ fd' = [m \in Socks |-> IF m \in freed THEN NoFd ELSE fd[m]]
  /\ flags' = [m \in Socks |->
                 IF m \in freed THEN {}
                 ELSE IF m \in doomed
                   THEN (flags[m] \ {"CONNECTED", "MUXACTIVE"}) \cup {"WAITDESTROY"}
                   ELSE flags[m]]
  /\ retried' = retried \ freed
  /\ named' = named \ freed
  /\ UNCHANGED <<queries, control, fault>>

-----------------------------------------------------------------------------
(* Opening a socket *)

FreshOrNot(m) == Live(m) /\ ~Dead(m) \* slip: no EISCONN for an open socket

\* Both functions ask for "a new MSocket" (socket.c:584,807) and refuse one that
\* is connected or listening.  One whose connect() is undecided they take; the
\* program does not give them that.
Fresh(m) == /\ Live(m) /\ ~Dead(m)
            /\ flags[m] \cap {"CONNECTED", "LISTEN", "WAITCONN"} = {}

\* What a successful open leaves behind: m owns f, with the flags s.
Open(m, f, s, l) ==
  /\ fd' = [fd EXCEPT ![m] = f]
  /\ flags' = [flags EXCEPT ![m] = @ \cup s]
  /\ list' = [list EXCEPT ![f] = m]
  /\ link' = [link EXCEPT ![f] = l]

\* lms_socket_ilisten()
Listen(m, f) ==
  /\ AtRest /\ Fresh(m) /\ type[m] = "LISTEN"
  /\ Open(m, f, {"LISTEN"}, "listening")
  /\ UNCHANGED <<type, retried, named, corpses, ev, queries,
                 backlog, control, fault>>

\* lms_socket_iconn(): connect() succeeds at once or is in progress
Connect(m, f) ==
  /\ AtRest /\ Fresh(m) /\ type[m] = "STREAM"
  /\ \/ Open(m, f, {"CONNECTED"}, "up")
     \/ Open(m, f, {"WAITCONN"}, "connecting")
  /\ UNCHANGED <<type, retried, named, corpses, ev, queries, backlog,
                 control, fault>>

\* bind(), listen() or connect() fails: the descriptor is closed again but
\* m->fd still holds it.  The program destroys m at once, or keeps it.  (Bound:
\* only the first attempt to open m fails.)  An answer to a query of the last
\* owner of the address may have marked m: destroying it makes a corpse then.
OpenFails(m, f) ==
  /\ AtRest /\ Fresh(m) /\ fd[m] = NoFd
  /\ \/ /\ "WAITDNS" \notin flags[m] /\ Free(m)
        /\ flags' = [flags EXCEPT ![m] = {}]
        /\ UNCHANGED corpses
     \/ /\ "WAITDNS" \in flags[m]
        /\ fd' = [fd EXCEPT ![m] = f]
        /\ flags' = [flags EXCEPT ![m] = @ \cup {"WAITDESTROY"}]
        /\ corpses' = [corpses EXCEPT ![f] = m]
        /\ UNCHANGED <<type, retried, named>>
     \/ /\ "keepFailed" \in Allowed
        /\ fd' = [fd EXCEPT ![m] = f]
        /\ UNCHANGED <<type, flags, retried, named, corpses>>
  /\ UNCHANGED <<list, ev, queries, kernel, control, fault>>

\* lms_mux_addfd() of a socket of ours; it may fail, and then changes nothing
Watch(m) ==
  /\ ev' = [ev EXCEPT ![fd[m]] = m]
  /\ flags' = [flags EXCEPT ![m] = @ \cup {"MUXACTIVE"}]

AddFd(m) ==
  /\ AtRest /\ Live(m) /\ Registered(m) /\ "MUXACTIVE" \notin flags[m]
  /\ Watch(m)
  /\ UNCHANGED <<type, fd, retried, named, list, corpses, queries,
                 kernel, control, fault>>

-----------------------------------------------------------------------------
(* The multiplexer's callbacks *)

\* lms_conn_accept(): the event fires for a waiting connection, the object is
\* made and the thread enters the accept() loop of lms_socket_iaccept().
AcceptEvent(f, n) ==
  /\ AtRest /\ ev[f] # None /\ link[f] = "listening" /\ backlog[f] > 0
  /\ type[ev[f]] = "LISTEN" /\ ~Live(n)
  /\ type' = [type EXCEPT ![n] = "STREAM"]
  /\ pc' = "accept" /\ listener' = ev[f] /\ incoming' = n
  /\ UNCHANGED <<fd, flags, retried, named, tables, queries,
                 kernel, slot, fault>>

\* accept() returns a descriptor.  With no connection left to return it fails
\* with EAGAIN, the listener being non-blocking (socket.c:643), and the loop
\* goes round again: `errno == EAGAIN' is retried (socket.c:694), and so is every
\* other error, which the second operand turns into EINTR.
AcceptReturn(g) ==
  /\ fault = "none" /\ pc = "accept" /\ backlog[fd[listener]] > 0
  /\ backlog' = [backlog EXCEPT ![fd[listener]] = @ - 1]
  /\ Open(incoming, g, {"CONNECTED"}, "up")
  /\ pc' = "watch"
  /\ UNCHANGED <<type, retried, named, corpses, ev, queries, slot, listener,
                 incoming, fault>>

\* slip: the socket is released without being closed
AcceptWatchOrFree ==
  /\ fault = "none" /\ pc = "watch"
  /\ \/ Watch(incoming) /\ UNCHANGED <<type, fd, retried, named>>
     \/ flags' = [flags EXCEPT ![incoming] = {}] /\ Free(incoming) /\ UNCHANGED ev
  /\ pc' = "run" /\ listener' = None /\ incoming' = None
  /\ UNCHANGED <<list, corpses, queries, kernel, slot, fault>>

\* The new socket gets its events, or is destroyed when lms_mux_addfd() fails.
AcceptWatch ==
  /\ fault = "none" /\ pc = "watch"
  /\ \/ /\ Watch(incoming)
        /\ UNCHANGED <<type, fd, retried, named, list, corpses, queries, kernel, fault>>
     \/ Destroy(incoming)
  /\ pc' = "run" /\ listener' = None /\ incoming' = None
  /\ UNCHANGED slot

Watched(f) == ev[f] # None /\ type[ev[f]] = "STREAM"

\* lms_socket_read() gets data, and func_p destroys the socket it was called
\* for; then last_recv is stored, into freed memory unless m became a corpse.
\* (A func_p that leaves the socket alone changes nothing that is modelled.)
ReadData(f) ==
  /\ AtRest /\ Watched(f) /\ link[f] \in {"up", "eof"}
  /\ "CONNECTED" \in flags[ev[f]]
  /\ \/ "WAITDNS" \in flags[ev[f]] /\ Destroy(ev[f])
     \/ "WAITDNS" \notin flags[ev[f]] /\ Crash("writeAfterFree")
  /\ UNCHANGED control

\* slip: recv() returning 0 is taken for "nothing to read yet"
ReadErrorNotEof(f) ==
  /\ AtRest /\ Watched(f) /\ link[f] = "refused"
  /\ "CONNECTED" \in flags[ev[f]]
  /\ Destroy(ev[f])
  /\ UNCHANGED control

\* lms_socket_read() gets end of file or an error and calls func_e, which is
\* lms_conn_default_error() or one of the program's that destroys the socket.
ReadError(f) ==
  /\ AtRest /\ Watched(f) /\ link[f] \in {"eof", "refused"}
  /\ "CONNECTED" \in flags[ev[f]]
  /\ Destroy(ev[f])
  /\ UNCHANGED control

StillWaiting(s) == s \cup {"CONNECTED"} \* slip: WAITCONN is not cleared
AfterWrite(s) == (s \ {"WAITCONN"}) \cup {"CONNECTED"}

\* _lms_mux_default_write(): a writable socket counts as connected, then
\* lms_socket_flushq() sends what is queued, if anything.
WriteEvent(f) ==
  LET m == ev[f] IN
  /\ AtRest /\ Watched(f) /\ link[f] \in {"up", "eof", "refused"}
  /\ flags' = [flags EXCEPT ![m] = AfterWrite(@)]
  /\ UNCHANGED <<type, fd, retried, named, tables, queries, kernel,
                 control, fault>>

-----------------------------------------------------------------------------
(* Reverse look-ups *)

SettleForgotten(m) == UNCHANGED flags \* slip: WAITDNS stays set
Settle(m) == flags' = [flags EXCEPT ![m] = @ \ {"WAITDNS"}]

\* slip: the socket is not marked before the query is sent
LookupUnmarked(m, p, a, h) ==
  \/ Settle(m) /\ named' = h \ {m} /\ ptrQ' = p /\ aQ' = a
  \/ /\ p[m] < MaxLookups /\ ptrQ' = [p EXCEPT ![m] = @ + 1]
     /\ UNCHANGED flags /\ named' = h /\ aQ' = a

\* What lms_dns_findrev() does: with an answer from the cache, with a query
\* for the PTR record, with a query for the A record of a cached name, or with
\* no query at all because malloc() or evdns failed.  p and a are the queries
\* outstanding once the caller's own has been taken off, and h the sockets whose
\* possible_revdns is set when it is called.
Lookup(m, p, a, h) ==
  \/ /\ Settle(m)
     /\ \/ named' = h \ {m}
        \/ "lost" \in Allowed /\ named' = h
     /\ ptrQ' = p /\ aQ' = a
  \/ /\ flags' = [flags EXCEPT ![m] = @ \cup {"WAITDNS"}]
     /\ \/ p[m] < MaxLookups /\ ptrQ' = [p EXCEPT ![m] = @ + 1]
           /\ named' = h /\ aQ' = a
        \/ a[m] < MaxLookups /\ aQ' = [a EXCEPT ![m] = @ + 1]
           /\ named' = h \cup {m} /\ ptrQ' = p
        \/ "lost" \in Allowed /\ ptrQ' = p /\ aQ' = a
           /\ named' \in {h, h \ {m}, h \cup {m}}

\* lms_dns_findrev() called by the program for a connection
FindRev(m) ==
  /\ AtRest /\ type[m] = "STREAM" /\ Registered(m) /\ ~Dead(m)
  /\ "WAITDNS" \in flags[m] => "overlap" \in Allowed
  /\ Lookup(m, ptrQ, aQ, named)
  /\ UNCHANGED <<type, fd, retried, tables, kernel, control, fault>>

RetriesForever(m) == TRUE \* slip: m->retries is not counted
MayRetry(m) == m \notin retried

\* A look-up is over without a usable name, or with a name that checked out.
Finish(m) ==
  /\ Settle(m)
  /\ named' = named \ {m}
  /\ retried' \in {retried, retried \ {m}}

\* lms_dns_recvrevA(): the PTR query comes back
RecvRevA(m) ==
  LET p == [ptrQ EXCEPT ![m] = @ - 1] IN
  /\ AtRest /\ ptrQ[m] > 0
  /\ \/ ~Live(m) /\ Crash("useAfterFree")
     \/ Live(m) /\ Crash("nullHost") \* DNS_ERR_NOTEXIST caches a null host name
     \/ /\ Live(m)
        /\ \/ /\ Finish(m)
              /\ ptrQ' = p /\ UNCHANGED aQ
           \/ /\ MayRetry(m)
              /\ retried' = retried \cup {m}
              /\ Lookup(m, p, aQ, named)
           \/ /\ "lost" \in Allowed
              /\ named' \in {named \ {m}, named \cup {m}}
              /\ ptrQ' = p /\ UNCHANGED <<aQ, flags, retried>>
           \/ /\ Dead(m) /\ Settle(m)
              /\ named' = named \cup {m}
              /\ ptrQ' = p /\ UNCHANGED <<aQ, retried>>
           \/ /\ ~Dead(m) /\ aQ[m] < MaxLookups
              /\ named' = named \cup {m}
              /\ ptrQ' = p /\ aQ' = [aQ EXCEPT ![m] = @ + 1]
              /\ UNCHANGED <<flags, retried>>
        /\ UNCHANGED <<type, fd, tables, kernel, fault>>
  /\ UNCHANGED control

\* lms_dns_recvrevB(): the A query comes back
RecvRevB(m) ==
  LET a == [aQ EXCEPT ![m] = @ - 1] IN
  /\ AtRest /\ aQ[m] > 0
  /\ \/ ~Live(m) /\ Crash("useAfterFree")
     \/ /\ Live(m)
        /\ \/ /\ m \notin named \/ "lost" \in Allowed
              /\ aQ' = a /\ UNCHANGED <<ptrQ, flags, named, retried>>
           \/ /\ m \in named /\ Settle(m)
              /\ named' = named \ {m} /\ retried' = retried \ {m}
              /\ aQ' = a /\ UNCHANGED ptrQ
           \/ /\ m \in named /\ Dead(m) /\ Settle(m)
              /\ aQ' = a /\ UNCHANGED <<ptrQ, named, retried>>
           \/ /\ m \in named /\ MayRetry(m)
              /\ retried' = retried \cup {m}
              /\ Lookup(m, ptrQ, a, named \ {m})
        /\ UNCHANGED <<type, fd, tables, kernel, fault>>
  /\ UNCHANGED control

-----------------------------------------------------------------------------
(* Housekeeping, once a second *)

StartHousekeeping ==
  /\ AtRest
  /\ pc' = "housekeeping" /\ slot' = 0
  /\ UNCHANGED <<objects, tables, queries, kernel, listener, incoming, fault>>

\* slip: the loop runs to i <= LMS_HIGHSOCK
NextSlotPastEnd ==
  /\ \/ slot \in Fds /\ slot' = slot + 1 /\ UNCHANGED pc
     \/ slot \notin Fds /\ slot' = 0 /\ pc' = "run"
  /\ UNCHANGED <<listener, incoming>>

\* The next turn of the for loop, or its end
NextSlot ==
  /\ \/ slot + 1 \in Fds /\ slot' = slot + 1 /\ UNCHANGED pc
     \/ slot + 1 \notin Fds /\ slot' = 0 /\ pc' = "run"
  /\ UNCHANGED <<listener, incoming>>

HasCorpse == corpses[slot] # None /\ Dead(corpses[slot])

\* The corpse test reads the flags of the descriptor's present owner ...
CorpseOfNobody == HasCorpse /\ list[slot] = None /\ Crash("nullList")

\* ... and when that owner waits for nothing, the corpse is destroyed.
BuryCorpse ==
  /\ HasCorpse /\ list[slot] # None /\ "WAITDNS" \notin flags[list[slot]]
  /\ Destroy(corpses[slot])

NoCorpse == HasCorpse => list[slot] # None /\ "WAITDNS" \in flags[list[slot]]

\* slip: a socket that waits for connect() is not timed out
ExpireIdleOnly ==
  LET m == list[slot] IN
  /\ NoCorpse /\ m # None
  /\ "WAITCONN" \notin flags[m] /\ type[m] = "STREAM"
  /\ Destroy(m)

\* Otherwise the owner gets its turn.  A connect() that is not decided conn_to
\* after conn_start is given up through func_e; a stream on which nothing went
\* either way for LMS_MAXKEEPALIVE is destroyed.  The clock is not modelled:
\* either may be due at any time.
Expire ==
  LET m == list[slot] IN
  /\ NoCorpse /\ m # None
  /\ "WAITCONN" \in flags[m] \/ type[m] = "STREAM"
  /\ Destroy(m)

\* Nothing is due (or opts has LMSOPTION_ALLOWIDLE); the sendQ is flushed.
Spare == NoCorpse /\ UNCHANGED <<objects, tables, queries, kernel, fault>>

HousekeepSlot ==
  /\ fault = "none" /\ pc = "housekeeping"
  /\ CorpseOfNobody \/ BuryCorpse \/ Expire \/ Spare
  /\ NextSlot

-----------------------------------------------------------------------------
(* The kernel and the peers *)

LinkStep(f, from, to) ==
  /\ fault = "none" /\ link[f] = from
  /\ link' = [link EXCEPT ![f] = to]
  /\ UNCHANGED <<objects, tables, queries, backlog, control, fault>>

Established(f) == LinkStep(f, "connecting", "up")
Refused(f) == LinkStep(f, "connecting", "refused")
PeerCloses(f) == LinkStep(f, "up", "eof")

\* A client connects to a listener, or gives up while it still waits there
Arrive(f) ==
  /\ fault = "none" /\ link[f] = "listening" /\ backlog[f] < MaxBacklog
  /\ backlog' = [backlog EXCEPT ![f] = @ + 1]
  /\ UNCHANGED <<objects, tables, queries, link, control, fault>>

GiveUp(f) ==
  /\ fault = "none" /\ backlog[f] > 0
  /\ backlog' = [backlog EXCEPT ![f] = @ - 1]
  /\ UNCHANGED <<objects, tables, queries, link, control, fault>>

-----------------------------------------------------------------------------
Program ==
  \/ \E m \in Socks : AppDestroy(m) \/ AddFd(m) \/ FindRev(m)
  \/ \E m \in Socks, t \in {"LISTEN", "STREAM"} : Create(m, t)
  \/ \E t \in {"LISTEN", "STREAM"} : DestroyType(t)
  \/ \E m \in Socks, f \in ClosedFds :
        Listen(m, f) \/ Connect(m, f) \/ OpenFails(m, f)

Library ==
  \/ \E f \in Fds, n \in Socks : AcceptEvent(f, n)
  \/ \E g \in ClosedFds : AcceptReturn(g)
  \/ AcceptWatch
  \/ \E f \in Fds : ReadData(f) \/ ReadError(f) \/ WriteEvent(f)
  \/ \E m \in Socks : RecvRevA(m) \/ RecvRevB(m)
  \/ StartHousekeeping
  \/ HousekeepSlot

Environment ==
  \E f \in Fds : \/ Established(f) \/ Refused(f) \/ PeerCloses(f)
                 \/ Arrive(f) \/ GiveUp(f)

Next == Program \/ Library \/ Environment

Spec == Init /\ [][Next]_vars

(* lms_loop() is called for ever: it starts housekeeping every second, goes   *)
(* through all slots, and polls, which runs the callback of every descriptor  *)
(* that stays ready.  The clock advances, so a connect() that stays undecided *)
(* is due at some visit; evdns answers or gives up on every query.            *)
ExpireConnect(f) ==
  /\ fault = "none" /\ pc = "housekeeping" /\ slot = f
  /\ list[f] # None /\ "WAITCONN" \in flags[list[f]]
  /\ Expire
  /\ NextSlot

Fairness ==
  /\ \A f \in Fds : /\ SF_vars(ReadError(f)) /\ SF_vars(WriteEvent(f))
                    /\ SF_vars(ExpireConnect(f))
  /\ SF_vars(\E g \in ClosedFds : AcceptReturn(g)) /\ WF_vars(AcceptWatch)
  /\ SF_vars(StartHousekeeping) /\ WF_vars(HousekeepSlot)
  /\ \A m \in Socks : SF_vars(RecvRevA(m)) /\ SF_vars(RecvRevB(m))

FairSpec == Spec /\ Fairness
-----------------------------------------------------------------------------
(* Properties *)

\* Every variable holds a value of its kind.
TypeOK ==
  /\ type \in [Socks -> Types]
  /\ fd \in [Socks -> Fds \cup {NoFd}]
  /\ flags \in [Socks -> SUBSET FlagNames]
  /\ retried \subseteq Socks /\ named \subseteq Socks
  /\ list \in [Fds -> Socks \cup {None}]
  /\ corpses \in [Fds -> Socks \cup {None}]
  /\ ev \in [Fds -> Socks \cup {None}]
  /\ ptrQ \in [Socks -> 0 .. MaxLookups]
  /\ aQ \in [Socks -> 0 .. MaxLookups]
  /\ link \in [Fds -> Links]
  /\ backlog \in [Fds -> 0 .. MaxBacklog]
  /\ pc \in {"run", "accept", "watch", "housekeeping"}
  /\ slot \in Fds
  /\ listener \in Socks \cup {None} /\ incoming \in Socks \cup {None}
  /\ fault \in Faults

\* The socket list, its entries and the kernel agree: what the list has at f is
\* an allocated socket, no corpse, whose descriptor is f; exactly the open
\* descriptors have an entry, so none leaks; and a socket with a descriptor
\* is in the list, so the loop serves it, until it is destroyed.
RegistrySound ==
  /\ \A f \in Fds : list[f] # None =>
       Live(list[f]) /\ ~Dead(list[f]) /\ fd[list[f]] = f
  /\ \A f \in Fds : link[f] = "closed" <=> list[f] = None
  /\ \A m \in Socks : Live(m) /\ ~Dead(m) /\ fd[m] # NoFd => list[fd[m]] = m

\* The event of a descriptor carries a pointer to the socket that owns the
\* descriptor, and exactly the sockets flagged MUXACTIVE have events: the mux
\* never calls back with a socket that is gone.
MuxSound ==
  /\ \A f \in Fds : ev[f] # None =>
       list[f] = ev[f] /\ "MUXACTIVE" \in flags[ev[f]]
  /\ \A m \in Socks : "MUXACTIVE" \in flags[m] => fd[m] # NoFd /\ ev[fd[m]] = m

\* A query that is outstanding carries a pointer to a socket that is allocated
\* and marked WAITDNS, so that destroying the socket leaves a corpse.
LookupsProtected ==
  \A m \in Socks : ptrQ[m] + aQ[m] > 0 => Live(m) /\ "WAITDNS" \in flags[m]

\* A socket marked WAITDNS has a query outstanding that will clear the mark:
\* no connection waits for an answer that cannot come.
WaitsForAnswer ==
  \A m \in Socks : "WAITDNS" \in flags[m] => ptrQ[m] + aQ[m] > 0

\* What the corpse list has at f is an allocated corpse whose descriptor was f,
\* so that housekeeping frees a socket which is dead, and clears its entry.
CorpsesSound ==
  \A f \in Fds : corpses[f] # None =>
     Live(corpses[f]) /\ Dead(corpses[f]) /\ fd[corpses[f]] = f

\* The flags of a registered socket agree with what the kernel has: a socket
\* is waiting for connect() or connected, never both, never neither, and none
\* is called connected while its connect() is undecided.
FlagsMatchLink ==
  \A f \in Fds : list[f] # None =>
    LET s == flags[list[f]] IN
    /\ link[f] = "listening" <=> type[list[f]] = "LISTEN"
    /\ link[f] = "listening" <=> "LISTEN" \in s
    /\ link[f] = "connecting" => "WAITCONN" \in s
    /\ link[f] # "listening" => ("WAITCONN" \in s <=> "CONNECTED" \notin s)

\* The bookkeeping that the other invariants rest on: a freed or unopened socket
\* carries no flags, a corpse keeps its descriptor number and nothing else that
\* is open, at most one query is outstanding for a socket, the second phase of a
\* look-up has the name to check, and lms_conn_accept() has both its sockets.
Bookkeeping ==
  /\ \A m \in Socks :
       /\ ~Live(m) => fd[m] = NoFd
       /\ fd[m] = NoFd => flags[m] = {}
       /\ Dead(m) => flags[m] \cap {"CONNECTED", "MUXACTIVE"} = {}
       /\ ptrQ[m] + aQ[m] <= 1
       /\ aQ[m] > 0 => m \in named
  /\ pc = "accept" =>
       /\ listener \in Socks /\ Registered(listener)
       /\ incoming \in Socks /\ type[incoming] = "STREAM" /\ fd[incoming] = NoFd
  /\ pc = "watch" => incoming \in Socks /\ Registered(incoming)

\* No answer of the resolver reaches a socket that has been freed.
NoUseAfterFree == fault # "useAfterFree"

\* A descriptor passes from one socket to another only by being closed, and
\* only the destruction of its owner closes it.
OwnerReleases ==
  [][\A f \in Fds : list[f] # None /\ list'[f] # list[f] =>
       /\ list'[f] = None /\ link'[f] = "closed"
       /\ type'[list[f]] = "free" \/ "WAITDESTROY" \in flags'[list[f]]]_vars

\* The memory of a socket is released only when no query is outstanding for
\* it, and that of a corpse only by housekeeping at the corpse's own slot.
ReleasedWhenSettled ==
  [][\A m \in Socks : Live(m) /\ type'[m] = "free" =>
       /\ ptrQ[m] + aQ[m] = 0
       /\ Dead(m) => pc = "housekeeping" /\ corpses[slot] = m]_vars

\* The thread keeps coming back to the loop and runs into no undefined
\* behaviour: what the liveness properties need of the rest of the program.
Responsive == []<>(pc = "run") /\ [](fault = "none")

\* When the peer of a watched connection goes away, the socket is destroyed
\* and the descriptor closed: lms_socket_read() finds the end of file.
PeerCloseNoticed ==
  Responsive =>
    \A f \in Fds : link[f] = "eof" /\ ev[f] # None ~> link[f] # "eof"

\* A connect() does not stay undecided: the socket becomes connected or is
\* destroyed, by the write event or by the time-out, watched or not, even
\* where an old corpse makes housekeeping skip its slot for a while.
ConnectDecided ==
  Responsive =>
    \A m \in Socks : Registered(m) /\ "WAITCONN" \in flags[m]
                      ~> ~(Registered(m) /\ "WAITCONN" \in flags[m])

\* Every reverse look-up ends, through retries and both of its phases, also
\* when the socket is destroyed meanwhile.
LookupSettles ==
  Responsive =>
    \A m \in Socks : "WAITDNS" \in flags[m] ~> "WAITDNS" \notin flags[m]

\* The life of the objects, without the tables that implement it.
Phase(m) ==
  CASE ~Live(m) -> "free"
    [] Live(m) /\ Dead(m) -> "dead"
    [] Live(m) /\ ~Dead(m) /\ fd[m] = NoFd -> "fresh"
    [] Live(m) /\ ~Dead(m) /\ fd[m] # NoFd -> "open"

Life == INSTANCE SocketLife WITH
  phase <- [m \in Socks |-> Phase(m)],
  owner <- list,
  asked <- {m \in Socks : ptrQ[m] + aQ[m] > 0}

\* Every step of the library is a step of the promised life, or none.
ImplementsLife == Life!Spec

-----------------------------------------------------------------------------
(* Statements of the documentation that the code does not keep *)

\* Housekeeping can "safely destroy" a corpse "without crashing"
\* (socket.c:510): it never reads through an empty entry of the socket list.
CorpseTestIsSafe == fault # "nullList"

\* Sockets do not block: "default is to set nonblocking mode" (msocket.h:81).
\* A listener is one, so lms_socket_iaccept() returns to the loop, with a
\* connection or without.
AcceptReturns == [](fault = "none") => (pc = "accept" ~> pc = "run")
=============================================================================
