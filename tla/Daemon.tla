------------------------------- MODULE Daemon -------------------------------
(***************************************************************************)
(* Cervixes as a server: main.c and network.c over the configuration of    *)
(* Config, and the library's loop (lms.c) with the accept path of conn.c   *)
(* and its Throttle.                                                       *)
(*                                                                         *)
(* _cx_sockaccept() is written as if it had to accept: it creates a second *)
(* socket, which lms_socket_iaccept() cannot connect because its first     *)
(* argument is the accepted socket and no listener, and stores that one in *)
(* the connection record.  As committed network.c does not compile (names  *)
(* of callbacks without their underscore, an undeclared config); the model *)
(* takes the callbacks that are meant.                                     *)
(*                                                                         *)
(* Abstracted: the life of a socket between accept and error (Sockets has  *)
(* it); users and servers, which have no code yet.                         *)
(***************************************************************************)
EXTENDS Throttle, Config

CONSTANTS
  Socks,       \* addresses malloc() may return for an MSocket
  Listen, Vhost, Port,  \* "listen", "vhost" and "port" of the configuration
  MaxRecords   \* bound: connection records ever made

ASSUME ListenAssumption == Listen \in Sections /\ {Vhost, Port} \subseteq Names
ASSUME RecordsBound == MaxRecords \in Nat

VARIABLES
  pc,        \* "conf", "net", then the loop: "top", "sweep", "events"
  host,      \* the address listened on: "none" before, "any" or "loopback"
  sock,      \* each MSocket: "free", "spare" (never connected) or "open"
  peer,      \* m->addr of an open socket
  slow,      \* the sockets with priority 5 in the mux
  appdata,   \* the place of m->appdata in records, or 0
  records,   \* the list from _conn_first on: each record's m
  freed,     \* records that were freed in the list
  lastrun,   \* _lms_loop_lastrun
  fault      \* "none", or "nullPort" or "freedRecord"

daemon == <<pc, host, sock, peer, slow, appdata, records, freed, lastrun,
            fault>>
vars == <<throttleVars, confVars, daemon>>

Init ==
  /\ ThrottleInit /\ ConfInit
  /\ pc = "conf" /\ host = "none"
  /\ sock = [m \in Socks |-> "free"]
  /\ peer \in {[m \in Socks |-> a] : a \in Addrs}
  /\ slow = {} /\ appdata = [m \in Socks |-> 0]
  /\ records = <<>> /\ freed = {}
  /\ lastrun = 0 /\ fault = "none"

Runs == fault = "none" /\ ~wild

-----------------------------------------------------------------------------
(* The start *)

\* init_conf() reads a line of cervixes.ini.
ReadConf ==
  /\ Runs /\ pc = "conf" /\ ParseLine
  /\ UNCHANGED <<throttleVars, daemon>>

\* It comes to the end of the file, or could not open it; main() goes on
\* whatever init_conf() returns.
ConfRead ==
  /\ Runs /\ pc = "conf" /\ pc' = "net"
  /\ UNCHANGED <<throttleVars, confVars, host, sock, peer, slow, appdata,
                 records, freed, lastrun, fault>>

\* init_network(): a vhost means 127.0.0.1, whatever its value; a port that
\* the look-up does not find is a null pointer to strtol().  Otherwise there
\* is a listener, or, when a call fails, none: main() goes on.
InitNetwork ==
  /\ Runs /\ pc = "net"
  /\ \/ /\ CxMConf(Listen, Port) = 0
        /\ fault' = "nullPort" /\ UNCHANGED <<pc, host>>
     \/ /\ CxMConf(Listen, Port) # 0
        /\ host' \in {"none",
                      IF CxMConf(Listen, Vhost) = 0 THEN "any" ELSE "loopback"}
        /\ pc' = "top" /\ UNCHANGED fault
  /\ UNCHANGED <<throttleVars, confVars, sock, peer, slow, appdata, records,
                 freed, lastrun>>

-----------------------------------------------------------------------------
(* The loop *)

\* lms_loop() expires throttles when the second has changed, ...
Sweep ==
  /\ Runs /\ pc = "top"
  /\ \/ lastrun < now /\ StartExpire /\ pc' = "sweep"
     \/ lastrun >= now /\ pc' = "events" /\ UNCHANGED throttleVars
  /\ UNCHANGED <<confVars, host, sock, peer, slow, appdata, records, freed,
                 lastrun, fault>>

SweepStep == Runs /\ pc = "sweep" /\ ExpireStep /\ UNCHANGED <<confVars, daemon>>

\* slip: remembers the next second
SweptAhead ==
  /\ Runs /\ pc = "sweep" /\ walk = 0
  /\ lastrun' = now + 1 /\ pc' = "events"
  /\ UNCHANGED <<throttleVars, confVars, host, sock, peer, slow, appdata,
                 records, freed, fault>>

\* ... and then looks at the clock again,
Swept ==
  /\ Runs /\ pc = "sweep" /\ walk = 0
  /\ lastrun' = now /\ pc' = "events"
  /\ UNCHANGED <<throttleVars, confVars, host, sock, peer, slow, appdata,
                 records, freed, fault>>

\* before it handles events and returns to main().
EventsDone ==
  /\ Runs /\ pc = "events" /\ pc' = "top"
  /\ UNCHANGED <<throttleVars, confVars, host, sock, peer, slow, appdata,
                 records, freed, lastrun, fault>>

\* slip: the record gets the socket it is for
RecordOwn(m, spare) ==
  /\ sock' = [sock EXCEPT ![m] = "open", ![spare] = "spare"]
  /\ records' = Append(records, m)

\* The new record, in the list, with the second socket.
Record(m, spare) ==
  /\ sock' = [sock EXCEPT ![m] = "open", ![spare] = "spare"]
  /\ records' = Append(records, spare)

\* lms_conn_accept() of a connection from a, then func_a, _cx_sockaccept():
\* it makes a socket and a record, walking the list to put it there, and frees
\* them if one could not be made, the record without taking it off the list.
Accept(m, a) ==
  /\ Runs /\ pc = "events" /\ host # "none" /\ sock[m] = "free"
  /\ Len(records) < MaxRecords
  /\ peer' = [peer EXCEPT ![m] = a]
  /\ slow' = IF Offenses(a) >= After THEN slow \cup {m} ELSE slow \ {m}
  /\ \/ /\ freed # {}
        /\ fault' = "freedRecord" /\ UNCHANGED <<sock, appdata, records, freed>>
     \/ /\ freed = {} /\ UNCHANGED <<fault, freed>>
        /\ \E spare \in Socks \ {m} : sock[spare] = "free" /\ Record(m, spare)
        /\ appdata' = [appdata EXCEPT ![m] = Len(records')]
     \/ /\ sock' = [sock EXCEPT ![m] = "open"]
        /\ appdata' = [appdata EXCEPT ![m] = 0]
        /\ \/ UNCHANGED <<records, freed>>
           \/ /\ freed = {}
              /\ records' = Append(records, m) /\ freed' = {Len(records')}
        /\ UNCHANGED fault
  /\ UNCHANGED <<throttleVars, confVars, pc, host, lastrun>>

\* The socket sent bad credentials: lms_throttle_setbad(), which the program
\* over the library calls.
Offend(m) ==
  /\ Runs /\ pc = "events" /\ sock[m] = "open"
  /\ SetBad(peer[m])
  /\ UNCHANGED <<confVars, daemon>>

\* _cx_sockerr(), or the default for a socket without a record: the socket is
\* destroyed, its record is left.
SockErr(m) ==
  /\ Runs /\ pc = "events" /\ sock[m] = "open"
  /\ sock' = [sock EXCEPT ![m] = "free"]
  /\ appdata' = [appdata EXCEPT ![m] = 0]
  /\ slow' = slow \ {m}
  /\ UNCHANGED <<throttleVars, confVars, pc, host, peer, records, freed,
                 lastrun, fault>>

Time == Runs /\ Tick /\ UNCHANGED <<confVars, daemon>>

Turn == Sweep \/ SweepStep \/ Swept \/ EventsDone
Event ==
  \E m \in Socks : Offend(m) \/ SockErr(m) \/ \E a \in Addrs : Accept(m, a)

Next == ReadConf \/ ConfRead \/ InitNetwork \/ Turn \/ Event \/ Time

Spec == Init /\ [][Next]_vars

-----------------------------------------------------------------------------
(* Properties *)

TypeOK ==
  /\ ThrottleTypeOK /\ ConfTypeOK
  /\ pc \in {"conf", "net", "top", "sweep", "events"}
  /\ host \in {"none", "any", "loopback"}
  /\ sock \in [Socks -> {"free", "spare", "open"}] /\ peer \in [Socks -> Addrs]
  /\ slow \subseteq Socks
  /\ appdata \in [Socks -> 0 .. MaxRecords] /\ records \in Seq(Socks)
  /\ freed \subseteq DOMAIN records /\ lastrun \in 0 .. now
  /\ fault \in {"none", "nullPort", "freedRecord"}

\* Every socket with appdata has a record of its own, in the list and not
\* freed, and the socket a record points to is allocated, though the record
\* outlives the connection it was made for.
RecordsSound ==
  /\ \A m \in Socks :
       appdata[m] # 0 =>
         sock[m] = "open" /\ appdata[m] \in DOMAIN records \ freed
  /\ \A m, o \in Socks : appdata[m] # 0 /\ appdata[m] = appdata[o] => m = o
  /\ \A i \in DOMAIN records \ freed : sock[records[i]] # "free"

\* A file that gives a port, and after it a name that it has not given before,
\* does not end the program, whatever else is in it.
PortFound ==
  (\E i, j \in DOMAIN given :
     /\ i < j /\ given[i].key = Key(Listen, Port)
     /\ \A k \in 1 .. j - 1 : given[k].key # given[j].key)
  => fault # "nullPort"

\* The last After offenses of an address followed each other, and are followed
\* by this moment, within Expire seconds.
Persistent(a) ==
  LET n == Len(bad[a])
  IN /\ n >= After /\ now - bad[a][n] <= Expire
     /\ \A i \in n - After + 1 .. n - 1 : bad[a][i + 1] - bad[a][i] <= Expire

Accepted(m) == sock[m] = "free" /\ sock'[m] = "open"

\* No offender is forgotten too early: a connection from a persistent one is
\* slowed down, however the list was expired in between.
OffendersSlowed ==
  [][\A m \in Socks : Accepted(m) /\ Persistent(peer'[m]) => m \in slow']_vars

\* Nor too late: a connection is slowed down only if its address has offended
\* After times since the last expiry that began more than Expire seconds after
\* an offense of it.
QuietForgotten ==
  [][\A m \in Socks :
       Accepted(m) /\ m \in slow' => Len(bad[peer'[m]]) >= After]_vars
=============================================================================
