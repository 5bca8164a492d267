# TLA+ models of cervixes

cervixes is the beginning of an IRC services daemon (`src/*.c`) built on
libmsocket (`src/msocket/`), a library of non-blocking sockets over libevent and
evdns.  The daemon's own part is small and partly stubs; as committed `main.c`,
`conf.c` and `network.c` do not compile, and each model says at its head what it
takes them to mean.  Nearly all behaviour that is hard to get right is in the
library.  This directory holds models of it, the configurations that check them, and
machine-checked proofs.

Check a run with `tlc -config <run>.cfg <module>.tla`, where `PROJECT.json` names
the module, and the proofs with `tlapm <module>.tla` for the seven modules
`*Proofs.tla`.  `PROJECT.json` lists components, runs, the mutated definitions each
property is known to catch, the source lines of every definition, the disagreements
found, the hazards and the theorems.  Operators marked *slip* in the modules are
these mutated forms; nothing else uses them.

## Inventory

Everything runs in one thread.  "Concurrency" is the interleaving, at the level
of callbacks, of the program's calls, the events of the multiplexer, the
resolver's answers, housekeeping once a second, signals, and the kernel and the
peers, which move between any two of these.

| Component | State | Operations | What makes it correct | Module |
|---|---|---|---|---|
| Socket objects, `socket.c`, `lms.c` | `MSocket` (type, fd, flags), `_lms_socket_list` and `_lms_socket_corpses` by descriptor | create, listen, connect, accept, read, close, destroy, destroytype, housekeeping | the lists, the objects and the kernel agree; memory is freed once, and only when nobody points to it | `Sockets`, `SocketLife` |
| Multiplexer, `mux.c` | events by descriptor, each with a pointer to an `MSocket` | addfd, remfd, setprio, read and write callbacks | no event outlives its socket | `Sockets`, `Transport` |
| Accept path, `conn.c` | none of its own | `lms_conn_accept()`, default callbacks | the listener stays what it is while `accept()` is tried; the new socket ends up watched, or closed and off the list | `Sockets`, `Daemon` |
| Reverse look-ups, `dns.c` | `WAITDNS`, `possible_revdns`, `retries`, queries inside evdns | findrev, recvrevA, recvrevB | an answer finds its socket; every look-up ends; a name counts only if confirmed | `Sockets`, `DnsCache` |
| DNS cache and forward look-ups, `dns.c` | 30000 slots with expiry, `lms_dns_activequeries` | lookup, recv, getip, addcache, findincache, cleancache | an entry says what was answered about its key, and goes in time | `DnsCache` |
| Queues, `socket.c`, `str.c` | sendQ and recvQ with length and size | read, flushq, appendq, clearsq, freerq, close | lengths, sizes and buffers agree; bytes get through, once and in order | `Transport` |
| SSL transport, `ssl.c` | sessions by descriptor, `func_r` and `func_w` of the socket | startsock, handshake, read, flushq, closesock, stopsock | flags, session and functions agree; nothing in the clear | `Transport` |
| Throttle, `conn.c` | doubly linked list of offenders | setbad, check, expire, remove | offenses counted until they are forgotten, neither early nor late | `Throttle`, `Daemon` |
| Timers, `to.c` | doubly linked list | to_add, to_del, to_chk | the list is the sequence of the timers that are set | `Timers` |
| Main loop, `main.c` | status, signal count | start, loop, signals | timers that are due run | `MainLoop` |
| Connections, `network.c` | list of `aConn` with a pointer to a socket | accept and error callbacks | no record points to a freed socket | `Daemon` |
| Configuration, `conf.c`, `inilib/` | list of entries, state of the parser | parse, store, look up | what the file gives is found | `Config`, `Daemon` |
| Capabilities, `irc.c` | linked list | stubs | | not modelled |
| Encodings and strings, `base64.c`, `passwords.c`, `str.c` | none | functions of their arguments | decode inverts encode | not modelled, but for `lms_str_ocopy()` |
| Files, random numbers, database, version, dates | none or I/O only | | | not modelled |

How they interact: `main()` calls `to_chk()` when the second has changed and then
`lms_loop()`.  `lms_loop()`, when the second has changed, runs housekeeping, the
cleaning of the DNS cache and the expiry of throttles, and then libevent once.
libevent calls `_lms_mux_default_read()` and `_lms_mux_default_write()` with the
pointer stored by `lms_mux_addfd()`; these call through the socket's function
pointers (`func_r`, `func_w`, `func_e`, `func_p`).  The first two change with the
phase of SSL; the last two belong to the program and may destroy the socket.  evdns
calls back with the pointer that `lms_dns_findrev()` or `lms_dns_lookup()` gave it,
possibly much later.  A socket destroyed while `WAITDNS` is set therefore becomes a
*corpse*, kept in `_lms_socket_corpses` until housekeeping finds the answer has come.

## What is modelled

**`Sockets`** models the first four components together, because their hazards
lie between them.  An `MSocket` is its address (a member of `Socks`) that
`malloc()` may hand out again, so a dangling pointer really dangles: it names
nobody, or the next owner.  State and code correspond as follows.

| Variable | Code |
|---|---|
| `type`, `fd`, `flags`, `retried`, `named` | `m->type`, `m->fd`, `m->flags`, `m->retries > 0`, `m->possible_revdns` set |
| `list`, `corpses`, `ev` | `_lms_socket_list`, `_lms_socket_corpses`, and the socket pointer of the two events |
| `ptrQ`, `aQ` | queries inside evdns, by the pointer they carry |
| `link`, `backlog` | the kernel's side of each descriptor |
| `pc`, `slot`, `listener`, `incoming` | whether the thread is in the loop, in housekeeping (at slot `i`), or in `lms_conn_accept()`: before `accept()` returns, or behind it |
| `fault` | the undefined behaviour the program ran into, which ends the behaviour |

Each call of the program, each callback and each turn of the housekeeping loop
is one action.  `lms_conn_accept()` is three: `AcceptEvent`, then `AcceptReturn`, since
the peers move while `accept()` is tried, which registers the new socket, then
`AcceptWatch`, where `lms_mux_addfd()` takes it or fails and it is destroyed.
`Destroy` is all of `lms_socket_destroy()`: `Close` for an open descriptor and
`Bury` for a corpse.  `lms_socket_destroytype()` is one step over a set of
sockets.

What `Program` may call is what the HOWTO and the headers of the functions ask
for: a *new* socket is opened, a socket is watched after it was opened and once,
pointers to destroyed sockets are not used again.  `lms_socket_ilisten()` and
`lms_socket_iconn()` ask for "a new MSocket" (`socket.c:584,807`), and the program
gives them no other.  `Allowed` adds, one at a time, what the program or the
system may do besides: start a second look-up ("overlap"), keep a socket whose
connect failed ("keepFailed", as the HOWTO's example does), and let `malloc()` or
evdns fail in mid look-up ("lost").

Abstracted: bytes, addresses and names (the DNS cache answers arbitrarily, and a
look-up may so end at once or go to either phase); the clock (a time-out may be
due at any visit of housekeeping); `LMSOPTION_ALLOWIDLE` (an idle socket may be
spared); SSL, datagram and UNIX sockets.

**`SocketLife`** is what the library promises, without lists, flags and events: a
socket is fresh, open, dead or free; a descriptor has one owner until that owner
is closed; a socket that is closed while asked about is dead until the answer
came.  `Sockets!ImplementsLife` maps the code's state to it.

**`DnsCache`** models the other half of `dns.c`, which `Sockets` leaves open: the
slots of the cache with their expiry and negative entries, the forward look-ups for
`Abstract` objects of the three kinds, and both phases of a reverse look-up with
real names and addresses, from the cache and from evdns.  Each callback of evdns is
an action for each of its outcomes; `CleanCache` and `Cleaned` are the two halves of
the new second in `lms_loop()`, which reads the clock again at `lms.c:57`.  A socket
is only what a look-up touches of it, and can be destroyed as a corpse or replaced
by another connection.  evdns may refuse a query, of which `lms_dns_lookup()` takes
notice and the reverse look-ups do not; memory may be refused.  A reverse zone can
say anything, so a name may be the text of an address: it is a member of `Names`
and of `Addrs`.  Histories: `answers`, what evdns said, under the question that it
was asked (the code files it under what the object holds when the answer comes);
`cleaned`, the time of the last cleaning; `refused` and `lost`, the sockets whose query
evdns refused or whose look-up ended for want of memory, and which stay marked.

**`Transport`** models one connection with its bytes.  A byte is its number in the
stream, 0 one that nobody sent, so that a lost, doubled or moved byte shows.  The
queues are sequences with the size and the length that the code keeps beside them;
`OCopy` is `lms_str_ocopy()` with its offset into the source.  `hand` is which
functions `func_r` and `func_w` are, `session` the entry of `_lms_ssl_list`, `retry`
what OpenSSL expects of the next `SSL_write()`.  The read functions are several
steps (`ReadEvent`, `RecvSome`, `RecvBreak`, `RecvEnd`, `ToldReturn`), as the peer
goes on sending and `func_p` may do everything the program may.  Memory may be
refused everywhere (`MayLack`).  `mishaps` records which of the events happened
that the properties make exceptions for.

**`Throttle`** is the throttle of `conn.c` as compiled with `--enable-throttling`;
`lms_throttle_expire()` takes a step for each entry (`walk` is where it stands), as it
reads the clock for each.  Its history `bad` is when each address offended; it is
forgotten by the clock alone, at the start of an expiry, so that what the list makes of
expiry can be compared with it.  **`Config`** is the list of `conf.c` and
`ini_parse_file()` line by line.  Neither has a specification of its own: **`Daemon`**
extends both and composes them with their users, from `init_conf()` over
`init_network()`, which looks up the port and the vhost, to the loop with accepts,
errors and offenses.  Each connection gets a record as `_cx_sockaccept()` makes it.  A
record's `m` is a second socket, never connected, since `lms_socket_iaccept()` refuses
the accepted socket as a listener; a record stays in the list when its connection goes.
The walk over a record that was freed in the list and `strtol()` of a missing port end a
behaviour in a `fault`.

**`Timers`** models all of `to.c`.  A timer is the number of the `malloc()` that
made it, since timers are never freed.  `made`, `key`, `due`, `next`, `prev` and
`first` are the objects and `_to_first`; `pc` and `cur` say which function the
thread is in and where its loop stands.  Each turn of a loop is an action, because
`to_chk()` reads the clock in each of them.  `pending` and `since` are history
variables: the timers that were set and neither ran nor were deleted, and the time
of the last call of `to_chk()`.

**`MainLoop`** composes `main()` with `Timers`: `to_chk()` once the second has
changed, then `lms_loop()`, whose callbacks set and delete timers.  `at` is where
`main()` is; signals come between any two steps.  `last` starts with any value,
since the code reads it first; `status |= STATUS_INITIALIZED` is two steps, and
a signal between them is lost; what signals do is in the
model, and no property speaks of it.

`MCSockets` and `MCDaemon` add symmetry for the runs.

## The runs

| Run | Instance | Shows |
|---|---|---|
| `Sockets` | 2 sockets, 3 descriptors, 1 waiting connection | registry, mux, flags, marks; `ImplementsLife` |
| `SocketsCorpses` | 3 sockets, 1 descriptor, look-ups may get lost | corpses, their successors on the same descriptor, the resolver's pointers |
| `SocketsLive` | 2 sockets, 1 descriptor, no waiting connection, fairness | closed peers are noticed, connects decided, look-ups settled |
| `DnsCache` | 2 slots, 2 names of which one is an address's text, 2 addresses, 1 socket, 1 request, 2 answers, times 0 to 2 | answers are filed and given under the question asked, names confirmed, queries counted but for refused ones, entries fresh |
| `Transport` | chunks of 1 byte, 3 bytes out, 2 in, refused memory, fairness | queues counted, bytes in place, SSL in one phase, queues drain, bytes are reported |
| `Daemon` | files of 3 lines, 2 addresses, 3 sockets, 2 records, 2 offenses, times 0 to 2 | the configuration finds the first value and the port, records point to live sockets, offenders are slowed and quiet ones forgotten |
| `MainLoop` | 2 timers, 2 keys, times 0 to 3, fairness | the list holds the pending timers in order; `to_del()` and `to_chk()` are complete; due timers run |

Two sockets are a destroyed one and the one that takes over its descriptor, or a
listener and what it accepts; with two of them every pair of tables can
disagree about a descriptor.  Three descriptors are more than the sockets can
hold, so that a successor may or may not take the same one.  The corpse list has
its hard case when descriptors are scarce: with one descriptor, a corpse, the
socket that follows it there, and that one's corpse share the slot while a third
object is allocated and freed.  One query at a time is no bound without
overlapping look-ups (`Bookkeeping` says so).

In `DnsCache` (2.6 million states, two to three minutes) two slots are one that holds
what is asked and one that runs full.  Two addresses let a connection be replaced by
one from elsewhere while an answer is due; two names let an answer be filed under
another than was asked, and the request and the socket find what the other cached.  Two
different answers (`MaxAnswers`; each as often as it comes) are what a name and its
address take, or one name of two addresses.  A time to live of 3 with all three keep
times 1 is one that is cut to `MaxKeep`, and three moments let the loop skip a second;
`FreshCorrect` takes every other time to live, as the theorems do every other instance.

In `Transport` (375 thousand states, about three minutes with liveness) three
bytes out are what it takes to append to a queue of which a part was sent, and two
in with chunks of one to fill a queue, enlarge it and be called twice.  In `Daemon`
(1.4 million states with symmetry, about a minute) a third line is a duplicate of the
first that the look-up has or has not seen.  Three sockets are a connection with its
spare and another without, and after the first connection's end two records; two
connections that both have records wait for a fourth socket, and `RecordsCorrect` takes
any number.  With `Expire` 1 and three moments an entry can be kept, can become quiet
behind the walk over the throttle, and can be forgotten while the other is not.

In `MainLoop` (380 thousand states, half a minute) two timers are one that runs or is
deleted while the loop stands at the other; that unlinking one between two neighbours
is right as well is what `TimersProofs` adds, for any number of timers.  In four moments a
timer can be due before, during and after a walk.  A clock that stops is a bound: a
walk that began before its last moment may end in it, and a timer that fell due behind
that walk has no second left.  So `DueTimersRun` speaks of timers that are due outside the
walk while `main()` has not served the last second.

Symmetry over the addresses, and in `Daemon` over the sets without named members, is
used where no liveness property is checked.
Deadlock is not checked: when `main()` is over, after a fault, when nothing is
allocated and nothing arrives, or when bytes, answers and clock have reached their
bounds, there may be nothing to do.  That what must go on does is what the liveness
properties say.

**Fairness.**  In `Sockets` (`FairSpec`) the program calls `lms_loop()` for ever, which
is why housekeeping starts again and again and visits the next slot when it has
started; libevent polls descriptors that stay ready (level-triggered, `EV_PERSIST`),
which is strong fairness of the read and write callbacks; the clock advances, so that an
undecided connect is due at some visit; evdns answers or times out every query.
Nothing is assumed about the program or the peers.  Two obligations are on the
rest of the program and are stated in the properties (`Responsive`): the thread
comes back to the loop, and no fault ends the behaviour.  In `MainLoop`
(`FairLoopSpec`) the thread goes on, `lms_loop()` returns after finitely many
callbacks, and time passes.  In `Transport` (`FairSpec`) a function that was called
goes on; `recv()` is not interrupted for ever while there are bytes (strong fairness of
`RecvSome`); a readable descriptor is reported (weak fairness of `ReadEvent`); and a
writable one is reported often enough that the kernel takes bytes again and again
(strong fairness of a `WriteEvent` that sends).  The last is an assumption on the
peer, who reads; `QueueDrains` says nothing of handshakes, as the peer need not
complete one.

### Disagreements

Each of these runs ends in a behaviour of the code that a comment or the HOWTO
excludes; `PROJECT.json` quotes the line.

| Run | The code |
|---|---|
| `CorpseTest` | reads the flags of the descriptor's *next* owner in the corpse test, a null pointer when there is none |
| `AcceptSpin` | stays in `accept()`: the loop retries `EAGAIN` (`socket.c:694`) on a listener that is non-blocking, where it means that nobody is there |
| `ConfirmedName` | throws a confirmed name away: `lms_dns_recvrevB()` compares the address with the name (`dns.c:717`) |
| `WaitingIsAsked` | counts the query of a reverse look-up, marks the socket and returns "waiting" without a look at what evdns returns (`dns.c:411-412,417-418,577-578`), so that a refused look-up waits for ever |
| `SentInOrder` | loses what is appended to a send queue with bytes in it: the offset of `lms_str_ocopy()` is one into the source |

More departures from what the code seems to mean are part of the models, without a
run of their own:

- a second look-up of a socket that waits already lets an answer reach a freed socket,
  or mark the next owner of its address, even before that one is opened (`dns.c:338`;
  `NoUseAfterFree` fails with "overlap" in `Allowed`);
- a socket whose connect failed keeps the number of a closed descriptor, and its
  destruction closes the next owner's (`socket.c:884`; `RegistrySound` and
  `OwnerReleases` fail with "keepFailed");
- an address without a name is to be cached under a null host, whose length is taken
  (`dns.c:457`, `NoName`);
- as `dns.c:717` compares the address with the name, a name that is the text of an
  address, and has that address, passes unconfirmed; `NamesConfirmed` says exactly this;
- a socket that was never opened is destroyed through `_lms_socket_list[-1]`
  (`socket.c:348`); `last_recv` is stored after `func_p` destroyed the socket
  (`socket.c:1116`); a handshake that fails inside `lms_socket_iconn()` or
  `lms_socket_close()` frees the socket that they go on using;
- a corpse overwritten by the next one of its descriptor is never released, a refused
  connect is flagged connected; a reverse look-up for which memory lacks leaves its
  socket marked for ever;
- bytes that come together with the end of the stream are discarded (`socket.c:1082`);
- `lms_socket_iaccept()` tests the listener's `LMSFLG_SSL` (`socket.c:740`), which a
  listener never has, so SSL never starts on an accepted socket by itself; and
  `lms_socket_iconn()` ignores that `lms_ssl_startsock()` found no session, and goes on
  in the clear;
- after a part of the queue went out over SSL, `lms_socket_clearsq()` has moved the
  bytes that OpenSSL wants repeated from where they were;
- the throttle keeps less than is written of it.  HOWTO:94-95 says of
  `lms_throttle_check()` "If it returns >0, then the client should be throttled" and
  `conn.c:227` that it "returns 1 if the client ought to be throttle, 0 otherwise"; it
  returns the number of offenses, and `conn.c:96` slows a client down from
  `LMS_THROTTLE_AFTER` of them.  `msocket-internal.h:103-104` says "after 5 bad attempts in
  30 minutes"; the code counts offenses of any age, as long as each came before the entry
  of the one before expired, so five in two hours may do.  `OffendersSlowed` and
  `QuietForgotten` say what the code keeps to;
- the expiry of throttles goes on from the entry it has just freed (`conn.c:206`);
- the look-up in the configuration never sees the last entry, so a duplicate of it is
  stored in spite of `conf.c:121`, and a port in the last entry is a null pointer to
  `strtol()`; a vhost means 127.0.0.1 whatever its value.

A fault is terminal; what the passing runs and the theorems state holds up to that
point and along every behaviour that avoids it.

## What is proved

Seven modules hold theorems, each for every value of the constants.  What the
theorems assume are the named assumptions of the modules and the hypotheses given
here.

**`SocketsRegistryProofs`** proves, for every number of sockets, descriptors, waiting
connections and queries, that the lists, the objects, the mux and the kernel agree:
`RegistrySound`, `MuxSound`, `CorpsesSound`, `FlagsMatchLink`, the type invariant, and
the action property `OwnerReleases`.  The one hypothesis is
`"keepFailed" \notin Allowed`: a socket that failed to open is destroyed.  Of look-ups
nothing is assumed; they may get lost and start one over another, so that answers
reach freed sockets and the next owners of their addresses.

None of the invariants is inductive alone; `Registry`, their conjunction with
`Unopened`, is.  `RegistrySound` needs the mux to be sound, since the code takes an event
off by descriptor; `MuxSound` needs the registry, since `lms_mux_remfd()` clears the flag
of whoever is registered there.  A look-up changes no flag but `WAITDNS`
(`MarkKeeps`), and of that flag the registry needs nothing.  Model checking an instance with
overlapping look-ups corrected the first attempt at `Unopened`: a socket that
was never opened may be marked, by the answer to a query of its address's last owner,
and becomes a corpse if it fails to open (`OpenFails`).
The proof is arranged by what the code does: `OpenKeeps` covers every way to get a
descriptor, `WatchKeeps` both callers of `lms_mux_addfd()`, `DestroyKeeps` every caller of
`lms_socket_destroy()`; the lemmas of the actions reduce to these.  `RegistrySound` thus
covers a socket that was accepted and could not be watched.

**`SocketsProofs`** adds the look-ups, under the hypothesis `Allowed \subseteq {"lost"}`:
the program starts one look-up of a socket at a time.

- `Inv` is `Registry` with, for each socket, `InStep`: its mark and its queries
  go together.  It implies `LookupsProtected`, `WaitsForAnswer` and `Bookkeeping`.
- `ReleasedWhenSettled` and `NoUseAfterFree`: memory is released only when no query names
  it, and no answer of the resolver reaches a freed socket.

`LookupsProtected` needs that at most one query is outstanding for a socket: an answer
clears the one mark there is, so a second query would be left without protection.
`WaitsForAnswer` is proved for `Allowed = {}`, since a look-up that gets lost
leaves a mark without a query; `Inv` holds it as that implication (`AnswersDue`).
`LookupStepInStep` covers every way a step of a look-up can end, `DestroySteps`
every destruction.

**`SocketsLifeProofs`** proves that the library implements `SocketLife`
(`ImplementsLifeCorrect`, for `Allowed = {}`): under the mapping of `Sockets!Life`
the initial states are initial, and every step from a state of `Inv` is a step of
the abstract specification or a stutter.  `CloseLife` and `DestroyTypeLife` use that
a socket is marked exactly when it is asked about (`MarkedIsAsked`); a look-up that
gets lost breaks that, and its corpse stays though nobody asks about it.

**`DnsCacheProofs`** proves every property that the run `DnsCache` checks.  The code
files an answer under the name or address that its object has *when the answer comes*;
that this is what evdns was asked about is the heart of the proof
(`WaitsForItsAnswer` for sockets, `Questions` for requests, whose queries are also
finitely many), and `AnswersAttested` follows from it.  Two parts are added to the
properties: `NamesAsked`, that a name which waits for its address has been given for the
socket's address, and `Forsaken`, that a socket whose query was refused or whose answer was
dropped is marked and has no query.  The last is why the counter is off by the number of
such sockets exactly: none can be refused twice.  `NamesConfirmed` holds for every choice of
names and addresses, names that are texts of addresses included (`TagsApart` only keeps
the model's two tags of a callback apart from addresses).

`SocketInv` and `RequestInv` carry the invariant over a step that concerns one socket or
only requests; `SettleInv`, `QuietInv`, `StuckInv`, `AskInv` and `FindRevInv` are the ways
a look-up goes on, and each callback reduces to them.  `CallbackCorrect` needs no
invariant but that an entry of type A under a name is found there (`EntryFound`).

**`TransportProofs`** proves every invariant that the run `Transport` checks, and
`NothingInClear`, for any `Chunk`, any number of bytes and both values of `MayLack`.  It is
layered.  `Phases` relates flags, session, functions, thread and mishaps and is inductive
by itself.  `SendSound` and `RecvSound` are each the kinds of the queue (Fits), its
counts (Counted) and its bytes (Placed), inductive given `Phases`; of the bytes it
needs what `BytesInPlace` leaves out, where the bytes still in the queue are.
`OthersTyped` is the rest of `TypeOK`.

**`TimersProofs`** proves of `to.c`, for any number of timers and any time: `ListSound`,
`WalkSound`, `DelComplete` and `CheckComplete`.  `Follows` describes the list
by the order in which the pending timers were set, so that no induction along the
list is needed; the invariant adds what `to_del()` and `to_chk()` have established
of the timers they passed.  `LoopUsesTimers` shows that `main()` keeps to
`Timers`, so these theorems hold of the program, and `LoopTypeCorrect` is `main()`'s own
type invariant.

**`DaemonProofs`** proves every property that the run `Daemon` checks, for every file,
number of addresses, sockets and records, and every `After` and `Expire`.  Its invariant
`IInv` has a part for each thing the program keeps.  *Configuration*: the first entry of
a name is the first pair given for it (`Stored`).  `PortFound` needs in addition that
the port is not the last entry once a new name was given behind it (`PortKept`): the
look-up misses the last entry, and only what it finds is refused, so duplicates may
follow the port, but a new name must.  *Throttle*: an address is listed once, and its
entry fits the history: it counts the last offenses, and those before were over for more
than `Expire` seconds when the next came (`Fits`); or the address was forgotten, the
entry is quiet and the walk is still on its way to it (`Forgotten`).  An address that
offended lately has an entry.  From this both `OffendersSlowed` and `QuietForgotten`
follow at the accept (`CheckFits`).  *Records*: those that were not freed name sockets
that nothing ever connects or frees, which is why the error of the accepted socket does
not take them along.  The lemmas under these say what the look-up returns (`FirstFinds`,
`CxMConfFinds`) and what a list is after `lms_throttle_remove()` (`Removed`).

Model-checked only: the liveness properties (`SocketsLive`, `QueueDrains`,
`BytesReported`, `DueTimersRun`; the prover has no rule for
fairness here).  What look-ups promise is neither proved nor true with "overlap" in
`Allowed`, nor what the registry promises with "keepFailed"; no run of the project has
these, as each property would need its own exceptions.

## What remains

One module for `Sockets` and `Transport` together, with several connections that
hold bytes.

## Not modelled

- `irc.c`: its handlers are empty, `cap_add()` and `cap_rem()` never store an index
  or a name, and nothing calls them.
- `base64.c`, `passwords.c` and the rest of `str.c`: functions of their arguments that
  no other part of the program calls; unit tests reach them as well as a model.
- `file.c`, `rand.c`: I/O on files and `/dev/random`, without state.
- `database.c` (an unfinished MySQL stub), `dl.c` (empty), `version.c`, `utils.c`.
- `lms_ssl_init()`, `lms_ssl_unclean()`, `lms_ssl_getclientinfo()`: they configure or
  query OpenSSL.
- Datagram sockets (HOWTO:81: "UDP sockets don't work at all yet") and UNIX sockets,
  `lms_socket_insertfd()` and `lms_socket_findopenfd()` as calls of the program,
  `lms_dns_gethost()`, which only reads the cache.
- `clear_conf()` and `cxconf()`, which have no caller; the characters of
  configuration lines.
- The static DNS table, compiled out; a socket that is looked up forwards and
  backwards at once.
- The example programs, which document the order of calls.
