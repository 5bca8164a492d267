------------------------------ MODULE DnsCache ------------------------------
(***************************************************************************)
(* The DNS cache of src/msocket/dns.c with all who use it: the forward     *)
(* look-ups for the program's Abstract objects, the reverse look-ups of    *)
(* sockets, which ask for the name of an address and then whether that     *)
(* name has the address, and lms_loop(), which clears out expired entries. *)
(*                                                                         *)
(* Sockets models the life of the socket during a look-up and lets the     *)
(* cache answer anything; here the socket is only what a look-up touches,  *)
(* and names, addresses and times are real.                                *)
(*                                                                         *)
(* Abstracted: a name is its lower case form; the three life times of      *)
(* _lms_dns_addcache() are constants.  malloc() may fail and evdns may     *)
(* refuse a query.  A name may be the text of an address (a reverse zone   *)
(* can say anything): such a name is in Names and in Addrs.  The static    *)
(* table is compiled out (LMS_MAXDNSSTATIC).                               *)
(*                                                                         *)
(* `answers', `cleaned', `refused' and `lost' are history variables, for   *)
(* the properties only.                                                    *)
(***************************************************************************)
EXTENDS Integers, FiniteSets

CONSTANTS
  Names, Addrs,
  Socks,          \* sockets that are looked up
  Requests,       \* Abstract objects of the program
  CacheSize,      \* LMS_MAXDNSCACHE
  MinKeep, DefaultKeep, MaxKeep,   \* 300, 600 and 86400 seconds
  Ttls,           \* the times to live that answers come with
  MaxTime,        \* bound: the latest time
  MaxAnswers,     \* bound: how many different answers evdns gives
  None            \* no name, no address, a null pointer

ASSUME KeepBounds ==
  /\ MinKeep \in Nat \ {0} /\ DefaultKeep \in Nat /\ MaxKeep \in Nat
  /\ MinKeep <= DefaultKeep /\ DefaultKeep <= MaxKeep
ASSUME DnsBounds == CacheSize \in Nat /\ Ttls \subseteq Int /\ MaxTime \in Nat
ASSUME NoneIsNothing == None \notin Names \cup Addrs \cup {"answer", "failure"}

\* What a callback is called for is told apart from an address.
ASSUME TagsApart == {"answer", "failure"} \cap Addrs = {}

VARIABLES
  cache,    \* _lms_dns_cache: an entry or None in each slot
  now,      \* time(NULL)
  lastrun,  \* _lms_loop_lastrun
  inLoop,   \* lms_loop() has cleaned the cache and not set lastrun yet
  asked,    \* queries that evdns will answer
  active,   \* lms_dns_activequeries
  remotehost, remotedns, possible_revdns, retries,   \* fields of an MSocket
  flags,    \* its WAITDNS and WAITDESTROY
  what,     \* a->what of each Abstract
  host,     \* the name that a->where gives: the one it was looked up by
  got,      \* the address left at a->where, or what a->how(a) was called for
  fault,    \* undefined behaviour met
  answers,  \* history: <<type, question, answer>> that evdns gave
  cleaned,  \* history: when the cache was last cleaned
  refused,  \* history: sockets whose query was counted and refused by evdns
  lost      \* history: sockets whose look-up ended for want of memory

socket == <<remotehost, remotedns, possible_revdns, retries, flags>>
request == <<what, host, got>>
clock == <<now, lastrun, inLoop, cleaned>>
failed == <<refused, lost>>
vars == <<cache, clock, asked, active, socket, request, fault, answers, failed>>

Slots == 0 .. CacheSize - 1
Entries ==
  [type : {"A", "PTR"}, ip : Addrs \cup {None}, host : Names,
   negative : BOOLEAN, expiry : 0 .. MaxTime + MaxKeep]
ASSUME NoneIsNoEntry == None \notin Entries

Kinds == {"MSOCKET", "DNSREQUEST", "CALLBACK"}

\* A query inside evdns: the callback, the object it carries, the question
Query(how, who, question) == [how |-> how, who |-> who, question |-> question]

Init ==
  /\ cache = [s \in Slots |-> None]
  /\ now = 0 /\ lastrun = 0 /\ inLoop = FALSE /\ cleaned = 0
  /\ asked = {} /\ active = 0
  /\ remotehost \in [Socks -> Addrs]
  /\ remotedns = [m \in Socks |-> None]
  /\ possible_revdns = [m \in Socks |-> None]
  /\ retries = [m \in Socks |-> 0]
  /\ flags = [m \in Socks |-> {}]
  /\ what = [r \in Requests |-> None]
  /\ host = [r \in Requests |-> None]
  /\ got = [r \in Requests |-> None]
  /\ fault = None /\ answers = {} /\ refused = {} /\ lost = {}

-----------------------------------------------------------------------------
(* The cache *)

\* _lms_dns_findincache(): the first slot that has what is asked for.  The
\* question is the address of a PTR record and the name of an A record.
KeyOf(e) == IF e.type = "PTR" THEN e.ip ELSE e.host

\* slip: a negative entry does not count as one
MatchesPositive(s, type, question) ==
  /\ cache[s] # None /\ cache[s].type = type /\ KeyOf(cache[s]) = question
  /\ ~cache[s].negative

Matches(s, type, question) ==
  cache[s] # None /\ cache[s].type = type /\ KeyOf(cache[s]) = question
Hits(type, question) == {s \in Slots : Matches(s, type, question)}
First(S) == CHOOSE s \in S : \A t \in S : s <= t
FindInCache(type, question) ==
  LET hits == Hits(type, question)
  IN  IF hits = {} THEN None ELSE cache[First(hits)]

\* lms_dns_getip(): what a callback can learn of a name
GetIp(name) ==
  LET c == FindInCache("A", name)
  IN  IF c = None THEN -1 ELSE IF c.negative THEN 0 ELSE 1

\* slip: a time to live is taken as it comes
KeepAsTold(ttl) == ttl

\* How long _lms_dns_addcache() keeps an entry
Keep(ttl) ==
  CASE ttl <= 0                    -> DefaultKeep
    [] ttl \in 1 .. MinKeep - 1    -> MinKeep
    [] ttl \in MinKeep .. MaxKeep  -> ttl
    [] OTHER                       -> MaxKeep

FreeSlots == {s \in Slots : cache[s] = None}

NewEntry(type, ip, hostname, ttl) ==
  [type |-> type, ip |-> ip, host |-> hostname, negative |-> ip = None,
   expiry |-> now + Keep(ttl)]

\* _lms_dns_addcache() with _lms_dns_getcacheslot(): nothing is added to a full
\* cache or without memory.  An A record without an address is negative.
AddCache(type, ip, hostname, ttl) ==
  \/ UNCHANGED cache
  \/ /\ FreeSlots # {}
     /\ cache' = [cache EXCEPT ![First(FreeSlots)] =
                                  NewEntry(type, ip, hostname, ttl)]

-----------------------------------------------------------------------------
(* Forward look-ups *)

AtRest == fault = None /\ ~inLoop
Busy(r) == \E q \in asked : q.how = "recv" /\ q.who = r

\* lms_dns_lookup(n, r): an entry serves at once, even a negative one, whose
\* address is empty; otherwise evdns is asked, and counted if it accepts.
Lookup(r, kind, n) ==
  /\ AtRest /\ ~Busy(r)
  /\ what' = [what EXCEPT ![r] = kind] /\ host' = [host EXCEPT ![r] = n]
  /\ LET c == FindInCache("A", n) IN
     \/ /\ c # None
        /\ got' = [got EXCEPT ![r] = IF kind = "CALLBACK" THEN "answer" ELSE c.ip]
        /\ UNCHANGED <<asked, active>>
     \/ /\ c = None
        /\ got' = [got EXCEPT ![r] = None]
        /\ \/ asked' = asked \cup {Query("recv", r, n)} /\ active' = active + 1
           \/ UNCHANGED <<asked, active>>
  /\ UNCHANGED <<cache, clock, socket, fault, answers, failed>>

\* What evdns answers, to the question that it was asked
Told(type, q, answer) ==
  /\ answers' = answers \cup {<<type, q.question, answer>>}
  /\ Cardinality(answers') <= MaxAnswers

\* The query is over.
Over(q) == asked' = asked \ {q} /\ active' = active - 1

\* lms_dns_recv() with an address, or None for DNS_ERR_NOTEXIST
Recv(q, ip, ttl) ==
  LET r == q.who IN
  /\ AtRest /\ q \in asked /\ q.how = "recv"
  /\ Over(q) /\ Told("A", q, ip)
  /\ AddCache("A", ip, host[r],
              IF ip = None /\ what[r] = "DNSREQUEST" THEN DefaultKeep ELSE ttl)
  /\ got' = [got EXCEPT ![r] = CASE what[r] = "CALLBACK" -> "answer"
                                 [] what[r] = "MSOCKET"  -> ip
                                 [] OTHER                -> @]
  /\ UNCHANGED <<clock, socket, what, host, fault, failed>>

\* slip: a query that failed stays counted
RecvFailsCounted(q) ==
  LET r == q.who IN
  /\ AtRest /\ q \in asked /\ q.how = "recv"
  /\ asked' = asked \ {q}
  /\ got' = [got EXCEPT ![r] = IF what[r] = "CALLBACK" THEN "failure" ELSE @]
  /\ UNCHANGED <<active, cache, clock, socket, what, host, fault, answers,
                 failed>>

\* lms_dns_recv() with any other error, of which only a callback hears; and
\* with a record of another type or without memory, of which nobody does.
RecvFails(q) ==
  LET r == q.who IN
  /\ AtRest /\ q \in asked /\ q.how = "recv"
  /\ Over(q)
  /\ \/ got' = [got EXCEPT ![r] = IF what[r] = "CALLBACK" THEN "failure" ELSE @]
     \/ UNCHANGED got
  /\ UNCHANGED <<cache, clock, socket, what, host, fault, answers, failed>>

-----------------------------------------------------------------------------
(* Reverse look-ups *)

\* slip: the mark stays
SettleMarked(m, name) ==
  /\ remotedns' = [remotedns EXCEPT ![m] = name]
  /\ possible_revdns' = [possible_revdns EXCEPT ![m] = None]
  /\ UNCHANGED flags

\* The look-up of m is over, with a name or without.
Settle(m, name) ==
  /\ flags' = [flags EXCEPT ![m] = @ \ {"WAITDNS"}]
  /\ remotedns' = [remotedns EXCEPT ![m] = name]
  /\ possible_revdns' = [possible_revdns EXCEPT ![m] = None]

\* slip: any address confirms the name
ConfirmsAny(c, m) == c # None /\ ~c.negative

\* A name that the cache knows to have the address of m
Confirms(c, m) == c # None /\ ~c.negative /\ c.ip = remotehost[m]

\* evdns is asked, and counted without a look at whether it accepts; `queries'
\* and `count' are the queries and lms_dns_activequeries before.
Ask(how, m, question, queries, count) ==
  /\ flags' = [flags EXCEPT ![m] = @ \cup {"WAITDNS"}]
  /\ active' = count + 1
  /\ \/ asked' = queries \cup {Query(how, m, question)} /\ UNCHANGED refused
     \/ asked' = queries /\ refused' = refused \cup {m}
  /\ UNCHANGED <<remotedns, lost>>

\* lms_dns_findrev(), with the possible name, the queries and the count there
\* are when it is called: from the cache as far as that goes.  Without memory
\* a confirmed name is given up, and for one to be confirmed nothing is asked.
FindRev(m, rev, queries, count) ==
  LET e == FindInCache("PTR", remotehost[m])
      c == FindInCache("A", e.host)
  IN
  \/ /\ e = None
     /\ possible_revdns' = [possible_revdns EXCEPT ![m] = rev]
     /\ Ask("recvrevA", m, remotehost[m], queries, count)
  \/ /\ e # None /\ ~e.negative /\ c = None
     /\ possible_revdns' = [possible_revdns EXCEPT ![m] = e.host]
     /\ Ask("recvrevB", m, e.host, queries, count)
  \/ /\ e # None /\ ~e.negative /\ c = None
     /\ flags' = [flags EXCEPT ![m] = @ \cup {"WAITDNS"}]
     /\ possible_revdns' = [possible_revdns EXCEPT ![m] = None]
     /\ lost' = lost \cup {m}
     /\ asked' = queries /\ active' = count /\ UNCHANGED <<remotedns, refused>>
  \/ /\ e # None /\ (e.negative \/ c # None)
     /\ Settle(m, IF ~e.negative /\ Confirms(c, m) THEN e.host ELSE None)
     /\ asked' = queries /\ active' = count /\ UNCHANGED failed
  \/ /\ e # None /\ ~e.negative /\ Confirms(c, m)
     /\ flags' = [flags EXCEPT ![m] = @ \ {"WAITDNS"}]
     /\ remotedns' = [remotedns EXCEPT ![m] = None]
     /\ possible_revdns' = [possible_revdns EXCEPT ![m] = rev]
     /\ asked' = queries /\ active' = count /\ UNCHANGED failed

\* The program looks up a socket, once at a time.
StartFindRev(m) ==
  /\ AtRest /\ "WAITDNS" \notin flags[m]
  /\ FindRev(m, possible_revdns[m], asked, active)
  /\ UNCHANGED <<cache, clock, remotehost, retries, request, fault, answers>>

\* slip: the whole look-up is tried again after every transient error
RetryAlways(q, rev) ==
  LET m == q.who IN
  /\ retries' = [retries EXCEPT ![m] = @ + 1]
  /\ FindRev(m, rev, asked \ {q}, active - 1)

\* A transient error: once the whole look-up is tried again, then it is given up.
RetryOrGiveUp(q, rev) ==
  LET m == q.who IN
  \/ /\ retries[m] = 0
     /\ retries' = [retries EXCEPT ![m] = 1]
     /\ FindRev(m, rev, asked \ {q}, active - 1)
  \/ /\ retries[m] > 0
     /\ retries' = [retries EXCEPT ![m] = 0]
     /\ Settle(m, None)
     /\ Over(q) /\ UNCHANGED failed

Called(q, how) == AtRest /\ q \in asked /\ q.how = how

\* DNS_ERR_NOTEXIST: an address without a name is to be cached by the name that
\* it has not, whose length is taken.  With a full cache it just Fails.
NoName(q) ==
  /\ Called(q, "recvrevA") /\ FreeSlots # {}
  /\ fault' = "nullHost"
  /\ UNCHANGED <<cache, clock, asked, active, socket, request, answers, failed>>

NoAddress(q) ==
  /\ Called(q, "recvrevB")
  /\ Over(q) /\ Told("A", q, None)
  /\ AddCache("A", None, possible_revdns[q.who], DefaultKeep)
  /\ Settle(q.who, None) /\ retries' = [retries EXCEPT ![q.who] = 0]
  /\ UNCHANGED <<clock, remotehost, request, fault, failed>>

\* DNS_ERR_SERVERFAILED or DNS_ERR_UNKNOWN
Fails(q) ==
  /\ Called(q, q.how) /\ q.how # "recv"
  /\ Over(q)
  /\ Settle(q.who, None) /\ retries' = [retries EXCEPT ![q.who] = 0]
  /\ UNCHANGED <<cache, clock, remotehost, request, fault, answers, failed>>

\* Any other error, a record of another type, or not one address: the second
\* phase frees the name before it retries.
TryAgain(q) ==
  /\ Called(q, q.how) /\ q.how # "recv"
  /\ RetryOrGiveUp(q, IF q.how = "recvrevA" THEN possible_revdns[q.who] ELSE None)
  /\ UNCHANGED <<cache, clock, remotehost, request, fault, answers>>

\* Without memory for the name or the text of the address, the answer is
\* dropped and the mark stays.
NoMemory(q) ==
  /\ Called(q, q.how) /\ q.how # "recv"
  /\ possible_revdns' = IF q.how = "recvrevB" THEN possible_revdns
                        ELSE [possible_revdns EXCEPT ![q.who] = None]
  /\ lost' = lost \cup {q.who}
  /\ Over(q)
  /\ UNCHANGED <<cache, clock, remotehost, remotedns, retries, flags, request,
                 fault, answers, refused>>

\* lms_dns_recvrevA() with a name: the cache may tell whether it has the
\* address, or else evdns is asked.  A corpse only leaves the name to the cache.
RecvRevA(q, name, ttl) ==
  LET m == q.who
      c == FindInCache("A", name)
  IN
  /\ Called(q, "recvrevA")
  /\ Told("PTR", q, name)
  /\ AddCache("PTR", remotehost[m], name, ttl)
  /\ \/ /\ "WAITDESTROY" \in flags[m]
        /\ flags' = [flags EXCEPT ![m] = @ \ {"WAITDNS"}]
        /\ possible_revdns' = [possible_revdns EXCEPT ![m] = name]
        /\ Over(q)
        /\ UNCHANGED <<remotedns, retries, failed>>
     \/ /\ "WAITDESTROY" \notin flags[m] /\ c = None
        /\ possible_revdns' = [possible_revdns EXCEPT ![m] = name]
        /\ Ask("recvrevB", m, name, asked \ {q}, active - 1)
        /\ UNCHANGED retries
     \/ /\ "WAITDESTROY" \notin flags[m] /\ c # None
        /\ Settle(m, IF Confirms(c, m) THEN name ELSE None)
        /\ retries' = IF Confirms(c, m) THEN retries
                                        ELSE [retries EXCEPT ![m] = 0]
        /\ Over(q) /\ UNCHANGED failed
  /\ UNCHANGED <<clock, remotehost, request, fault>>

\* lms_dns_recvrevB() with an address, which it compares with the name
RecvRevB(q, ip, ttl) ==
  LET m == q.who
      name == possible_revdns[m]
  IN
  /\ Called(q, "recvrevB")
  /\ Over(q) /\ Told("A", q, ip)
  /\ AddCache("A", ip, name, ttl)
  /\ \/ /\ "WAITDESTROY" \in flags[m]
        /\ flags' = [flags EXCEPT ![m] = @ \ {"WAITDNS"}]
        /\ UNCHANGED <<remotedns, possible_revdns, retries>>
     \/ /\ "WAITDESTROY" \notin flags[m]
        /\ Settle(m, IF ip = name THEN name ELSE None)
        /\ retries' = [retries EXCEPT ![m] = 0]
  /\ UNCHANGED <<clock, remotehost, request, fault, failed>>

\* The socket is destroyed: at once, or as a corpse when an answer is due; and
\* its memory serves the next connection.
Destroy(m) ==
  /\ AtRest /\ "WAITDESTROY" \notin flags[m] /\ "WAITDNS" \in flags[m]
  /\ flags' = [flags EXCEPT ![m] = @ \cup {"WAITDESTROY"}]
  /\ UNCHANGED <<cache, clock, asked, active, remotehost, remotedns,
                 possible_revdns, retries, request, fault, answers, failed>>

\* slip: no corpse is left for the answer that is due
ReplaceAnyway(m) ==
  /\ AtRest
  /\ \E a \in Addrs : remotehost' = [remotehost EXCEPT ![m] = a]
  /\ flags' = [flags EXCEPT ![m] = {}]
  /\ remotedns' = [remotedns EXCEPT ![m] = None]
  /\ possible_revdns' = [possible_revdns EXCEPT ![m] = None]
  /\ retries' = [retries EXCEPT ![m] = 0]
  /\ UNCHANGED <<cache, clock, asked, active, request, fault, answers, failed>>

Replace(m) ==
  /\ AtRest /\ "WAITDNS" \notin flags[m]
  /\ \E a \in Addrs : remotehost' = [remotehost EXCEPT ![m] = a]
  /\ flags' = [flags EXCEPT ![m] = {}]
  /\ remotedns' = [remotedns EXCEPT ![m] = None]
  /\ possible_revdns' = [possible_revdns EXCEPT ![m] = None]
  /\ retries' = [retries EXCEPT ![m] = 0]
  /\ UNCHANGED <<cache, clock, asked, active, request, fault, answers, failed>>

-----------------------------------------------------------------------------
(* The loop and the clock *)

\* lms_loop() in a new second: lms_dns_cleancache().
CleanCache ==
  /\ AtRest /\ lastrun < now
  /\ cache' = [s \in Slots |-> IF cache[s] # None /\ cache[s].expiry <= now
                               THEN None ELSE cache[s]]
  /\ inLoop' = TRUE /\ cleaned' = now
  /\ UNCHANGED <<now, lastrun, asked, active, socket, request, fault, answers,
                 failed>>

\* The clock is read again for the second that was served.
Cleaned ==
  /\ inLoop
  /\ lastrun' = now /\ inLoop' = FALSE
  /\ UNCHANGED <<cache, now, cleaned, asked, active, socket, request, fault,
                 answers, failed>>

Tick ==
  /\ fault = None /\ now < MaxTime
  /\ now' = now + 1
  /\ UNCHANGED <<cache, lastrun, inLoop, cleaned, asked, active, socket,
                 request, fault, answers, failed>>

Program ==
  \/ \E r \in Requests, kind \in Kinds, n \in Names : Lookup(r, kind, n)
  \/ \E m \in Socks : StartFindRev(m) \/ Destroy(m) \/ Replace(m)

Resolver ==
  \E q \in asked :
    \/ RecvFails(q) \/ NoName(q) \/ NoAddress(q) \/ Fails(q) \/ TryAgain(q)
    \/ NoMemory(q)
    \/ \E ttl \in Ttls :
         \/ \E ip \in Addrs \cup {None} : Recv(q, ip, ttl)
         \/ \E ip \in Addrs : RecvRevB(q, ip, ttl)
         \/ \E name \in Names : RecvRevA(q, name, ttl)

Next == Program \/ Resolver \/ CleanCache \/ Cleaned \/ Tick

Spec == Init /\ [][Next]_vars

-----------------------------------------------------------------------------
(* Properties *)

\* Every variable holds a value of its kind.
TypeOK ==
  /\ cache \in [Slots -> Entries \cup {None}]
  /\ now \in 0 .. MaxTime /\ lastrun \in 0 .. now /\ cleaned \in 0 .. now
  /\ inLoop \in BOOLEAN
  /\ remotehost \in [Socks -> Addrs]
  /\ remotedns \in [Socks -> Names \cup {None}]
  /\ possible_revdns \in [Socks -> Names \cup {None}]
  /\ retries \in [Socks -> 0 .. 1]
  /\ flags \in [Socks -> SUBSET {"WAITDNS", "WAITDESTROY"}]
  /\ what \in [Requests -> Kinds \cup {None}]
  /\ host \in [Requests -> Names \cup {None}]
  /\ got \in [Requests -> Addrs \cup {None, "answer", "failure"}]
  /\ fault \in {None, "nullHost"}

Attested(type, question, answer) == <<type, question, answer>> \in answers

\* Every entry says what evdns answered, of the name or address that evdns was
\* asked about, and an object of the program is given an address only if the
\* name it was looked up by was said to have it: no look-up files its answer
\* under another key.
AnswersAttested ==
  /\ \A s \in Slots : cache[s] # None =>
       /\ cache[s].type = "A"   => Attested("A", cache[s].host, cache[s].ip)
       /\ cache[s].type = "PTR" => Attested("PTR", cache[s].ip, cache[s].host)
  /\ \A r \in Requests : got[r] \in Addrs => Attested("A", host[r], got[r])

\* A socket carries a name only if its address was said to have that name and
\* the name to have that address, by whatever mixture of the cache and evdns;
\* or, as dns.c:717 compares, if the name is the text of an address and was
\* said to have the address that it reads as.
NamesConfirmed ==
  \A m \in Socks : remotedns[m] # None =>
    /\ Attested("PTR", remotehost[m], remotedns[m])
    /\ \/ Attested("A", remotedns[m], remotehost[m])
       \/ remotedns[m] \in Addrs /\ Attested("A", remotedns[m], remotedns[m])

\* A socket waits for one answer, about the address or the name it has now,
\* and the answer will be filed under that; only a socket whose query was
\* refused or whose answer was dropped for want of memory waits for nothing.
WaitsForItsAnswer ==
  /\ \A m \in Socks :
       "WAITDNS" \in flags[m] =>
         \/ m \in refused \cup lost
         \/ \E q \in asked : q.who = m /\ q.how \in {"recvrevA", "recvrevB"}
  /\ \A q \in asked :
       /\ q.how = "recvrevA" => q.question = remotehost[q.who]
       /\ q.how = "recvrevB" => q.question = possible_revdns[q.who]
       /\ q.how # "recv" =>
            /\ "WAITDNS" \in flags[q.who]
            /\ \A p \in asked : p.how # "recv" /\ p.who = q.who => p = q

\* lms_dns_activequeries, an unsigned counter, is the number of queries and of
\* the reverse look-ups that evdns refused: too high by each of these for good,
\* and never too low, so that it does not wrap around.
QueriesCounted == active = Cardinality(asked) + Cardinality(refused)

\* What a look-up can be served has not expired before the cache was last
\* cleaned, and leaves the cache within MaxKeep seconds from now.
EntriesFresh ==
  \A s \in Slots : cache[s] # None =>
    cleaned < cache[s].expiry /\ cache[s].expiry <= now + MaxKeep

\* A callback that is called with an answer finds an entry by lms_dns_getip():
\* from the cache always, and from evdns unless the answer was not added to the
\* cache, for want of a slot or of memory.
CallbackFindsEntry ==
  [][\A r \in Requests :
       got'[r] = "answer" /\ got[r] # "answer"
         => GetIp(host[r])' # -1 \/ (cache' = cache /\ asked' # asked)]_vars

\* What the code at dns.c:328 is said to do, and does not: when the name of an
\* address turns out to have that address, remotedns is set to it.
ConfirmedNameIsKept ==
  [][\A m \in Socks :
       Query("recvrevB", m, possible_revdns[m]) \in asked \ asked'
         /\ <<"A", possible_revdns[m], remotehost[m]>> \in answers' \ answers
         /\ "WAITDESTROY" \notin flags[m]
       => remotedns'[m] = possible_revdns[m]]_vars

\* What dns.c:329 says of a look-up that waits, and is not so: a socket marked
\* WAITDNS, memory lacking apart, has a query inside evdns to wait for.
WaitingIsAsked ==
  \A m \in Socks \ lost :
    "WAITDNS" \in flags[m] => \E q \in asked : q.how # "recv" /\ q.who = m
=============================================================================
