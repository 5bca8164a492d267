--------------------------- MODULE DnsCacheProofs ---------------------------
(***************************************************************************)
(* Proofs about DnsCache, for any number of names, addresses, sockets,     *)
(* requests and slots, any times to live and any time.                     *)
(*                                                                         *)
(* What is cached and given is attested because every query is about the   *)
(* name or address that its object still has: WaitsForItsAnswer for the    *)
(* sockets, Questions for the requests.  A name that waits for its address *)
(* has been attested already (NamesAsked), a socket has one query at a     *)
(* time, and one that evdns refused has none and never will (Forsaken), so *)
(* that the counter can be kept.                                           *)
(***************************************************************************)
EXTENDS DnsCache, FiniteSetTheorems, WellFoundedInduction, TLAPS

Queries ==
  [how : {"recv"}, who : Requests, question : Names]
    \cup [how : {"recvrevA"}, who : Socks, question : Addrs]
    \cup [how : {"recvrevB"}, who : Socks, question : Names]

\* The queries are about what they were asked for, and can be counted.
Questions ==
  /\ asked \subseteq Queries /\ IsFiniteSet(asked)
  /\ \A q \in asked : q.how = "recv" => q.question = host[q.who]

\* A name that is asked for its address was given for the socket's address.
NamesAsked ==
  \A q \in asked :
    q.how = "recvrevB" => Attested("PTR", remotehost[q.who], q.question)

\* The look-up of m was neither refused nor lost.
NotForsaken(m) == m \notin refused \cup lost

\* A socket that was refused, or lost its answer, is marked and has no query.
Forsaken ==
  /\ refused \subseteq Socks /\ IsFiniteSet(refused) /\ lost \subseteq Socks
  /\ \A m \in refused \cup lost :
       "WAITDNS" \in flags[m] /\ \A q \in asked : q.how = "recv" \/ q.who # m

AsksSound ==
  Questions /\ NamesAsked /\ NamesConfirmed /\ WaitsForItsAnswer /\ Forsaken

Inv ==
  /\ TypeOK /\ AsksSound /\ AnswersAttested /\ QueriesCounted /\ EntriesFresh

\* The two ways in which a name is confirmed
Confirmed(name, ip, told) ==
  /\ <<"PTR", ip, name>> \in told
  /\ <<"A", name, ip>> \in told \/ (name \in Addrs /\ <<"A", name, name>> \in told)

-----------------------------------------------------------------------------
(* The cache *)

\* A set of slots has a first one.
LEMMA FirstSlot ==
  ASSUME NEW S \in SUBSET Nat, S # {}
  PROVE  First(S) \in S
  <1> DEFINE Less == {p \in Nat \X Nat : p[1] < p[2]}
  <1>1. IsWellFoundedOn(Less, Nat)
    BY NatLessThanWellFounded DEF OpToRel
  <1> HIDE DEF Less
  <1>2. \E s \in S : \A t \in S : <<t, s>> \notin Less
    BY <1>1, WFMin
  <1>3. \A s, t \in Nat : t < s => <<t, s>> \in Less
    BY DEF Less
  <1>4. PICK s \in S : \A t \in S : <<t, s>> \notin Less
    BY <1>2
  <1>5. \A t \in S : s <= t
    <2> TAKE t \in S
    <2>1. s \in Nat /\ t \in Nat /\ <<t, s>> \notin Less
      BY <1>4
    <2>2. ~(t < s)
      BY <1>3, <2>1
    <2> QED BY <2>1, <2>2
  <1> QED BY <1>5 DEF First

\* What a look-up finds is in the cache and has the key that was asked for.
LEMMA FoundInCache ==
  ASSUME NEW type, NEW question, FindInCache(type, question) # None
  PROVE  \E s \in Slots :
           /\ cache[s] = FindInCache(type, question) /\ cache[s] # None
           /\ cache[s].type = type /\ KeyOf(cache[s]) = question
  <1>1. Hits(type, question) # {} /\ Hits(type, question) \in SUBSET Nat
    BY DnsBounds DEF FindInCache, Hits, Slots
  <1>2. First(Hits(type, question)) \in Hits(type, question)
    BY <1>1, FirstSlot
  <1> QED BY <1>1, <1>2 DEF FindInCache, Hits, Matches

\* A free slot can be found.
LEMMA FirstFree ==
  ASSUME FreeSlots # {}
  PROVE  First(FreeSlots) \in Slots /\ cache[First(FreeSlots)] = None
  <1>1. FreeSlots \in SUBSET Nat
    BY DnsBounds DEF FreeSlots, Slots
  <1> QED BY <1>1, FirstSlot DEF FreeSlots

\* An entry is kept for a bounded time.
LEMMA KeepBounded ==
  ASSUME NEW ttl \in Int
  PROVE  Keep(ttl) \in MinKeep .. MaxKeep
  <1>1. CASE ttl <= 0
    BY <1>1, KeepBounds DEF Keep
  <1>2. CASE ttl \in 1 .. MinKeep - 1
    BY <1>2, KeepBounds DEF Keep
  <1>3. CASE ttl \in MinKeep .. MaxKeep
    BY <1>3, KeepBounds DEF Keep
  <1>4. CASE ttl > MaxKeep
    BY <1>4, KeepBounds DEF Keep
  <1> QED BY <1>1, <1>2, <1>3, <1>4, KeepBounds

\* _lms_dns_addcache() puts the new entry into a free slot or does nothing.
LEMMA Added ==
  ASSUME TypeOK, NEW type \in {"A", "PTR"}, NEW ip \in Addrs \cup {None},
         NEW name \in Names, NEW ttl \in Int, AddCache(type, ip, name, ttl)
  PROVE  /\ cache' \in [Slots -> Entries \cup {None}]
         /\ \A s \in Slots :
              \/ cache'[s] = cache[s]
              \/ /\ cache[s] = None
                 /\ cache'[s] = NewEntry(type, ip, name, ttl)
         /\ \/ UNCHANGED cache
            \/ \E s \in Slots : cache'[s] = NewEntry(type, ip, name, ttl)
         /\ NewEntry(type, ip, name, ttl) \in Entries
  <1> DEFINE new == NewEntry(type, ip, name, ttl)
  <1>1. new \in Entries
    <2>1. now + Keep(ttl) \in 0 .. MaxTime + MaxKeep
      BY KeepBounded, KeepBounds, DnsBounds DEF TypeOK
    <2> QED BY <2>1 DEF NewEntry, Entries
  <1> HIDE DEF new
  <1>2. cache \in [Slots -> Entries \cup {None}]
    BY DEF TypeOK
  <1>3. CASE UNCHANGED cache
    BY <1>1, <1>2, <1>3 DEF new
  <1>4. CASE /\ FreeSlots # {}
             /\ cache' = [cache EXCEPT ![First(FreeSlots)] = new]
    <2>1. First(FreeSlots) \in Slots /\ cache[First(FreeSlots)] = None
      BY <1>4, FirstFree
    <2> QED BY <1>1, <1>2, <1>4, <2>1 DEF new
  <1> QED BY <1>3, <1>4 DEF AddCache, new

CacheAttested ==
  \A s \in Slots : cache[s] # None =>
    /\ cache[s].type = "A"   => Attested("A", cache[s].host, cache[s].ip)
    /\ cache[s].type = "PTR" => Attested("PTR", cache[s].ip, cache[s].host)

GivenAttested ==
  \A r \in Requests : got[r] \in Addrs => Attested("A", host[r], got[r])

\* An answer that is cached under its own key leaves the cache attested and
\* fresh.
LEMMA AddedInv ==
  ASSUME TypeOK, CacheAttested, EntriesFresh, UNCHANGED clock,
         answers \subseteq answers',
         NEW type \in {"A", "PTR"}, NEW ip \in Addrs \cup {None},
         NEW name \in Names, NEW ttl \in Int, AddCache(type, ip, name, ttl),
         type = "A" => <<"A", name, ip>> \in answers',
         type = "PTR" => <<"PTR", ip, name>> \in answers'
  PROVE  /\ cache' \in [Slots -> Entries \cup {None}]
         /\ CacheAttested' /\ EntriesFresh'
  <1> DEFINE new == NewEntry(type, ip, name, ttl)
  <1>1. /\ new.type = type /\ new.ip = ip /\ new.host = name
        /\ new.expiry = now + Keep(ttl)
    BY DEF NewEntry
  <1>2. cleaned < now + Keep(ttl) /\ now + Keep(ttl) <= now + MaxKeep
    BY KeepBounded, KeepBounds, DnsBounds DEF TypeOK
  <1>3. \A s \in Slots : cache'[s] = cache[s] \/ cache'[s] = new
    BY Added
  <1> HIDE DEF new
  <1>4. CacheAttested'
    BY <1>1, <1>3 DEF CacheAttested, Attested
  <1>5. EntriesFresh'
    BY <1>1, <1>2, <1>3 DEF EntriesFresh, clock
  <1> QED BY <1>4, <1>5, Added

\* Without a new entry the cache stays attested and fresh.
LEMMA SameCacheInv ==
  ASSUME CacheAttested, EntriesFresh, UNCHANGED <<cache, clock>>,
         answers \subseteq answers'
  PROVE  CacheAttested' /\ EntriesFresh'
  BY DEF CacheAttested, EntriesFresh, Attested, clock

-----------------------------------------------------------------------------
(* Queries *)

\* The queries but those for the socket m
Others(m) == {p \in asked : p.how = "recv" \/ p.who # m}

\* A socket that waits has no other query than the one it waits for.
LEMMA OneQuery ==
  ASSUME WaitsForItsAnswer, NEW q \in asked, q.how # "recv"
  PROVE  Others(q.who) = asked \ {q}
  BY DEF Others, WaitsForItsAnswer

\* A socket that does not wait has no query.
LEMMA NoQuery ==
  ASSUME WaitsForItsAnswer, NEW m \in Socks, "WAITDNS" \notin flags[m]
  PROVE  Others(m) = asked
  BY DEF Others, WaitsForItsAnswer

\* One query less is counted as one less.
LEMMA CountOff ==
  ASSUME IsFiniteSet(asked), NEW q \in asked
  PROVE  /\ IsFiniteSet(asked \ {q})
         /\ Cardinality(asked \ {q}) = Cardinality(asked) - 1
  BY FS_RemoveElement

\* One member more is counted as one more.
LEMMA CountOn ==
  ASSUME NEW S, IsFiniteSet(S), NEW x, x \notin S
  PROVE  /\ IsFiniteSet(S \cup {x}) /\ Cardinality(S) \in Nat
         /\ Cardinality(S \cup {x}) = Cardinality(S) + 1
  BY FS_AddElement, FS_CardinalityType

\* A step on the look-up of the socket m, which leaves it the queries N, one
\* or none.
LEMMA SocketInv ==
  ASSUME Inv, NEW m \in Socks, NEW N \in SUBSET Queries, IsFiniteSet(N),
         \A p \in N : p.how # "recv" /\ p.who = m,
         \A p, q \in N : p = q,
         asked' = Others(m) \cup N,
         UNCHANGED <<remotehost, host>>, answers \subseteq answers',
         \A n \in Socks \ {m} :
           /\ flags'[n] = flags[n] /\ remotedns'[n] = remotedns[n]
           /\ possible_revdns'[n] = possible_revdns[n],
         N # {} => "WAITDNS" \in flags'[m] /\ m \notin refused' \cup lost',
         "WAITDNS" \in flags'[m] => N # {} \/ m \in refused' \cup lost',
         m \in refused' \cup lost' => "WAITDNS" \in flags'[m],
         refused' \subseteq refused \cup {m}, lost' \subseteq lost \cup {m},
         refused \subseteq refused', lost \subseteq lost',
         remotedns'[m] # None => Confirmed(remotedns'[m], remotehost[m], answers'),
         \A p \in N :
           /\ p.how = "recvrevA" => p.question = remotehost[m]
           /\ p.how = "recvrevB" =>
                /\ p.question = possible_revdns'[m]
                /\ <<"PTR", remotehost[m], p.question>> \in answers'
  PROVE  AsksSound'
  <1> USE DEF AsksSound
  <1>1. Questions'
    <2>1. Others(m) \subseteq asked
      BY DEF Others
    <2>2. IsFiniteSet(Others(m) \cup N)
      BY <2>1, FS_Subset, FS_Union DEF Inv, Questions
    <2> QED BY <2>1, <2>2 DEF Inv, Questions
  <1>2. NamesAsked'
    <2> SUFFICES ASSUME NEW q \in asked', q.how = "recvrevB"
                 PROVE  <<"PTR", remotehost[q.who], q.question>> \in answers'
      BY DEF NamesAsked, Attested
    <2>1. CASE q \in N
      BY <2>1
    <2>2. CASE q \in asked
      BY <2>2 DEF Inv, NamesAsked, Attested
    <2> QED BY <2>1, <2>2 DEF Others
  <1>3. NamesConfirmed'
    <2> SUFFICES ASSUME NEW n \in Socks, remotedns'[n] # None
                 PROVE  Confirmed(remotedns'[n], remotehost[n], answers')
      BY DEF NamesConfirmed, Attested, Confirmed
    <2>1. CASE n = m
      BY <2>1
    <2>2. CASE n # m
      BY <2>2 DEF Inv, NamesConfirmed, Attested, Confirmed
    <2> QED BY <2>1, <2>2
  <1>4. WaitsForItsAnswer'
    <2>1. ASSUME NEW n \in Socks, "WAITDNS" \in flags'[n]
          PROVE  \/ n \in refused' \cup lost'
                 \/ \E q \in asked' : q.who = n /\ q.how \in {"recvrevA", "recvrevB"}
      <3>1. CASE n = m /\ N # {}
        <4>1. PICK q \in N : TRUE
          BY <3>1
        <4>2. q.how \in {"recvrevA", "recvrevB"} /\ q.who = m
          BY <4>1 DEF Queries
        <4> QED BY <3>1, <4>2
      <3>2. CASE n # m /\ n \notin refused \cup lost
        <4>1. PICK q \in asked : q.who = n /\ q.how \in {"recvrevA", "recvrevB"}
          BY <2>1, <3>2 DEF Inv, WaitsForItsAnswer
        <4> QED BY <3>2, <4>1 DEF Others
      <3> QED BY <2>1, <3>1, <3>2
    <2>2. ASSUME NEW q \in asked'
          PROVE  /\ q.how = "recvrevA" => q.question = remotehost[q.who]
                 /\ q.how = "recvrevB" => q.question = possible_revdns'[q.who]
                 /\ q.how # "recv" =>
                      /\ "WAITDNS" \in flags'[q.who]
                      /\ \A p \in asked' : p.how # "recv" /\ p.who = q.who => p = q
      <3>1. CASE q \in N
        BY <2>2, <3>1 DEF Others
      <3>2. CASE q \in Others(m)
        <4>1. q \in asked /\ (q.how = "recv" \/ q.who # m)
          BY <3>2 DEF Others
        <4>2. q.how # "recv" => q.who \in Socks \ {m}
          BY <4>1 DEF Inv, Questions, Queries
        <4>3. q.how = "recv" => q.how # "recvrevA" /\ q.how # "recvrevB"
          OBVIOUS
        <4> QED BY <2>2, <4>1, <4>2, <4>3 DEF Inv, WaitsForItsAnswer, Others
      <3> QED BY <2>2, <3>1, <3>2
    <2> QED BY <2>1, <2>2 DEF WaitsForItsAnswer
  <1>5. Forsaken'
    <2>1. IsFiniteSet(refused \cup {m})
      BY FS_AddElement DEF Inv, Forsaken
    <2>2. IsFiniteSet(refused')
      BY <2>1, FS_Subset
    <2>3. ASSUME NEW n \in refused' \cup lost'
          PROVE  /\ "WAITDNS" \in flags'[n]
                 /\ \A q \in asked' : q.how = "recv" \/ q.who # n
      <3>1. CASE n = m
        BY <2>3, <3>1 DEF Others
      <3>2. CASE n # m
        <4>1. n \in refused \cup lost /\ n \in Socks
          BY <2>3, <3>2 DEF Inv, Forsaken
        <4> QED BY <3>2, <4>1 DEF Inv, Forsaken, Others
      <3> QED BY <3>1, <3>2
    <2> QED BY <2>2, <2>3 DEF Inv, Forsaken
  <1> QED BY <1>1, <1>2, <1>3, <1>4, <1>5

\* A step on the requests alone leaves the look-ups of sockets as they are.
LEMMA RequestInv ==
  ASSUME Inv, UNCHANGED <<socket, failed>>, answers \subseteq answers',
         \A p \in asked' : p.how # "recv" => p \in asked,
         \A p \in asked : p.how # "recv" => p \in asked'
  PROVE  NamesAsked' /\ NamesConfirmed' /\ WaitsForItsAnswer' /\ Forsaken'
  <1> USE DEF AsksSound, failed
  <1>1. NamesAsked'
    BY DEF Inv, NamesAsked, Attested, socket
  <1>2. NamesConfirmed'
    BY DEF Inv, NamesConfirmed, Attested, socket
  <1>3. WaitsForItsAnswer'
    BY DEF Inv, WaitsForItsAnswer, socket
  <1>4. Forsaken'
    BY DEF Inv, Forsaken, socket
  <1> QED BY <1>1, <1>2, <1>3, <1>4

SocketTyped ==
  /\ remotehost \in [Socks -> Addrs]
  /\ remotedns \in [Socks -> Names \cup {None}]
  /\ possible_revdns \in [Socks -> Names \cup {None}]
  /\ flags \in [Socks -> SUBSET {"WAITDNS", "WAITDESTROY"}]

\* A look-up that is over leaves no query, and at most a confirmed name.
LEMMA SettleInv ==
  ASSUME Inv, NEW m \in Socks, NEW name \in Names \cup {None}, Settle(m, name),
         asked' = Others(m), UNCHANGED <<remotehost, host, failed>>,
         answers \subseteq answers', NotForsaken(m),
         name # None => Confirmed(name, remotehost[m], answers')
  PROVE  AsksSound' /\ SocketTyped'
  <1>1. SocketTyped'
    BY DEF Settle, Inv, TypeOK, SocketTyped
  <1>2. /\ flags'[m] = flags[m] \ {"WAITDNS"} /\ remotedns'[m] = name
        /\ \A n \in Socks \ {m} :
             /\ flags'[n] = flags[n] /\ remotedns'[n] = remotedns[n]
             /\ possible_revdns'[n] = possible_revdns[n]
    BY DEF Settle, Inv, TypeOK
  <1>3. IsFiniteSet({})
    BY FS_EmptySet
  <1> DEFINE N == {}
  <1>4. asked' = Others(m) \cup N /\ N \in SUBSET Queries /\ IsFiniteSet(N)
    BY <1>3
  <1>5. "WAITDNS" \notin flags'[m] /\ N = {}
    BY <1>2
  <1>6. /\ \A p \in N : p.how # "recv" /\ p.who = m
        /\ \A p, q \in N : p = q
        /\ \A p \in N :
             /\ p.how = "recvrevA" => p.question = remotehost[m]
             /\ p.how = "recvrevB" =>
                  /\ p.question = possible_revdns'[m]
                  /\ <<"PTR", remotehost[m], p.question>> \in answers'
    OBVIOUS
  <1> HIDE DEF N
  <1> QED BY <1>1, <1>2, <1>4, <1>5, <1>6, SocketInv DEF NotForsaken, failed

\* A look-up that asks waits for that answer, which is about its socket.
LEMMA AskInv ==
  ASSUME Inv, NEW m \in Socks, NEW q \in Queries, q.how # "recv", q.who = m,
         NEW rev \in Names \cup {None},
         asked' = Others(m) \cup {q}, NotForsaken(m),
         UNCHANGED <<remotehost, remotedns, host, failed>>,
         flags' = [flags EXCEPT ![m] = @ \cup {"WAITDNS"}],
         possible_revdns' = [possible_revdns EXCEPT ![m] = rev],
         answers \subseteq answers',
         q.how = "recvrevA" => q.question = remotehost[m],
         q.how = "recvrevB" =>
           q.question = rev /\ <<"PTR", remotehost[m], rev>> \in answers'
  PROVE  AsksSound' /\ SocketTyped'
  <1>1. SocketTyped'
    BY DEF Inv, TypeOK, SocketTyped
  <1>2. /\ "WAITDNS" \in flags'[m] /\ possible_revdns'[m] = rev
        /\ \A n \in Socks \ {m} :
             /\ flags'[n] = flags[n] /\ remotedns'[n] = remotedns[n]
             /\ possible_revdns'[n] = possible_revdns[n]
    BY DEF Inv, TypeOK
  <1> DEFINE N == {q}
  <1>3. /\ asked' = Others(m) \cup N /\ N \in SUBSET Queries
        /\ IsFiniteSet(N) /\ N # {}
    BY FS_Singleton
  <1>4. /\ \A p \in N : p.how # "recv" /\ p.who = m
        /\ \A p, r \in N : p = r
        /\ \A p \in N :
             /\ p.how = "recvrevA" => p.question = remotehost[m]
             /\ p.how = "recvrevB" =>
                  /\ p.question = possible_revdns'[m]
                  /\ <<"PTR", remotehost[m], p.question>> \in answers'
    BY <1>2
  <1>5. remotedns'[m] # None => Confirmed(remotedns'[m], remotehost[m], answers')
    BY DEF Inv, AsksSound, NamesConfirmed, Attested, Confirmed
  <1> HIDE DEF N
  <1> QED BY <1>1, <1>2, <1>3, <1>4, <1>5, SocketInv DEF NotForsaken, failed

\* A name that Confirms() is attested to have the address of the socket.
LEMMA ConfirmedAttested ==
  ASSUME Inv, NEW m \in Socks, NEW name,
         Confirms(FindInCache("A", name), m)
  PROVE  <<"A", name, remotehost[m]>> \in answers
  <1> DEFINE c == FindInCache("A", name)
  <1>1. c # None /\ c.ip = remotehost[m]
    BY DEF Confirms
  <1>2. PICK s \in Slots : /\ cache[s] = c /\ cache[s] # None
                           /\ cache[s].type = "A" /\ KeyOf(cache[s]) = name
    BY <1>1, FoundInCache
  <1> HIDE DEF c
  <1> QED BY <1>1, <1>2 DEF Inv, AnswersAttested, Attested, KeyOf

\* A look-up that is over and leaves the possible name as it is: that of a
\* corpse, or one without memory for the name.
LEMMA QuietInv ==
  ASSUME Inv, NEW m \in Socks, asked' = Others(m),
         UNCHANGED <<remotehost, host, failed>>, answers \subseteq answers',
         NotForsaken(m), remotedns' \in [Socks -> Names \cup {None}],
         remotedns'[m] \in {remotedns[m], None},
         \A n \in Socks \ {m} : remotedns'[n] = remotedns[n],
         flags' = [flags EXCEPT ![m] = @ \ {"WAITDNS"}],
         possible_revdns' \in [Socks -> Names \cup {None}],
         \A n \in Socks \ {m} : possible_revdns'[n] = possible_revdns[n]
  PROVE  AsksSound' /\ SocketTyped'
  <1>1. SocketTyped'
    BY DEF Inv, TypeOK, SocketTyped
  <1>2. /\ flags'[m] = flags[m] \ {"WAITDNS"}
        /\ \A n \in Socks \ {m} :
             /\ flags'[n] = flags[n] /\ remotedns'[n] = remotedns[n]
             /\ possible_revdns'[n] = possible_revdns[n]
    BY DEF Inv, TypeOK
  <1> DEFINE N == {}
  <1>3. /\ asked' = Others(m) \cup N /\ N \in SUBSET Queries /\ IsFiniteSet(N)
        /\ "WAITDNS" \notin flags'[m] /\ N = {}
    BY <1>2, FS_EmptySet
  <1>4. /\ \A p \in N : p.how # "recv" /\ p.who = m
        /\ \A p, q \in N : p = q
        /\ \A p \in N :
             /\ p.how = "recvrevA" => p.question = remotehost[m]
             /\ p.how = "recvrevB" =>
                  /\ p.question = possible_revdns'[m]
                  /\ <<"PTR", remotehost[m], p.question>> \in answers'
    OBVIOUS
  <1>5. remotedns'[m] # None => Confirmed(remotedns'[m], remotehost[m], answers')
    BY DEF Inv, AsksSound, NamesConfirmed, Attested, Confirmed
  <1> HIDE DEF N
  <1> QED BY <1>1, <1>2, <1>3, <1>4, <1>5, SocketInv DEF NotForsaken, failed

\* A look-up that evdns refused, or whose answer is dropped, waits for nothing.
LEMMA StuckInv ==
  ASSUME Inv, NEW m \in Socks, asked' = Others(m),
         UNCHANGED <<remotehost, remotedns, host>>, answers \subseteq answers',
         "WAITDNS" \in flags'[m],
         flags' \in [Socks -> SUBSET {"WAITDNS", "WAITDESTROY"}],
         possible_revdns' \in [Socks -> Names \cup {None}],
         \A n \in Socks \ {m} : /\ flags'[n] = flags[n]
                                /\ possible_revdns'[n] = possible_revdns[n],
         \/ refused' = refused \cup {m} /\ UNCHANGED lost
         \/ lost' = lost \cup {m} /\ UNCHANGED refused
  PROVE  AsksSound' /\ SocketTyped'
  <1>1. SocketTyped'
    BY DEF Inv, TypeOK, SocketTyped
  <1> DEFINE N == {}
  <1>2. /\ asked' = Others(m) \cup N /\ N \in SUBSET Queries /\ IsFiniteSet(N)
        /\ N = {}
    BY FS_EmptySet
  <1>3. /\ \A p \in N : p.how # "recv" /\ p.who = m
        /\ \A p, q \in N : p = q
        /\ \A p \in N :
             /\ p.how = "recvrevA" => p.question = remotehost[m]
             /\ p.how = "recvrevB" =>
                  /\ p.question = possible_revdns'[m]
                  /\ <<"PTR", remotehost[m], p.question>> \in answers'
    OBVIOUS
  <1>4. remotedns'[m] # None => Confirmed(remotedns'[m], remotehost[m], answers')
    BY DEF Inv, AsksSound, NamesConfirmed, Attested, Confirmed
  <1>5. /\ m \in refused' \cup lost' /\ refused \subseteq refused' /\ lost \subseteq lost'
        /\ refused' \subseteq refused \cup {m} /\ lost' \subseteq lost \cup {m}
    OBVIOUS
  <1> HIDE DEF N
  <1> QED BY <1>1, <1>2, <1>3, <1>4, <1>5, SocketInv

\* Whether evdns accepts or refuses, it has been counted.
LEMMA AskedInv ==
  ASSUME Inv, NEW m \in Socks, NotForsaken(m), NEW count,
         count = Cardinality(Others(m)) + Cardinality(refused),
         NEW how \in {"recvrevA", "recvrevB"}, NEW question,
         NEW rev \in Names \cup {None},
         Ask(how, m, question, Others(m), count),
         possible_revdns' = [possible_revdns EXCEPT ![m] = rev],
         UNCHANGED <<remotehost, host>>, answers \subseteq answers',
         how = "recvrevA" => question = remotehost[m],
         how = "recvrevB" =>
           /\ question = rev /\ rev \in Names
           /\ <<"PTR", remotehost[m], rev>> \in answers'
  PROVE  /\ AsksSound' /\ SocketTyped'
         /\ active' = Cardinality(asked') + Cardinality(refused')
  <1> DEFINE q == Query(how, m, question)
  <1>1. /\ q \in Queries /\ q.how = how /\ q.who = m /\ q.question = question
        /\ q.how # "recv"
    BY DEF Query, Queries, Inv, TypeOK
  <1>2. /\ flags' = [flags EXCEPT ![m] = @ \cup {"WAITDNS"}]
        /\ active' = count + 1 /\ UNCHANGED <<remotedns, lost>>
        /\ \/ asked' = Others(m) \cup {q} /\ UNCHANGED refused
           \/ asked' = Others(m) /\ refused' = refused \cup {m}
    BY DEF Ask
  <1>3. Others(m) \subseteq asked /\ q \notin Others(m)
    BY <1>1 DEF Others
  <1> HIDE DEF q
  <1>4. /\ IsFiniteSet(Others(m)) /\ IsFiniteSet(refused)
        /\ Cardinality(Others(m)) \in Nat /\ Cardinality(refused) \in Nat
    BY <1>3, FS_Subset, FS_CardinalityType DEF Inv, AsksSound, Questions, Forsaken
  <1>5. CASE asked' = Others(m) \cup {q} /\ UNCHANGED refused
    <2>1. UNCHANGED failed
      BY <1>2, <1>5 DEF failed
    <2>2. AsksSound' /\ SocketTyped'
      BY <1>1, <1>2, <1>5, <2>1, AskInv
    <2>3. Cardinality(asked') = Cardinality(Others(m)) + 1
      BY <1>3, <1>4, <1>5, CountOn
    <2> QED BY <1>2, <1>4, <1>5, <2>2, <2>3
  <1>6. CASE asked' = Others(m) /\ refused' = refused \cup {m}
    <2>1. /\ "WAITDNS" \in flags'[m]
          /\ flags' \in [Socks -> SUBSET {"WAITDNS", "WAITDESTROY"}]
          /\ possible_revdns' \in [Socks -> Names \cup {None}]
          /\ \A n \in Socks \ {m} : /\ flags'[n] = flags[n]
                                    /\ possible_revdns'[n] = possible_revdns[n]
      BY <1>2 DEF Inv, TypeOK
    <2>2. AsksSound' /\ SocketTyped'
      BY <1>2, <1>6, <2>1, StuckInv
    <2>3. Cardinality(refused') = Cardinality(refused) + 1
      BY <1>4, <1>6, CountOn DEF NotForsaken
    <2> QED BY <1>2, <1>4, <1>6, <2>2, <2>3
  <1> QED BY <1>2, <1>5, <1>6

\* lms_dns_findrev() asks at most one query, about its socket.
LEMMA FindRevInv ==
  ASSUME Inv, NEW m \in Socks, NotForsaken(m), NEW rev \in Names \cup {None},
         NEW count, count = Cardinality(Others(m)) + Cardinality(refused),
         FindRev(m, rev, Others(m), count), UNCHANGED <<remotehost, host, answers>>
  PROVE  /\ AsksSound' /\ SocketTyped'
         /\ active' = Cardinality(asked') + Cardinality(refused')
  <1> DEFINE e == FindInCache("PTR", remotehost[m])
             c == FindInCache("A", e.host)
  <1>1. ASSUME e # None
        PROVE  e.host \in Names /\ <<"PTR", remotehost[m], e.host>> \in answers
    <2>1. PICK s \in Slots :
            /\ cache[s] = e /\ cache[s] # None
            /\ cache[s].type = "PTR" /\ KeyOf(cache[s]) = remotehost[m]
      BY <1>1, FoundInCache
    <2>2. cache[s] \in Entries
      BY <2>1 DEF Inv, TypeOK
    <2> HIDE DEF e
    <2> QED BY <2>1, <2>2 DEF Inv, AnswersAttested, Attested, KeyOf, Entries
  <1>2. CASE /\ e = None
             /\ possible_revdns' = [possible_revdns EXCEPT ![m] = rev]
             /\ Ask("recvrevA", m, remotehost[m], Others(m), count)
    BY <1>2, AskedInv
  <1>3. CASE /\ e # None /\ ~e.negative /\ c = None
             /\ possible_revdns' = [possible_revdns EXCEPT ![m] = e.host]
             /\ Ask("recvrevB", m, e.host, Others(m), count)
    <2> HIDE DEF e, c
    <2>1. e.host \in Names \cup {None}
      BY <1>1, <1>3
    <2> QED BY <1>1, <1>3, <2>1, AskedInv
  <1>4. CASE /\ flags' = [flags EXCEPT ![m] = @ \cup {"WAITDNS"}]
             /\ possible_revdns' = [possible_revdns EXCEPT ![m] = None]
             /\ lost' = lost \cup {m} /\ asked' = Others(m) /\ active' = count
             /\ UNCHANGED <<remotedns, refused>>
    <2>1. /\ "WAITDNS" \in flags'[m]
          /\ flags' \in [Socks -> SUBSET {"WAITDNS", "WAITDESTROY"}]
          /\ possible_revdns' \in [Socks -> Names \cup {None}]
          /\ \A n \in Socks \ {m} : /\ flags'[n] = flags[n]
                                    /\ possible_revdns'[n] = possible_revdns[n]
      BY <1>4 DEF Inv, TypeOK
    <2> QED BY <1>4, <2>1, StuckInv
  <1>5. CASE /\ e # None /\ (e.negative \/ c # None)
             /\ Settle(m, IF ~e.negative /\ Confirms(c, m) THEN e.host ELSE None)
             /\ asked' = Others(m) /\ active' = count /\ UNCHANGED failed
    <2> DEFINE name == IF ~e.negative /\ Confirms(c, m) THEN e.host ELSE None
    <2>1. name # None => Confirms(c, m) /\ name = e.host
      OBVIOUS
    <2>2. name # None => <<"A", name, remotehost[m]>> \in answers
      BY <2>1, ConfirmedAttested
    <2>3. name \in Names \cup {None}
      BY <1>1, <1>5
    <2>4. Settle(m, name)
      BY <1>5
    <2>5. name # None => <<"PTR", remotehost[m], name>> \in answers
      BY <1>1, <1>5, <2>1
    <2> HIDE DEF name
    <2>6. name # None => Confirmed(name, remotehost[m], answers')
      BY <2>2, <2>5 DEF Confirmed
    <2> QED BY <1>5, <2>3, <2>4, <2>6, SettleInv DEF failed
  <1>6. CASE /\ flags' = [flags EXCEPT ![m] = @ \ {"WAITDNS"}]
             /\ remotedns' = [remotedns EXCEPT ![m] = None]
             /\ possible_revdns' = [possible_revdns EXCEPT ![m] = rev]
             /\ asked' = Others(m) /\ active' = count /\ UNCHANGED failed
    <2>1. /\ remotedns' \in [Socks -> Names \cup {None}]
          /\ \A n \in Socks \ {m} : remotedns'[n] = remotedns[n]
          /\ possible_revdns' \in [Socks -> Names \cup {None}]
          /\ \A n \in Socks \ {m} : possible_revdns'[n] = possible_revdns[n]
          /\ remotedns'[m] = None
      BY <1>6 DEF Inv, TypeOK
    <2> QED BY <1>6, <2>1, QuietInv DEF failed
  <1> QED BY <1>2, <1>3, <1>4, <1>5, <1>6 DEF FindRev

\* What is left to show of a step on the look-up of a socket
LEMMA SocketStep ==
  ASSUME Inv, AsksSound', SocketTyped', cache' \in [Slots -> Entries \cup {None}],
         retries' \in [Socks -> 0 .. 1], CacheAttested', EntriesFresh',
         UNCHANGED <<clock, request, fault>>, answers \subseteq answers',
         active' = Cardinality(asked') + Cardinality(refused')
  PROVE  Inv'
  <1>1. TypeOK'
    BY DEF Inv, TypeOK, SocketTyped, clock, request
  <1>2. AnswersAttested'
    BY DEF Inv, AnswersAttested, CacheAttested, Attested, request
  <1>3. QueriesCounted'
    BY DEF QueriesCounted
  <1> QED BY <1>1, <1>2, <1>3 DEF Inv

-----------------------------------------------------------------------------
(* Every step keeps the invariant. *)

\* At the start the cache is empty and nothing is asked.
LEMMA InitInv ==
  ASSUME Init
  PROVE  Inv
  <1>1. TypeOK
    <2>1. /\ now \in 0 .. MaxTime /\ lastrun \in 0 .. now /\ cleaned \in 0 .. now
      BY DnsBounds DEF Init
    <2>2. /\ cache \in [Slots -> Entries \cup {None}] /\ inLoop \in BOOLEAN
          /\ what \in [Requests -> Kinds \cup {None}]
          /\ host \in [Requests -> Names \cup {None}]
          /\ got \in [Requests -> Addrs \cup {None, "answer", "failure"}]
          /\ fault \in {None, "nullHost"}
      BY DEF Init
    <2>3. /\ remotehost \in [Socks -> Addrs]
          /\ remotedns \in [Socks -> Names \cup {None}]
          /\ possible_revdns \in [Socks -> Names \cup {None}]
          /\ retries \in [Socks -> 0 .. 1]
          /\ flags \in [Socks -> SUBSET {"WAITDNS", "WAITDESTROY"}]
      BY DEF Init
    <2> QED BY <2>1, <2>2, <2>3 DEF TypeOK
  <1>2. Questions /\ QueriesCounted /\ Forsaken
    BY FS_EmptySet DEF Init, Questions, QueriesCounted, Forsaken
  <1>3. NamesAsked /\ NamesConfirmed /\ WaitsForItsAnswer
    BY DEF Init, NamesAsked, NamesConfirmed, WaitsForItsAnswer
  <1>4. AnswersAttested /\ EntriesFresh
    BY NoneIsNothing DEF Init, AnswersAttested, EntriesFresh
  <1> QED BY <1>1, <1>2, <1>3, <1>4 DEF Inv, AsksSound

\* Nothing changes when nothing happens.
LEMMA StutterInv ==
  ASSUME Inv, UNCHANGED vars
  PROVE  Inv'
  <1> USE DEF vars, clock, socket, request, failed
  <1>1. TypeOK'
    BY DEF Inv, TypeOK
  <1>2. Questions' /\ QueriesCounted'
    BY DEF Inv, AsksSound, Questions, QueriesCounted
  <1>3. NamesAsked' /\ NamesConfirmed' /\ WaitsForItsAnswer' /\ Forsaken'
    BY RequestInv
  <1>4. AnswersAttested' /\ EntriesFresh'
    BY DEF Inv, AnswersAttested, EntriesFresh, Attested
  <1> QED BY <1>1, <1>2, <1>3, <1>4 DEF Inv, AsksSound

\* lms_dns_lookup() answers from the cache or asks.
LEMMA LookupInv ==
  ASSUME Inv, NEW r \in Requests, NEW kind \in Kinds, NEW n \in Names,
         Lookup(r, kind, n)
  PROVE  Inv'
  <1> DEFINE c == FindInCache("A", n)
             q == Query("recv", r, n)
  <1>1. ASSUME c # None
        PROVE  c.ip \in Addrs \cup {None} /\ Attested("A", n, c.ip)
    <2>1. PICK s \in Slots : /\ cache[s] = c /\ cache[s] # None
                             /\ cache[s].type = "A" /\ KeyOf(cache[s]) = n
      BY <1>1, FoundInCache
    <2>2. cache[s] \in Entries
      BY <2>1 DEF Inv, TypeOK
    <2> HIDE DEF c
    <2> QED BY <2>1, <2>2 DEF Inv, AnswersAttested, KeyOf, Entries
  <1>2. UNCHANGED <<cache, clock, socket, fault, answers, failed>>
    BY DEF Lookup
  <1>3. /\ what' = [what EXCEPT ![r] = kind] /\ host' = [host EXCEPT ![r] = n]
        /\ \A p \in asked : ~(p.how = "recv" /\ p.who = r)
    BY DEF Lookup, Busy
  <1>4. \/ /\ c # None
           /\ got' = [got EXCEPT ![r] = IF kind = "CALLBACK" THEN "answer" ELSE c.ip]
           /\ UNCHANGED <<asked, active>>
        \/ /\ c = None
           /\ got' = [got EXCEPT ![r] = None]
           /\ \/ asked' = asked \cup {q} /\ active' = active + 1
              \/ UNCHANGED <<asked, active>>
    BY DEF Lookup
  <1>5. q \in Queries /\ q.how = "recv" /\ q.who = r /\ q.question = n
    BY DEF Query, Queries
  <1> HIDE DEF c, q
  <1>6. TypeOK'
    <2>1. got' \in [Requests -> Addrs \cup {None, "answer", "failure"}]
      BY <1>1, <1>4 DEF Inv, TypeOK
    <2> QED BY <1>2, <1>3, <2>1 DEF Inv, TypeOK, clock, socket
  <1>7. CacheAttested' /\ EntriesFresh'
    BY <1>2, SameCacheInv DEF Inv, AnswersAttested, CacheAttested
  <1>8. \A t \in Requests : got'[t] \in Addrs => Attested("A", host[t], got[t])'
    <2> SUFFICES ASSUME NEW t \in Requests, got'[t] \in Addrs
                 PROVE  <<"A", host'[t], got'[t]>> \in answers'
      BY DEF Attested
    <2>1. CASE t # r
      BY <1>2, <1>3, <1>4, <2>1 DEF Inv, TypeOK, AnswersAttested, Attested
    <2>2. CASE t = r
      <3>1. got'[r] # None /\ got'[r] # "answer" /\ host'[r] = n
        BY <1>3, <2>2, NoneIsNothing, TagsApart DEF Inv, TypeOK
      <3> QED BY <1>1, <1>2, <1>4, <2>2, <3>1 DEF Inv, TypeOK, Attested
    <2> QED BY <2>1, <2>2
  <1>9. AnswersAttested'
    BY <1>7, <1>8 DEF AnswersAttested, CacheAttested
  <1>10. Questions' /\ QueriesCounted'
    <2> USE DEF AsksSound
    <2>1. CASE UNCHANGED <<asked, active>>
      <3>1. \A p \in asked : p.how = "recv" => p.who # r /\ p.who \in Requests
        BY <1>3 DEF Inv, Questions, Queries
      <3> QED BY <1>2, <1>3, <2>1, <3>1
              DEF Inv, Questions, QueriesCounted, TypeOK, failed
    <2>2. CASE asked' = asked \cup {q} /\ active' = active + 1
      <3>1. asked' = asked \cup {q} /\ active' = active + 1
        BY <2>2
      <3>2. q \notin asked
        BY <1>3, <1>5
      <3>3. /\ IsFiniteSet(asked') /\ Cardinality(asked') = Cardinality(asked) + 1
            /\ Cardinality(asked) \in Nat /\ Cardinality(refused) \in Nat
        BY <3>1, <3>2, CountOn, FS_CardinalityType DEF Inv, Questions, Forsaken
      <3>4. \A p \in asked : p.how = "recv" => p.who # r /\ p.who \in Requests
        BY <1>3 DEF Inv, Questions, Queries
      <3>5. host'[r] = n /\ \A t \in Requests : t # r => host'[t] = host[t]
        BY <1>3 DEF Inv, TypeOK
      <3>6. Questions'
        BY <1>5, <3>1, <3>3, <3>4, <3>5 DEF Inv, Questions
      <3>7. QueriesCounted'
        BY <1>2, <3>1, <3>3 DEF Inv, QueriesCounted, failed
      <3> QED BY <3>6, <3>7
    <2> QED BY <1>4, <2>1, <2>2
  <1>11. NamesAsked' /\ NamesConfirmed' /\ WaitsForItsAnswer' /\ Forsaken'
    BY <1>2, <1>4, <1>5, RequestInv
  <1> QED BY <1>6, <1>7, <1>9, <1>10, <1>11 DEF Inv, AsksSound

\* A query of a request that is over is counted off.
LEMMA OverCounted ==
  ASSUME Inv, NEW q \in asked, asked' = asked \ {q}, active' = active - 1,
         UNCHANGED <<host, failed>>
  PROVE  Questions' /\ QueriesCounted'
  <1>1. /\ IsFiniteSet(asked \ {q})
        /\ Cardinality(asked \ {q}) = Cardinality(asked) - 1
        /\ Cardinality(asked) \in Nat /\ Cardinality(refused) \in Nat
    BY CountOff, FS_CardinalityType DEF Inv, AsksSound, Questions, Forsaken
  <1> QED BY <1>1 DEF Inv, AsksSound, Questions, QueriesCounted, failed

\* lms_dns_recv() gives and caches the answer to the query it is about.
LEMMA RecvInv ==
  ASSUME Inv, NEW q \in asked, NEW ip \in Addrs \cup {None}, NEW ttl \in Ttls,
         Recv(q, ip, ttl)
  PROVE  Inv'
  <1> DEFINE r == q.who
             life == IF ip = None /\ what[r] = "DNSREQUEST" THEN DefaultKeep ELSE ttl
  <1>1. r \in Requests /\ q.how = "recv" /\ q.question = host[r] /\ host[r] \in Names
    BY DEF Recv, Inv, AsksSound, Questions, Queries
  <1>2. /\ asked' = asked \ {q} /\ active' = active - 1
        /\ answers' = answers \cup {<<"A", host[r], ip>>}
        /\ AddCache("A", ip, host[r], life)
        /\ UNCHANGED <<clock, socket, what, host, fault, failed>>
    BY <1>1 DEF Recv, Over, Told
  <1>3. got' = [got EXCEPT ![r] = CASE what[r] = "CALLBACK" -> "answer"
                                    [] what[r] = "MSOCKET"  -> ip
                                    [] OTHER                -> @]
    BY DEF Recv
  <1>4. life \in Int
    BY DnsBounds, KeepBounds
  <1> HIDE DEF r, life
  <1>5. /\ cache' \in [Slots -> Entries \cup {None}]
        /\ CacheAttested' /\ EntriesFresh'
    BY <1>1, <1>2, <1>4, AddedInv DEF Inv, AnswersAttested, CacheAttested
  <1>6. /\ got'[r] \in {"answer", ip, got[r]}
        /\ \A t \in Requests : t # r => got'[t] = got[t]
        /\ got' \in [Requests -> Addrs \cup {None, "answer", "failure"}]
    BY <1>1, <1>3 DEF Inv, TypeOK
  <1>7. TypeOK'
    BY <1>2, <1>5, <1>6 DEF Inv, TypeOK, clock, socket
  <1>8. AnswersAttested'
    <2>1. \A t \in Requests : got'[t] \in Addrs => <<"A", host[t], got'[t]>> \in answers'
      BY <1>1, <1>2, <1>6, TagsApart DEF Inv, AnswersAttested, Attested
    <2> QED BY <1>2, <1>5, <2>1 DEF AnswersAttested, CacheAttested, Attested
  <1>9. Questions' /\ QueriesCounted'
    BY <1>2, OverCounted
  <1>10. NamesAsked' /\ NamesConfirmed' /\ WaitsForItsAnswer' /\ Forsaken'
    BY <1>1, <1>2, RequestInv
  <1> QED BY <1>5, <1>7, <1>8, <1>9, <1>10 DEF Inv, AsksSound

\* It gives nothing when there is no answer.
LEMMA RecvFailsInv ==
  ASSUME Inv, NEW q \in asked, RecvFails(q)
  PROVE  Inv'
  <1>1. q.who \in Requests /\ q.how = "recv"
    BY DEF RecvFails, Inv, AsksSound, Questions, Queries
  <1>2. /\ asked' = asked \ {q} /\ active' = active - 1
        /\ UNCHANGED <<cache, clock, socket, what, host, fault, answers, failed>>
    BY DEF RecvFails, Over
  <1>3. /\ got' \in [Requests -> Addrs \cup {None, "answer", "failure"}]
        /\ \A t \in Requests : got'[t] = got[t] \/ got'[t] = "failure"
    BY <1>1 DEF RecvFails, Inv, TypeOK
  <1>4. CacheAttested' /\ EntriesFresh'
    BY <1>2, SameCacheInv DEF Inv, AnswersAttested, CacheAttested
  <1>5. TypeOK'
    BY <1>2, <1>3 DEF Inv, TypeOK, clock, socket
  <1>6. AnswersAttested'
    <2>1. \A t \in Requests : got'[t] \in Addrs => <<"A", host[t], got'[t]>> \in answers'
      BY <1>2, <1>3, TagsApart DEF Inv, AnswersAttested, Attested
    <2> QED BY <1>2, <1>4, <2>1 DEF AnswersAttested, CacheAttested, Attested
  <1>7. Questions' /\ QueriesCounted'
    BY <1>2, OverCounted
  <1>8. NamesAsked' /\ NamesConfirmed' /\ WaitsForItsAnswer' /\ Forsaken'
    BY <1>1, <1>2, RequestInv
  <1> QED BY <1>4, <1>5, <1>6, <1>7, <1>8 DEF Inv, AsksSound

\* lms_dns_findrev() on a socket that does not wait
LEMMA StartFindRevInv ==
  ASSUME Inv, NEW m \in Socks, StartFindRev(m)
  PROVE  Inv'
  <1>1. Others(m) = asked
    BY NoQuery DEF StartFindRev, Inv, AsksSound
  <1>2. /\ FindRev(m, possible_revdns[m], Others(m), active)
        /\ UNCHANGED <<cache, clock, remotehost, retries, request, fault, answers>>
    BY <1>1 DEF StartFindRev
  <1>3. possible_revdns[m] \in Names \cup {None} /\ NotForsaken(m)
    BY DEF Inv, TypeOK, AsksSound, Forsaken, NotForsaken, StartFindRev
  <1>4. active = Cardinality(Others(m)) + Cardinality(refused)
    BY <1>1 DEF Inv, QueriesCounted
  <1>5. /\ AsksSound' /\ SocketTyped'
        /\ active' = Cardinality(asked') + Cardinality(refused')
    BY <1>2, <1>3, <1>4, FindRevInv DEF request
  <1>6. CacheAttested' /\ EntriesFresh'
    BY <1>2, SameCacheInv DEF Inv, AnswersAttested, CacheAttested
  <1> QED BY <1>2, <1>5, <1>6, SocketStep DEF Inv, TypeOK

\* A query of a socket is the only one, and can be taken back.
LEMMA ReverseQuery ==
  ASSUME Inv, NEW q \in asked, q.how # "recv"
  PROVE  /\ q.who \in Socks /\ Others(q.who) = asked \ {q} /\ NotForsaken(q.who)
         /\ Cardinality(asked \ {q}) + Cardinality(refused) = active - 1
         /\ "WAITDNS" \in flags[q.who]
         /\ q.how = "recvrevA" => q.question = remotehost[q.who]
         /\ q.how = "recvrevB" =>
              /\ q.question = possible_revdns[q.who] /\ q.question \in Names
              /\ Attested("PTR", remotehost[q.who], q.question)
  <1> USE DEF AsksSound
  <1>1. q.who \in Socks
    BY DEF Inv, Questions, Queries
  <1>2. Others(q.who) = asked \ {q}
    BY OneQuery DEF Inv
  <1>3. NotForsaken(q.who)
    BY DEF Inv, Forsaken, NotForsaken
  <1>4. Cardinality(asked \ {q}) + Cardinality(refused) = active - 1
    <2>1. /\ Cardinality(asked \ {q}) = Cardinality(asked) - 1
          /\ Cardinality(asked) \in Nat /\ Cardinality(refused) \in Nat
      BY CountOff, FS_CardinalityType DEF Inv, Questions, Forsaken
    <2> QED BY <2>1 DEF Inv, QueriesCounted
  <1>5. /\ "WAITDNS" \in flags[q.who]
        /\ q.how = "recvrevA" => q.question = remotehost[q.who]
    BY DEF Inv, WaitsForItsAnswer
  <1>6. ASSUME q.how = "recvrevB"
        PROVE  /\ q.question = possible_revdns[q.who] /\ q.question \in Names
               /\ Attested("PTR", remotehost[q.who], q.question)
    BY <1>6 DEF Inv, Questions, Queries, NamesAsked, WaitsForItsAnswer
  <1> QED BY <1>1, <1>2, <1>3, <1>4, <1>5, <1>6

\* A look-up is retried once.
LEMMA RetriesTyped ==
  ASSUME Inv, NEW m, NEW n \in {0, 1}, retries' = [retries EXCEPT ![m] = n]
  PROVE  retries' \in [Socks -> 0 .. 1]
  <1>1. retries \in [Socks -> 0 .. 1]
    BY DEF Inv, TypeOK
  <1>2. n \in 0 .. 1
    OBVIOUS
  <1> QED BY <1>1, <1>2

\* evdns knows no address of the name.
LEMMA NoAddressInv ==
  ASSUME Inv, NEW q \in asked, NoAddress(q)
  PROVE  Inv'
  <1> DEFINE m == q.who
             name == possible_revdns[m]
  <1>1. /\ q.how = "recvrevB" /\ Settle(m, None)
        /\ asked' = asked \ {q} /\ active' = active - 1
        /\ answers' = answers \cup {<<"A", q.question, None>>}
        /\ AddCache("A", None, name, DefaultKeep)
        /\ retries' = [retries EXCEPT ![m] = 0]
        /\ UNCHANGED <<clock, remotehost, request, fault, failed>>
    BY DEF NoAddress, Called, Over, Told
  <1>2. /\ m \in Socks /\ Others(m) = asked \ {q} /\ NotForsaken(m)
        /\ Cardinality(asked \ {q}) + Cardinality(refused) = active - 1
        /\ q.question = name /\ name \in Names
    BY <1>1, ReverseQuery
  <1> HIDE DEF m, name
  <1>3. AsksSound' /\ SocketTyped'
    BY <1>1, <1>2, SettleInv DEF request
  <1>4. /\ cache' \in [Slots -> Entries \cup {None}]
        /\ CacheAttested' /\ EntriesFresh'
    <2>1. TypeOK /\ CacheAttested /\ EntriesFresh /\ DefaultKeep \in Int
      BY KeepBounds DEF Inv, AnswersAttested, CacheAttested
    <2>2. <<"A", name, None>> \in answers' /\ answers \subseteq answers'
      BY <1>1, <1>2
    <2> QED BY <1>1, <1>2, <2>1, <2>2, AddedInv
  <1>5. retries' \in [Socks -> 0 .. 1]
    BY <1>1, RetriesTyped
  <1> QED BY <1>1, <1>2, <1>3, <1>4, <1>5, SocketStep DEF failed

\* evdns has no answer for the address.
LEMMA FailsInv ==
  ASSUME Inv, NEW q \in asked, Fails(q)
  PROVE  Inv'
  <1>1. /\ q.how # "recv" /\ Settle(q.who, None)
        /\ asked' = asked \ {q} /\ active' = active - 1
        /\ retries' = [retries EXCEPT ![q.who] = 0]
        /\ UNCHANGED <<cache, clock, remotehost, request, fault, answers, failed>>
    BY DEF Fails, Over
  <1>2. /\ q.who \in Socks /\ Others(q.who) = asked \ {q} /\ NotForsaken(q.who)
        /\ Cardinality(asked \ {q}) + Cardinality(refused) = active - 1
    BY <1>1, ReverseQuery
  <1>3. AsksSound' /\ SocketTyped'
    BY <1>1, <1>2, SettleInv DEF request
  <1>4. CacheAttested' /\ EntriesFresh'
    BY <1>1, SameCacheInv DEF Inv, AnswersAttested, CacheAttested
  <1>5. retries' \in [Socks -> 0 .. 1] /\ cache' \in [Slots -> Entries \cup {None}]
    BY <1>1, RetriesTyped DEF Inv, TypeOK
  <1> QED BY <1>1, <1>2, <1>3, <1>4, <1>5, SocketStep DEF failed

\* The second phase asks once more or gives up.
LEMMA TryAgainInv ==
  ASSUME Inv, NEW q \in asked, TryAgain(q)
  PROVE  Inv'
  <1> DEFINE m == q.who
             rev == IF q.how = "recvrevA" THEN possible_revdns[m] ELSE None
  <1>1. /\ q.how # "recv" /\ RetryOrGiveUp(q, rev)
        /\ UNCHANGED <<cache, clock, remotehost, request, fault, answers>>
    BY DEF TryAgain
  <1>2. /\ m \in Socks /\ Others(m) = asked \ {q} /\ NotForsaken(m)
        /\ Cardinality(asked \ {q}) + Cardinality(refused) = active - 1
    BY <1>1, ReverseQuery
  <1>3. rev \in Names \cup {None} /\ cache \in [Slots -> Entries \cup {None}]
    BY <1>2 DEF Inv, TypeOK
  <1>4. CacheAttested' /\ EntriesFresh'
    BY <1>1, SameCacheInv DEF Inv, AnswersAttested, CacheAttested
  <1>5. CASE /\ retries' = [retries EXCEPT ![m] = 1]
             /\ FindRev(m, rev, asked \ {q}, active - 1)
    <2> HIDE DEF m, rev
    <2>1. /\ AsksSound' /\ SocketTyped'
          /\ active' = Cardinality(asked') + Cardinality(refused')
      BY <1>1, <1>2, <1>3, <1>5, FindRevInv DEF request
    <2>2. retries' \in [Socks -> 0 .. 1]
      BY <1>5, RetriesTyped
    <2> QED BY <1>1, <1>3, <1>4, <2>1, <2>2, SocketStep
  <1>6. CASE /\ retries' = [retries EXCEPT ![m] = 0]
             /\ Settle(m, None)
             /\ Over(q) /\ UNCHANGED failed
    <2> HIDE DEF m, rev
    <2>1. asked' = asked \ {q} /\ active' = active - 1
      BY <1>6 DEF Over
    <2>2. AsksSound' /\ SocketTyped'
      BY <1>1, <1>2, <1>6, <2>1, SettleInv DEF request
    <2>3. retries' \in [Socks -> 0 .. 1]
      BY <1>6, RetriesTyped
    <2> QED BY <1>1, <1>2, <1>3, <1>4, <1>6, <2>1, <2>2, <2>3, SocketStep DEF failed
  <1> QED BY <1>1, <1>5, <1>6 DEF RetryOrGiveUp

\* Without memory the answer is dropped.
LEMMA NoMemoryInv ==
  ASSUME Inv, NEW q \in asked, NoMemory(q)
  PROVE  Inv'
  <1> DEFINE m == q.who
  <1>1. /\ q.how # "recv" /\ asked' = asked \ {q} /\ active' = active - 1
        /\ possible_revdns' = IF q.how = "recvrevB" THEN possible_revdns
                              ELSE [possible_revdns EXCEPT ![m] = None]
        /\ lost' = lost \cup {m}
        /\ UNCHANGED <<cache, clock, remotehost, remotedns, retries, flags,
                       request, fault, answers, refused>>
    BY DEF NoMemory, Over
  <1>2. /\ m \in Socks /\ Others(m) = asked \ {q} /\ NotForsaken(m)
        /\ Cardinality(asked \ {q}) + Cardinality(refused) = active - 1
        /\ "WAITDNS" \in flags[m]
    BY <1>1, ReverseQuery
  <1> HIDE DEF m
  <1>3. /\ flags' \in [Socks -> SUBSET {"WAITDNS", "WAITDESTROY"}]
        /\ possible_revdns' \in [Socks -> Names \cup {None}]
        /\ "WAITDNS" \in flags'[m]
        /\ \A n \in Socks \ {m} : /\ flags'[n] = flags[n]
                                  /\ possible_revdns'[n] = possible_revdns[n]
    BY <1>1, <1>2 DEF Inv, TypeOK
  <1>4. AsksSound' /\ SocketTyped'
    BY <1>1, <1>2, <1>3, StuckInv DEF request
  <1>5. CacheAttested' /\ EntriesFresh'
    BY <1>1, SameCacheInv DEF Inv, AnswersAttested, CacheAttested
  <1>6. retries' \in [Socks -> 0 .. 1] /\ cache' \in [Slots -> Entries \cup {None}]
    BY <1>1 DEF Inv, TypeOK
  <1> QED BY <1>1, <1>2, <1>4, <1>5, <1>6, SocketStep

\* lms_dns_recvrevA() caches the name and asks for its address.
LEMMA RecvRevAInv ==
  ASSUME Inv, NEW q \in asked, NEW name \in Names, NEW ttl \in Ttls,
         RecvRevA(q, name, ttl)
  PROVE  Inv'
  <1> DEFINE m == q.who
             c == FindInCache("A", name)
  <1>1. /\ q.how = "recvrevA"
        /\ answers' = answers \cup {<<"PTR", q.question, name>>}
        /\ AddCache("PTR", remotehost[m], name, ttl)
        /\ UNCHANGED <<clock, remotehost, request, fault>>
    BY DEF RecvRevA, Called, Told
  <1>2. /\ m \in Socks /\ Others(m) = asked \ {q} /\ NotForsaken(m)
        /\ Cardinality(asked \ {q}) + Cardinality(refused) = active - 1
        /\ q.question = remotehost[m]
    BY <1>1, ReverseQuery
  <1>3. /\ cache' \in [Slots -> Entries \cup {None}]
        /\ CacheAttested' /\ EntriesFresh'
    <2>1. TypeOK /\ CacheAttested /\ EntriesFresh /\ ttl \in Int
      BY DnsBounds DEF Inv, AnswersAttested, CacheAttested
    <2>2. remotehost[m] \in Addrs \cup {None}
      BY <1>2 DEF Inv, TypeOK
    <2>3. <<"PTR", remotehost[m], name>> \in answers' /\ answers \subseteq answers'
      BY <1>1, <1>2
    <2> QED BY <1>1, <2>1, <2>2, <2>3, AddedInv
  <1>4. retries \in [Socks -> 0 .. 1]
    BY DEF Inv, TypeOK
  <1>5. CASE /\ flags' = [flags EXCEPT ![m] = @ \ {"WAITDNS"}]
             /\ possible_revdns' = [possible_revdns EXCEPT ![m] = name]
             /\ Over(q)
             /\ UNCHANGED <<remotedns, retries, failed>>
    <2> HIDE DEF m, c
    <2>1. /\ possible_revdns' \in [Socks -> Names \cup {None}]
          /\ \A n \in Socks \ {m} : possible_revdns'[n] = possible_revdns[n]
          /\ remotedns' \in [Socks -> Names \cup {None}]
      BY <1>5 DEF Inv, TypeOK
    <2>2. asked' = asked \ {q} /\ active' = active - 1
      BY <1>5 DEF Over
    <2>3. AsksSound' /\ SocketTyped'
      BY <1>1, <1>2, <1>5, <2>1, <2>2, QuietInv DEF request
    <2> QED BY <1>1, <1>2, <1>3, <1>4, <1>5, <2>2, <2>3, SocketStep DEF failed
  <1>6. CASE /\ possible_revdns' = [possible_revdns EXCEPT ![m] = name]
             /\ Ask("recvrevB", m, name, asked \ {q}, active - 1)
             /\ UNCHANGED retries
    <2> HIDE DEF m, c
    <2>1. <<"PTR", remotehost[m], name>> \in answers' /\ answers \subseteq answers'
      BY <1>1, <1>2
    <2>2. /\ AsksSound' /\ SocketTyped'
          /\ active' = Cardinality(asked') + Cardinality(refused')
      BY <1>1, <1>2, <1>6, <2>1, AskedInv DEF request
    <2> QED BY <1>1, <1>3, <1>4, <1>6, <2>2, SocketStep
  <1>7. CASE /\ Settle(m, IF Confirms(c, m) THEN name ELSE None)
             /\ retries' = IF Confirms(c, m) THEN retries
                                             ELSE [retries EXCEPT ![m] = 0]
             /\ Over(q) /\ UNCHANGED failed
    <2> DEFINE rev == IF Confirms(c, m) THEN name ELSE None
    <2>1. rev # None => <<"A", rev, remotehost[m]>> \in answers /\ rev = name
      BY <1>2, ConfirmedAttested
    <2>2. rev \in Names \cup {None} /\ Settle(m, rev)
      BY <1>7
    <2>3. retries' \in [Socks -> 0 .. 1]
      BY <1>4, <1>7, RetriesTyped
    <2>4. asked' = asked \ {q} /\ active' = active - 1
      BY <1>7 DEF Over
    <2> HIDE DEF m, c, rev
    <2>5. rev # None => Confirmed(rev, remotehost[m], answers')
      BY <1>1, <1>2, <2>1 DEF Confirmed
    <2>6. AsksSound' /\ SocketTyped'
      BY <1>1, <1>2, <1>7, <2>2, <2>4, <2>5, SettleInv DEF request
    <2> QED BY <1>1, <1>2, <1>3, <1>7, <2>3, <2>4, <2>6, SocketStep DEF failed
  <1> QED BY <1>5, <1>6, <1>7 DEF RecvRevA

\* The second phase confirms a name only if it is the text of its own address.
LEMMA RecvRevBInv ==
  ASSUME Inv, NEW q \in asked, NEW ip \in Addrs, NEW ttl \in Ttls,
         RecvRevB(q, ip, ttl)
  PROVE  Inv'
  <1> DEFINE m == q.who
             name == possible_revdns[m]
  <1>1. /\ q.how = "recvrevB"
        /\ asked' = asked \ {q} /\ active' = active - 1
        /\ answers' = answers \cup {<<"A", q.question, ip>>}
        /\ AddCache("A", ip, name, ttl)
        /\ UNCHANGED <<clock, remotehost, request, fault, failed>>
    BY DEF RecvRevB, Called, Over, Told
  <1>2. /\ m \in Socks /\ Others(m) = asked \ {q} /\ NotForsaken(m)
        /\ Cardinality(asked \ {q}) + Cardinality(refused) = active - 1
        /\ q.question = name /\ name \in Names
        /\ <<"PTR", remotehost[m], name>> \in answers
    BY <1>1, ReverseQuery DEF Attested
  <1>3. /\ cache' \in [Slots -> Entries \cup {None}]
        /\ CacheAttested' /\ EntriesFresh'
    <2>1. TypeOK /\ CacheAttested /\ EntriesFresh /\ ttl \in Int
      BY DnsBounds DEF Inv, AnswersAttested, CacheAttested
    <2>2. <<"A", name, ip>> \in answers' /\ answers \subseteq answers'
      BY <1>1, <1>2
    <2> QED BY <1>1, <1>2, <2>1, <2>2, AddedInv
  <1>4. retries \in [Socks -> 0 .. 1]
    BY DEF Inv, TypeOK
  <1>5. CASE /\ flags' = [flags EXCEPT ![m] = @ \ {"WAITDNS"}]
             /\ UNCHANGED <<remotedns, possible_revdns, retries>>
    <2> HIDE DEF m, name
    <2>1. /\ possible_revdns' \in [Socks -> Names \cup {None}]
          /\ remotedns' \in [Socks -> Names \cup {None}]
      BY <1>5 DEF Inv, TypeOK
    <2>2. AsksSound' /\ SocketTyped'
      BY <1>1, <1>2, <1>5, <2>1, QuietInv DEF request
    <2> QED BY <1>1, <1>2, <1>3, <1>4, <1>5, <2>2, SocketStep DEF failed
  <1>6. CASE /\ Settle(m, IF ip = name THEN name ELSE None)
             /\ retries' = [retries EXCEPT ![m] = 0]
    <2> DEFINE rev == IF ip = name THEN name ELSE None
    <2>1. rev # None => /\ rev = name /\ ip = name
      OBVIOUS
    <2>2. rev \in Names \cup {None} /\ Settle(m, rev)
      BY <1>2, <1>6
    <2>3. retries' \in [Socks -> 0 .. 1]
      BY <1>6, RetriesTyped
    <2> HIDE DEF m, name, rev
    <2>4. rev # None => Confirmed(rev, remotehost[m], answers')
      BY <1>1, <1>2, <2>1 DEF Confirmed
    <2>5. AsksSound' /\ SocketTyped'
      BY <1>1, <1>2, <2>2, <2>4, SettleInv DEF request
    <2> QED BY <1>1, <1>2, <1>3, <2>3, <2>5, SocketStep DEF failed
  <1> QED BY <1>5, <1>6 DEF RecvRevB

\* The answer without a name ends the behaviour.
LEMMA NoNameInv ==
  ASSUME Inv, NEW q \in asked, NoName(q)
  PROVE  Inv'
  <1> USE DEF clock, socket, request, failed
  <1>1. /\ fault' = "nullHost"
        /\ UNCHANGED <<cache, clock, asked, active, socket, request, answers,
                       failed>>
    BY DEF NoName
  <1>2. CacheAttested' /\ EntriesFresh'
    BY <1>1, SameCacheInv DEF Inv, AnswersAttested, CacheAttested
  <1>3. NamesAsked' /\ NamesConfirmed' /\ WaitsForItsAnswer' /\ Forsaken'
    BY <1>1, RequestInv
  <1>4. TypeOK'
    BY <1>1 DEF Inv, TypeOK
  <1>5. AnswersAttested' /\ Questions' /\ QueriesCounted'
    BY <1>1 DEF Inv, AsksSound, AnswersAttested, Attested, Questions,
                QueriesCounted
  <1> QED BY <1>2, <1>3, <1>4, <1>5 DEF Inv, AsksSound

\* Destroying a socket that waits leaves its query to a corpse.
LEMMA DestroyInv ==
  ASSUME Inv, NEW m \in Socks, Destroy(m)
  PROVE  Inv'
  <1>1. /\ flags' = [flags EXCEPT ![m] = @ \cup {"WAITDESTROY"}]
        /\ UNCHANGED <<cache, clock, asked, active, remotehost, remotedns,
                       possible_revdns, retries, request, fault, answers,
                       failed>>
    BY DEF Destroy
  <1>2. \A n \in Socks : "WAITDNS" \in flags'[n] <=> "WAITDNS" \in flags[n]
    BY <1>1 DEF Inv, TypeOK
  <1>3. SocketTyped' /\ retries' \in [Socks -> 0 .. 1]
                    /\ cache' \in [Slots -> Entries \cup {None}]
    BY <1>1 DEF Inv, TypeOK, SocketTyped
  <1>4. CacheAttested' /\ EntriesFresh'
    BY <1>1, SameCacheInv DEF Inv, AnswersAttested, CacheAttested
  <1>5. Questions' /\ NamesAsked' /\ NamesConfirmed'
    BY <1>1 DEF Inv, AsksSound, Questions, NamesAsked, NamesConfirmed, Attested,
                request
  <1>6. WaitsForItsAnswer'
    <2>1. \A q \in asked : q.how # "recv" => q.who \in Socks
      BY DEF Inv, AsksSound, Questions, Queries
    <2> QED BY <1>1, <1>2, <2>1 DEF Inv, AsksSound, WaitsForItsAnswer, failed
  <1>7. Forsaken'
    BY <1>1, <1>2 DEF Inv, AsksSound, Forsaken, failed
  <1>8. active' = Cardinality(asked') + Cardinality(refused')
    BY <1>1 DEF Inv, QueriesCounted, failed
  <1> QED BY <1>1, <1>3, <1>4, <1>5, <1>6, <1>7, <1>8, SocketStep DEF AsksSound

\* Memory of a socket is used again only when it does not wait.
LEMMA ReplaceInv ==
  ASSUME Inv, NEW m \in Socks, Replace(m)
  PROVE  Inv'
  <1>1. PICK a \in Addrs : remotehost' = [remotehost EXCEPT ![m] = a]
    BY DEF Replace
  <1>2. /\ "WAITDNS" \notin flags[m] /\ flags' = [flags EXCEPT ![m] = {}]
        /\ remotedns' = [remotedns EXCEPT ![m] = None]
        /\ possible_revdns' = [possible_revdns EXCEPT ![m] = None]
        /\ retries' = [retries EXCEPT ![m] = 0]
        /\ UNCHANGED <<cache, clock, asked, active, request, fault, answers,
                       failed>>
    BY DEF Replace
  <1>3. /\ remotedns'[m] = None /\ flags'[m] = {}
        /\ \A n \in Socks \ {m} :
             /\ flags'[n] = flags[n] /\ remotedns'[n] = remotedns[n]
             /\ remotehost'[n] = remotehost[n]
             /\ possible_revdns'[n] = possible_revdns[n]
    BY <1>1, <1>2 DEF Inv, TypeOK
  <1> USE DEF AsksSound
  <1>4. \A q \in asked : q.how # "recv" => q.who \in Socks \ {m}
    BY <1>2 DEF Inv, Questions, Queries, WaitsForItsAnswer
  <1>5. SocketTyped' /\ cache' \in [Slots -> Entries \cup {None}]
    BY <1>1, <1>2 DEF Inv, TypeOK, SocketTyped
  <1>6. CacheAttested' /\ EntriesFresh'
    BY <1>2, SameCacheInv DEF Inv, AnswersAttested, CacheAttested
  <1>7. Questions'
    BY <1>2 DEF Inv, Questions, request
  <1>8. NamesAsked'
    BY <1>2, <1>3, <1>4 DEF Inv, NamesAsked, Attested
  <1>9. NamesConfirmed'
    BY <1>2, <1>3 DEF Inv, NamesConfirmed, Attested
  <1>10. WaitsForItsAnswer'
    BY <1>2, <1>3, <1>4 DEF Inv, WaitsForItsAnswer, failed
  <1>11. active' = Cardinality(asked') + Cardinality(refused')
    BY <1>2 DEF Inv, QueriesCounted, failed
  <1>12. retries' \in [Socks -> 0 .. 1]
    BY <1>2, RetriesTyped
  <1>13. Forsaken'
    <2>1. m \notin refused \cup lost
      BY <1>2 DEF Inv, Forsaken
    <2> QED BY <1>2, <1>3, <2>1 DEF Inv, Forsaken, failed
  <1> QED BY <1>2, <1>5, <1>6, <1>7, <1>8, <1>9, <1>10, <1>11, <1>12, <1>13,
             SocketStep

\* The loop and the clock leave the look-ups alone.
LEMMA LoopInv ==
  ASSUME Inv, UNCHANGED <<asked, active, socket, request, fault, answers, failed>>,
         /\ cache' \in [Slots -> Entries \cup {None}]
         /\ now' \in 0 .. MaxTime /\ lastrun' \in 0 .. now'
         /\ cleaned' \in 0 .. now' /\ inLoop' \in BOOLEAN,
         \A s \in Slots : cache'[s] # None => cache'[s] = cache[s],
         EntriesFresh'
  PROVE  Inv'
  <1> USE DEF socket, request, failed
  <1>1. TypeOK'
    BY DEF Inv, TypeOK
  <1>2. AnswersAttested'
    BY DEF Inv, AnswersAttested, Attested
  <1>3. NamesAsked' /\ NamesConfirmed' /\ WaitsForItsAnswer' /\ Forsaken'
    BY RequestInv
  <1>4. Questions' /\ QueriesCounted'
    BY DEF Inv, AsksSound, Questions, QueriesCounted
  <1> QED BY <1>1, <1>2, <1>3, <1>4 DEF Inv, AsksSound

\* lms_dns_cleancache() frees what has expired.
LEMMA CleanCacheInv ==
  ASSUME Inv, CleanCache
  PROVE  Inv'
  <1>1. /\ cache' = [s \in Slots |-> IF cache[s] # None /\ cache[s].expiry <= now
                                     THEN None ELSE cache[s]]
        /\ inLoop' = TRUE /\ cleaned' = now
        /\ UNCHANGED <<now, lastrun, asked, active, socket, request, fault, answers,
                       failed>>
    BY DEF CleanCache
  <1>2. /\ cache' \in [Slots -> Entries \cup {None}]
        /\ now \in 0 .. MaxTime /\ lastrun \in 0 .. now /\ now \in 0 .. now
    BY <1>1, DnsBounds DEF Inv, TypeOK
  <1>3. \A s \in Slots : cache'[s] # None =>
          cache'[s] = cache[s] /\ ~(cache[s].expiry <= now)
    BY <1>1
  <1>4. EntriesFresh'
    <2> SUFFICES ASSUME NEW s \in Slots, cache'[s] # None
                 PROVE  now < cache'[s].expiry /\ cache'[s].expiry <= now + MaxKeep
      BY <1>1 DEF EntriesFresh
    <2>1. cache'[s] = cache[s] /\ ~(cache[s].expiry <= now)
      BY <1>3
    <2>2. cache[s].expiry \in Int /\ cache[s].expiry <= now + MaxKeep
      <3>1. cache[s] \in Entries
        BY <2>1 DEF Inv, TypeOK
      <3> QED BY <2>1, <3>1, KeepBounds, DnsBounds DEF Inv, EntriesFresh, Entries
    <2> QED BY <1>2, <2>1, <2>2
  <1> QED BY <1>1, <1>2, <1>3, <1>4, LoopInv

\* lms_loop() remembers the second.
LEMMA CleanedInv ==
  ASSUME Inv, Cleaned
  PROVE  Inv'
  <1>1. /\ lastrun' = now /\ inLoop' = FALSE
        /\ UNCHANGED <<cache, now, cleaned, asked, active, socket, request, fault,
                       answers, failed>>
    BY DEF Cleaned
  <1>2. /\ now \in 0 .. MaxTime /\ now \in 0 .. now /\ cleaned \in 0 .. now
        /\ cache \in [Slots -> Entries \cup {None}]
    BY DnsBounds DEF Inv, TypeOK
  <1>3. EntriesFresh'
    BY <1>1 DEF Inv, EntriesFresh
  <1> QED BY <1>1, <1>2, <1>3, LoopInv

\* Time passes.
LEMMA TickInv ==
  ASSUME Inv, Tick
  PROVE  Inv'
  <1>1. /\ now < MaxTime /\ now' = now + 1
        /\ UNCHANGED <<cache, lastrun, inLoop, cleaned, asked, active, socket,
                       request, fault, answers, failed>>
    BY DEF Tick
  <1>2. /\ now \in 0 .. MaxTime /\ lastrun \in 0 .. now /\ cleaned \in 0 .. now
        /\ cache \in [Slots -> Entries \cup {None}] /\ inLoop \in BOOLEAN
    BY DEF Inv, TypeOK
  <1>3. now + 1 \in 0 .. MaxTime /\ lastrun \in 0 .. now + 1 /\ cleaned \in 0 .. now + 1
    BY <1>1, <1>2, DnsBounds
  <1>4. EntriesFresh'
    <2> SUFFICES ASSUME NEW s \in Slots, cache[s] # None
                 PROVE  cleaned < cache[s].expiry /\ cache[s].expiry <= now + 1 + MaxKeep
      BY <1>1 DEF EntriesFresh
    <2>1. cache[s].expiry \in Int
      <3>1. cache[s] \in Entries
        BY <1>2
      <3> QED BY <3>1, KeepBounds, DnsBounds DEF Entries
    <2> QED BY <1>2, <2>1, KeepBounds, DnsBounds DEF Inv, EntriesFresh
  <1> QED BY <1>1, <1>2, <1>3, <1>4, LoopInv

\* Every step keeps the invariant.
LEMMA NextInv ==
  ASSUME Inv, [Next]_vars
  PROVE  Inv'
  <1>1. CASE Program
    BY <1>1, LookupInv, StartFindRevInv, DestroyInv, ReplaceInv DEF Program
  <1>2. CASE Resolver
    BY <1>2, RecvFailsInv, NoNameInv, NoAddressInv, FailsInv, TryAgainInv,
       RecvInv, RecvRevBInv, RecvRevAInv, NoMemoryInv DEF Resolver
  <1>3. CASE CleanCache \/ Cleaned \/ Tick
    BY <1>3, CleanCacheInv, CleanedInv, TickInv
  <1>4. CASE UNCHANGED vars
    BY <1>4, StutterInv
  <1> QED BY <1>1, <1>2, <1>3, <1>4 DEF Next

\* The invariant holds in every reachable state.
THEOREM InvCorrect == Spec => []Inv
  <1>1. Init => Inv
    BY InitInv
  <1>2. Inv /\ [Next]_vars => Inv'
    BY NextInv
  <1> QED BY <1>1, <1>2, PTL DEF Spec

-----------------------------------------------------------------------------
(* The properties *)

\* Every variable holds a value of its kind.
THEOREM TypeCorrect == Spec => []TypeOK
  <1>1. Inv => TypeOK
    BY DEF Inv
  <1> QED BY <1>1, InvCorrect, PTL

\* What is cached, and what a look-up gives to an object of the program, is
\* what evdns answered about that very name or address (dns.c:408-460).
THEOREM AnswersCorrect == Spec => []AnswersAttested
  <1>1. Inv => AnswersAttested
    BY DEF Inv
  <1> QED BY <1>1, InvCorrect, PTL

\* A socket carries only a name that is confirmed both ways, but for a name
\* that is the text of an address and has that address, which dns.c:717 takes
\* for confirmed whatever address the socket has (dns.c:334-422, 512-580,
\* 693-735).  Nothing is assumed of what names and addresses have in common.
THEOREM NamesCorrect == Spec => []NamesConfirmed
  <1>1. Inv => NamesConfirmed
    BY DEF Inv, AsksSound
  <1> QED BY <1>1, InvCorrect, PTL

\* A socket that waits has one query, about its own address or name, unless
\* evdns refused it or memory was lacking; and only a socket that waits has one
\* (dns.c:334-422, 435-735).
THEOREM WaitsCorrect == Spec => []WaitsForItsAnswer
  <1>1. Inv => WaitsForItsAnswer
    BY DEF Inv, AsksSound
  <1> QED BY <1>1, InvCorrect, PTL

\* lms_dns_activequeries is the number of queries inside evdns and of reverse
\* look-ups that evdns refused (dns.c:411-418, 577-578): it stays too high by
\* these, and never wraps around.
THEOREM CountCorrect == Spec => []QueriesCounted
  <1>1. Inv => QueriesCounted
    BY DEF Inv
  <1> QED BY <1>1, InvCorrect, PTL

\* Nothing stays in the cache past the first cleaning after its expiry.
THEOREM FreshCorrect == Spec => []EntriesFresh
  <1>1. Inv => EntriesFresh
    BY DEF Inv
  <1> QED BY <1>1, InvCorrect, PTL

\* What is in the cache is found there by lms_dns_getip().
EntriesFound ==
  \A s \in Slots :
    cache[s] # None /\ cache[s].type = "A" => GetIp(cache[s].host) # -1

\* An address that is cached is found by lms_dns_getip().
LEMMA EntryFound == EntriesFound
  <1> SUFFICES ASSUME NEW s \in Slots, cache[s] # None, cache[s].type = "A"
               PROVE  GetIp(cache[s].host) # -1
    BY DEF EntriesFound
  <1> DEFINE hits == Hits("A", cache[s].host)
  <1>1. s \in hits /\ hits \in SUBSET Nat
    BY DnsBounds DEF Hits, Matches, KeyOf, Slots
  <1>2. First(hits) \in hits
    BY <1>1, FirstSlot
  <1>3. FindInCache("A", cache[s].host) # None
    BY <1>1, <1>2 DEF FindInCache, Hits, Matches
  <1> QED BY <1>3 DEF GetIp

\* A callback that hears of an answer finds an entry with lms_dns_getip(),
\* unless the answer was not added to the cache (dns.c:164-214, 232-323, 838-857).
THEOREM CallbackCorrect == Spec => CallbackFindsEntry
  <1> DEFINE Step ==
        \A r \in Requests :
          got'[r] = "answer" /\ got[r] # "answer"
            => GetIp(host[r])' # -1 \/ (cache' = cache /\ asked' # asked)
  <1>1. ASSUME Inv, EntriesFound', [Next]_vars
        PROVE  Step
    <2> SUFFICES ASSUME NEW r \in Requests, got'[r] = "answer",
                        got[r] # "answer", ~(cache' = cache /\ asked' # asked)
                 PROVE  GetIp(host[r])' # -1
      OBVIOUS
    <2> DEFINE Found(name) ==
          \E s \in Slots : /\ cache'[s] # None /\ cache'[s].type = "A"
                          /\ cache'[s].host = name
    <2>1. SUFFICES Found(host'[r])
      BY <1>1 DEF EntriesFound
    <2>2. got \in [Requests -> Addrs \cup {None, "answer", "failure"}]
      BY <1>1 DEF Inv, TypeOK
    <2>3. ASSUME NEW t \in Requests, NEW kind \in Kinds, NEW n \in Names,
                 Lookup(t, kind, n)
          PROVE  Found(host'[r])
      <3> DEFINE c == FindInCache("A", n)
      <3>1. /\ host' = [host EXCEPT ![t] = n] /\ UNCHANGED cache
            /\ \/ /\ c # None
                  /\ got' = [got EXCEPT ![t] =
                               IF kind = "CALLBACK" THEN "answer" ELSE c.ip]
               \/ got' = [got EXCEPT ![t] = None]
        BY <2>3 DEF Lookup
      <3>2. t = r /\ c # None
        <4> HIDE DEF c
        <4> QED BY <2>2, <3>1, NoneIsNothing, TagsApart
      <3>3. PICK s \in Slots : /\ cache[s] # None /\ cache[s].type = "A"
                               /\ KeyOf(cache[s]) = n
        BY <3>2, FoundInCache
      <3>4. host'[r] = n
        BY <1>1, <3>1, <3>2 DEF Inv, TypeOK
      <3> QED BY <3>1, <3>3, <3>4 DEF KeyOf
    <2>4. ASSUME NEW q \in asked, NEW ip \in Addrs \cup {None}, NEW ttl \in Ttls,
                 Recv(q, ip, ttl)
          PROVE  Found(host'[r])
      <3> DEFINE t == q.who
                 life == IF ip = None /\ what[t] = "DNSREQUEST"
                           THEN DefaultKeep ELSE ttl
                 new == NewEntry("A", ip, host[t], life)
      <3>1. /\ AddCache("A", ip, host[t], life) /\ UNCHANGED host
            /\ got' = [got EXCEPT ![t] = CASE what[t] = "CALLBACK" -> "answer"
                                           [] what[t] = "MSOCKET"  -> ip
                                           [] OTHER                -> @]
        BY <2>4 DEF Recv
      <3>2. t = r
        <4> HIDE DEF t
        <4> QED BY <2>2, <3>1
      <3>3. host[t] \in Names /\ life \in Int
        BY <1>1, <2>4, DnsBounds, KeepBounds
           DEF Inv, AsksSound, Questions, Queries, Recv
      <3>4. new.type = "A" /\ new.host = host[t]
        BY DEF NewEntry
      <3> HIDE DEF t, life
      <3>5. asked' # asked
        BY <2>4 DEF Recv, Over
      <3>6. new \in Entries /\ \E s \in Slots : cache'[s] = new
        BY <1>1, <3>1, <3>3, <3>5, Added DEF Inv
      <3> HIDE DEF new
      <3> QED BY <3>1, <3>2, <3>4, <3>6, NoneIsNoEntry
    <2>5. ASSUME NEW q \in asked, RecvFails(q)
          PROVE  Found(host'[r])
      BY <2>2, <2>5 DEF RecvFails
    <2>6. ASSUME got'[r] = got[r]
          PROVE  Found(host'[r])
      BY <2>6
    <2> HIDE DEF Found
    <2> USE DEF request
    <2>7. CASE Program
      <3>1. ASSUME NEW m \in Socks, StartFindRev(m) \/ Destroy(m) \/ Replace(m)
            PROVE  Found(host'[r])
        BY <2>6, <3>1 DEF StartFindRev, Destroy, Replace
      <3> QED BY <2>3, <2>7, <3>1 DEF Program
    <2>8. CASE Resolver
      <3>1. CASE \E q \in asked :
                   \/ NoName(q) \/ NoAddress(q) \/ Fails(q) \/ TryAgain(q)
                   \/ NoMemory(q)
        BY <2>6, <3>1 DEF NoName, NoAddress, Fails, TryAgain, NoMemory
      <3>2. CASE \E q \in asked, ttl \in Ttls :
                   \/ \E ip \in Addrs : RecvRevB(q, ip, ttl)
                   \/ \E name \in Names : RecvRevA(q, name, ttl)
        <4>1. UNCHANGED request
          BY <3>2 DEF RecvRevA, RecvRevB
        <4> QED BY <2>6, <4>1
      <3> QED BY <2>4, <2>5, <2>8, <3>1, <3>2 DEF Resolver
    <2>9. CASE CleanCache \/ Cleaned \/ Tick \/ UNCHANGED vars
      BY <2>6, <2>9 DEF CleanCache, Cleaned, Tick, vars
    <2> QED BY <1>1, <2>7, <2>8, <2>9 DEF Next
  <1> QED BY <1>1, InvCorrect, EntryFound, PTL DEF Spec, CallbackFindsEntry
=============================================================================
