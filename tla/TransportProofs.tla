--------------------------- MODULE TransportProofs ---------------------------
(***************************************************************************)
(* Proofs about Transport, for any size of chunk and any number of bytes.  *)
(*                                                                         *)
(* In layers: where SSL and the thread are (Phases), the two queues with   *)
(* their kinds, lengths and bytes (SendSound and RecvSound, each of Fits,  *)
(* Counted and Placed), and the kinds of the rest (OthersTyped).  Each     *)
(* layer uses Phases, and is inductive with it.                            *)
(***************************************************************************)
EXTENDS Transport, SequenceTheorems, TLAPS

Explained == mishaps \cap {"badShake", "goneInside"} # {}

\* A socket without a descriptor, and one that is gone while the thread is in
\* it.  SSL that was asked for is started, unless there was no session.
Phases ==
  /\ life \in {"new", "open", "freed"}
  /\ hand \in {"plain", "handshake", "ssl"}
  /\ session \in {"none", "shaking", "ready"}
  /\ pc \in {"loop", "read", "told"}
  /\ PhasesAgree
  /\ life = "new" => /\ flags = {} /\ hand = "plain" /\ session = "none"
                     /\ pc = "loop" /\ fault = "none"
  /\ pc = "read" => life = "open"
  /\ life = "freed" /\ pc = "told" => Explained
  /\ fault # "none" => Explained
  /\ life = "open" /\ opt /\ "noSession" \notin mishaps => hand # "plain"

-----------------------------------------------------------------------------
(* Where SSL and the thread are *)

\* lms_ssl_handshake() waits, completes, or destroys the socket.
LEMMA HandshakePhases ==
  ASSUME Phases, Open, hand = "handshake", NEW now, Handshake(now),
         \A f \in {"SSL", "SSLHDSHK", "SSLRDY"} : f \in now <=> f \in flags,
         UNCHANGED <<pc, fault>>, pc # "read"
  PROVE  Phases' /\ wire' = wire
  <1> USE DEF Phases, PhasesAgree, Open, Explained
  <1>1. CASE flags' = now /\ UNCHANGED <<life, opt, hand, ssl, history>>
    BY <1>1 DEF ssl, history
  <1>2. CASE Shaken(now) /\ UNCHANGED <<life, opt, history>>
    BY <1>2 DEF Shaken, history
  <1>3. CASE Destroy /\ Note("badShake") /\ UNCHANGED <<opt, wire>>
    BY <1>3 DEF Destroy, Note
  <1> QED BY <1>1, <1>2, <1>3 DEF Handshake

\* lms_ssl_startsock() finds no session, starts the handshake, or destroys the
\* socket.
LEMMA StartSockPhases ==
  ASSUME Phases, life # "freed", fault = "none", NEW now, NEW to,
         StartSock(now, to), session = "none", hand = "plain",
         {"SSL", "SSLHDSHK", "SSLRDY"} \cap now = {}, pc # "read",
         UNCHANGED pc, fault' # "none" => life' = "freed"
  PROVE  Phases' /\ wire' = wire
  <1> USE DEF Phases, PhasesAgree, Explained
  <1>1. CASE /\ Note("noSession") /\ life' = "open" /\ flags' = now
             /\ UNCHANGED <<hand, ssl, wire>>
    BY <1>1 DEF Note, ssl
  <1>2. CASE /\ life' = "open" /\ flags' = now \cup {"SSL", "SSLHDSHK"}
             /\ hand' = "handshake" /\ session' = "shaking"
             /\ UNCHANGED history
    BY <1>2 DEF history
  <1>3. CASE Destroy /\ Note("badShake") /\ UNCHANGED wire
    BY <1>3 DEF Destroy, Note
  <1> QED BY <1>1, <1>2, <1>3 DEF StartSock

\* func_w goes on with the handshake or flushes.
LEMMA FuncWPhases ==
  ASSUME Phases, Open, pc # "read", NEW now, FuncW(now),
         \A f \in {"SSL", "SSLHDSHK", "SSLRDY"} : f \in now <=> f \in flags,
         UNCHANGED <<pc, fault>>
  PROVE  /\ Phases'
         /\ wire' = wire \/ (hand # "handshake" /\ FlushQ(now))
  <1>1. CASE hand = "handshake" /\ Handshake(now)
    BY <1>1, HandshakePhases
  <1>2. CASE /\ hand # "handshake" /\ FlushQ(now) /\ flags' = now
             /\ UNCHANGED <<life, opt, hand, session>>
    <2>1. mishaps \subseteq mishaps'
      BY <1>2 DEF FlushQ, ClearSq, Note
    <2>2. wire' = wire \/ (hand # "handshake" /\ FlushQ(now))
      BY <1>2
    <2>3. Phases'
      BY <1>2, <2>1 DEF Phases, PhasesAgree, Explained, Open
    <2> QED BY <2>2, <2>3
  <1> QED BY <1>1, <1>2 DEF FuncW

\* At the start there is no socket.
LEMMA InitPhases == Init => Phases
  BY DEF Init, Phases, PhasesAgree, Explained

\* Every step keeps the phases.
LEMMA NextPhases ==
  ASSUME Phases, [Next]_vars
  PROVE  Phases'
  <1>1. CASE Accept
    BY <1>1 DEF Accept, Phases, PhasesAgree, Explained, control, ssl, history
  <1>2. CASE Iconn
    <2>1. PICK to \in {"connecting", "up"} :
            LET now == IF to = "up" THEN {"CONNECTED"} ELSE {"WAITCONN"}
            IN \/ /\ ~opt
                  /\ life' = "open" /\ flags' = now
                  /\ UNCHANGED <<hand, ssl, history>>
               \/ opt /\ StartSock(now, to)
      BY <1>2 DEF Iconn
    <2> DEFINE now == IF to = "up" THEN {"CONNECTED"} ELSE {"WAITCONN"}
    <2>2. {"SSL", "SSLHDSHK", "SSLRDY"} \cap now = {}
      OBVIOUS
    <2> HIDE DEF now
    <2>3. /\ life = "new" /\ UNCHANGED <<opt, pc>>
          /\ fault' = IF life' = "freed" THEN "registered" ELSE fault
      BY <1>2 DEF Iconn, control
    <2>4. CASE opt /\ StartSock(now, to)
      BY <2>2, <2>3, <2>4, StartSockPhases DEF Phases
    <2>5. CASE ~opt /\ life' = "open" /\ flags' = now /\ UNCHANGED <<hand, ssl, history>>
      BY <2>2, <2>3, <2>5 DEF Phases, PhasesAgree, Explained, ssl, history
    <2> QED BY <2>1, <2>4, <2>5 DEF now
  <1>3. CASE StartSsl
    <2>1. /\ Open /\ pc # "read" /\ "SSL" \notin flags /\ StartSock(flags, link)
          /\ UNCHANGED <<pc, fault>>
      BY <1>3 DEF StartSsl, control
    <2>2. /\ session = "none" /\ hand = "plain"
          /\ {"SSL", "SSLHDSHK", "SSLRDY"} \cap flags = {}
      BY <2>1 DEF Phases, PhasesAgree, Open
    <2> QED BY <2>1, <2>2, StartSockPhases DEF Open
  <1>4. CASE SendQueue
    BY <1>4, FuncWPhases DEF SendQueue, control
  <1>5. CASE WriteEvent
    BY <1>5, FuncWPhases DEF WriteEvent, control
  <1>6. CASE ReadEvent
    <2>1. CASE Handshake(flags) /\ UNCHANGED control /\ hand = "handshake"
      BY <1>6, <2>1, HandshakePhases DEF ReadEvent, control
    <2>2. CASE /\ pc' \in {"read", "loop"} /\ mishaps \subseteq mishaps'
               /\ UNCHANGED <<object, ssl>>
      BY <1>6, <2>2 DEF ReadEvent, Open, Phases, PhasesAgree, Explained, object, ssl
    <2> QED BY <1>6, <2>1, <2>2 DEF ReadEvent, Room, NoteBusy, Note
  <1>7. CASE Close
    BY <1>7 DEF Close, Destroy, Open, Phases, PhasesAgree, Explained, control
  <1>8. CASE RecvEnd
    BY <1>8 DEF RecvEnd, Reading, Destroy, Open, Phases, PhasesAgree, Explained
  <1>9. CASE ToldReturn
    BY <1>9 DEF ToldReturn, Phases, PhasesAgree, Explained, object, ssl, history
  <1>10. CASE AppendQ
    <2>1. mishaps \subseteq mishaps'
      BY <1>10 DEF AppendQ, Note
    <2> QED BY <1>10, <2>1 DEF AppendQ, Phases, PhasesAgree, Explained, object, control
  <1>11. CASE RecvSome
    <2>1. mishaps \subseteq mishaps' /\ pc' \in {"read", "loop"} /\ life = "open"
      BY <1>11 DEF RecvSome, Reading, Open, Room, NoteBusy, Note
    <2> QED BY <1>11, <2>1 DEF RecvSome, Phases, PhasesAgree, Explained, object, ssl
  <1>12. CASE RecvBreak
    BY <1>12 DEF RecvBreak, Reading, Open, Phases, PhasesAgree, Explained, object, ssl
  <1>13. CASE AddFd \/ FreeRq
    BY <1>13 DEF AddFd, FreeRq, Open, Phases, PhasesAgree, Explained, object,
                 control, ssl, history
  <1>14. CASE Peer
    BY <1>14 DEF Peer, Connected, PeerSends, PeerCloses, Phases, PhasesAgree,
                 Explained, object, control, ssl, history
  <1>15. CASE UNCHANGED vars
    BY <1>15 DEF vars, Phases, PhasesAgree, Explained, object, control, ssl, history
  <1> QED BY <1>1, <1>2, <1>3, <1>4, <1>5, <1>6, <1>7, <1>8, <1>9, <1>10, <1>11,
             <1>12, <1>13, <1>14, <1>15 DEF Next, Application, Mux, Thread

\* Flags, session, functions and thread are in a phase that the code knows
\* (socket.c:831-1120, ssl.c:182-275, 592-648).
THEOREM PhasesHold == Spec => []Phases
  <1> QED BY InitPhases, NextPhases, PTL DEF Spec

-----------------------------------------------------------------------------
(* Sequences of bytes *)

Sendings == [byte : 0 .. MaxOut, how : {"plain", "ssl"}]

\* A buffer of zeros has its length.
LEMMA BlankType ==
  ASSUME NEW n \in Nat, NEW k \in Nat
  PROVE  Blank(n) \in Seq(0 .. k) /\ Len(Blank(n)) = n
  BY DEF Blank

\* The bytes that come after some are so many.
LEMMA AfterType ==
  ASSUME NEW n \in Nat, NEW first \in Nat, NEW k \in Nat, first + n <= k
  PROVE  After(first, n) \in Seq(0 .. k) /\ Len(After(first, n)) = n
  BY DEF After

\* lms_str_ocopy() keeps within both buffers.
LEMMA OCopyType ==
  ASSUME NEW T, NEW src \in Seq(T), NEW dst \in Seq(T), NEW offset \in Nat,
         NEW len \in 0 .. Len(src)
  PROVE  /\ OCopy(src, dst, len, offset) \in Seq(T)
         /\ Len(OCopy(src, dst, len, offset)) = Len(dst)
         /\ \A i \in 1 .. Len(dst) :
              OCopy(src, dst, len, offset)[i] =
                IF i + offset <= len THEN src[i + offset] ELSE dst[i]
  BY DEF OCopy

\* What is recorded of a send is one record for each byte.
LEMMA SentType ==
  ASSUME sendQ \in Seq(0 .. MaxOut), NEW n \in 0 .. Len(sendQ),
         hand \in {"plain", "ssl"}
  PROVE  /\ Sent(n) \in Seq(Sendings) /\ Len(Sent(n)) = n
         /\ \A i \in 1 .. n : Sent(n)[i].byte = sendQ[i] /\ Sent(n)[i].how = hand
  <1>1. \A i \in 1 .. n : sendQ[i] \in 0 .. MaxOut
    <2>1. Len(sendQ) \in Nat /\ sendQ \in [1 .. Len(sendQ) -> 0 .. MaxOut]
      BY LenProperties
    <2>2. n \in Nat /\ n <= Len(sendQ)
      BY <2>1
    <2>3. \A i \in 1 .. n : i \in 1 .. Len(sendQ)
      BY <2>1, <2>2
    <2> QED BY <2>1, <2>3
  <1>2. \A i \in 1 .. n : [byte |-> sendQ[i], how |-> hand] \in Sendings
    BY <1>1 DEF Sendings
  <1> HIDE DEF Sendings
  <1>3. Sent(n) \in [1 .. n -> Sendings]
    BY <1>2 DEF Sent
  <1>4. n \in Nat
    OBVIOUS
  <1>5. Sent(n) \in Seq(Sendings)
    BY <1>3, <1>4, SeqDef
  <1>6. Len(Sent(n)) = n
    BY <1>4 DEF Sent
  <1> QED BY <1>5, <1>6 DEF Sent

-----------------------------------------------------------------------------
(* The send queue *)

SendFits ==
  /\ sendQ \in Seq(0 .. MaxOut) /\ wire \in Seq(Sendings)
  /\ sendSz \in Nat /\ sendLen \in Nat /\ appended \in 0 .. MaxOut
  /\ sendSz <= appended /\ sendLen <= appended
  /\ sendQ # <<>> => sendLen <= Len(sendQ)
  /\ retry \in {"none", "same", "moved"}

SendCounted ==
  "noMemory" \notin mishaps /\ life # "freed" =>
    /\ sendLen = sendSz /\ sendSz = Len(sendQ)
    /\ Len(wire) + sendLen = appended

InPlace(byte, i) == byte = i \/ (byte = 0 /\ "partSend" \in mishaps)

SendPlaced ==
  {"busySend", "noMemory"} \cap mishaps = {} =>
    /\ \A i \in 1 .. Len(wire) : InPlace(wire[i].byte, i)
    /\ life # "freed" =>
         \A i \in 1 .. sendLen : InPlace(sendQ[i], Len(wire) + i)

SendSound == SendFits /\ SendCounted /\ SendPlaced

\* What is handed to the kernel from the front of a queue is in its place.
LEMMA WireSound ==
  ASSUME SendSound, NEW n \in 0 .. sendLen, n = 0 \/ sendQ # <<>>,
         life # "freed", hand \in {"plain", "ssl"}, wire' = wire \o Sent(n),
         mishaps \subseteq mishaps'
  PROVE  /\ wire' \in Seq(Sendings) /\ Len(wire') = Len(wire) + n
         /\ {"busySend", "noMemory"} \cap mishaps' = {} =>
              \A i \in 1 .. Len(wire') : InPlace(wire[i].byte, i)'
  <1> USE DEF SendSound, SendFits
  <1>1. n \in 0 .. Len(sendQ)
    OBVIOUS
  <1>2. /\ Sent(n) \in Seq(Sendings) /\ Len(Sent(n)) = n
        /\ \A i \in 1 .. n : Sent(n)[i].byte = sendQ[i]
    BY <1>1, SentType
  <1>3. /\ wire' \in Seq(Sendings) /\ Len(wire') = Len(wire) + n
        /\ \A i \in 1 .. Len(wire) + n :
             wire'[i] = IF i <= Len(wire) THEN wire[i] ELSE Sent(n)[i - Len(wire)]
    <2>1. wire \in Seq(Sendings)
      OBVIOUS
    <2>2. Sent(n) \in Seq(Sendings)
      BY <1>2
    <2> HIDE DEF SendSound, SendFits
    <2>3. /\ wire \o Sent(n) \in Seq(Sendings)
          /\ Len(wire \o Sent(n)) = Len(wire) + Len(Sent(n))
          /\ \A i \in 1 .. Len(wire) + Len(Sent(n)) :
               (wire \o Sent(n))[i] =
                 IF i <= Len(wire) THEN wire[i] ELSE Sent(n)[i - Len(wire)]
      BY <2>1, <2>2, ConcatProperties
    <2> QED BY <1>2, <2>3
  <1>4. ASSUME {"busySend", "noMemory"} \cap mishaps' = {},
               NEW i \in 1 .. Len(wire')
        PROVE  InPlace(wire[i].byte, i)'
    <2>1. {"busySend", "noMemory"} \cap mishaps = {}
      BY <1>4
    <2>2. CASE i <= Len(wire)
      BY <1>3, <2>1, <2>2 DEF SendPlaced, InPlace
    <2>3. CASE i > Len(wire)
      <3>1. i - Len(wire) \in 1 .. n
        BY <1>3, <2>3
      <3>2. wire'[i].byte = sendQ[i - Len(wire)]
        BY <1>2, <1>3, <2>3, <3>1
      <3>3. InPlace(sendQ[i - Len(wire)], i)
        BY <2>1, <3>1 DEF SendPlaced
      <3> QED BY <3>2, <3>3 DEF InPlace
    <2> QED BY <1>3, <2>2, <2>3
  <1> QED BY <1>3, <1>4

\* Destroying the socket forgets the queue.
LEMMA DestroySend ==
  ASSUME SendSound, Destroy, wire' \in Seq(Sendings), mishaps \subseteq mishaps',
         {"busySend", "noMemory"} \cap mishaps' = {} =>
           \A i \in 1 .. Len(wire') : InPlace(wire[i].byte, i)'
  PROVE  SendSound'
  BY EmptySeq DEF Destroy, SendSound, SendFits, SendCounted, SendPlaced

\* A step that leaves the queue and what was sent of it alone
LEMMA SameSend ==
  ASSUME SendSound, UNCHANGED <<sending, retry, appended, wire>>,
         mishaps \subseteq mishaps', life' = "freed" \/ life # "freed"
  PROVE  SendSound'
  <1> USE DEF sending, SendSound
  <1>1. SendFits'
    BY DEF SendFits
  <1>2. SendCounted'
    BY DEF SendCounted
  <1>3. SendPlaced'
    BY DEF SendPlaced, InPlace
  <1> QED BY <1>1, <1>2, <1>3

\* lms_socket_appendq() copies, enlarges or loses the queue, and counts it.
LEMMA AppendQSend ==
  ASSUME SendSound, AppendQ
  PROVE  SendSound'
  <1> USE StreamBounds DEF SendSound
  <1>1. PICK n \in 1 .. MaxOut - appended :
          LET data == After(appended, n) IN
          \/ /\ sendSz > 0 /\ sendQ # <<>>
             /\ sendQ' = OCopy(data, sendQ \o Blank(n), n, sendLen)
             /\ sendSz' = sendSz + n /\ sendLen' = sendLen + n
             /\ retry' \in IF retry = "none" THEN {"none"} ELSE {retry, "moved"}
             /\ appended' = appended + n /\ Note("busySend")
          \/ /\ sendSz = 0
             /\ sendQ' = data /\ sendSz' = n /\ sendLen' = n
             /\ appended' = appended + n
             /\ UNCHANGED <<retry, mishaps>>
          \/ /\ sendQ' = <<>> /\ Note("noMemory")
             /\ UNCHANGED <<sendSz, sendLen, retry, appended>>
    BY DEF AppendQ
  <1>2. life # "freed" /\ life' = life /\ wire' = wire
    BY DEF AppendQ, Open, object
  <1>3. n \in Nat \ {0} /\ appended \in Nat /\ appended + n <= MaxOut
    BY DEF SendFits
  <1> DEFINE data == After(appended, n)
  <1>4. data \in Seq(0 .. MaxOut) /\ Len(data) = n
    BY <1>3, AfterType
  <1>5. \A i \in 1 .. n : data[i] = appended + i
    BY DEF After
  <1>6. CASE /\ sendSz > 0 /\ sendQ # <<>>
             /\ sendQ' = OCopy(data, sendQ \o Blank(n), n, sendLen)
             /\ sendSz' = sendSz + n /\ sendLen' = sendLen + n
             /\ retry' \in IF retry = "none" THEN {"none"} ELSE {retry, "moved"}
             /\ appended' = appended + n /\ Note("busySend")
    <2> HIDE DEF data
    <2>1. Blank(n) \in Seq(0 .. MaxOut) /\ Len(Blank(n)) = n
      BY <1>3, BlankType
    <2>2. sendQ \in Seq(0 .. MaxOut)
      BY DEF SendFits
    <2>3. /\ sendQ \o Blank(n) \in Seq(0 .. MaxOut)
          /\ Len(sendQ \o Blank(n)) = Len(sendQ) + n
      BY <2>1, <2>2, ConcatProperties
    <2>4. n \in 0 .. Len(data) /\ sendLen \in Nat
      BY <1>3, <1>4 DEF SendFits
    <2>5. sendQ' \in Seq(0 .. MaxOut) /\ Len(sendQ') = Len(sendQ) + n
      <3> DEFINE long == sendQ \o Blank(n)
                 T == 0 .. MaxOut
      <3>1. long \in Seq(T) /\ Len(long) = Len(sendQ) + n /\ data \in Seq(T)
        BY <1>4, <2>3
      <3>2. sendQ' = OCopy(data, long, n, sendLen)
        BY <1>6
      <3> HIDE DEF long, T
      <3>3. sendQ' \in Seq(T) /\ Len(sendQ') = Len(long)
        BY <2>4, <3>1, <3>2, OCopyType
      <3> QED BY <3>1, <3>3 DEF T
    <2>6. SendFits'
      <3>1. Len(sendQ) \in Nat
        BY <2>2, LenProperties
      <3> QED BY <1>2, <1>3, <1>6, <2>5, <3>1 DEF SendFits
    <2>7. SendCounted'
      <3>1. ASSUME "noMemory" \notin mishaps
            PROVE  /\ sendLen = sendSz /\ sendSz = Len(sendQ)
                   /\ Len(wire) + sendLen = appended
        BY <1>2, <3>1 DEF SendCounted
      <3>2. Len(wire) \in Nat /\ sendLen \in Nat
        BY LenProperties DEF SendFits
      <3>3. /\ sendLen' = sendLen + n /\ sendSz' = sendSz + n
            /\ appended' = appended + n /\ wire' = wire
            /\ Len(sendQ') = Len(sendQ) + n /\ mishaps \subseteq mishaps'
        BY <1>2, <1>6, <2>5 DEF Note
      <3> HIDE DEF SendSound
      <3> QED BY <1>3, <3>1, <3>2, <3>3 DEF SendCounted
    <2>8. SendPlaced'
      BY <1>6 DEF SendPlaced, Note
    <2> QED BY <2>6, <2>7, <2>8
  <1>7. CASE /\ sendSz = 0
             /\ sendQ' = data /\ sendSz' = n /\ sendLen' = n
             /\ appended' = appended + n
             /\ UNCHANGED <<retry, mishaps>>
    <2> HIDE DEF data
    <2>1. SendFits'
      BY <1>2, <1>3, <1>4, <1>7 DEF SendFits
    <2>2. ASSUME "noMemory" \notin mishaps
          PROVE  Len(wire) = appended
      <3>1. Len(wire) + sendLen = appended /\ sendLen = 0
        BY <1>2, <1>7, <2>2 DEF SendCounted
      <3>2. Len(wire) \in Nat
        BY LenProperties DEF SendFits
      <3> QED BY <3>1, <3>2
    <2>3. SendCounted'
      BY <1>2, <1>3, <1>4, <1>7, <2>2 DEF SendCounted
    <2>4. SendPlaced'
      BY <1>2, <1>3, <1>5, <1>7, <2>2 DEF SendPlaced, InPlace
    <2> QED BY <2>1, <2>3, <2>4
  <1>8. CASE /\ sendQ' = <<>> /\ Note("noMemory")
             /\ UNCHANGED <<sendSz, sendLen, retry, appended>>
    <2>1. SendFits'
      BY <1>2, <1>8, EmptySeq DEF SendFits
    <2> QED BY <1>8, <2>1 DEF SendCounted, SendPlaced, Note
  <1> QED BY <1>1, <1>6, <1>7, <1>8

\* A flush hands the front of the queue to the kernel and keeps the rest.
LEMMA FlushQSend ==
  ASSUME SendSound, life = "open", NEW now, FlushQ(now), hand \in {"plain", "ssl"},
         UNCHANGED <<life, appended>>
  PROVE  SendSound'
  <1> USE StreamBounds DEF SendSound
  <1>1. CASE UNCHANGED <<sending, retry, wire, mishaps>>
    BY <1>1, SameSend
  <1>2. CASE MayFlush(now)
    <2>1. PICK n \in 0 .. sendLen :
            /\ wire' = wire \o Sent(n)
            /\ \/ /\ n = sendLen
                  /\ sendQ' = <<>> /\ sendSz' = 0 /\ sendLen' = 0
                  /\ retry' = "none" /\ UNCHANGED mishaps
               \/ /\ n \in 1 .. sendLen - 1
                  /\ ClearSq(n)
                  /\ retry' = IF hand = "ssl" THEN "moved" ELSE retry
               \/ /\ n = 0
                  /\ retry' = IF hand = "ssl" THEN "same" ELSE retry
                  /\ UNCHANGED <<sending, mishaps>>
      BY <1>1, <1>2 DEF FlushQ
    <2>2. sendQ # <<>> /\ mishaps \subseteq mishaps'
      BY <1>2, <2>1 DEF MayFlush, ClearSq, Note
    <2>3. /\ wire' \in Seq(Sendings) /\ Len(wire') = Len(wire) + n
          /\ {"busySend", "noMemory"} \cap mishaps' = {} =>
               \A i \in 1 .. Len(wire') : InPlace(wire[i].byte, i)'
      BY <2>1, <2>2, WireSound
    <2>4. /\ Len(wire) \in Nat /\ sendLen \in Nat /\ n \in Nat /\ n <= sendLen
          /\ sendQ \in Seq(0 .. MaxOut) /\ Len(sendQ) \in Nat
          /\ sendLen <= Len(sendQ)
      BY <2>2, LenProperties DEF SendFits
    <2>5. CASE /\ n = sendLen
               /\ sendQ' = <<>> /\ sendSz' = 0 /\ sendLen' = 0
               /\ retry' = "none" /\ UNCHANGED mishaps
      <3>1. SendFits'
        BY <2>3, <2>5, EmptySeq DEF SendFits
      <3>2. SendCounted'
        BY <2>3, <2>4, <2>5, EmptySeq DEF SendCounted
      <3>3. SendPlaced'
        BY <2>3, <2>5 DEF SendPlaced
      <3> QED BY <3>1, <3>2, <3>3
    <2>6. CASE /\ n \in 1 .. sendLen - 1
               /\ ClearSq(n)
               /\ retry' = IF hand = "ssl" THEN "moved" ELSE retry
      <3> DEFINE rest == sendLen - n
                 left == OCopy(sendQ, Blank(rest), rest, n)
      <3>1. rest \in Nat /\ rest \in 0 .. Len(sendQ) /\ rest <= sendLen
        BY <2>4, <2>6
      <3>2. Blank(rest) \in Seq(0 .. MaxOut) /\ Len(Blank(rest)) = rest
        BY <3>1, BlankType
      <3>3. \A i \in 1 .. rest : Blank(rest)[i] = 0
        BY DEF Blank
      <3> HIDE DEF rest
      <3>4. /\ left \in Seq(0 .. MaxOut) /\ Len(left) = rest
            /\ \A i \in 1 .. rest :
                 left[i] = IF i + n <= rest THEN sendQ[i + n] ELSE 0
        <4> DEFINE T == 0 .. MaxOut
                   blank == Blank(rest)
        <4>1. /\ sendQ \in Seq(T) /\ blank \in Seq(T) /\ Len(blank) = rest
              /\ \A i \in 1 .. rest : blank[i] = 0
          BY <2>4, <3>2, <3>3
        <4> HIDE DEF T, blank
        <4>2. /\ OCopy(sendQ, blank, rest, n) \in Seq(T)
              /\ Len(OCopy(sendQ, blank, rest, n)) = Len(blank)
              /\ \A i \in 1 .. Len(blank) :
                   OCopy(sendQ, blank, rest, n)[i] =
                     IF i + n <= rest THEN sendQ[i + n] ELSE blank[i]
          BY <2>4, <3>1, <4>1, OCopyType
        <4> QED BY <4>1, <4>2 DEF T, blank
      <3> HIDE DEF left
      <3>5. CASE sendQ' = left /\ sendSz' = rest /\ Note("partSend") /\ sendLen' = rest
        <4>1. SendFits'
          BY <2>3, <2>4, <2>6, <3>1, <3>4, <3>5 DEF SendFits
        <4>2. SendCounted'
          BY <2>3, <2>4, <2>6, <3>4, <3>5 DEF SendCounted, Note, rest
        <4>3. ASSUME {"busySend", "noMemory"} \cap mishaps' = {},
                     NEW i \in 1 .. sendLen'
              PROVE  InPlace(sendQ[i], Len(wire) + i)'
          <5>1. "partSend" \in mishaps' /\ {"busySend", "noMemory"} \cap mishaps = {}
            BY <3>5, <4>3 DEF Note
          <5>2. i \in 1 .. rest /\ i \in Nat
            BY <3>1, <3>5
          <5>3. CASE i + n <= rest
            <6>1. i + n \in 1 .. sendLen
              BY <2>4, <3>1, <5>2, <5>3
            <6>2. InPlace(sendQ[i + n], Len(wire) + (i + n))
              BY <5>1, <6>1 DEF SendPlaced
            <6>3. sendQ'[i] = sendQ[i + n]
              BY <3>4, <3>5, <5>2, <5>3
            <6>4. Len(wire') + i = Len(wire) + (i + n)
              BY <2>3, <2>4, <5>2
            <6> QED BY <5>1, <6>2, <6>3, <6>4 DEF InPlace
          <5>4. CASE ~(i + n <= rest)
            BY <3>4, <3>5, <5>1, <5>2, <5>4 DEF InPlace
          <5> QED BY <5>3, <5>4
        <4>4. SendPlaced'
          BY <2>3, <4>3 DEF SendPlaced
        <4> QED BY <4>1, <4>2, <4>4
      <3>6. CASE /\ mishaps' = mishaps \cup {"partSend", "noMemory"}
                 /\ \/ UNCHANGED <<sendQ, sendSz>>
                    \/ sendQ' = <<>> /\ sendSz' = 0
                 /\ sendLen' = rest
        <4>1. SendFits'
          <5>1. CASE UNCHANGED <<sendQ, sendSz>>
            BY <2>3, <2>4, <2>6, <3>1, <3>6, <5>1 DEF SendFits
          <5>2. CASE sendQ' = <<>> /\ sendSz' = 0
            BY <2>3, <2>4, <2>6, <3>1, <3>6, <5>2, EmptySeq DEF SendFits
          <5> QED BY <3>6, <5>1, <5>2
        <4> QED BY <3>6, <4>1 DEF SendCounted, SendPlaced
      <3> QED BY <2>6, <3>5, <3>6 DEF ClearSq, left, rest
    <2>7. CASE /\ n = 0
               /\ retry' = IF hand = "ssl" THEN "same" ELSE retry
               /\ UNCHANGED <<sending, mishaps>>
      <3> USE DEF sending
      <3>1. SendFits'
        BY <2>3, <2>7 DEF SendFits
      <3>2. SendCounted'
        BY <2>3, <2>4, <2>7 DEF SendCounted
      <3>3. Len(wire') = Len(wire)
        BY <2>3, <2>4, <2>7
      <3>4. SendPlaced'
        BY <2>3, <2>7, <3>3 DEF SendPlaced, InPlace
      <3> QED BY <3>1, <3>2, <3>4
    <2> QED BY <2>1, <2>5, <2>6, <2>7
  <1> QED BY <1>1, <1>2 DEF FlushQ

\* Destroying the socket without a flush
LEMMA DropSend ==
  ASSUME SendSound, Destroy, wire' = wire, mishaps \subseteq mishaps'
  PROVE  SendSound'
  <1>1. wire' \in Seq(Sendings)
    BY DEF SendSound, SendFits
  <1>2. {"busySend", "noMemory"} \cap mishaps' = {} =>
          \A i \in 1 .. Len(wire') : InPlace(wire[i].byte, i)'
    BY DEF SendSound, SendPlaced, InPlace
  <1> QED BY <1>1, <1>2, DestroySend

\* A handshake leaves the queue alone, unless it destroys the socket.
LEMMA HandshakeSend ==
  ASSUME SendSound, life = "open", NEW now, Handshake(now)
  PROVE  SendSound'
  <1>1. CASE Destroy /\ Note("badShake") /\ UNCHANGED wire
    BY <1>1, DropSend DEF Note
  <1>2. CASE UNCHANGED <<life, sending, retry, history>>
    BY <1>2, SameSend DEF history
  <1> QED BY <1>1, <1>2 DEF Handshake, ssl

\* So does its start.
LEMMA StartSockSend ==
  ASSUME SendSound, life # "freed", NEW now, NEW to, StartSock(now, to)
  PROVE  SendSound'
  <1>1. CASE Destroy /\ Note("badShake") /\ UNCHANGED wire
    BY <1>1, DropSend DEF Note
  <1>2. CASE /\ UNCHANGED <<sending, retry, appended, wire>>
             /\ mishaps \subseteq mishaps'
    BY <1>2, SameSend
  <1> QED BY <1>1, <1>2 DEF StartSock, ssl, history, Note

\* func_w flushes or leaves the queue alone.
LEMMA FuncWSend ==
  ASSUME Phases, SendSound, life = "open", NEW now, FuncW(now)
  PROVE  SendSound'
  <1>1. CASE Handshake(now)
    BY <1>1, HandshakeSend
  <1>2. CASE hand # "handshake" /\ FlushQ(now) /\ UNCHANGED <<life, appended>>
    BY <1>2, FlushQSend DEF Phases
  <1> QED BY <1>1, <1>2 DEF FuncW

\* lms_socket_close() flushes before it destroys.
LEMMA CloseSend ==
  ASSUME Phases, SendSound, Close
  PROVE  SendSound'
  <1>1. /\ life = "open" /\ Destroy /\ mishaps \subseteq mishaps'
        /\ \/ wire' = wire
           \/ /\ hand \in {"plain", "ssl"} /\ MayFlush(flags)
              /\ \E n \in 0 .. sendLen : wire' = wire \o Sent(n)
    BY DEF Close, Open, Phases
  <1>2. CASE wire' = wire
    BY <1>1, <1>2, DropSend
  <1>3. ASSUME NEW n \in 0 .. sendLen, wire' = wire \o Sent(n),
               hand \in {"plain", "ssl"}, MayFlush(flags)
        PROVE  SendSound'
    <2>1. /\ wire' \in Seq(Sendings)
          /\ {"busySend", "noMemory"} \cap mishaps' = {} =>
               \A i \in 1 .. Len(wire') : InPlace(wire[i].byte, i)'
      BY <1>1, <1>3, WireSound DEF MayFlush
    <2> QED BY <1>1, <2>1, DestroySend
  <1> QED BY <1>1, <1>2, <1>3

\* At the start nothing is queued.
LEMMA InitSend == Init => SendSound
  BY EmptySeq, StreamBounds DEF Init, SendSound, SendFits, SendCounted, SendPlaced

\* Every step keeps the send queue sound.
LEMMA NextSend ==
  ASSUME Phases, SendSound, [Next]_vars
  PROVE  SendSound'
  <1>1. CASE AppendQ
    BY <1>1, AppendQSend
  <1>2. CASE SendQueue \/ WriteEvent
    BY <1>2, FuncWSend DEF SendQueue, WriteEvent, Open
  <1>3. CASE Close
    BY <1>3, CloseSend
  <1>4. CASE Iconn
    <2>1. \/ \E now, to : StartSock(now, to)
          \/ life' = "open" /\ UNCHANGED <<sending, ssl, history>>
      BY <1>4 DEF Iconn
    <2>2. life # "freed"
      BY <1>4 DEF Iconn
    <2>3. CASE life' = "open" /\ UNCHANGED <<sending, ssl, history>>
      BY <2>2, <2>3, SameSend DEF ssl, history
    <2> QED BY <2>1, <2>2, <2>3, StartSockSend
  <1>5. CASE StartSsl
    BY <1>5, StartSockSend DEF StartSsl, Open
  <1>6. CASE ReadEvent
    <2>1. CASE Handshake(flags)
      BY <1>6, <2>1, HandshakeSend DEF ReadEvent, Open
    <2>2. CASE /\ mishaps \subseteq mishaps'
               /\ UNCHANGED <<object, sending, ssl, appended, wire>>
      BY <1>6, <2>2, SameSend DEF ReadEvent, Open, object, ssl
    <2> QED BY <1>6, <2>1, <2>2 DEF ReadEvent, Room, NoteBusy, Note
  <1>7. CASE RecvEnd
    BY <1>7, DropSend DEF RecvEnd
  <1>8. CASE RecvSome
    <2>1. /\ mishaps \subseteq mishaps' /\ life = "open"
          /\ UNCHANGED <<object, sending, ssl, appended, wire>>
      BY <1>8 DEF RecvSome, Reading, Open, Room, NoteBusy, Note
    <2> QED BY <2>1, SameSend DEF object, ssl
  <1>9. CASE RecvBreak \/ ToldReturn \/ AddFd \/ FreeRq \/ Peer \/ Accept
    <2>1. /\ UNCHANGED <<sending, ssl, appended, wire, mishaps>>
          /\ life' = life \/ life = "new"
      BY <1>9 DEF RecvBreak, ToldReturn, AddFd, FreeRq, Peer, Connected,
                  PeerSends, PeerCloses, Accept, object, history
    <2> QED BY <2>1, SameSend DEF ssl
  <1>10. CASE UNCHANGED vars
    BY <1>10, SameSend DEF vars, object, ssl, history
  <1> QED BY <1>1, <1>2, <1>3, <1>4, <1>5, <1>6, <1>7, <1>8, <1>9, <1>10
          DEF Next, Application, Mux, Thread

-----------------------------------------------------------------------------
(* The receive queue *)

RecvFits ==
  /\ recvQ \in Seq(0 .. MaxIn) /\ recvSz \in Nat /\ recvLen \in Nat
  /\ peerSent \in 0 .. MaxIn /\ received \in 0 .. peerSent
  /\ recvLen <= received /\ told \in 0 .. received

RecvCounted ==
  "noMemory" \notin mishaps /\ life # "freed" =>
    /\ recvLen <= recvSz /\ recvSz = Len(recvQ)
    /\ pc = "read" => recvSz - recvLen >= Chunk

RecvPlaced ==
  {"busyRecv", "noMemory"} \cap mishaps = {} /\ life # "freed" =>
    \A i \in 1 .. recvLen : recvQ[i] = received - recvLen + i

RecvSound == RecvFits /\ RecvCounted /\ RecvPlaced

\* A step that leaves the queue alone, and does not begin to read
LEMMA SameRecv ==
  ASSUME RecvSound, UNCHANGED <<recving, received>>,
         peerSent' \in peerSent .. MaxIn, told' \in {told, received},
         mishaps \subseteq mishaps', life' = "freed" \/ life # "freed",
         pc' = pc \/ pc' # "read"
  PROVE  RecvSound'
  <1> USE DEF recving, RecvSound
  <1>1. RecvFits'
    BY DEF RecvFits
  <1>2. RecvCounted'
    BY DEF RecvCounted
  <1>3. RecvPlaced'
    BY DEF RecvPlaced
  <1> QED BY <1>1, <1>2, <1>3

\* Without a socket there is no queue.
LEMMA DropRecv ==
  ASSUME RecvSound, recvQ' = <<>>, recvSz' = 0, recvLen' = 0,
         UNCHANGED <<peerSent, received, told>>, pc' # "read" \/ life' = "freed"
  PROVE  RecvSound'
  <1> USE DEF RecvSound
  <1>1. RecvFits'
    BY EmptySeq DEF RecvFits
  <1>2. RecvCounted'
    BY EmptySeq DEF RecvCounted
  <1>3. RecvPlaced'
    BY DEF RecvPlaced
  <1> QED BY <1>1, <1>2, <1>3

\* The queue that Room() leaves has room for a whole Chunk.
LEMMA RoomRecv ==
  ASSUME RecvSound, NEW q \in Seq(0 .. MaxIn), NEW len \in Nat, Room(q, len, "read"),
         "noMemory" \notin mishaps => len <= recvSz /\ recvSz = Len(q)
  PROVE  /\ recvQ' \in Seq(0 .. MaxIn) /\ recvSz' \in Nat
         /\ pc' \in {"loop", "read"} /\ mishaps \subseteq mishaps'
         /\ "noMemory" \notin mishaps' =>
              /\ recvSz' = Len(recvQ') /\ recvSz' - len >= Chunk
              /\ \A i \in 1 .. len : recvQ'[i] = q[i]
              /\ "busyRecv" \notin mishaps' => recvLen = 0
  <1> USE ChunkAssumption DEF NoteBusy, Note, RecvSound, RecvFits
  <1>1. CASE /\ recvSz < len + Chunk
             /\ recvQ' = q \o Blank(Chunk) /\ recvSz' = recvSz + Chunk
             /\ pc' = "read" /\ NoteBusy
    <2>1. Blank(Chunk) \in Seq(0 .. MaxIn) /\ Len(Blank(Chunk)) = Chunk
      BY StreamBounds, BlankType
    <2>2. /\ recvQ' \in Seq(0 .. MaxIn) /\ Len(recvQ') = Len(q) + Chunk
          /\ \A i \in 1 .. Len(q) + Chunk :
               recvQ'[i] = IF i <= Len(q) THEN q[i] ELSE Blank(Chunk)[i - Len(q)]
      <3> DEFINE T == 0 .. MaxIn
                 blank == Blank(Chunk)
      <3>1. q \in Seq(T) /\ blank \in Seq(T) /\ Len(blank) = Chunk /\ recvQ' = q \o blank
        BY <1>1, <2>1
      <3> HIDE DEF T, blank, RecvSound, RecvFits
      <3>2. /\ q \o blank \in Seq(T) /\ Len(q \o blank) = Len(q) + Len(blank)
            /\ \A i \in 1 .. Len(q) + Len(blank) :
                 (q \o blank)[i] = IF i <= Len(q) THEN q[i] ELSE blank[i - Len(q)]
        BY <3>1, ConcatProperties
      <3> QED BY <3>1, <3>2 DEF T, blank
    <2>3. mishaps \subseteq mishaps' /\ ("busyRecv" \notin mishaps' => recvLen = 0)
      BY <1>1
    <2>4. Len(q) \in Nat
      BY LenProperties
    <2>5. recvSz' \in Nat /\ pc' = "read" /\ recvQ' \in Seq(0 .. MaxIn)
      BY <1>1, <2>2
    <2>6. ASSUME "noMemory" \notin mishaps
          PROVE  recvSz' = Len(recvQ') /\ recvSz' - len >= Chunk
      <3>1. len <= recvSz /\ recvSz = Len(q)
        BY <2>6
      <3>2. recvSz' = recvSz + Chunk /\ Len(recvQ') = Len(q) + Chunk
        BY <1>1, <2>2
      <3> HIDE DEF RecvSound, RecvFits
      <3> QED BY <2>4, <3>1, <3>2
    <2>7. ASSUME "noMemory" \notin mishaps, NEW i \in 1 .. len
          PROVE  recvQ'[i] = q[i]
      <3>1. len <= Len(q)
        BY <2>7
      <3>2. i \in 1 .. Len(q) + Chunk /\ i <= Len(q)
        BY <2>4, <3>1
      <3> QED BY <2>2, <3>2
    <2> QED BY <2>3, <2>5, <2>6, <2>7
  <1>2. CASE recvQ' = <<>> /\ pc' = "loop" /\ Note("noMemory") /\ UNCHANGED recvSz
    BY <1>2, EmptySeq
  <1>3. CASE /\ recvSz >= len + Chunk
             /\ recvQ' = q /\ pc' = "read" /\ NoteBusy /\ UNCHANGED recvSz
    BY <1>3
  <1> QED BY <1>1, <1>2, <1>3 DEF Room

\* What recv() gives goes behind what was read before.
LEMMA RecvSomeRecv ==
  ASSUME RecvSound, RecvSome
  PROVE  RecvSound'
  <1> USE StreamBounds, ChunkAssumption DEF RecvSound
  <1>1. PICK n \in 1 .. Smaller(Chunk, peerSent - received) :
          /\ recvLen' = recvLen + n /\ received' = received + n
          /\ Room(OCopy(After(received, n), recvQ, n, recvLen), recvLen + n, "read")
    BY DEF RecvSome
  <1>2. pc = "read" /\ life = "open" /\ UNCHANGED <<life, peerSent, told>>
    BY DEF RecvSome, Reading, Open, object
  <1>3. /\ n \in Nat \ {0} /\ n <= Chunk /\ received + n <= peerSent
        /\ {received, peerSent, recvLen, recvSz} \subseteq Nat /\ peerSent <= MaxIn
    BY DEF Smaller, RecvFits
  <1> DEFINE data == After(received, n)
             q == OCopy(data, recvQ, n, recvLen)
             T == 0 .. MaxIn
  <1>4. data \in Seq(T) /\ Len(data) = n
    BY <1>3, AfterType
  <1>5. \A i \in 1 .. n : data[i] = received + i
    BY DEF After
  <1>6. recvQ \in Seq(T)
    BY DEF RecvFits
  <1>7. Room(q, recvLen + n, "read")
    BY <1>1
  <1> HIDE DEF data, T
  <1>8. /\ q \in Seq(T) /\ Len(q) = Len(recvQ)
        /\ \A i \in 1 .. Len(recvQ) :
             q[i] = IF i + recvLen <= n THEN data[i + recvLen] ELSE recvQ[i]
    <2>1. n \in 0 .. Len(data) /\ recvLen \in Nat
      BY <1>3, <1>4
    <2> HIDE DEF RecvSound
    <2> QED BY <1>4, <1>6, <2>1, OCopyType
  <1> HIDE DEF q
  <1>9. "noMemory" \notin mishaps =>
          recvLen + n <= recvSz /\ recvSz = Len(q)
    BY <1>2, <1>3, <1>8 DEF RecvCounted
  <1>10. /\ recvQ' \in Seq(0 .. MaxIn) /\ recvSz' \in Nat
         /\ mishaps \subseteq mishaps'
         /\ "noMemory" \notin mishaps' =>
              /\ recvSz' = Len(recvQ') /\ recvSz' - recvLen' >= Chunk
              /\ \A i \in 1 .. recvLen' : recvQ'[i] = q[i]
              /\ "busyRecv" \notin mishaps' => recvLen = 0
    <2>1. recvLen + n \in Nat /\ q \in Seq(0 .. MaxIn)
      BY <1>3, <1>8 DEF T
    <2> HIDE DEF RecvSound
    <2> QED BY <1>1, <1>7, <1>9, <2>1, RoomRecv
  <1>11. RecvFits'
    BY <1>1, <1>2, <1>3, <1>10 DEF RecvFits
  <1>12. RecvCounted'
    BY <1>1, <1>3, <1>10 DEF RecvCounted
  <1>13. RecvPlaced'
    <2> SUFFICES ASSUME {"busyRecv", "noMemory"} \cap mishaps' = {},
                        NEW i \in 1 .. recvLen'
                 PROVE  recvQ'[i] = received' - recvLen' + i
      BY DEF RecvPlaced
    <2>1. recvLen = 0 /\ i \in 1 .. n /\ recvQ'[i] = q[i]
      <3>1. "busyRecv" \notin mishaps' /\ "noMemory" \notin mishaps'
        OBVIOUS
      <3>2. recvLen = 0 /\ recvLen' = n /\ recvQ'[i] = q[i]
        BY <1>1, <1>3, <1>10, <3>1
      <3> QED BY <3>2
    <2>2. i \in 1 .. Len(recvQ)
      BY <1>3, <1>8, <1>9, <1>10, <2>1
    <2>3. q[i] = received + i
      BY <1>3, <1>5, <1>8, <2>1, <2>2
    <2> QED BY <1>1, <1>3, <2>1, <2>3
  <1> QED BY <1>11, <1>12, <1>13

\* The read callback begins to read with room for a Chunk.
LEMMA ReadEventRecv ==
  ASSUME RecvSound, ReadEvent, hand # "handshake"
  PROVE  RecvSound'
  <1> USE StreamBounds, ChunkAssumption DEF RecvSound
  <1>1. /\ \/ /\ recvSz > 0 /\ recvQ # <<>> /\ Room(recvQ, recvLen, "read")
           \/ /\ recvSz = 0 \/ recvQ = <<>>
              /\ recvQ' = Blank(Chunk) /\ recvSz' = Chunk /\ UNCHANGED mishaps
        /\ UNCHANGED <<recvLen, received, peerSent, told, life>> /\ life = "open"
    BY DEF ReadEvent, Open, object, kernel
  <1>2. /\ recvQ \in Seq(0 .. MaxIn) /\ recvLen \in Nat
        /\ "noMemory" \notin mishaps => recvLen <= recvSz /\ recvSz = Len(recvQ)
    BY <1>1 DEF RecvFits, RecvCounted
  <1>3. CASE Room(recvQ, recvLen, "read")
    <2>1. /\ recvQ' \in Seq(0 .. MaxIn) /\ recvSz' \in Nat
          /\ mishaps \subseteq mishaps'
          /\ "noMemory" \notin mishaps' =>
               /\ recvSz' = Len(recvQ') /\ recvSz' - recvLen >= Chunk
               /\ \A i \in 1 .. recvLen : recvQ'[i] = recvQ[i]
      BY <1>2, <1>3, RoomRecv
    <2>2. RecvFits'
      BY <1>1, <2>1 DEF RecvFits
    <2>3. RecvCounted'
      <3>1. recvLen' = recvLen /\ recvLen \in Nat /\ recvSz' \in Nat
        BY <1>1, <1>2, <2>1
      <3>2. ASSUME "noMemory" \notin mishaps'
            PROVE  /\ recvLen' <= recvSz' /\ recvSz' = Len(recvQ')
                   /\ recvSz' - recvLen' >= Chunk
        <4>1. recvSz' = Len(recvQ') /\ recvSz' - recvLen >= Chunk
          BY <2>1, <3>2
        <4>2. recvLen <= recvSz'
          BY <3>1, <4>1
        <4> QED BY <3>1, <4>1, <4>2
      <3> QED BY <3>2 DEF RecvCounted
    <2>4. RecvPlaced'
      BY <1>1, <2>1 DEF RecvPlaced
    <2> QED BY <2>2, <2>3, <2>4
  <1>4. CASE /\ recvSz = 0 \/ recvQ = <<>>
             /\ recvQ' = Blank(Chunk) /\ recvSz' = Chunk /\ UNCHANGED mishaps
    <2>1. Blank(Chunk) \in Seq(0 .. MaxIn) /\ Len(Blank(Chunk)) = Chunk
      BY BlankType
    <2>2. "noMemory" \notin mishaps => recvLen = 0
      BY <1>2, <1>4, EmptySeq
    <2>3. RecvFits'
      BY <1>1, <1>4, <2>1 DEF RecvFits
    <2>4. RecvCounted'
      BY <1>1, <1>4, <2>1, <2>2 DEF RecvCounted
    <2>5. RecvPlaced'
      BY <1>1, <1>4, <2>2 DEF RecvPlaced
    <2> QED BY <2>3, <2>4, <2>5
  <1> QED BY <1>1, <1>3, <1>4

\* At the start nothing is received.
LEMMA InitRecv == Init => RecvSound
  BY EmptySeq, StreamBounds DEF Init, RecvSound, RecvFits, RecvCounted, RecvPlaced

\* Every step keeps the receive queue sound.
LEMMA NextRecv ==
  ASSUME Phases, RecvSound, [Next]_vars
  PROVE  RecvSound'
  <1>1. CASE RecvSome
    BY <1>1, RecvSomeRecv
  <1>2. CASE ReadEvent /\ hand # "handshake"
    BY <1>2, ReadEventRecv
  <1>3. CASE \E now : Handshake(now) /\ UNCHANGED pc /\ life = "open" /\ pc # "read"
    <2>1. CASE Destroy
      BY <1>3, <2>1, DropRecv DEF Destroy
    <2>2. CASE UNCHANGED <<life, recving, kernel, history>>
      BY <1>3, <2>2, SameRecv DEF kernel, history, RecvSound, RecvFits
    <2> QED BY <1>3, <2>1, <2>2 DEF Handshake
  <1>4. CASE \E now, to :
               StartSock(now, to) /\ UNCHANGED pc /\ life # "freed" /\ pc # "read"
    <2>1. CASE Destroy
      BY <1>4, <2>1, DropRecv DEF Destroy
    <2>2. CASE /\ UNCHANGED <<recving, peerSent, received, told>>
               /\ mishaps \subseteq mishaps'
      BY <1>4, <2>2, SameRecv DEF RecvSound, RecvFits
    <2> QED BY <1>4, <2>1, <2>2 DEF StartSock, history, Note
  <1>5. CASE SendQueue \/ WriteEvent
    <2>1. UNCHANGED pc /\ life = "open" /\ pc # "read" /\ \E now : FuncW(now)
      BY <1>5 DEF SendQueue, WriteEvent, Open, control
    <2>2. CASE \E now : /\ FlushQ(now)
                        /\ UNCHANGED <<life, recving, kernel, told>>
      <3>1. mishaps \subseteq mishaps'
        BY <2>2 DEF FlushQ, ClearSq, Note
      <3> QED BY <2>1, <2>2, <3>1, SameRecv DEF kernel, RecvSound, RecvFits
    <2> QED BY <1>3, <2>1, <2>2 DEF FuncW
  <1>6. CASE ReadEvent /\ hand = "handshake"
    BY <1>3, <1>6 DEF ReadEvent, Open, control
  <1>7. CASE Iconn
    <2>1. /\ UNCHANGED pc /\ life = "new" /\ pc # "read"
          /\ \/ \E now, to : StartSock(now, to)
             \/ UNCHANGED <<recving, peerSent, received, history>>
      BY <1>7 DEF Iconn, control, Phases
    <2>2. CASE UNCHANGED <<recving, peerSent, received, history>>
      BY <2>1, <2>2, SameRecv DEF history, RecvSound, RecvFits
    <2> QED BY <1>4, <2>1, <2>2
  <1>8. CASE StartSsl
    BY <1>4, <1>8 DEF StartSsl, Open, control
  <1>9. CASE Close \/ RecvEnd
    BY <1>9, DropRecv DEF Close, RecvEnd, Destroy, Open
  <1>10. CASE FreeRq
    BY <1>10, DropRecv DEF FreeRq, control, kernel, history
  <1>11. CASE AppendQ
    <2>1. /\ mishaps \subseteq mishaps'
          /\ UNCHANGED <<life, recving, pc, kernel, told>>
      BY <1>11 DEF AppendQ, Note, object, control
    <2> QED BY <2>1, SameRecv DEF kernel, RecvSound, RecvFits
  <1>12. CASE RecvBreak \/ ToldReturn
    <2>1. /\ UNCHANGED <<life, recving, kernel, mishaps>> /\ told' \in {told, received}
          /\ pc' = pc \/ pc' # "read"
      BY <1>12 DEF RecvBreak, ToldReturn, object, history
    <2> QED BY <2>1, SameRecv DEF kernel, RecvSound, RecvFits
  <1>13. CASE AddFd \/ Accept \/ UNCHANGED vars
    <2>1. /\ UNCHANGED <<recving, pc, kernel, told, mishaps>> \/ Accept
          /\ UNCHANGED <<recving, pc, peerSent, received, told, mishaps>>
          /\ life' = life \/ life = "new"
      BY <1>13 DEF AddFd, Accept, vars, object, control, kernel, history
    <2> QED BY <2>1, SameRecv DEF RecvSound, RecvFits
  <1>14. CASE Peer
    <2>1. /\ UNCHANGED <<life, recving, pc, received, told, mishaps>>
          /\ peerSent' = peerSent \/ (peerSent < MaxIn /\ peerSent' = peerSent + 1)
      BY <1>14 DEF Peer, Connected, PeerSends, PeerCloses, object, control, history
    <2>2. peerSent' \in peerSent .. MaxIn
      BY <2>1, StreamBounds DEF RecvSound, RecvFits
    <2> QED BY <2>1, <2>2, SameRecv
  <1> QED BY <1>1, <1>2, <1>5, <1>6, <1>7, <1>8, <1>9, <1>10, <1>11, <1>12, <1>13,
             <1>14 DEF Next, Application, Mux, Thread

-----------------------------------------------------------------------------
(* The other values *)

OthersTyped ==
  /\ opt \in BOOLEAN /\ flags \subseteq FlagNames /\ inMux \in BOOLEAN
  /\ reader \in {"plain", "ssl"} /\ got \in BOOLEAN
  /\ link \in {"none", "connecting", "refused", "up", "eof"}
  /\ mishaps \subseteq Mishaps
  /\ fault \in {"none", "registered", "stamped", "closed"}

\* At the start the other variables hold values of their kinds.
LEMMA InitOthers == Init => OthersTyped
  BY DEF Init, OthersTyped

\* A handshake keeps the types of the other variables.
LEMMA HandshakeOthers ==
  ASSUME OthersTyped, NEW now \in SUBSET FlagNames, Handshake(now),
         UNCHANGED <<reader, got, fault>>
  PROVE  OthersTyped'
  BY DEF OthersTyped, Handshake, Shaken, Destroy, Note, Mishaps, FlagNames,
         kernel, history

\* So does its start.
LEMMA StartSockOthers ==
  ASSUME OthersTyped, NEW now \in SUBSET FlagNames,
         NEW to \in {"none", "connecting", "refused", "up", "eof"},
         StartSock(now, to), UNCHANGED <<reader, got>>, opt' \in BOOLEAN,
         fault' \in {"none", "registered", "stamped", "closed"}
  PROVE  OthersTyped'
  <1> USE DEF OthersTyped, Note, Mishaps, FlagNames, history
  <1>1. CASE /\ Note("noSession") /\ flags' = now /\ link' = to /\ UNCHANGED inMux
    BY <1>1
  <1>2. CASE /\ flags' = now \cup {"SSL", "SSLHDSHK"} /\ link' = to
             /\ UNCHANGED <<inMux, history>>
    BY <1>2
  <1>3. CASE Destroy /\ Note("badShake")
    BY <1>3 DEF Destroy
  <1> QED BY <1>1, <1>2, <1>3 DEF StartSock

\* So does func_w.
LEMMA FuncWOthers ==
  ASSUME OthersTyped, NEW now \in SUBSET FlagNames, FuncW(now),
         UNCHANGED <<reader, got, fault>>
  PROVE  OthersTyped'
  <1>1. CASE Handshake(now)
    BY <1>1, HandshakeOthers
  <1>2. CASE FlushQ(now) /\ flags' = now /\ UNCHANGED <<opt, inMux, kernel>>
    <2>1. mishaps' \subseteq Mishaps
      BY <1>2 DEF FlushQ, ClearSq, Note, Mishaps, OthersTyped
    <2> QED BY <1>2, <2>1 DEF OthersTyped, kernel
  <1> QED BY <1>1, <1>2 DEF FuncW

\* So does every step.
LEMMA NextOthers ==
  ASSUME Phases, OthersTyped, [Next]_vars
  PROVE  OthersTyped'
  <1>1. CASE Iconn
    <2>1. PICK to \in {"connecting", "up"} :
            LET now == IF to = "up" THEN {"CONNECTED"} ELSE {"WAITCONN"}
            IN \/ /\ flags' = now /\ link' = to
                  /\ UNCHANGED <<inMux, history>>
               \/ StartSock(now, to)
      BY <1>1 DEF Iconn
    <2> DEFINE now == IF to = "up" THEN {"CONNECTED"} ELSE {"WAITCONN"}
    <2>2. now \in SUBSET FlagNames
      BY DEF FlagNames
    <2> HIDE DEF now
    <2>3. /\ UNCHANGED <<opt, reader, got>>
          /\ fault' \in {"none", "registered", "stamped", "closed"}
      BY <1>1 DEF Iconn, control, OthersTyped
    <2>4. CASE StartSock(now, to)
      BY <2>2, <2>3, <2>4, StartSockOthers DEF OthersTyped
    <2>5. CASE flags' = now /\ link' = to /\ UNCHANGED <<inMux, history>>
      BY <2>2, <2>3, <2>5 DEF OthersTyped, history
    <2> QED BY <2>1, <2>4, <2>5 DEF now
  <1>2. CASE StartSsl
    <2>1. /\ StartSock(flags, link) /\ opt' = TRUE
          /\ UNCHANGED <<reader, got, fault>>
      BY <1>2 DEF StartSsl, control
    <2> QED BY <2>1, StartSockOthers DEF OthersTyped
  <1>3. CASE SendQueue
    BY <1>3, FuncWOthers DEF SendQueue, control, OthersTyped
  <1>4. CASE WriteEvent
    <2>1. (flags \ {"WAITCONN"}) \cup {"CONNECTED"} \in SUBSET FlagNames
      BY DEF OthersTyped, FlagNames
    <2> QED BY <1>4, <2>1, FuncWOthers DEF WriteEvent, control
  <1>5. CASE ReadEvent /\ hand = "handshake"
    BY <1>5, HandshakeOthers DEF ReadEvent, control, OthersTyped
  <1>6. CASE ReadEvent /\ hand # "handshake"
    <2>1. /\ mishaps' \subseteq Mishaps /\ reader' = hand /\ got' = FALSE
          /\ UNCHANGED <<object, link, fault>>
      BY <1>6 DEF ReadEvent, Room, NoteBusy, Note, kernel, OthersTyped, Mishaps
    <2> QED BY <1>6, <2>1 DEF OthersTyped, Phases, object
  <1>7. CASE Close
    <2>1. /\ mishaps' \subseteq Mishaps /\ fault' \in {fault, "closed"}
          /\ Destroy /\ UNCHANGED <<opt, reader, got>>
      BY <1>7 DEF Close, OthersTyped, Mishaps, control
    <2> QED BY <2>1 DEF OthersTyped, Destroy
  <1>8. CASE RecvEnd
    BY <1>8 DEF RecvEnd, Destroy, OthersTyped
  <1>9. CASE RecvSome
    <2>1. /\ mishaps' \subseteq Mishaps /\ got' = TRUE
          /\ UNCHANGED <<object, reader, link, fault>>
      BY <1>9 DEF RecvSome, Room, NoteBusy, Note, OthersTyped, Mishaps
    <2> QED BY <2>1 DEF OthersTyped, object
  <1>10. CASE AppendQ
    <2>1. mishaps' \subseteq Mishaps /\ UNCHANGED <<object, control, kernel, fault>>
      BY <1>10 DEF AppendQ, Note, OthersTyped, Mishaps
    <2> QED BY <2>1 DEF OthersTyped, object, control, kernel
  <1>11. CASE Accept \/ AddFd \/ FreeRq
    BY <1>11 DEF Accept, AddFd, FreeRq, OthersTyped, object, control, kernel,
                 history, FlagNames
  <1>12. CASE RecvBreak \/ ToldReturn
    BY <1>12 DEF RecvBreak, ToldReturn, OthersTyped, object, kernel, history
  <1>13. CASE Peer
    BY <1>13 DEF Peer, Connected, PeerSends, PeerCloses, OthersTyped, object,
                 control, history
  <1>14. CASE UNCHANGED vars
    BY <1>14 DEF vars, OthersTyped, object, control, kernel, history
  <1> QED BY <1>1, <1>2, <1>3, <1>4, <1>5, <1>6, <1>7, <1>8, <1>9, <1>10, <1>11,
             <1>12, <1>13, <1>14 DEF Next, Application, Mux, Thread

-----------------------------------------------------------------------------
(* The properties *)

Inv == Phases /\ SendSound /\ RecvSound /\ OthersTyped

\* The layers hold together in every reachable state.
THEOREM InvCorrect == Spec => []Inv
  <1>1. Init => Inv
    BY InitPhases, InitSend, InitRecv, InitOthers DEF Inv
  <1>2. Inv /\ [Next]_vars => Inv'
    BY NextPhases, NextSend, NextRecv, NextOthers DEF Inv
  <1> QED BY <1>1, <1>2, PTL DEF Spec

\* Every variable holds a value of its kind, within its bound.
THEOREM TypeCorrect == Spec => []TypeOK
  <1>1. Inv => TypeOK
    BY StreamBounds DEF Inv, Phases, SendSound, SendFits, RecvSound, RecvFits,
                        OthersTyped, TypeOK, Sendings
  <1> QED BY <1>1, InvCorrect, PTL

\* The recorded lengths and sizes agree with the queues, every recv() has room
\* for a whole Chunk, and every byte appended is sent or still counted, unless
\* memory was refused (socket.c:1025-1339, ssl.c:660-900).
THEOREM QueuesCorrect == Spec => []QueuesCounted
  <1>1. Inv => QueuesCounted
    BY DEF Inv, SendSound, SendCounted, RecvSound, RecvCounted, QueuesCounted, Fine
  <1> QED BY <1>1, InvCorrect, PTL

\* Bytes are sent and received in their places while no queue is appended to
\* that has bytes in it; after a part was sent a 0 may come instead.
THEOREM BytesCorrect == Spec => []BytesInPlace
  <1>1. Inv => BytesInPlace
    BY DEF Inv, SendSound, SendPlaced, InPlace, RecvSound, RecvPlaced,
           BytesInPlace, Fine
  <1> QED BY <1>1, InvCorrect, PTL

\* The flags, the session and the functions of an open socket agree
\* (ssl.c:600-660, socket.c:831-920).
THEOREM PhasesCorrect == Spec => []PhasesAgree
  <1>1. Inv => PhasesAgree
    BY DEF Inv, Phases
  <1> QED BY <1>1, InvCorrect, PTL

\* Only a failed handshake and a func_p that lets the socket go make the
\* library use a freed socket.
THEOREM FreedCorrect == Spec => []FreedIsNotUsed
  <1>1. Inv => FreedIsNotUsed
    BY DEF Inv, Phases, Explained, FreedIsNotUsed
  <1> QED BY <1>1, InvCorrect, PTL

\* A handshake sends no bytes of the queue.
LEMMA HandshakeKeepsWire ==
  ASSUME NEW now, Handshake(now)
  PROVE  wire' = wire
  BY DEF Handshake, history

\* Nor does its start.
LEMMA StartSockKeepsWire ==
  ASSUME NEW now, NEW to, StartSock(now, to)
  PROVE  wire' = wire
  BY DEF StartSock, history

\* A connection with LMSOPTION_SSL sends nothing in the clear, unless OpenSSL
\* had no session for it.
THEOREM ClearCorrect == Spec => NothingInClear
  <1> DEFINE Step ==
        opt /\ "noSession" \notin mishaps =>
          \A i \in Len(wire) + 1 .. Len(wire') : wire'[i].how = "ssl"
  <1>1. ASSUME Inv, [Next]_vars
        PROVE  Step
    <2> SUFFICES ASSUME opt, "noSession" \notin mishaps,
                        NEW i \in Len(wire) + 1 .. Len(wire')
                 PROVE  wire'[i].how = "ssl"
      OBVIOUS
    <2>1. Len(wire) \in Nat
      BY <1>1, LenProperties DEF Inv, SendSound, SendFits
    <2>2. wire' # wire
      BY <2>1
    <2>3. ASSUME NEW n \in 0 .. sendLen, wire' = wire \o Sent(n),
                 sendQ # <<>>, life = "open", hand # "handshake"
          PROVE  wire'[i].how = "ssl"
      <3>1. hand = "ssl"
        BY <1>1, <2>3 DEF Inv, Phases
      <3>2. /\ n \in 0 .. Len(sendQ) /\ sendQ \in Seq(0 .. MaxOut)
            /\ wire \in Seq(Sendings)
        BY <1>1, <2>3, LenProperties DEF Inv, SendSound, SendFits
      <3>3. /\ Sent(n) \in Seq(Sendings) /\ Len(Sent(n)) = n
            /\ \A j \in 1 .. n : Sent(n)[j].how = "ssl"
        BY <3>1, <3>2, SentType
      <3>4. /\ Len(wire') = Len(wire) + n
            /\ \A j \in 1 .. Len(wire) + n :
                 wire'[j] = IF j <= Len(wire) THEN wire[j] ELSE Sent(n)[j - Len(wire)]
        BY <2>3, <3>2, <3>3, ConcatProperties
      <3>5. i - Len(wire) \in 1 .. n /\ i \in 1 .. Len(wire) + n /\ ~(i <= Len(wire))
        BY <2>1, <3>2, <3>4
      <3> QED BY <3>3, <3>4, <3>5
    <2>4. ASSUME NEW now, FuncW(now), life = "open"
          PROVE  wire'[i].how = "ssl"
      <3>1. hand # "handshake" /\ FlushQ(now)
        BY <1>1, <2>2, <2>4, HandshakeKeepsWire DEF FuncW
      <3> QED BY <2>2, <2>3, <2>4, <3>1 DEF FlushQ, MayFlush
    <2>5. CASE SendQueue \/ WriteEvent
      BY <2>4, <2>5 DEF SendQueue, WriteEvent, Open
    <2>6. CASE Close
      BY <2>2, <2>3, <2>6 DEF Close, Open, MayFlush
    <2>7. CASE Iconn
      BY <2>2, <2>7, StartSockKeepsWire DEF Iconn, history
    <2>8. CASE StartSsl
      BY <2>2, <2>8, StartSockKeepsWire DEF StartSsl
    <2>9. CASE ReadEvent
      BY <2>2, <2>9, HandshakeKeepsWire DEF ReadEvent
    <2>10. CASE \/ Accept \/ AddFd \/ FreeRq \/ AppendQ \/ RecvSome \/ RecvBreak
                \/ RecvEnd \/ ToldReturn \/ Peer \/ UNCHANGED vars
      BY <2>2, <2>10 DEF Accept, AddFd, FreeRq, AppendQ, RecvSome, RecvBreak, RecvEnd,
                         ToldReturn, Peer, Connected, PeerSends, PeerCloses, vars,
                         history
    <2> QED BY <1>1, <2>5, <2>6, <2>7, <2>8, <2>9, <2>10
            DEF Next, Application, Mux, Thread
  <1> QED BY <1>1, InvCorrect, PTL DEF Spec, NothingInClear
=============================================================================
