------------------------------ MODULE Transport ------------------------------
(***************************************************************************)
(* One stream connection of libmsocket: its send and receive queues        *)
(* (src/msocket/socket.c), the copying under them (lms_str_ocopy() of      *)
(* str.c), the SSL session laid over it (ssl.c), and the functions of the  *)
(* socket's life that call into these (iaccept, iconn, close, destroy, the *)
(* callbacks of mux.c, default_error of conn.c).                           *)
(*                                                                         *)
(* A byte is its number in the stream it belongs to; 0 is a byte nobody    *)
(* sent (zeroed or uninitialised memory).  The 1024 bytes that a queue     *)
(* grows by and one recv() asks for are Chunk.  The thread reads in steps, *)
(* because the peer goes on sending meanwhile; the application acts in the *)
(* loop and inside func_p.                                                 *)
(*                                                                         *)
(* Using the socket after it was freed ends a behaviour in a `fault'.      *)
(* `appended', `wire', `told' and `mishaps' are histories: no guard of the *)
(* code's actions reads them, except that the bound MaxOut is on appended. *)
(*                                                                         *)
(* OpenSSL is external: a handshake goes on, is done or fails; a write     *)
(* takes any part.  A write it could not finish has to be repeated from    *)
(* the same buffer (SSL_MODE_ACCEPT_MOVING_WRITE_BUFFER is not set), or    *)
(* SSL_write() fails.                                                      *)
(*                                                                         *)
(* Abstracted: addresses, options other than SSL, times, byte counters,    *)
(* DNS look-ups and corpses (Sockets has them); OpenSSL's records.         *)
(***************************************************************************)
EXTENDS Integers, Sequences

CONSTANTS
  Chunk,     \* 1024: what a queue grows by, and the most one recv() brings
  MaxOut,    \* bound: bytes the application appends
  MaxIn,     \* bound: bytes the peer sends
  MayLack    \* whether malloc(), realloc() and SSL_new() may refuse

ASSUME ChunkAssumption == Chunk \in Nat \ {0}
ASSUME StreamBounds == MaxOut \in Nat /\ MaxIn \in Nat
ASSUME MayLackAssumption == MayLack \in BOOLEAN

FlagNames == {"CONNECTED", "WAITCONN", "SSL", "SSLHDSHK", "SSLRDY"}
Mishaps == {"noMemory",    \* a queue could not be allocated
            "noSession",   \* SSL could not be started on the socket
            "busySend",    \* an append to a queue with bytes in it
            "partSend",    \* only a part of a queue was sent
            "busyRecv",    \* bytes came for a queue with bytes in it
            "badShake",    \* the handshake failed
            "goneInside"}  \* the application closed the socket in func_p

VARIABLES
  life,      \* "new" until the socket has a descriptor, "open", "freed"
  opt,       \* LMSOPTION_SSL is set in m->opts
  flags,     \* m->flags
  hand,      \* m->func_r and m->func_w: "plain", "handshake" or "ssl"
  inMux,     \* the mux watches the descriptor
  sendQ, sendSz, sendLen,  \* m->sendQ (<<>> for NULL), its size, its length
  recvQ, recvSz, recvLen,  \* the same for m->recvQ
  pc,        \* "loop", "read" in a read function, "told" in its func_p
  reader,    \* the read function the thread is in: "plain" or "ssl"
  got,       \* its callpfunc
  session,   \* _lms_ssl_list[fd]: "none", "shaking" or "ready"
  retry,     \* the write OpenSSL wants repeated: "none", "same" or "moved"
  link,      \* the connection: "none", "connecting", "refused", "up", "eof"
  peerSent,  \* bytes the peer has sent
  received,  \* of these, the bytes taken from the kernel
  appended,  \* history: bytes the application gave to lms_socket_appendq()
  wire,      \* history: bytes handed to the kernel, each with how
  told,      \* history: bytes received when func_p was last called
  mishaps,   \* history: the Mishaps so far
  fault      \* how a freed socket was used, or "none"

object  == <<life, opt, flags, hand, inMux>>
sending == <<sendQ, sendSz, sendLen>>
recving == <<recvQ, recvSz, recvLen>>
control == <<pc, reader, got>>
ssl     == <<session, retry>>
kernel  == <<link, peerSent, received>>
history == <<appended, wire, told, mishaps>>
vars == <<object, sending, recving, control, ssl, kernel, history, fault>>

Open == life = "open" /\ fault = "none"
Smaller(a, b) == IF a < b THEN a ELSE b
Blank(n) == [i \in 1 .. n |-> 0]
After(first, n) == [i \in 1 .. n |-> first + i]
Note(m) == mishaps' = mishaps \cup {m}

\* slip: counts the offset from one
OCopyFromOne(src, dst, len, offset) ==
  [i \in 1 .. Len(dst) |->
     IF i + offset - 1 \in 1 .. len THEN src[i + offset - 1] ELSE dst[i]]

\* lms_str_ocopy(src, dst, len, offset): bytes offset .. len - 1 of src go to
\* the start of dst.
OCopy(src, dst, len, offset) ==
  [i \in 1 .. Len(dst) |->
     IF i + offset <= len THEN src[i + offset] ELSE dst[i]]

Init ==
  /\ life = "new" /\ opt \in BOOLEAN /\ flags = {} /\ hand = "plain"
  /\ inMux = FALSE
  /\ sendQ = <<>> /\ sendSz = 0 /\ sendLen = 0
  /\ recvQ = <<>> /\ recvSz = 0 /\ recvLen = 0
  /\ pc = "loop" /\ reader = "plain" /\ got = FALSE
  /\ session = "none" /\ retry = "none"
  /\ link = "none" /\ peerSent = 0 /\ received = 0
  /\ appended = 0 /\ wire = <<>> /\ told = 0 /\ mishaps = {}
  /\ fault = "none"

\* lms_socket_destroy(), with lms_ssl_stopsock() and lms_mux_remfd(): the
\* session and the queues go, the descriptor is closed, the socket is freed.
Destroy ==
  /\ life' = "freed" /\ flags' = {} /\ hand' = "plain" /\ inMux' = FALSE
  /\ sendQ' = <<>> /\ sendSz' = 0 /\ sendLen' = 0
  /\ recvQ' = <<>> /\ recvSz' = 0 /\ recvLen' = 0
  /\ session' = "none" /\ retry' = "none" /\ link' = "none"
  /\ UNCHANGED <<peerSent, received, appended, told>>

-----------------------------------------------------------------------------
(* SSL sessions *)

\* slip: a finished handshake leaves the functions for plain data in place
ShakenHalf(now) ==
  /\ flags' = (now \ {"SSLHDSHK"}) \cup {"SSLRDY"}
  /\ hand' = "plain" /\ session' = "ready"

\* The end of a handshake: the functions for data take over.
Shaken(now) ==
  /\ flags' = (now \ {"SSLHDSHK"}) \cup {"SSLRDY"}
  /\ hand' = "ssl" /\ session' = "ready"

\* lms_ssl_handshake() on a socket with the flags `now': it goes on, is done,
\* or destroys the socket.
Handshake(now) ==
  /\ \/ /\ flags' = now
        /\ UNCHANGED <<life, hand, inMux, sending, recving, ssl, kernel, history>>
     \/ /\ link = "up" /\ received = peerSent
        /\ Shaken(now)
        /\ UNCHANGED <<life, inMux, sending, recving, retry, kernel, history>>
     \/ Destroy /\ Note("badShake") /\ UNCHANGED wire
  /\ UNCHANGED opt

\* lms_ssl_startsock() on a socket with the flags `now' and the connection
\* `to': OpenSSL has no session for it, or the handshake starts, and goes on
\* or fails in its first call.
StartSock(now, to) ==
  \/ /\ MayLack /\ Note("noSession")
     /\ life' = "open" /\ flags' = now /\ link' = to
     /\ UNCHANGED <<hand, inMux, sending, recving, ssl, peerSent, received,
                    appended, wire, told>>
  \/ /\ life' = "open" /\ flags' = now \cup {"SSL", "SSLHDSHK"}
     /\ hand' = "handshake" /\ session' = "shaking" /\ link' = to
     /\ UNCHANGED <<inMux, sending, recving, retry, peerSent, received, history>>
  \/ Destroy /\ Note("badShake") /\ UNCHANGED wire

-----------------------------------------------------------------------------
(* Connecting *)

\* lms_conn_accept(): the new socket has no options, and a listener never
\* has LMSFLG_SSL, so that lms_socket_iaccept() starts no session.
Accept ==
  /\ life = "new" /\ ~opt
  /\ life' = "open" /\ flags' = {"CONNECTED"} /\ link' = "up" /\ inMux' = TRUE
  /\ UNCHANGED <<opt, hand, sending, recving, control, ssl, peerSent,
                 received, history, fault>>

\* slip: the session is left to be started once the socket is connected
IconnLater ==
  /\ life = "new"
  /\ \E to \in {"connecting", "up"} :
       /\ life' = "open" /\ link' = to
       /\ flags' = IF to = "up" THEN {"CONNECTED"} ELSE {"WAITCONN"}
  /\ UNCHANGED <<opt, hand, inMux, sending, recving, control, ssl, peerSent,
                 received, history, fault>>

\* lms_socket_iconn() that connects or begins to.  With the SSL option the
\* handshake starts in it, and when that destroys the socket the last
\* statement, _lms_socket_list[s->fd] = s, uses the freed object.
Iconn ==
  /\ life = "new"
  /\ \E to \in {"connecting", "up"} :
       LET now == IF to = "up" THEN {"CONNECTED"} ELSE {"WAITCONN"}
       IN \/ /\ ~opt
             /\ life' = "open" /\ flags' = now /\ link' = to
             /\ UNCHANGED <<hand, inMux, sending, recving, ssl, peerSent,
                            received, history>>
          \/ opt /\ StartSock(now, to)
  /\ fault' = IF life' = "freed" THEN "registered" ELSE fault
  /\ UNCHANGED <<opt, control>>

\* lms_mux_addfd(), called by the application after lms_socket_iconn()
AddFd ==
  /\ Open /\ pc = "loop" /\ ~inMux
  /\ inMux' = TRUE
  /\ UNCHANGED <<life, opt, flags, hand, sending, recving, control, ssl,
                 kernel, history, fault>>

\* The application sets LMSOPTION_SSL on a connected socket, as in func_a,
\* and calls lms_ssl_startsock().
StartSsl ==
  /\ Open /\ pc \in {"loop", "told"}
  /\ "CONNECTED" \in flags /\ "SSL" \notin flags
  /\ opt' = TRUE
  /\ StartSock(flags, link)
  /\ UNCHANGED <<control, fault>>

-----------------------------------------------------------------------------
(* The send queue *)

\* lms_socket_appendq(): a queue with bytes in it is enlarged, which may move
\* it, and lms_str_ocopy() is asked to append; else it is created.
AppendQ ==
  /\ Open /\ pc \in {"loop", "told"}
  /\ \E n \in 1 .. MaxOut - appended :
       LET data == After(appended, n) IN
       \/ /\ sendSz > 0 /\ sendQ # <<>>
          /\ sendQ' = OCopy(data, sendQ \o Blank(n), n, sendLen)
          /\ sendSz' = sendSz + n /\ sendLen' = sendLen + n
          /\ retry' \in IF retry = "none" THEN {"none"} ELSE {retry, "moved"}
          /\ appended' = appended + n /\ Note("busySend")
       \/ /\ sendSz = 0
          /\ sendQ' = data /\ sendSz' = n /\ sendLen' = n
          /\ appended' = appended + n
          /\ UNCHANGED <<retry, mishaps>>
       \/ /\ MayLack /\ sendQ' = <<>> /\ Note("noMemory")
          /\ UNCHANGED <<sendSz, sendLen, retry, appended>>
  /\ UNCHANGED <<object, recving, control, session, kernel, wire, told, fault>>

Sent(n) == [i \in 1 .. n |-> [byte |-> sendQ[i], how |-> hand]]

\* slip: takes the bytes off the length, as lms_socket_flushq() does again
ClearSqTwice(n) ==
  LET rest == sendLen - n IN
  /\ sendQ' = OCopy(sendQ, Blank(rest), rest, n) /\ sendSz' = rest
  /\ sendLen' = rest - n
  /\ Note("partSend")

\* slip: the size is not set again
ClearSqNoSize(n) ==
  LET rest == sendLen - n IN
  /\ sendQ' = OCopy(sendQ, Blank(rest), rest, n) /\ sendSz' = 0
  /\ sendLen' = rest
  /\ Note("partSend")

\* lms_socket_clearsq() of a part of the queue, and what is left of it when
\* memory is refused; lms_socket_flushq() takes the bytes off the length.
ClearSq(n) ==
  LET rest == sendLen - n IN
  /\ \/ /\ sendQ' = OCopy(sendQ, Blank(rest), rest, n) /\ sendSz' = rest
        /\ Note("partSend")
     \/ /\ MayLack /\ mishaps' = mishaps \cup {"partSend", "noMemory"}
        /\ \/ UNCHANGED <<sendQ, sendSz>>
           \/ sendQ' = <<>> /\ sendSz' = 0
  /\ sendLen' = rest

MayFlush(now) ==
  /\ "CONNECTED" \in now /\ sendLen > 0 /\ sendSz > 0 /\ sendQ # <<>>
  /\ hand = "ssl" => retry # "moved"

Takes(n) == n > 0 => link \in {"up", "eof"}

\* lms_socket_flushq() and lms_ssl_flushq(): send() or SSL_write() takes n
\* bytes until the queue is empty or it wants or fails.  SSL_write() then
\* wants the next bytes again from where they were, which is not where
\* lms_socket_clearsq() puts them.
FlushQ(now) ==
  \/ ~MayFlush(now) /\ UNCHANGED <<sending, retry, wire, mishaps>>
  \/ /\ MayFlush(now)
     /\ \E n \in 0 .. sendLen :
          /\ Takes(n) /\ wire' = wire \o Sent(n)
          /\ \/ /\ n = sendLen
                /\ sendQ' = <<>> /\ sendSz' = 0 /\ sendLen' = 0
                /\ retry' = "none" /\ UNCHANGED mishaps
             \/ /\ n \in 1 .. sendLen - 1
                /\ ClearSq(n)
                /\ retry' = IF hand = "ssl" THEN "moved" ELSE retry
             \/ /\ n = 0
                /\ retry' = IF hand = "ssl" THEN "same" ELSE retry
                /\ UNCHANGED <<sending, mishaps>>

\* m->func_w(m) on a socket with the flags `now'
FuncW(now) ==
  \/ hand = "handshake" /\ Handshake(now)
  \/ /\ hand # "handshake" /\ FlushQ(now)
     /\ flags' = now
     /\ UNCHANGED <<life, opt, hand, inMux, recving, session, kernel,
                    appended, told>>

\* LMS_SendQueue(), called by the application
SendQueue ==
  /\ Open /\ pc \in {"loop", "told"}
  /\ FuncW(flags)
  /\ UNCHANGED <<control, fault>>

\* _lms_mux_default_write(): whatever the mux finds writable is connected.
WriteEvent ==
  /\ Open /\ pc = "loop" /\ inMux /\ link \in {"up", "refused", "eof"}
  /\ FuncW((flags \ {"WAITCONN"}) \cup {"CONNECTED"})
  /\ UNCHANGED <<control, fault>>

-----------------------------------------------------------------------------
(* The receive queue *)

NoteBusy ==
  mishaps' = IF recvLen > 0 THEN mishaps \cup {"busyRecv"} ELSE mishaps

\* slip: the queue grows by what came, not by what may come next
RoomTight(q, len, next) ==
  \/ /\ recvSz < len
     /\ recvQ' = q \o Blank(len - recvSz) /\ recvSz' = len
     /\ pc' = next /\ NoteBusy
  \/ /\ recvSz >= len
     /\ recvQ' = q /\ pc' = next /\ NoteBusy /\ UNCHANGED recvSz

\* The queue, with the contents q and the length len, gets room for the next
\* recv(), and the thread goes on at `next'; or realloc() refuses, and the
\* queue is lost but for its recorded size.
Room(q, len, next) ==
  \/ /\ recvSz < len + Chunk
     /\ recvQ' = q \o Blank(Chunk) /\ recvSz' = recvSz + Chunk
     /\ pc' = next /\ NoteBusy
  \/ /\ recvSz < len + Chunk /\ MayLack
     /\ recvQ' = <<>> /\ pc' = "loop" /\ Note("noMemory") /\ UNCHANGED recvSz
  \/ /\ recvSz >= len + Chunk
     /\ recvQ' = q /\ pc' = next /\ NoteBusy /\ UNCHANGED recvSz

\* _lms_mux_default_read() up to the first recv() or SSL_read(), or the
\* handshake; a malloc() refused here changes nothing.
ReadEvent ==
  /\ Open /\ pc = "loop" /\ inMux
  /\ \/ /\ hand = "handshake" /\ link \in {"up", "refused", "eof"}
        /\ Handshake(flags)
        /\ UNCHANGED control
     \/ /\ hand # "handshake" /\ "CONNECTED" \in flags
        /\ received < peerSent \/ link \in {"refused", "eof"}
        /\ reader' = hand /\ got' = FALSE
        /\ \/ /\ recvSz > 0 /\ recvQ # <<>>
              /\ Room(recvQ, recvLen, "read")
           \/ /\ recvSz = 0 \/ recvQ = <<>>
              /\ recvQ' = Blank(Chunk) /\ recvSz' = Chunk /\ pc' = "read"
              /\ UNCHANGED mishaps
        /\ UNCHANGED <<object, sending, recvLen, ssl, kernel, appended, wire, told>>
  /\ UNCHANGED fault

Reading == Open /\ pc = "read"

\* slip: bytes for a queue with bytes in it are not worth a func_p
RecvSomeFirst ==
  /\ Reading
  /\ \E n \in 1 .. Smaller(Chunk, peerSent - received) :
       /\ recvLen' = recvLen + n /\ received' = received + n
       /\ Room(OCopy(After(received, n), recvQ, n, recvLen), recvLen', "read")
       /\ got' = (recvLen = 0)
  /\ UNCHANGED <<object, sending, reader, ssl, link, peerSent, appended, wire,
                 told, fault>>

\* recv() or SSL_read() brings bytes.
RecvSome ==
  /\ Reading
  /\ \E n \in 1 .. Smaller(Chunk, peerSent - received) :
       /\ recvLen' = recvLen + n /\ received' = received + n
       /\ Room(OCopy(After(received, n), recvQ, n, recvLen), recvLen', "read")
  /\ got' = TRUE
  /\ UNCHANGED <<object, sending, reader, ssl, link, peerSent, appended, wire,
                 told, fault>>

\* It would block or is interrupted: func_p is called if bytes came.
RecvBreak ==
  /\ Reading
  /\ IF got THEN pc' = "told" /\ told' = received
            ELSE pc' = "loop" /\ UNCHANGED told
  /\ UNCHANGED <<object, sending, recving, reader, got, ssl, kernel, appended,
                 wire, mishaps, fault>>

\* slip: the loop goes on after func_e
RecvEndGoesOn ==
  /\ Reading /\ received = peerSent /\ link \in {"refused", "eof"}
  /\ Destroy
  /\ fault' = "read"
  /\ UNCHANGED <<opt, control, wire, mishaps>>

\* It is the end of the stream or an error: func_e, that is
\* lms_conn_default_error(), destroys the socket.
RecvEnd ==
  /\ Reading /\ received = peerSent /\ link \in {"refused", "eof"}
  /\ Destroy
  /\ pc' = "loop"
  /\ UNCHANGED <<opt, reader, got, wire, mishaps, fault>>

\* func_p returns.  lms_socket_read() stores last_recv only now.
ToldReturn ==
  /\ pc = "told" /\ fault = "none"
  /\ IF life = "freed" /\ reader = "plain"
       THEN fault' = "stamped" /\ UNCHANGED pc
       ELSE pc' = "loop" /\ UNCHANGED fault
  /\ UNCHANGED <<object, sending, recving, reader, got, ssl, kernel, history>>

\* lms_socket_freerq(), called by the application when it is done with recvQ
FreeRq ==
  /\ Open /\ pc \in {"loop", "told"}
  /\ recvQ' = <<>> /\ recvSz' = 0 /\ recvLen' = 0
  /\ UNCHANGED <<object, sending, control, ssl, kernel, history, fault>>

-----------------------------------------------------------------------------
(* The end of a connection, and the peer *)

\* lms_socket_close(): off the mux, what is queued goes to func_w, the peer of
\* an SSL session is told (lms_ssl_closesock()), the socket is destroyed.  A
\* func_w that is the handshake may have destroyed it already.
Close ==
  /\ Open /\ pc \in {"loop", "told"}
  /\ Destroy
  /\ \/ /\ sendLen > 0 /\ hand # "handshake" /\ MayFlush(flags)
        /\ \E n \in 0 .. sendLen : Takes(n) /\ wire' = wire \o Sent(n)
        /\ UNCHANGED fault
     \/ /\ sendLen = 0 \/ hand = "handshake" \/ ~MayFlush(flags)
        /\ UNCHANGED <<wire, fault>>
     \/ /\ sendLen > 0 /\ hand = "handshake"
        /\ fault' = "closed" /\ UNCHANGED wire
  /\ mishaps' = mishaps \cup (IF pc = "told" THEN {"goneInside"} ELSE {})
                        \cup (IF fault' = "closed" THEN {"badShake"} ELSE {})
  /\ UNCHANGED <<opt, control>>

Connected ==
  /\ link = "connecting" /\ link' \in {"up", "refused"}
  /\ UNCHANGED <<object, sending, recving, control, ssl, peerSent, received,
                 history, fault>>

PeerSends ==
  /\ link = "up" /\ session # "shaking" /\ peerSent < MaxIn
  /\ peerSent' = peerSent + 1
  /\ UNCHANGED <<object, sending, recving, control, ssl, link, received,
                 history, fault>>

PeerCloses ==
  /\ link = "up" /\ link' = "eof"
  /\ UNCHANGED <<object, sending, recving, control, ssl, peerSent, received,
                 history, fault>>

Application == AddFd \/ StartSsl \/ AppendQ \/ SendQueue \/ FreeRq \/ Close
Mux == WriteEvent \/ ReadEvent
Thread == RecvSome \/ RecvBreak \/ RecvEnd \/ ToldReturn
Peer == fault = "none" /\ (Connected \/ PeerSends \/ PeerCloses)

Next == Accept \/ Iconn \/ Application \/ Mux \/ Thread \/ Peer

Spec == Init /\ [][Next]_vars

(* A function that has been called returns, and signals do not interrupt     *)
(* recv() for ever; the mux reports every readable descriptor, and the       *)
(* writable ones often enough for the kernel to take bytes again and again.  *)
Fairness ==
  /\ WF_vars(Thread) /\ SF_vars(RecvSome) /\ WF_vars(ReadEvent)
  /\ SF_vars(WriteEvent /\ wire' # wire)

FairSpec == Spec /\ Fairness

-----------------------------------------------------------------------------
(* Properties *)

Fine(m) == life = "open" /\ m \cap mishaps = {}

TypeOK ==
  /\ life \in {"new", "open", "freed"} /\ opt \in BOOLEAN
  /\ flags \subseteq FlagNames /\ hand \in {"plain", "handshake", "ssl"}
  /\ inMux \in BOOLEAN
  /\ sendQ \in Seq(0 .. MaxOut) /\ {sendSz, sendLen} \subseteq 0 .. MaxOut
  /\ recvQ \in Seq(0 .. MaxIn) /\ recvSz \in Nat /\ recvLen \in 0 .. MaxIn
  /\ pc \in {"loop", "read", "told"} /\ reader \in {"plain", "ssl"}
  /\ got \in BOOLEAN
  /\ session \in {"none", "shaking", "ready"}
  /\ retry \in {"none", "same", "moved"}
  /\ link \in {"none", "connecting", "refused", "up", "eof"}
  /\ {peerSent, received, appended, told} \subseteq Nat
  /\ told <= received /\ received <= peerSent /\ peerSent <= MaxIn
  /\ appended <= MaxOut
  /\ wire \in Seq([byte : 0 .. MaxOut, how : {"plain", "ssl"}])
  /\ mishaps \subseteq Mishaps
  /\ fault \in {"none", "registered", "stamped", "closed"}

\* What the queues are said to hold fits into them, every recv() has room for
\* all it may bring, and every byte appended has been sent or is counted as
\* waiting, once, however the queue was flushed and cleared, unless memory was
\* refused.
QueuesCounted ==
  Fine({"noMemory"}) =>
    /\ sendLen = sendSz /\ sendSz = Len(sendQ)
    /\ Len(wire) + sendLen = appended
    /\ recvLen <= recvSz /\ recvSz = Len(recvQ)
    /\ pc = "read" => recvSz - recvLen >= Chunk

\* Without an append to a queue with bytes in it, every byte is sent in its own
\* place, or a 0 in its stead after a queue was sent in part; and the receive
\* queue holds the last bytes received, in order, while none came for a queue
\* with bytes in it.
BytesInPlace ==
  /\ {"busySend", "noMemory"} \cap mishaps = {} =>
       \A i \in 1 .. Len(wire) :
         wire[i].byte = i \/ (wire[i].byte = 0 /\ "partSend" \in mishaps)
  /\ Fine({"busyRecv", "noMemory"}) =>
       \A i \in 1 .. recvLen : recvQ[i] = received - recvLen + i

\* The flags, the session and the functions of an open socket agree about
\* where SSL is.
PhasesAgree ==
  life = "open" =>
    /\ "SSL" \in flags <=> session # "none"
    /\ "SSLHDSHK" \in flags <=> session = "shaking" /\ hand = "handshake"
    /\ "SSLRDY" \in flags <=> session = "ready" /\ hand = "ssl"
    /\ session = "none" <=> hand = "plain"

\* A connection made with LMSOPTION_SSL sends nothing in the clear, unless
\* OpenSSL had no session for it, which lms_socket_iconn() does not notice.
NothingInClear ==
  [][opt /\ "noSession" \notin mishaps =>
       \A i \in Len(wire) + 1 .. Len(wire') : wire'[i].how = "ssl"]_vars

\* Only a handshake that fails inside lms_socket_iconn() or
\* lms_socket_close(), or a func_p that lets the socket go, makes the library
\* use a freed socket.
FreedIsNotUsed ==
  mishaps \cap {"badShake", "goneInside"} = {} => fault = "none"

\* Queued bytes are sent in the end, while the connection lasts, once SSL is
\* ready, unless OpenSSL waits for a write that cannot be repeated.
QueueDrains ==
  inMux /\ sendLen > 0 ~>
    \/ sendLen = 0 \/ link # "up" \/ hand = "handshake" \/ retry = "moved"
    \/ "noMemory" \in mishaps \/ fault # "none"

\* Bytes that have come are reported to func_p in the end, while the
\* connection lasts.
BytesReported ==
  \A n \in 1 .. MaxIn :
    inMux /\ "CONNECTED" \in flags /\ peerSent = n ~>
      \/ told >= n \/ link # "up" \/ hand = "handshake"
      \/ "noMemory" \in mishaps \/ fault # "none"

\* lms_socket_appendq() "appends to it" (socket.c): the peer gets what the
\* application appended, in order.
SentInOrder ==
  "noMemory" \notin mishaps => \A i \in 1 .. Len(wire) : wire[i].byte = i
=============================================================================
