------------------------------- MODULE Proxy -------------------------------
(***************************************************************************)
(* The relay of demo/proxy_demo/proxy.c: every connection accepted from a   *)
(* client (a downstream) is paired with a connection the proxy opens to the *)
(* server (an upstream) when the client's first bytes arrive, and the bytes *)
(* read from either are appended to its buffer and written to the other.    *)
(* One action per callback; the loop that calls them is UvStream.           *)
(***************************************************************************)
EXTENDS UvStream, RtsBuf

CONSTANTS Down,      \* the handles of accepted connections
          Up,        \* the handles of upstream connections
          BufCap,    \* DEFAULT_BUF_SIZE
          MaxBytes,  \* bound of the model: bytes that arrive on each handle
          MayOom     \* whether malloc may return NULL where the code tests it

ASSUME ProxyAssumption ==
    /\ Handle = Down \cup Up /\ Down \cap Up = {}
    /\ BufCap \in 1 .. IntMax /\ ReadMax <= IntMax
    /\ MaxBytes \in [Handle -> Nat]
    /\ MayOom \in BOOLEAN

VARIABLES
    peer,   \* data->stream_conn->stream, None when stream_conn is NULL
    ready,  \* data->stream_conn->ready
    pos,    \* data->pos: what the target is said to have got
    last,   \* data->last: what was handed to uv_write
    size,   \* data->buf->size
    cap,    \* data->buf->capacity, 0 when data->buf is NULL
    rd,     \* history: the bytes read from a handle
    lost,   \* history: the bytes of a handle that rts_buf_append refused
    client, \* history: the downstream an upstream was made for
    miscredit \* history: those credited with a write that was not of all they
              \* had handed over

connVars  == <<peer, ready>>
bufVars   == <<pos, last, size, cap>>
ghostVars == <<rd, lost, client, miscredit>>
vars == <<uvVars, connVars, bufVars, ghostVars>>

Opposite(h) == IF h \in Down THEN Up ELSE Down

(* stream->data # NULL.                                                     *)
Live(h) == gen[h] # 0

(* data->buf # NULL: a stream whose rts_buf_init failed has data without.   *)
HasBuf(h) == cap[h] # 0

(* What ends the process: the pointers that are followed without a test.    *)
Fault == {"init_callback_data: no stream",
          "read: stream has no data",
          "rts_buf_append: no buffer",
          "upstream_read: no stream_conn",
          "read: peer has no data",
          "on_upstream_connect: no stream_conn",
          "on_upstream_connect: downstream has no data",
          "on_upstream_connect: failed, stream_conn is freed",
          "after_write: stream has no data",
          "after_write: no stream_conn",
          "after_write: peer has no data",
          "after_write: peer has no buffer"}

TypeOK ==
    /\ UvTypeOK /\ fate \in {"running", "SIGPIPE"} \cup Fault
    /\ peer \in [Handle -> Handle \cup {None}]
    /\ ready \in [Handle -> BOOLEAN]
    /\ pos \in [Handle -> Nat] /\ last \in [Handle -> Nat]
    /\ size \in [Handle -> Nat] /\ cap \in [Handle -> Nat]
    /\ rd \in [Handle -> Nat]
    /\ lost \in [Handle -> SUBSET Nat]
    /\ client \in [Up -> Down \cup {None}]
    /\ miscredit \subseteq Handle

Init ==
    /\ UvInit
    /\ peer = [h \in Handle |-> None]
    /\ ready = [h \in Handle |-> FALSE]
    /\ pos = [h \in Handle |-> 0] /\ last = [h \in Handle |-> 0]
    /\ size = [h \in Handle |-> 0] /\ cap = [h \in Handle |-> 0]
    /\ rd = [h \in Handle |-> 0] /\ lost = [h \in Handle |-> {}]
    /\ client = [u \in Up |-> None] /\ miscredit = {}

-----------------------------------------------------------------------------
(* The helpers of proxy.c.                                                  *)

(* What rts_buf_init(DEFAULT_BUF_SIZE) may return: a buffer of that         *)
(* capacity, or NULL, which init_callback_data only prints.                 *)
NewCapacity == {BufCap} \cup (IF MayOom THEN {0} ELSE {})

(* The gen' and cap' of init_callback_data; it returns -1 and sets nothing  *)
(* when there is no memory for the callback_data_t.                         *)
InitCallbackData(h) ==
    /\ gen' = [gen EXCEPT ![h] = 1]
    /\ \E c \in NewCapacity : cap' = [cap EXCEPT ![h] = c]

InitCallbackDataFails == MayOom /\ UNCHANGED <<gen, cap>>

Unlink_OwnSideOnly(h) ==
    /\ peer' = [peer EXCEPT ![h] = None]
    /\ ready' = [ready EXCEPT ![h] = FALSE]

(* The stream_conn of h and the one of its peer are freed. *)
Unlink(h) ==
    /\ peer' = [x \in Handle |-> IF x \in {h, peer[h]} THEN None ELSE peer[x]]
    /\ ready' = [x \in Handle |-> IF x \in {h, peer[h]} THEN FALSE ELSE ready[x]]

Link_DownstreamOnly(d, u) ==
    /\ peer' = [peer EXCEPT ![d] = u]
    /\ ready' = [ready EXCEPT ![d] = FALSE]

(* init_upstream_connection allocates both of them. *)
Link(d, u) ==
    /\ peer' = [peer EXCEPT ![d] = u, ![u] = d]
    /\ ready' = [ready EXCEPT ![d] = FALSE, ![u] = TRUE]

(* cleanup_callback_data(h), and the peer's stream_conn freed before it. *)
Cleanup(h) ==
    /\ gen' = [gen EXCEPT ![h] = 0] /\ mem' = [mem EXCEPT ![h] = <<>>]
    /\ cap' = [cap EXCEPT ![h] = 0] /\ size' = [size EXCEPT ![h] = 0]
    /\ pos' = [pos EXCEPT ![h] = 0] /\ last' = [last EXCEPT ![h] = 0]
    /\ Unlink(h)

(* rts_buf_append of n new bytes to the buffer of h; caps and gens are the  *)
(* capacities and allocations before it.  Memory nobody wrote holds 0.      *)
Overwrite(s, at, new) ==
    [i \in 1 .. Max({Len(s), at + Len(new)}) |->
        IF i \in at + 1 .. at + Len(new) THEN new[i - at]
        ELSE IF i \in DOMAIN s THEN s[i] ELSE 0]

RtsBufAppend(h, n, caps, gens) ==
    \E oom \in {FALSE, MayOom} :
    LET r == AppendResult(cap[h], size[h], n, oom)
        new == [i \in 1 .. n |-> rd[h] + i]
    IN  /\ oom => MustGrow(cap[h], size[h], n)
        /\ rd' = [rd EXCEPT ![h] = @ + n]
        /\ cap' = [caps EXCEPT ![h] = r.cap] /\ size' = [size EXCEPT ![h] = r.size]
        /\ gen' = [gens EXCEPT ![h] = IF r.cap # cap[h] THEN @ + 1 ELSE @]
        /\ mem' = [mem EXCEPT ![h] =
                     IF r.ret = 0 THEN Overwrite(@, size[h], new) ELSE @]
        /\ lost' = [lost EXCEPT ![h] = IF r.ret = 0 THEN @ ELSE @ \cup Range(new)]

(* transfer_stream_data(from, to) when its guards have passed; pos', size', *)
(* gen' and mem' are the buffer it finds, q and done the queues of `to`.    *)
Unsent_FromStart(from) ==
    [src |-> from, gen |-> gen'[from], off |-> 0, len |-> size'[from], err |-> FALSE]

Unsent(from) ==
    [src |-> from, gen |-> gen'[from], off |-> pos'[from],
     len |-> size'[from] - pos'[from], err |-> FALSE]

Transfer(from, to, q, done) ==
    /\ last' = [last EXCEPT ![from] = size'[from]]
    /\ UvWrite(to, Unsent(from), q, done, gen', mem')

-----------------------------------------------------------------------------
(* on_new_downstream_connection: the connection is accepted and read from   *)
(* whether it got its callback data or not.                                 *)
Accept(d) ==
    /\ Idle /\ phase = "poll" /\ hs[d] = "unused"
    /\ hs' = [hs EXCEPT ![d] = "open"]
    /\ served' = served \cup {d}
    /\ InitCallbackData(d) \/ InitCallbackDataFails
    /\ UNCHANGED <<phase, batch, feed, cur, todo, wq, wdone, pollout, brk, out, mem, fate,
                   connVars, pos, last, size, ghostVars>>

(* How many bytes one read can bring. *)
Arriving(h) == 1 .. Min({ReadMax, MaxBytes[h] - rd[h]})

MayTransfer_WhileSending(h) == peer[h] # None /\ ready[h]

(* The target is connected and all that was handed to it is written. *)
MayTransfer(h) == peer[h] # None /\ ready[h] /\ pos[h] = last[h]

(* downstream_read and upstream_read, nread > 0, on a handle that has a     *)
(* stream_conn, or on an upstream that has lost it.                         *)
ReadRelayed(h) ==
    /\ InStage("read") /\ cur = h
    /\ peer[h] # None \/ h \in Up
    /\ Live(h) /\ HasBuf(h)
    /\ \E n \in Arriving(h) :
        /\ RtsBufAppend(h, n, cap, gen)
        /\ UNCHANGED <<connVars, pos, client, miscredit>>
        /\ IF MayTransfer(h)
           THEN Transfer(h, peer[h], wq[peer[h]], wdone[peer[h]])
           ELSE UNCHANGED <<last, wq, wdone, pollout, feed, out, brk, fate>>
        /\ NextStage(AfterRead(n))
    /\ UNCHANGED <<phase, batch, served, hs>>

NewUpstream_Pooled(u) == hs[u] \in {"unused", "open"}

(* malloc'ed for this connection. *)
NewUpstream(u) == hs[u] = "unused"

(* downstream_read, nread > 0, on a downstream without stream_conn:         *)
(* init_upstream_connection makes a pair of them and starts to connect, to  *)
(* an end that is known at once (refused, or an error that is ignored) or   *)
(* later; then the bytes are appended.                                      *)
InitUpstream(d, u) ==
    /\ InStage("read") /\ cur = d
    /\ d \in Down /\ peer[d] = None /\ Live(d) /\ HasBuf(d)
    /\ u \in Up /\ NewUpstream(u)
    /\ Link(d, u) /\ client' = [client EXCEPT ![u] = d]
    /\ served' = served \cup {u}
    /\ \/ hs' = [hs EXCEPT ![u] = "connecting"] /\ UNCHANGED feed
       \/ hs' = [hs EXCEPT ![u] = "refused"] /\ feed' = Fed(feed, u)
       \/ hs' = [hs EXCEPT ![u] = "stuck"] /\ UNCHANGED feed
    /\ \E n \in Arriving(d), c \in NewCapacity :
        /\ RtsBufAppend(d, n, [cap EXCEPT ![u] = c], [gen EXCEPT ![u] = 1])
        /\ NextStage(AfterRead(n))
    /\ UNCHANGED <<phase, batch, wq, wdone, pollout, brk, out, fate, pos, last, miscredit>>

(* downstream_read when init_upstream_connection returns -2. *)
InitUpstreamFails(d) ==
    /\ InStage("read") /\ cur = d
    /\ d \in Down /\ peer[d] = None /\ Live(d)
    /\ MayOom /\ rd[d] < MaxBytes[d]
    /\ Cleanup(d) /\ UvClose(d)
    /\ UNCHANGED ghostVars

(* The pointers a read that brings bytes follows without a test: the data   *)
(* of an accepted stream that got none, the buffer of one that got none,    *)
(* and the new upstream, whose malloc is tested after it was used.          *)
ReadDataFault(h) ==
    IF ~Live(h) THEN {"read: stream has no data"}
    ELSE (IF HasBuf(h) THEN {} ELSE {"rts_buf_append: no buffer"})
         \cup (IF MayOom /\ h \in Down /\ peer[h] = None
               THEN {"init_callback_data: no stream"} ELSE {})

ReadDataFaults(h) ==
    /\ InStage("read") /\ cur = h /\ rd[h] < MaxBytes[h]
    /\ \E site \in ReadDataFault(h) : Crash(site)
    /\ UNCHANGED <<connVars, bufVars, ghostVars>>

(* downstream_read and upstream_read, nread = 0: nothing to read after all. *)
ReadAgain(h) ==
    /\ InStage("read") /\ cur = h
    /\ ~brk[h] /\ ~Contains(todo, "eof")
    /\ NextStage(Tail(todo))
    /\ UNCHANGED <<phase, batch, feed, served, streamVars, heapVars, fate,
                   connVars, bufVars, ghostVars>>

(* The pointer an end-of-stream callback follows without a test. *)
ReadFault(h) ==
    IF ~Live(h) THEN "read: stream has no data"
    ELSE IF h \in Up /\ peer[h] = None THEN "upstream_read: no stream_conn"
    ELSE IF peer[h] # None /\ ~Live(peer[h]) THEN "read: peer has no data"
    ELSE "none"

(* downstream_read and upstream_read, nread < 0: the peer forgets this      *)
(* stream, and this stream is closed; the peer is not.                      *)
ReadEnd(h) ==
    /\ InStage("read") \/ InStage("eof")
    /\ cur = h
    /\ IF ReadFault(h) = "none"
       THEN Cleanup(h) /\ UvClose(h)
       ELSE Crash(ReadFault(h)) /\ UNCHANGED <<connVars, bufVars>>
    /\ UNCHANGED ghostVars

(* on_upstream_connect, status = 0. *)
Connected(u) ==
    /\ InStage("connect") /\ cur = u
    /\ hs[u] = "connecting" /\ peer[u] # None
    /\ hs' = [hs EXCEPT ![u] = "open"]
    /\ ready' = [ready EXCEPT ![peer[u]] = TRUE]
    /\ UNCHANGED <<peer, pos, size, cap, heapVars, ghostVars>>
    /\ IF HasBuf(peer[u]) /\ pos[peer[u]] = last[peer[u]]
       THEN Transfer(peer[u], u, wq[u], wdone[u])
       ELSE UNCHANGED <<last, wq, wdone, pollout, feed, out, brk, fate>>
    /\ NextStage(Tail(todo))
    /\ UNCHANGED <<phase, batch, served>>

(* on_upstream_connect when the downstream has ended meanwhile, or with     *)
(* status < 0: after the failed branch has freed the downstream's           *)
(* stream_conn the callback goes on to set its ready bit.                   *)
ConnectFault(u) ==
    IF peer[u] = None THEN "on_upstream_connect: no stream_conn"
    ELSE IF ~Live(peer[u]) THEN "on_upstream_connect: downstream has no data"
    ELSE "on_upstream_connect: failed, stream_conn is freed"

ConnectFaults(u) ==
    /\ InStage("connect") /\ cur = u
    /\ Crash(ConnectFault(u))
    /\ UNCHANGED <<connVars, bufVars, ghostVars>>

(* The pointers after_upstream_write and after_downstream_write follow.     *)
AfterWriteFault(to) ==
    IF ~Live(to) THEN "after_write: stream has no data"
    ELSE IF peer[to] = None THEN "after_write: no stream_conn"
    ELSE IF ~Live(peer[to]) THEN "after_write: peer has no data"
    ELSE IF ~HasBuf(peer[to]) THEN "after_write: peer has no buffer"
    ELSE "none"

BufRestart_SizeOnly(from) ==
    /\ size' = [size EXCEPT ![from] = 0]
    /\ pos' = [pos EXCEPT ![from] = last[from]]
    /\ UNCHANGED last

BufRestart_KeepsPos(from) ==
    /\ size' = [size EXCEPT ![from] = 0]
    /\ pos' = [pos EXCEPT ![from] = last[from]]
    /\ last' = [last EXCEPT ![from] = 0]

(* Everything is sent: the buffer is used from its beginning again. *)
BufRestart(from) ==
    /\ size' = [size EXCEPT ![from] = 0]
    /\ pos' = [pos EXCEPT ![from] = 0]
    /\ last' = [last EXCEPT ![from] = 0]

MoreToSend_Never(from) == FALSE

(* More was appended since the last transfer. *)
MoreToSend(from) == last[from] # size[from]

(* The write was of the bytes of h, up to the last one handed over. *)
Completes(req, h) == req.src = h /\ req.off + req.len = last[h]

(* after_upstream_write and after_downstream_write, on the stream written   *)
(* to: the connection it has now is credited with all it handed over, then  *)
(* sends what came in since or starts its buffer again.                     *)
AfterWrite(to) ==
    LET from == peer[to]
    IN  /\ InStage("callbacks") /\ cur = to /\ wdone[to] # <<>>
        /\ AfterWriteFault(to) = "none"
        /\ miscredit' = IF Completes(Head(wdone[to]), from)
                         THEN miscredit ELSE miscredit \cup {from}
        /\ UNCHANGED <<connVars, cap, heapVars, rd, lost, client>>
        /\ IF MoreToSend(from)
           THEN /\ pos' = [pos EXCEPT ![from] = last[from]]
                /\ UNCHANGED size
                /\ Transfer(from, to, wq[to], Tail(wdone[to]))
           ELSE /\ BufRestart(from)
                /\ wdone' = [wdone EXCEPT ![to] = Tail(@)]
                /\ UNCHANGED <<wq, pollout, feed, out, brk, fate>>
        /\ UNCHANGED <<phase, batch, served, cur, todo, hs>>

AfterWriteFaults(to) ==
    /\ InStage("callbacks") /\ cur = to /\ wdone[to] # <<>>
    /\ AfterWriteFault(to) # "none"
    /\ Crash(AfterWriteFault(to))
    /\ UNCHANGED <<connVars, bufVars, ghostVars>>

-----------------------------------------------------------------------------
Callback(h) ==
    \/ ReadRelayed(h) \/ ReadDataFaults(h) \/ ReadAgain(h) \/ ReadEnd(h)
    \/ AfterWrite(h) \/ AfterWriteFaults(h)

Next ==
    \/ \E d \in Down : Accept(d) \/ InitUpstreamFails(d)
    \/ \E d \in Down, u \in Up : InitUpstream(d, u)
    \/ \E u \in Up : Connected(u) \/ ConnectFaults(u)
    \/ \E h \in Handle : Callback(h)
    \/ UvNext /\ UNCHANGED <<connVars, bufVars, ghostVars>>

Spec == Init /\ [][Next]_vars

(* The loop never rests while it has something to do: uv_run goes on, and a *)
(* callback returns.  Of the kernel and the two ends: a connect that was    *)
(* begun ends, a stream that waits to be written becomes writable again and *)
(* again, and takes something of what is written then.  Nobody has to send  *)
(* or to end anything.                                                      *)
UvOnly == UNCHANGED <<connVars, bufVars, ghostVars>>

ConnectEnds(h) == PollEvent(h) /\ todo' = <<"connect">> /\ UvOnly

Writable(h) == PollEvent(h) /\ Contains(todo', "write") /\ UvOnly

Takes(h) == WriteStage /\ cur = h /\ wq' # wq /\ UvOnly

Fairness ==
    /\ WF_vars(cur # None /\ Next)
    /\ WF_vars(LoopTurn /\ UvOnly)
    /\ \A h \in Handle :
        SF_vars(ConnectEnds(h)) /\ SF_vars(Writable(h)) /\ SF_vars(Takes(h))

FairSpec == Spec /\ Fairness

-----------------------------------------------------------------------------
(* Properties.                                                              *)

Ended(h) == hs[h] \in {"closing", "closed"}

(* The requests of stream `to` that wait for the kernel or their callback.  *)
Requests(to) == wdone[to] \o wq[to]

(* The outstanding writes of what was read from h, wherever they go.        *)
Outstanding(h) ==
    {r \in UNION {{<<to, i>> : i \in DOMAIN Requests(to)} : to \in Handle} :
        Requests(r[1])[r[2]].src = h}

(* The two stream_conn of a pair point at each other for as long as either  *)
(* exists, both streams still have their data, and a downstream's is marked *)
(* ready only while its upstream is connected (proxy.c:195-204, 326-333).   *)
LinksConsistent ==
    \A h \in Handle :
        /\ peer[h] # None =>
            /\ peer[h] \in Opposite(h) /\ peer[peer[h]] = h
            /\ Live(h) /\ ~Ended(h)
        /\ h \in Down /\ ready[h] => peer[h] # None /\ hs[peer[h]] = "open"

(* No callback ever finds a peer whose callback data are gone: of all the   *)
(* pointers followed without a test, these are sound (proxy.c:196, 272,     *)
(* 350, 444, 507).                                                          *)
PeerDataPresent ==
    fate \notin {"read: peer has no data",
                 "on_upstream_connect: downstream has no data",
                 "after_write: peer has no data"}

(* A callback of an upstream finds no stream_conn only when the client it   *)
(* was made for has ended, and a completed write finds none, or no data, or *)
(* a peer without a buffer, only when the stream it was read from or the    *)
(* one it was written to has ended (proxy.c:269, 273, 349, 444, 499, 508).  *)
(* The faults left need no end: proxy.c:373 after a refused connect, and    *)
(* those of a read when malloc failed before (proxy.c:187, 225, 312).       *)
CrashNeedsDisconnect ==
    /\ fate \in {"upstream_read: no stream_conn", "on_upstream_connect: no stream_conn"}
        => Ended(client[cur])
    /\ fate \in {"after_write: no stream_conn", "after_write: stream has no data",
                 "after_write: peer has no buffer"}
        => Ended(cur) \/ Ended(Head(wdone[cur]).src)

(* A stream is credited with a write that was not of all it had handed over *)
(* only when its client had another upstream, which has ended, or when      *)
(* bytes of its own were refused, after which it may hand over nothing:     *)
(* where neither happened, what is said below of the streams that are not   *)
(* in miscredit holds of all (proxy.c:225, 376, 403, 499-507).              *)
MiscreditExplained ==
    \A h \in miscredit :
        \/ lost[h] # {}
        \/ h \in Up /\ \E u \in Up \ {h} : Ended(u) /\ client[u] = client[h]

(* The data of a stream are in at most one write at a time, and there is    *)
(* one exactly when some are handed over and not credited, up to `last`, as *)
(* long as each completion was credited where it belongs (proxy.c:398).  A  *)
(* write of nothing, made when bytes were refused, is not one.              *)
OneWriteAtATime ==
    \A h \in Handle \ miscredit :
        LET held == {r \in Outstanding(h) : Requests(r[1])[r[2]].len > 0}
        IN  /\ Cardinality(held) <= 1
            /\ Live(h) => (pos[h] # last[h] <=> held # {})
            /\ Live(h) => \A r \in held : Completes(Requests(r[1])[r[2]], h)

(* What the kernel has accepted of the bytes read from h, by all streams.   *)
Delivered(h) ==
    {b[2] : b \in {c \in UNION {Range(out[to]) : to \in Handle} : c[1] = h}}

(* The requests of any stream that hold bytes of h not written: queued, or  *)
(* failed with their callback still to run.                                 *)
Pending(h) ==
    UNION {{r \in Range(wq[to]) \cup {s \in Range(wdone[to]) : s.err} :
                r.src = h /\ r.len # 0} : to \in Handle}

(* The bytes of h not written: not handed over yet, or in such a request.   *)
Unwritten(h) ==
    {mem[h][i] : i \in last[h] + 1 .. size[h]}
      \cup UNION {{mem[h][i] : i \in r.off + 1 .. r.off + r.len} : r \in Pending(h)}

(* The buffer of h was moved while a write of it was queued: one still is,  *)
(* or freed memory (byte 0) has been written.                               *)
MovedWhileQueued(h) ==
    0 \in Delivered(h) \/ \E r \in Pending(h) : ~Valid(r, gen)

(* A byte read from a connection that is still there was either written, or *)
(* is not yet, or was refused by rts_buf_append - and only one of them; as  *)
(* long as its buffer did not move under a queued write, no write to the    *)
(* other side failed, and it was credited with its own writes only          *)
(* (proxy.c:403, 272-285).                                                  *)
BytesAccounted ==
    \A h \in Handle :
        /\ Live(h) /\ h \notin miscredit /\ ~MovedWhileQueued(h)
        /\ \A to \in Opposite(h) : ~brk[to]
        =>  /\ Delivered(h) \cup Unwritten(h) \cup lost[h] = 1 .. rd[h]
            /\ Delivered(h) \cap Unwritten(h) = {}
            /\ (Delivered(h) \cup Unwritten(h)) \cap lost[h] = {}

(* The bytes of a connection that was credited with its own writes only     *)
(* reach a stream in the order they were read, none of them twice, and      *)
(* without a hole while the buffer could grow: a failed write that is       *)
(* counted as sent ends the stream of bytes, it leaves no gap in it         *)
(* (proxy.c:403, 507).  Of a miscredited connection bytes may be sent twice *)
(* or overwritten; an indeterminate byte is not one of the connection's.    *)
OrderKept ==
    \A to \in Handle : \A i, j \in DOMAIN out[to] :
        LET a == out[to][i]
            b == out[to][j]
        IN  a[1] = b[1] /\ a[1] \notin miscredit /\ i < j /\ 0 \notin {a[2], b[2]} =>
              /\ a[2] < b[2]
              /\ j = i + 1 /\ lost[a[1]] = {} => b[2] = a[2] + 1

(* A byte read from a stream that is linked is written in the end, unless   *)
(* one of the two streams ends, the connect failed at once and nobody is    *)
(* told, a write failed, the buffer was moved or refused the byte, it was   *)
(* credited with another write, or the process dies.  Nothing else makes the    *)
(* relay stall: neither bytes that come while the upstream is connecting or *)
(* a write is out, nor a full socket (proxy.c:227, 273-285, 376, 457).      *)
GivenUp(h) ==
    \/ peer[h] = None \/ fate # "running" \/ h \in miscredit \/ gen[h] # 1
    \/ hs[peer[h]] = "stuck" \/ brk[peer[h]]

EveryByteRelayed ==
    \A h \in Handle : \A i \in 1 .. MaxBytes[h] :
        (peer[h] # None /\ rd[h] >= i)
            ~> (i \in Delivered(h) \cup lost[h] \/ GivenUp(h))

(* Of the bytes written from buffers that are still there, no upstream ever *)
(* gets those of two clients, and no two clients get those of one upstream  *)
(* (proxy.c:326-333).  A byte written from a buffer that was freed or moved *)
(* may be anybody's: that there are such is what BuffersRemainValid is      *)
(* violated by, MovedOnlyWhenFull says when a move leads there.             *)
ClientsKeptApart ==
    LET sources(to) == {Source(b) : b \in Range(out[to])} \ {None}
    IN  /\ \A u \in Up : Cardinality(sources(u)) <= 1
        /\ \A d, e \in Down : d # e => sources(d) \cap sources(e) = {}

(* Every queued write whose buffer has neither moved nor been freed lies in *)
(* its allocation, in bytes that were appended before, whatever appends     *)
(* failed or reallocated (proxy.c:406-409, rts_buf.c:46-62).                *)
QueuedInBounds ==
    \A to \in Handle : \A i \in DOMAIN wq[to] :
        LET r == wq[to][i]
        IN  gen[r.src] = r.gen =>
              r.off + r.len <= Len(mem[r.src]) /\ Len(mem[r.src]) < cap[r.src]

(* A living stream loses the buffer of a queued write only when its bytes   *)
(* do not fit in the first allocation with a byte left: what waits for the  *)
(* other side is then all still in the buffer, from the last restart on.    *)
(* A relay whose sides keep up never moves a buffer under a write, growth   *)
(* and restart are the only two ways its size goes (rts_buf.c:46, proxy.c:  *)
(* 225, 281-285).  Of a stream in miscredit the buffer may have restarted.  *)
MovedOnlyWhenFull ==
    \A to \in Handle : \A i \in DOMAIN wq[to] :
        LET r == wq[to][i]
        IN  Live(r.src) /\ r.src \notin miscredit /\ gen[r.src] # r.gen =>
              size[r.src] >= BufCap

(* A step never changes the bytes a queued write will send, as long as the  *)
(* stream it was read from is credited with its own writes only, and its    *)
(* buffer is neither moved nor freed: the buffer starts again from 0 only   *)
(* when nothing of it is queued (proxy.c:281-285, rts_buf.c:61).  After a   *)
(* miscredit it may start again with a write of it queued, and the next     *)
(* append changes what that sends; MiscreditExplained says when.            *)
QueuedBytesStable ==
    [][\A to \in Handle : \A i \in DOMAIN wq[to] :
        LET r == wq[to][i]
        IN  r.src \notin miscredit' /\ gen[r.src] = r.gen /\ gen'[r.src] = r.gen =>
              SubSeq(mem'[r.src], r.off + 1, r.off + r.len)
                = SubSeq(mem[r.src], r.off + 1, r.off + r.len)]_vars

-----------------------------------------------------------------------------
(* The relay as a pair of FIFO channels for each client.                    *)

(* The bytes of a stream that wait: its buffer from the first byte on that  *)
(* is not written.                                                          *)
Waiting(h) ==
    LET from == IF Pending(h) = {} THEN last[h] ELSE Min({r.off : r \in Pending(h)})
    IN  SubSeq(mem[h], from + 1, size[h])

(* A stream is given up when it ends, and while it lives when one of these  *)
(* happened to its bytes: it was credited with another write than its last, *)
(* its buffer was moved under a queued write, or a write that failed was    *)
(* counted.                                                                 *)
GivenUpFor(h) ==
    \/ Ended(h) \/ h \in miscredit \/ MovedWhileQueued(h)
    \/ /\ \E to \in Opposite(h) : brk[to]
       /\ Delivered(h) \cup Range(Waiting(h)) \cup lost[h] # 1 .. rd[h]

Fifo == INSTANCE FifoRelay WITH
    Burst <- ReadMax,
    Lost <- None,
    link <- peer,
    chan <- [h \in Handle |->
        IF GivenUpFor(h) THEN None ELSE [arrived |-> rd[h], bytes |-> Waiting(h)]]

(* The callbacks, the buffers that are appended to, sent from and started   *)
(* again, and the writes the kernel takes in pieces or later implement FIFO *)
(* channels: a stream takes the bytes of the one it is linked to now, each  *)
(* once and in order, whatever became of other streams before (proxy.c:176- *)
(* 290, 384-527).                                                           *)
ImplementsFifo == Fifo!Spec

-----------------------------------------------------------------------------
(* What comments of the sources say, and the code does not do.              *)

(* "The buffers to be written must remain valid until the callback is       *)
(* called" (third/libuv/src/unix/stream.c:1415): of each queued request.    *)
BuffersRemainValid ==
    \A to \in Handle : \A i \in DOMAIN wq[to] : gen[wq[to][i].src] = wq[to][i].gen

(* "The data to be sent the last time are not all sent, new data must not   *)
(* be sent" (proxy.c:399): one write of a stream's data at a time.          *)
LastTransferFinishedFirst ==
    \A h \in Handle : Live(h) => Cardinality(Outstanding(h)) <= 1

(* A failed connect closes the connection to the downstream (proxy.c:363),  *)
(* it does not end the process.                                             *)
ConnectFailureSurvived == fate # "on_upstream_connect: failed, stream_conn is freed"
=============================================================================
