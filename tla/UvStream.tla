------------------------------ MODULE UvStream ------------------------------
(***************************************************************************)
(* libuv 1.7.3 on Linux (third/libuv/src/unix) as the programs use it: one  *)
(* event loop, TCP streams, their write queues, uv_close, and the kernel    *)
(* behind the sockets.  A callback runs to completion, so each callback is  *)
(* one step of the module that EXTENDS this one; what libuv does around the *)
(* callbacks is modelled here.                                              *)
(*                                                                         *)
(* A handle is never given back: the programs do not free a uv_tcp_t.       *)
(***************************************************************************)
EXTENDS Naturals, SequencesExt

CONSTANTS Handle,  \* the uv_tcp_t objects a behaviour may use
          None,    \* no handle
          ReadMax  \* the size of the buffer the program's alloc_buffer offers

ASSUME NoneAssumption == None \notin Handle /\ ReadMax \in Nat \ {0}

VARIABLES
    \* the loop
    phase,    \* the part of uv_run that is running
    batch,    \* the watchers uv__run_pending still has to call
    feed,     \* loop->pending_queue
    served,   \* the handles that can have no event any more in this poll
    cur,      \* the handle whose event is being processed, or None
    todo,     \* the stages of uv__stream_io left to run for cur
    \* the streams
    hs,       \* state of a handle
    wq,       \* write_queue: the requests not yet written
    wdone,    \* write_completed_queue: the requests waiting for their callback
    pollout,  \* the interest in POLLOUT: set, and known to epoll
    brk,      \* a write has failed: the peer reset the connection
    out,      \* what the kernel has accepted on a handle, in order: for each
              \* byte the stream whose request brought it, and its number
    \* the heap
    mem,      \* the bytes in the buffer that belongs to a handle
    gen,      \* which allocation that buffer is; 0 when there is none
    fate      \* "running", or what ended the process

loopVars   == <<phase, batch, feed, served, cur, todo>>
streamVars == <<hs, wq, wdone, pollout, brk, out>>
heapVars   == <<mem, gen>>
uvVars     == <<phase, batch, feed, served, cur, todo,
                hs, wq, wdone, pollout, brk, out, mem, gen, fate>>

HandleState == {"unused", "connecting", "refused", "stuck", "open", "closing", "closed"}

(* What can be left to do for an event: see EventStages. *)
StageLists == {<<>>, <<"connect">>, <<"read">>, <<"read", "eof">>, <<"eof">>,
               <<"read", "write", "callbacks">>, <<"write", "callbacks">>,
               <<"callbacks">>}

(* A write request: `len` bytes at offset `off` of allocation `gen` of the  *)
(* buffer of `src`; `err` once it has failed.                               *)
WriteReq == [src : Handle, gen : Nat \ {0}, off : Nat, len : Nat, err : BOOLEAN]

UvTypeOK ==
    /\ phase \in {"pending", "poll", "closing"}
    /\ batch \in Seq(Handle) /\ feed \in Seq(Handle)
    /\ served \in SUBSET Handle
    /\ cur \in Handle \cup {None}
    /\ todo \in StageLists
    /\ hs \in [Handle -> HandleState]
    /\ wq \in [Handle -> Seq(WriteReq)] /\ wdone \in [Handle -> Seq(WriteReq)]
    /\ pollout \in [Handle -> {"off", "new", "on"}]
    /\ brk \in [Handle -> BOOLEAN]
    /\ out \in [Handle -> Seq(Handle \X Nat)]
    /\ mem \in [Handle -> Seq(Nat)]
    /\ gen \in [Handle -> Nat]

UvInit ==
    /\ phase = "poll" /\ batch = <<>> /\ feed = <<>> /\ served = {}
    /\ cur = None /\ todo = <<>>
    /\ hs = [h \in Handle |-> "unused"]
    /\ wq = [h \in Handle |-> <<>>] /\ wdone = [h \in Handle |-> <<>>]
    /\ pollout = [h \in Handle |-> "off"]
    /\ brk = [h \in Handle |-> FALSE]
    /\ out = [h \in Handle |-> <<>>]
    /\ mem = [h \in Handle |-> <<>>] /\ gen = [h \in Handle |-> 0]
    /\ fate = "running"

-----------------------------------------------------------------------------
(* What the programs call.                                                  *)

(* uv__io_feed: the watcher is queued once. *)
Fed(q, h) == IF Contains(q, h) THEN q ELSE Append(q, h)

(* QUEUE_REMOVE of the watcher of h from the queue it is in, if any. *)
Unfed(q, h) ==
    IF Contains(q, h) THEN RemoveAt(q, CHOOSE i \in DOMAIN q : q[i] = h) ELSE q

StartPollout_Forgotten(h) == UNCHANGED pollout

(* uv__io_start(POLLOUT); epoll hears of it when the next poll begins. *)
StartPollout(h) ==
    pollout' = [pollout EXCEPT ![h] = IF @ = "off" THEN "new" ELSE @]

(* The request's memory is still the allocation it was given; g and m are   *)
(* the values of gen and mem when write(2) is called.                       *)
Valid(req, g) == g[req.src] = req.gen

(* The first n bytes of a request, as write(2) finds them.  Of a byte read  *)
(* from memory that was freed or never written nothing is known, neither    *)
(* its value nor whose it is: malloc may have given the block to another    *)
(* stream.  It has number 0, and only says which stream's request it was.   *)
Bytes(req, n, g, m) ==
    [i \in 1 .. n |->
        <<req.src, IF Valid(req, g) /\ req.off + i \in DOMAIN m[req.src]
                   THEN m[req.src][req.off + i] ELSE 0>>]

(* The stream a byte was read from; None for a byte of which that is not    *)
(* known.                                                                   *)
Source(b) == IF b[2] = 0 THEN None ELSE b[1]

(* uv__write on stream h, its write queue being q and the completed queue   *)
(* done: the kernel takes n bytes of the first request (none: EAGAIN), or   *)
(* refuses them.  The process does not ignore SIGPIPE.                      *)
WroteAll(h, q, done, g, m) ==
    /\ ~brk[h]
    /\ out' = [out EXCEPT ![h] = @ \o Bytes(Head(q), Head(q).len, g, m)]
    /\ wq' = [wq EXCEPT ![h] = Tail(q)]
    /\ wdone' = [wdone EXCEPT ![h] = Append(done, Head(q))]
    /\ feed' = Fed(feed, h)
    /\ UNCHANGED <<pollout, brk, fate>>

WrotePart(h, q, done, g, m) ==
    /\ ~brk[h]
    /\ \E n \in 0 .. Head(q).len - 1 :
        /\ out' = [out EXCEPT ![h] = @ \o Bytes(Head(q), n, g, m)]
        /\ wq' = [wq EXCEPT ![h] =
                    <<[Head(q) EXCEPT !.off = @ + n, !.len = @ - n]>> \o Tail(q)]
    /\ wdone' = [wdone EXCEPT ![h] = done]
    /\ StartPollout(h)
    /\ UNCHANGED <<feed, brk, fate>>

WriteFailed(h, q, done) ==
    /\ ~brk[h]
    /\ brk' = [brk EXCEPT ![h] = TRUE]
    /\ wq' = [wq EXCEPT ![h] = Tail(q)]
    /\ wdone' = [wdone EXCEPT ![h] = Append(done, [Head(q) EXCEPT !.err = TRUE])]
    /\ feed' = Fed(feed, h)
    /\ pollout' = [pollout EXCEPT ![h] = "off"]
    /\ UNCHANGED <<out, fate>>

WriteKills(h, q, done) ==
    /\ fate' = "SIGPIPE"
    /\ wq' = [wq EXCEPT ![h] = q] /\ wdone' = [wdone EXCEPT ![h] = done]
    /\ UNCHANGED <<out, feed, pollout, brk>>

Uv__Write(h, q, done, g, m) ==
    \/ WroteAll(h, q, done, g, m)
    \/ WrotePart(h, q, done, g, m)
    \/ WriteFailed(h, q, done)
    \/ WriteKills(h, q, done)

(* stream->write_queue_size: the bytes not written, and those of the failed *)
(* requests whose callback has not run.                                     *)
WriteQueueSize(q, done) ==
    FoldLeft(LAMBDA n, r : n + r.len, 0, q)
        + FoldLeft(LAMBDA n, r : IF r.err THEN n + r.len ELSE n, 0, done)

(* uv_write on a connected stream. *)
UvWrite(h, req, q, done, g, m) ==
    IF WriteQueueSize(q, done) = 0
    THEN Uv__Write(h, Append(q, req), done, g, m)
    ELSE /\ wq' = [wq EXCEPT ![h] = Append(q, req)]
         /\ wdone' = [wdone EXCEPT ![h] = done]
         /\ StartPollout(h)
         /\ UNCHANGED <<out, feed, brk, fate>>

(* The read loop of uv__read calls back with n bytes; a full buffer may     *)
(* have more behind it.                                                     *)
AfterRead(n) == IF n = ReadMax THEN todo ELSE Tail(todo)

(* uv_close from a callback of h itself: no event of h is left, the rest of *)
(* uv__stream_io returns, the queued requests wait for uv__finish_close.    *)
UvClose(h) ==
    /\ hs' = [hs EXCEPT ![h] = "closing"]
    /\ batch' = Unfed(batch, h) /\ feed' = Unfed(feed, h)
    /\ pollout' = [pollout EXCEPT ![h] = "off"]
    /\ cur' = None /\ todo' = <<>>
    /\ UNCHANGED <<phase, served, wq, wdone, brk, out, fate>>

(* An event of cur is dealt with up to the stages in t. *)
NextStage(t) ==
    /\ todo' = t
    /\ cur' = IF t = <<>> THEN None ELSE cur

(* The process is killed inside a callback. *)
Crash(site) ==
    /\ fate' = site
    /\ UNCHANGED <<loopVars, streamVars, heapVars>>

-----------------------------------------------------------------------------
(* uv_run.                                                                  *)

Idle == fate = "running" /\ cur = None

(* uv__run_pending calls the next watcher of the queue it split off. *)
RunPending ==
    /\ Idle /\ phase = "pending" /\ batch # <<>>
    /\ batch' = Tail(batch)
    /\ cur' = Head(batch)
    /\ todo' = IF hs[Head(batch)] = "refused" THEN <<"connect">>
                                              ELSE <<"write", "callbacks">>
    /\ UNCHANGED <<phase, feed, served, streamVars, heapVars, fate>>

(* uv__io_poll tells epoll of the new interests and waits. *)
PendingDone ==
    /\ Idle /\ phase = "pending" /\ batch = <<>>
    /\ phase' = "poll"
    /\ served' = {}
    /\ pollout' = [h \in Handle |-> IF pollout[h] = "new" THEN "on" ELSE pollout[h]]
    /\ UNCHANGED <<batch, feed, cur, todo, hs, wq, wdone, brk, out, heapVars, fate>>

(* The stages of uv__stream_io for each set of events an open stream can    *)
(* have.  After POLLHUP a partial read is followed by the end of file; both *)
(* programs close the stream then, so that its write stage is not reached.  *)
EventStages(h) ==
    {<<"read">>, <<"read", "eof">>}
        \cup (IF pollout[h] = "on"
              THEN {<<"write", "callbacks">>, <<"read", "write", "callbacks">>}
              ELSE {})

(* uv__io_poll dispatches the event of one descriptor, at most one a poll. *)
PollEvent(h) ==
    /\ Idle /\ phase = "poll" /\ h \notin served
    /\ served' = served \cup {h}
    /\ cur' = h
    /\ \/ hs[h] \in {"connecting", "refused"} /\ todo' = <<"connect">>
       \/ hs[h] = "open" /\ todo' \in EventStages(h)
    /\ UNCHANGED <<phase, batch, feed, streamVars, heapVars, fate>>

(* uv__io_poll returns: it blocks unless something is pending or closing. *)
PollDone ==
    /\ Idle /\ phase = "poll"
    /\ served # {} \/ feed # <<>> \/ \E h \in Handle : hs[h] = "closing"
    /\ phase' = "closing"
    /\ UNCHANGED <<batch, feed, served, cur, todo, streamVars, heapVars, fate>>

(* uv__finish_close cancels what is queued and runs the callbacks. *)
Cancelled(q) == [i \in DOMAIN q |-> [q[i] EXCEPT !.err = TRUE]]

FinishClose(h) ==
    /\ Idle /\ phase = "closing" /\ hs[h] = "closing"
    /\ hs' = [hs EXCEPT ![h] = "closed"]
    /\ wdone' = [wdone EXCEPT ![h] = @ \o Cancelled(wq[h])]
    /\ wq' = [wq EXCEPT ![h] = <<>>]
    /\ IF wdone[h] = <<>> /\ wq[h] = <<>>
       THEN UNCHANGED <<cur, todo>>
       ELSE cur' = h /\ todo' = <<"callbacks">>
    /\ UNCHANGED <<phase, batch, feed, served, pollout, brk, out, heapVars, fate>>

(* The next iteration begins: uv__run_pending splits the pending queue off. *)
ClosingDone ==
    /\ Idle /\ phase = "closing" /\ \A h \in Handle : hs[h] # "closing"
    /\ phase' = "pending"
    /\ batch' = feed /\ feed' = <<>>
    /\ UNCHANGED <<served, cur, todo, streamVars, heapVars, fate>>

InStage(s) == fate = "running" /\ cur # None /\ todo # <<>> /\ Head(todo) = s

(* uv__stream_io: uv__write, and the callbacks when nothing is left of them. *)
WriteStage ==
    /\ InStage("write")
    /\ UNCHANGED heapVars
    /\ IF wq[cur] = <<>>
       THEN UNCHANGED <<wq, wdone, pollout, feed, out, brk, fate>>
       ELSE Uv__Write(cur, wq[cur], wdone[cur], gen, mem)
    /\ NextStage(Tail(todo))
    /\ UNCHANGED <<phase, batch, served, hs>>

CallbacksDone ==
    /\ InStage("callbacks") /\ wdone[cur] = <<>>
    /\ pollout' = [pollout EXCEPT ![cur] = IF wq[cur] = <<>> THEN "off" ELSE @]
    /\ NextStage(Tail(todo))
    /\ UNCHANGED <<phase, batch, feed, served, hs, wq, wdone, brk, out, heapVars, fate>>

(* What uv_run does by itself between two events. *)
LoopTurn ==
    \/ RunPending \/ PendingDone \/ PollDone \/ ClosingDone
    \/ \E h \in Handle : FinishClose(h)

UvNext ==
    \/ LoopTurn
    \/ WriteStage \/ CallbacksDone
    \/ \E h \in Handle : PollEvent(h)
=============================================================================
