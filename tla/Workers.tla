------------------------------ MODULE Workers ------------------------------
(***************************************************************************)
(* The processes of demo/echo_server/server.c: the parent makes the loop    *)
(* and the listening socket, forks the workers, closes its listener and     *)
(* waits for them; each worker runs the loop it inherited.  The loop's      *)
(* epoll descriptor is inherited too (libuv 1.7.3 makes it in               *)
(* uv_default_loop and keeps it over a fork), so that all processes share   *)
(* one set of interests, while each has its own table of watchers.          *)
(***************************************************************************)
EXTENDS Integers, FiniteSets

CONSTANTS NWorkers,   \* DEFAULT_NWORKERS
          Client,     \* the connections clients may make
          Listener,   \* the listening socket
          ListenerFd, \* its descriptor, the highest the parent has open
          TableSize,  \* the size of loop->watchers when the parent forks
          None        \* no connection

Worker == 1 .. NWorkers

(* The pid of the i-th child is i; an accepted socket gets the lowest       *)
(* descriptor that is free in its process.                                  *)
Fd == ListenerFd + 1 .. ListenerFd + Cardinality(Client)

ASSUME WorkersAssumption ==
    /\ NWorkers \in Nat \ {0}
    /\ ListenerFd \in Nat /\ TableSize \in Nat /\ ListenerFd < TableSize
    /\ IsFiniteSet(Client) /\ Listener \notin Client /\ None \notin Client \cup {Listener}

VARIABLES
    \* the parent
    ppc,      \* what main does: "fork", "close", "wait", "done"
    i,        \* the loop variable of spawn_processes and of main
    g_pids,   \* g_pids
    \* the workers
    wpc,      \* what a worker does
    queue,    \* loop->watcher_queue: the descriptors not yet registered
    watchers, \* loop->watchers: the connection on each descriptor, or None
    nwatchers, \* loop->nwatchers: the size of that table
    got,      \* the events of epoll_wait that are still to be dispatched
    \* the kernel
    interest, \* the entries of the shared epoll: a file, and a descriptor as data
    conn,     \* what has become of a connection
    data,     \* bytes wait to be read on it
    ended,    \* whether and how its client has ended it
    late      \* history: a worker entered its loop after the parent's uv_close

parentVars == <<ppc, i, g_pids>>
workerVars == <<wpc, queue, watchers, nwatchers, got>>
kernelVars == <<interest, conn, data, ended>>
vars == <<parentVars, workerVars, kernelVars, late>>

Live(w) == wpc[w] \notin {"none", "dead", "reaped"}

Closed == ppc \in {"wait", "done"}

Entry == [file : Client \cup {Listener}, fd : Fd \cup {ListenerFd}]

TypeOK ==
    /\ ppc \in {"fork", "close", "wait", "done"}
    /\ IF ppc = "done" THEN i = NWorkers + 1 ELSE i \in 1 .. NWorkers
    /\ g_pids \in [Worker -> Worker \cup {0, -1}]
    /\ wpc \in [Worker -> {"none", "born", "turn", "polling", "handling", "accepting",
                           "dead", "reaped"}]
    /\ queue \in [Worker -> SUBSET (Fd \cup {ListenerFd})]
    /\ watchers \in [Worker -> [Fd -> Client \cup {None}]]
    /\ nwatchers \in [Worker -> Nat]
    /\ got \in [Worker -> SUBSET [on : Entry, hup : BOOLEAN]]
    /\ interest \subseteq Entry
    /\ conn \in [Client -> {"new", "queued", "open", "eof", "error", "lost"}]
    /\ data \in [Client -> BOOLEAN]
    /\ ended \in [Client -> {"no", "fin", "rst"}]
    /\ late \in BOOLEAN

Init ==
    /\ ppc = "fork" /\ i = 1
    /\ g_pids = [w \in Worker |-> 0]
    /\ wpc = [w \in Worker |-> "none"]
    /\ queue = [w \in Worker |-> {}]
    /\ watchers = [w \in Worker |-> [f \in Fd |-> None]]
    /\ nwatchers = [w \in Worker |-> TableSize]
    /\ got = [w \in Worker |-> {}]
    /\ interest = {}
    /\ conn = [c \in Client |-> "new"]
    /\ data = [c \in Client |-> FALSE]
    /\ ended = [c \in Client |-> "no"]
    /\ late = FALSE

-----------------------------------------------------------------------------
(* The parent.                                                              *)

Inherited_Nothing == {}

(* uv_listen has put the listener into the watcher_queue every child gets.  *)
Inherited == {ListenerFd}

(* spawn_processes: fork succeeds. *)
Fork ==
    /\ ppc = "fork"
    /\ g_pids' = [g_pids EXCEPT ![i] = i]
    /\ wpc' = [wpc EXCEPT ![i] = "born"]
    /\ queue' = [queue EXCEPT ![i] = Inherited]
    /\ i' = IF i = NWorkers THEN 1 ELSE i + 1
    /\ ppc' = IF i = NWorkers THEN "close" ELSE "fork"
    /\ UNCHANGED <<watchers, nwatchers, got, kernelVars, late>>

(* spawn_processes returns -1, which main does not look at. *)
ForkFails ==
    /\ ppc = "fork"
    /\ g_pids' = [g_pids EXCEPT ![i] = -1]
    /\ i' = 1 /\ ppc' = "close"
    /\ UNCHANGED <<workerVars, kernelVars, late>>

(* What is left of the connections when the last listener is closed.        *)
Unaccepted(cs, listening) ==
    [c \in Client |-> IF cs[c] = "queued" /\ ~listening THEN "lost" ELSE cs[c]]

(* uv_close of the parent's listener: uv__platform_invalidate_fd removes it *)
(* from the epoll.                                                          *)
CloseListener ==
    /\ ppc = "close"
    /\ interest' = {e \in interest : e.file # Listener}
    /\ conn' = Unaccepted(conn, \E w \in Worker : Live(w))
    /\ ppc' = "wait"
    /\ UNCHANGED <<i, g_pids, workerVars, data, ended, late>>

(* The children waitpid(pid) waits for: for -1 and 0, any child. *)
Waited(pid) ==
    {w \in Worker : wpc[w] \notin {"none", "reaped"} /\ (pid = w \/ pid <= 0)}

NotLast_StopsEarly == i + 1 < NWorkers
NotLast_OneMore == i <= NWorkers

(* The loop of main goes on. *)
NotLast == i < NWorkers

Waitpid ==
    /\ ppc = "wait"
    /\ \/ \E w \in Waited(g_pids[i]) :
            wpc[w] = "dead" /\ wpc' = [wpc EXCEPT ![w] = "reaped"]
       \/ Waited(g_pids[i]) = {} /\ UNCHANGED wpc
    /\ i' = IF NotLast THEN i + 1 ELSE NWorkers + 1
    /\ ppc' = IF NotLast THEN "wait" ELSE "done"
    /\ UNCHANGED <<g_pids, queue, watchers, nwatchers, got, kernelVars, late>>

-----------------------------------------------------------------------------
(* A worker.                                                                *)

FileOf(w, f) == IF f = ListenerFd THEN Listener ELSE watchers[w][f]

(* uv__io_poll registers what is queued and waits. *)
Poll(w) ==
    /\ wpc[w] \in {"born", "turn"}
    /\ wpc' = [wpc EXCEPT ![w] = "polling"]
    /\ interest' = interest \cup {[file |-> FileOf(w, f), fd |-> f] : f \in queue[w]}
    /\ queue' = [queue EXCEPT ![w] = {}]
    /\ late' = (late \/ (wpc[w] = "born" /\ Closed))
    /\ UNCHANGED <<parentVars, watchers, nwatchers, got, conn, data, ended>>

Ready(file) ==
    IF file = Listener THEN \E c \in Client : conn[c] = "queued"
                       ELSE data[file] \/ ended[file] # "no"

Event(e) == [on |-> e, hup |-> e.file # Listener /\ ended[e.file] = "rst"]

(* epoll_wait returns what is ready, whichever worker has registered it.    *)
Wake(w) ==
    LET ready == {e \in interest : Ready(e.file)}
    IN  /\ wpc[w] = "polling" /\ ready # {}
        /\ wpc' = [wpc EXCEPT ![w] = "handling"]
        /\ got' = [got EXCEPT ![w] = {Event(e) : e \in ready}]
        /\ UNCHANGED <<parentVars, queue, watchers, nwatchers, kernelVars, late>>

(* uv__io_poll goes on with the events in rest, or the loop goes round.     *)
Dispatched(w, rest) ==
    /\ got' = [got EXCEPT ![w] = rest]
    /\ wpc' = [wpc EXCEPT ![w] = IF rest = {} THEN "turn" ELSE "handling"]
    /\ UNCHANGED <<parentVars, nwatchers>>

LowestFree(w, f) ==
    watchers[w][f] = None /\ \A k \in ListenerFd + 1 .. f - 1 : watchers[w][k] # None

(* The listener's event: uv__server_io begins to accept. *)
ServerIo(w) ==
    \E v \in got[w] :
        /\ wpc[w] = "handling" /\ v.on.fd = ListenerFd
        /\ wpc' = [wpc EXCEPT ![w] = "accepting"]
        /\ got' = [got EXCEPT ![w] = @ \ {v}]
        /\ UNCHANGED <<parentVars, queue, watchers, nwatchers, kernelVars, late>>

MaybeResize_TooLate(n, fd) == IF fd <= n THEN n ELSE 2 * n + 2

(* maybe_resize for a descriptor that is at most one too high: the size is  *)
(* always two less than a power of two.                                     *)
MaybeResize(n, fd) == IF fd < n THEN n ELSE 2 * n + 2

(* One round of its loop, and on_new_connection. *)
OnNewConnection(w) ==
    /\ wpc[w] = "accepting"
    /\ \E c \in Client, f \in Fd :
        /\ conn[c] = "queued" /\ LowestFree(w, f)
        /\ conn' = [conn EXCEPT ![c] = "open"]
        /\ watchers' = [watchers EXCEPT ![w][f] = c]
        /\ nwatchers' = [nwatchers EXCEPT ![w] = MaybeResize(@, f)]
        /\ queue' = [queue EXCEPT ![w] = @ \cup {f}]
    /\ UNCHANGED <<parentVars, wpc, got, interest, data, ended, late>>

(* EAGAIN: nothing left, or another worker was quicker. *)
NothingToAccept(w) ==
    /\ wpc[w] = "accepting" /\ \A c \in Client : conn[c] # "queued"
    /\ Dispatched(w, got[w])
    /\ UNCHANGED <<queue, watchers, kernelVars, late>>

CloseConnection_ByFd(w, f, how) ==
    /\ conn' = [conn EXCEPT ![watchers[w][f]] = how]
    /\ watchers' = [watchers EXCEPT ![w][f] = None]
    /\ queue' = [queue EXCEPT ![w] = @ \ {f}]
    /\ interest' = {e \in interest : e.fd # f}
    /\ Dispatched(w, {v \in got[w] : v.on.fd # f})

(* echo_read with nread < 0 closes the connection on descriptor f, and      *)
(* uv__platform_invalidate_fd drops the other events for that descriptor.   *)
CloseConnection(w, f, how) ==
    /\ conn' = [conn EXCEPT ![watchers[w][f]] = how]
    /\ watchers' = [watchers EXCEPT ![w][f] = None]
    /\ queue' = [queue EXCEPT ![w] = @ \ {f}]
    /\ interest' = interest \ {[file |-> watchers[w][f], fd |-> f]}
    /\ Dispatched(w, {v \in got[w] : v.on.fd # f})

HupIsEof_Always(v) == TRUE

(* After a partial read, POLLHUP is taken for the end of the file. *)
HupIsEof(v) == v.hup

(* uv__stream_io on the stream this worker has on the descriptor: bytes are *)
(* there (fewer than the 65537 that fit, so that the read is partial).      *)
ReadData(w, v) ==
    LET f == v.on.fd
    IN  /\ watchers[w][f] # None /\ data[watchers[w][f]]
        /\ data' = [data EXCEPT ![watchers[w][f]] = FALSE]
        /\ \/ HupIsEof(v) /\ CloseConnection(w, f, "eof")
           \/ ~HupIsEof(v) /\ Dispatched(w, got[w] \ {v})
              /\ UNCHANGED <<conn, watchers, queue, interest>>
        /\ UNCHANGED <<ended, late>>

(* No bytes, but the client's end, or its reset. *)
ReadEnd(w, v) ==
    LET c == watchers[w][v.on.fd]
    IN  /\ c # None /\ ~data[c] /\ ended[c] # "no"
        /\ CloseConnection(w, v.on.fd, IF ended[c] = "fin" THEN "eof" ELSE "error")
        /\ UNCHANGED <<data, ended, late>>

(* Nothing to read after all, or no stream on the descriptor: the event was *)
(* another worker's.  EPOLL_CTL_DEL finds no such descriptor here.          *)
ReadNothing(w, v) ==
    /\ LET c == watchers[w][v.on.fd]
       IN  c # None => ~data[c] /\ ended[c] = "no"
    /\ Dispatched(w, got[w] \ {v})
    /\ UNCHANGED <<queue, watchers, kernelVars, late>>

(* A worker is killed, by SIGPIPE or from outside: its sockets are closed.  *)
Die(w) ==
    LET mine == {watchers[w][f] : f \in Fd}
        listening == ~Closed \/ \E v \in Worker \ {w} : Live(v)
    IN  /\ Live(w)
        /\ wpc' = [wpc EXCEPT ![w] = "dead"]
        /\ queue' = [queue EXCEPT ![w] = {}]
        /\ watchers' = [watchers EXCEPT ![w] = [f \in Fd |-> None]]
        /\ got' = [got EXCEPT ![w] = {}]
        /\ interest' = {e \in interest : e.file \notin mine
                                           /\ (e.file = Listener => listening)}
        /\ conn' = Unaccepted([c \in Client |-> IF c \in mine THEN "lost" ELSE conn[c]],
                              listening)
        /\ UNCHANGED <<parentVars, nwatchers, data, ended, late>>

(* An event for a descriptor beyond the table: assert(fd < nwatchers) ends  *)
(* the process (libuv.a is built with assertions).                          *)
Abort(w) ==
    /\ wpc[w] = "handling"
    /\ \E v \in got[w] : v.on.fd >= nwatchers[w]
    /\ Die(w)

StreamIo(w) ==
    \E v \in got[w] :
        /\ wpc[w] = "handling" /\ v.on.fd # ListenerFd /\ v.on.fd < nwatchers[w]
        /\ ReadData(w, v) \/ ReadEnd(w, v) \/ ReadNothing(w, v)

Handle(w) ==
    ServerIo(w) \/ OnNewConnection(w) \/ NothingToAccept(w) \/ StreamIo(w) \/ Abort(w)

-----------------------------------------------------------------------------
(* The kernel and the clients.                                              *)

Connect(c) ==
    /\ conn[c] = "new"
    /\ ~Closed \/ \E w \in Worker : Live(w)
    /\ conn' = [conn EXCEPT ![c] = "queued"]
    /\ UNCHANGED <<parentVars, workerVars, interest, data, ended, late>>

Send(c) ==
    /\ conn[c] \in {"queued", "open"} /\ ended[c] = "no"
    /\ data' = [data EXCEPT ![c] = TRUE]
    /\ UNCHANGED <<parentVars, workerVars, interest, conn, ended, late>>

End(c) ==
    /\ conn[c] \in {"queued", "open"} /\ ended[c] = "no"
    /\ \E how \in {"fin", "rst"} : ended' = [ended EXCEPT ![c] = how]
    /\ UNCHANGED <<parentVars, workerVars, interest, conn, data, late>>

Parent == Fork \/ ForkFails \/ CloseListener \/ Waitpid

Next ==
    \/ Parent
    \/ \E w \in Worker : Poll(w) \/ Wake(w) \/ Handle(w) \/ Die(w)
    \/ \E c \in Client : Connect(c) \/ Send(c) \/ End(c)

Spec == Init /\ [][Next]_vars

(* Every process goes on while it can.  Nobody has to connect, to send, to  *)
(* end or to die.                                                           *)
Fairness ==
    /\ WF_vars(Parent)
    /\ \A w \in Worker : WF_vars(Poll(w)) /\ WF_vars(Wake(w)) /\ WF_vars(Handle(w))

FairSpec == Spec /\ Fairness

-----------------------------------------------------------------------------
(* Properties.                                                              *)

(* The parent returns only when every child it has forked has ended and was *)
(* waited for, although g_pids holds a -1 and zeros after a failed fork     *)
(* (server.c:53-60, 71-77).                                                 *)
WaitsForEveryChild ==
    ppc = "done" => \A w \in Worker : wpc[w] \in {"none", "reaped"}

EndsWithReason(c) ==
    conn[c] = "open" /\ conn'[c] \in {"eof", "error"} /\ ended[c] = "no" =>
        \E w \in Worker : \E v \in got[w] :
            /\ v.hup /\ watchers[w][v.on.fd] = c
            /\ v.on.file # c /\ ended[v.on.file] = "rst"

(* A worker ends a connection whose client has not ended it only for the    *)
(* reset of another worker's connection that has the same descriptor: what  *)
(* they share is the epoll, and nothing else (linux-core.c:296-348,         *)
(* stream.c:1252-1258).                                                     *)
EndedOnlyByTwin == [][\A c \in Client : EndsWithReason(c)]_vars

(* The events of a worker's own connections are for its own table, however  *)
(* its descriptors are closed and reused while other workers are told of    *)
(* them too (core.c:751-783, linux-core.c:305).                             *)
OwnEventsInTable ==
    \A w \in Worker : \A v \in got[w] :
        v.on.fd \in Fd /\ v.on.file = watchers[w][v.on.fd] => v.on.fd < nwatchers[w]

(* No worker entered its loop after the parent's uv_close, and none will.   *)
Deaf == Closed /\ ~late /\ \A w \in Worker : wpc[w] # "born"

(* A connection is accepted, or lost with the last worker, unless the       *)
(* parent's uv_close came after all the workers had registered the          *)
(* listener (server.c:47-50, linux-core.c:132-139, 176-208).                *)
AcceptedUnlessParentLast ==
    \A c \in Client : conn[c] = "queued" ~> (conn[c] # "queued" \/ Deaf)

(* The end of an accepted connection is noticed, although other workers are *)
(* told of it too and close connections with the same descriptor            *)
(* (linux-core.c:125-139, 296-350).                                         *)
EndIsSeen ==
    \A c \in Client :
        (conn[c] = "open" /\ ended[c] # "no") ~> conn[c] # "open"

-----------------------------------------------------------------------------
(* What the documentation of libuv says, and its use here does not give.    *)

(* "When a new incoming connection is received the uv_connection_cb         *)
(* callback is called" (third/libuv/docs/src/stream.rst:113).               *)
ConnectionCallbackCalled ==
    \A c \in Client : conn[c] = "queued" ~> conn[c] # "queued"

(* "assert((unsigned) fd < loop->nwatchers)"                                *)
(* (third/libuv/src/unix/linux-core.c:305), of each event to dispatch.      *)
EventsInTable == \A w \in Worker : \A v \in got[w] : v.on.fd < nwatchers[w]
=============================================================================
