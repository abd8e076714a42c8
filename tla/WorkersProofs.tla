--------------------------- MODULE WorkersProofs ---------------------------
(* Workers, for any number of workers and of connections.                   *)
EXTENDS Workers, FiniteSetTheorems, TLAPS

Queued == \A w \in Worker : \A f \in queue[w] : f # ListenerFd => watchers[w][f] # None

(* A child whose pid is not in g_pids has not been forked; the parent       *)
(* has waited for those before i.                                           *)
Forked ==
    /\ \A w \in Worker : wpc[w] # "none" => g_pids[w] = w
    /\ ppc = "fork" => \A w \in Worker : w >= i => wpc[w] = "none"

Reaped ==
    /\ ppc = "close" => i = 1
    /\ ppc = "wait" => \A w \in Worker : w < i => wpc[w] \in {"none", "reaped"}
    /\ ppc = "done" => \A w \in Worker : wpc[w] \in {"none", "reaped"}

(* A reset is for good, so that an event that shows one stays true.         *)
HupTrue ==
    \A w \in Worker : \A v \in got[w] :
        v.hup => v.on.file \in Client /\ ended[v.on.file] = "rst"

(* Where a connection is, the table reaches, and it is never smaller than   *)
(* it was made.                                                             *)
Covered ==
    \A w \in Worker :
        /\ ListenerFd < nwatchers[w]
        /\ \A f \in Fd : watchers[w][f] # None => f < nwatchers[w]

IInv == Covered /\ TypeOK /\ Queued /\ Forked /\ Reaped /\ HupTrue

-----------------------------------------------------------------------------
LEMMA InitInv == Init => IInv
<1>. SUFFICES ASSUME Init PROVE IInv
  OBVIOUS
<1>1. TypeOK
  <2>1. IF ppc = "done" THEN i = NWorkers + 1 ELSE i \in 1 .. NWorkers
    BY WorkersAssumption DEF Init
  <2>2. /\ queue \in [Worker -> SUBSET (Fd \cup {ListenerFd})]
        /\ watchers \in [Worker -> [Fd -> Client \cup {None}]]
        /\ nwatchers \in [Worker -> Nat]
        /\ got \in [Worker -> SUBSET [on : Entry, hup : BOOLEAN]]
        /\ interest \subseteq Entry
    BY WorkersAssumption DEF Init
  <2>. QED
    BY <2>1, <2>2 DEF Init, TypeOK
<1>2. Queued /\ HupTrue
  BY DEF Init, Queued, HupTrue
<1>3. Forked /\ Reaped
  BY DEF Init, Forked, Reaped
<1>4. Covered
  BY WorkersAssumption DEF Init, Covered
<1>. QED
  BY <1>1, <1>2, <1>3, <1>4 DEF IInv

-----------------------------------------------------------------------------
(* The parent's steps.                                                      *)

LEMMA ForkStep ==
    ASSUME IInv, Fork PROVE IInv'
<1>1. i \in Worker /\ NWorkers \in Nat /\ i <= NWorkers /\ ppc = "fork"
  BY WorkersAssumption DEF IInv, TypeOK, Fork, Worker
<1>2. TypeOK'
  <2>1. i' \in 1 .. NWorkers /\ ppc' \in {"fork", "close"}
    BY <1>1 DEF Fork, Worker
  <2>2. /\ g_pids' \in [Worker -> Worker \cup {0, -1}]
        /\ wpc' \in [Worker -> {"none", "born", "turn", "polling", "handling",
                                "accepting", "dead", "reaped"}]
        /\ queue' \in [Worker -> SUBSET (Fd \cup {ListenerFd})]
    BY <1>1 DEF IInv, TypeOK, Fork, Inherited
  <2>. QED
    BY <2>1, <2>2 DEF IInv, TypeOK, Fork, kernelVars
<1>3. Queued' /\ Covered' /\ HupTrue'
  BY <1>1 DEF IInv, TypeOK, Queued, Covered, HupTrue, Fork, kernelVars, Inherited
<1>4. Forked' /\ Reaped'
  <2>1. \A w \in Worker : wpc'[w] # "none" => g_pids'[w] = w
    BY <1>1 DEF IInv, TypeOK, Forked, Fork
  <2>2. ppc' = "fork" => \A w \in Worker : w >= i' => wpc'[w] = "none"
    <3>. SUFFICES ASSUME ppc' = "fork", NEW w \in Worker, w >= i' PROVE wpc'[w] = "none"
      OBVIOUS
    <3>1. i' = i + 1 /\ w # i /\ w >= i
      BY <1>1 DEF Fork, Worker
    <3>. QED
      BY <1>1, <3>1 DEF IInv, TypeOK, Forked, Fork
  <2>. QED
    BY <1>1, <2>1, <2>2 DEF Forked, Reaped, Fork
<1>. QED
  BY <1>2, <1>3, <1>4 DEF IInv

LEMMA ForkFailsStep ==
    ASSUME IInv, ForkFails PROVE IInv'
<1>1. i \in Worker /\ 1 \in 1 .. NWorkers /\ ppc = "fork"
  BY WorkersAssumption DEF IInv, TypeOK, ForkFails, Worker
<1>2. TypeOK'
  BY <1>1 DEF IInv, TypeOK, ForkFails, workerVars, kernelVars
<1>3. Queued' /\ Covered' /\ HupTrue'
  BY DEF IInv, Queued, Covered, HupTrue, ForkFails, workerVars, kernelVars
<1>4. Forked' /\ Reaped'
  <2>1. wpc[i] = "none"
    BY <1>1 DEF IInv, Forked, Worker
  <2>. QED
    BY <1>1, <2>1 DEF IInv, TypeOK, Forked, Reaped, ForkFails, workerVars
<1>. QED
  BY <1>2, <1>3, <1>4 DEF IInv

LEMMA CloseListenerStep ==
    ASSUME IInv, CloseListener PROVE IInv'
<1>1. ppc = "close" /\ ppc' = "wait" /\ UNCHANGED <<i, g_pids, workerVars, data, ended, late>>
  BY DEF CloseListener
<1>2. TypeOK'
  <2>1. conn' \in [Client -> {"new", "queued", "open", "eof", "error", "lost"}]
    BY DEF IInv, TypeOK, CloseListener, Unaccepted
  <2>. QED
    BY <1>1, <2>1 DEF IInv, TypeOK, CloseListener, workerVars
<1>3. Queued' /\ Covered' /\ HupTrue'
  BY <1>1 DEF IInv, Queued, Covered, HupTrue, workerVars
<1>4. \A w \in Worker : ~(w < 1)
  BY DEF Worker
<1>. QED
  BY <1>1, <1>2, <1>3, <1>4 DEF IInv, Forked, Reaped, workerVars

(* main waits for the pid of a child that lives, or for any child in the    *)
(* place of one that was not forked.                                        *)
LEMMA WaitpidStep ==
    ASSUME IInv, Waitpid PROVE IInv'
<1>1. i \in Worker /\ i \in 1 .. NWorkers /\ NWorkers \in Nat /\ ppc = "wait"
  BY WorkersAssumption DEF IInv, TypeOK, Waitpid, Worker
<1>2. \/ wpc' = wpc
      \/ \E w \in Worker : wpc' = [wpc EXCEPT ![w] = "reaped"] /\ wpc[w] = "dead"
  BY DEF Waitpid, Waited
<1>3. TypeOK'
  <2>1. IF ppc' = "done" THEN i' = NWorkers + 1 ELSE i' \in 1 .. NWorkers
    BY <1>1 DEF Waitpid, NotLast
  <2>2. ppc' \in {"wait", "done"}
    BY DEF Waitpid
  <2>. QED
    BY <1>2, <2>1, <2>2 DEF IInv, TypeOK, Waitpid, kernelVars
<1>4. Queued' /\ Covered' /\ HupTrue'
  BY DEF IInv, Queued, Covered, HupTrue, Waitpid, kernelVars
<1>5. wpc'[i] \in {"none", "reaped"}
  <2>1. CASE wpc[i] \in {"none", "reaped"}
    BY <1>1, <1>2, <2>1 DEF IInv, TypeOK
  <2>2. CASE wpc[i] \notin {"none", "reaped"}
    <3>1. g_pids[i] = i /\ ~(i <= 0)
      BY <1>1, <2>2 DEF IInv, Forked, Worker
    <3>2. Waited(g_pids[i]) = {i}
      BY <1>1, <2>2, <3>1 DEF Waited
    <3>. QED
      BY <1>1, <3>2 DEF IInv, TypeOK, Waitpid
  <2>. QED
    BY <2>1, <2>2
<1>6. Forked'
  BY <1>1, <1>2 DEF IInv, TypeOK, Forked, Waitpid
<1>7. Reaped'
  <2>1. \A w \in Worker : w < i => wpc'[w] \in {"none", "reaped"}
    BY <1>1, <1>2 DEF IInv, TypeOK, Reaped
  <2>2. \A w \in Worker : w <= i => wpc'[w] \in {"none", "reaped"}
    BY <1>1, <1>5, <2>1 DEF Worker
  <2>. QED
    BY <1>1, <2>2 DEF Reaped, Waitpid, NotLast, Worker
<1>. QED
  BY <1>3, <1>4, <1>6, <1>7 DEF IInv

-----------------------------------------------------------------------------
(* The workers' steps, the kernel's and the clients'.                       *)

(* They fork nobody, and wait for nobody.                                   *)
LEMMA ParentUnconcerned ==
    ASSUME Forked, Reaped, UNCHANGED parentVars,
           \A w \in Worker : wpc[w] \in {"none", "reaped"} => wpc'[w] = wpc[w]
    PROVE  Forked' /\ Reaped'
<1>1. UNCHANGED <<ppc, i, g_pids>>
  BY DEF parentVars
<1>2. Forked'
  BY <1>1 DEF Forked
<1>3. Reaped'
  BY <1>1 DEF Reaped
<1>. QED
  BY <1>2, <1>3

(* No event appears that was not there, and resets stay.                    *)
LEMMA NoNewEvents ==
    ASSUME HupTrue, \A w \in Worker : got'[w] \subseteq got[w],
           \A c \in Client : ended[c] = "rst" => ended'[c] = "rst"
    PROVE  HupTrue'
BY DEF HupTrue

WorkerState == {"none", "born", "turn", "polling", "handling", "accepting", "dead", "reaped"}

LEMMA DispatchedStep ==
    ASSUME TypeOK, NEW w \in Worker, NEW rest \in SUBSET got[w], Dispatched(w, rest)
    PROVE  /\ got' \in [Worker -> SUBSET [on : Entry, hup : BOOLEAN]]
           /\ \A x \in Worker : got'[x] \subseteq got[x]
           /\ wpc' \in [Worker -> WorkerState]
           /\ \A x \in Worker : x # w => wpc'[x] = wpc[x]
           /\ UNCHANGED <<parentVars, nwatchers>>
BY DEF Dispatched, TypeOK, WorkerState

LEMMA CloseConnectionStep ==
    ASSUME TypeOK, Queued, NEW w \in Worker, NEW f \in Fd, watchers[w][f] \in Client,
           NEW how \in {"eof", "error"}, CloseConnection(w, f, how)
    PROVE  /\ conn' \in [Client -> {"new", "queued", "open", "eof", "error", "lost"}]
           /\ watchers' \in [Worker -> [Fd -> Client \cup {None}]]
           /\ queue' \in [Worker -> SUBSET (Fd \cup {ListenerFd})]
           /\ interest' \subseteq Entry
           /\ got' \in [Worker -> SUBSET [on : Entry, hup : BOOLEAN]]
           /\ \A x \in Worker : got'[x] \subseteq got[x]
           /\ wpc' \in [Worker -> WorkerState]
           /\ \A x \in Worker : x # w => wpc'[x] = wpc[x]
           /\ UNCHANGED <<parentVars, nwatchers>>
           /\ Queued'
           /\ \A x \in Worker, k \in Fd : watchers'[x][k] # None => watchers[x][k] # None
<1>. DEFINE rest == {v \in got[w] : v.on.fd # f}
<1>1. rest \in SUBSET got[w] /\ Dispatched(w, rest)
  BY DEF CloseConnection
<1>2. /\ conn' \in [Client -> {"new", "queued", "open", "eof", "error", "lost"}]
      /\ watchers' \in [Worker -> [Fd -> Client \cup {None}]]
      /\ queue' \in [Worker -> SUBSET (Fd \cup {ListenerFd})]
      /\ interest' \subseteq Entry
  BY DEF CloseConnection, TypeOK
<1>3. /\ Queued'
      /\ \A x \in Worker, k \in Fd : watchers'[x][k] # None => watchers[x][k] # None
  BY DEF CloseConnection, TypeOK, Queued
<1>. HIDE DEF rest
<1>. QED
  BY <1>1, <1>2, <1>3, DispatchedStep

LEMMA PollStep ==
    ASSUME IInv, NEW w \in Worker, Poll(w) PROVE IInv'
<1>1. /\ wpc[w] \in {"born", "turn"} /\ wpc' = [wpc EXCEPT ![w] = "polling"]
      /\ queue' = [queue EXCEPT ![w] = {}]
      /\ UNCHANGED <<parentVars, watchers, nwatchers, got, conn, data, ended>>
  BY DEF Poll
<1>2. {[file |-> FileOf(w, f), fd |-> f] : f \in queue[w]} \subseteq Entry
  <2>. SUFFICES ASSUME NEW f \in queue[w] PROVE [file |-> FileOf(w, f), fd |-> f] \in Entry
    OBVIOUS
  <2>1. f \in Fd \cup {ListenerFd} /\ (f # ListenerFd => watchers[w][f] \in Client)
    BY DEF IInv, TypeOK, Queued
  <2>. QED
    BY <2>1 DEF FileOf, Entry
<1>3. interest' \subseteq Entry /\ late' \in BOOLEAN
  BY <1>2 DEF IInv, TypeOK, Poll
<1>4. wpc' \in [Worker -> WorkerState] /\ queue' \in [Worker -> SUBSET (Fd \cup {ListenerFd})]
  BY <1>1 DEF IInv, TypeOK, WorkerState
<1>5. TypeOK'
  BY <1>1, <1>3, <1>4 DEF IInv, TypeOK, WorkerState, parentVars
<1>6. Queued'
  BY <1>1 DEF IInv, TypeOK, Queued
<1>7. Forked' /\ Reaped'
  BY <1>1, ParentUnconcerned DEF IInv, TypeOK
<1>8. HupTrue' /\ Covered'
  BY <1>1, NoNewEvents DEF IInv, Covered
<1>. QED
  BY <1>5, <1>6, <1>7, <1>8 DEF IInv

LEMMA WakeStep ==
    ASSUME IInv, NEW w \in Worker, Wake(w) PROVE IInv'
<1>. DEFINE new == {Event(e) : e \in {e \in interest : Ready(e.file)}}
<1>1. /\ wpc[w] = "polling" /\ wpc' = [wpc EXCEPT ![w] = "handling"]
      /\ got' = [got EXCEPT ![w] = new]
      /\ UNCHANGED <<parentVars, queue, watchers, nwatchers, interest, conn, data, ended, late>>
  BY DEF Wake, kernelVars
<1>2. \A v \in new : /\ v \in [on : Entry, hup : BOOLEAN]
                     /\ v.hup => v.on.file \in Client /\ ended[v.on.file] = "rst"
  <2>. SUFFICES ASSUME NEW e \in interest
                PROVE  /\ Event(e) \in [on : Entry, hup : BOOLEAN]
                       /\ Event(e).hup => Event(e).on.file \in Client
                                          /\ ended[Event(e).on.file] = "rst"
    OBVIOUS
  <2>1. e \in Entry /\ e.file \in Client \cup {Listener}
    BY DEF IInv, TypeOK, Entry
  <2>. QED
    BY <2>1 DEF Event
<1>. HIDE DEF new
<1>3. wpc' \in [Worker -> WorkerState]
  BY <1>1 DEF IInv, TypeOK, WorkerState
<1>4. got' \in [Worker -> SUBSET [on : Entry, hup : BOOLEAN]]
  BY <1>1, <1>2 DEF IInv, TypeOK
<1>5. TypeOK'
  BY <1>1, <1>3, <1>4 DEF IInv, TypeOK, WorkerState, parentVars
<1>6. HupTrue'
  BY <1>1, <1>2 DEF IInv, TypeOK, HupTrue
<1>7. Forked' /\ Reaped'
  BY <1>1, ParentUnconcerned DEF IInv, TypeOK
<1>. QED
  BY <1>1, <1>5, <1>6, <1>7 DEF IInv, Queued, Covered

LEMMA ServerIoStep ==
    ASSUME IInv, NEW w \in Worker, ServerIo(w) PROVE IInv'
<1>1. PICK v \in got[w] :
        /\ wpc[w] = "handling" /\ wpc' = [wpc EXCEPT ![w] = "accepting"]
        /\ got' = [got EXCEPT ![w] = @ \ {v}]
        /\ UNCHANGED <<parentVars, queue, watchers, nwatchers, interest, conn, data, ended, late>>
  BY DEF ServerIo, kernelVars
<1>2. wpc' \in [Worker -> WorkerState]
  BY <1>1 DEF IInv, TypeOK, WorkerState
<1>3. /\ got' \in [Worker -> SUBSET [on : Entry, hup : BOOLEAN]]
      /\ \A x \in Worker : got'[x] \subseteq got[x]
  BY <1>1 DEF IInv, TypeOK
<1>4. TypeOK'
  BY <1>1, <1>2, <1>3 DEF IInv, TypeOK, WorkerState, parentVars
<1>5. Forked' /\ Reaped'
  BY <1>1, ParentUnconcerned DEF IInv, TypeOK
<1>6. HupTrue'
  BY <1>1, <1>3, NoNewEvents DEF IInv
<1>. QED
  BY <1>1, <1>4, <1>5, <1>6 DEF IInv, Queued, Covered

LEMMA OnNewConnectionStep ==
    ASSUME IInv, NEW w \in Worker, OnNewConnection(w) PROVE IInv'
<1>1. PICK c \in Client, f \in Fd :
        /\ conn' = [conn EXCEPT ![c] = "open"]
        /\ LowestFree(w, f)
        /\ watchers' = [watchers EXCEPT ![w][f] = c]
        /\ nwatchers' = [nwatchers EXCEPT ![w] = MaybeResize(@, f)]
        /\ queue' = [queue EXCEPT ![w] = @ \cup {f}]
  BY DEF OnNewConnection
<1>2. UNCHANGED <<parentVars, wpc, got, interest, data, ended, late>>
  BY DEF OnNewConnection
<1>3. /\ conn' \in [Client -> {"new", "queued", "open", "eof", "error", "lost"}]
      /\ watchers' \in [Worker -> [Fd -> Client \cup {None}]]
      /\ queue' \in [Worker -> SUBSET (Fd \cup {ListenerFd})]
  BY <1>1 DEF IInv, TypeOK
<1>4. nwatchers' \in [Worker -> Nat]
      /\ \A x \in Worker : nwatchers[x] <= nwatchers'[x]
  BY <1>1 DEF MaybeResize, IInv, TypeOK
<1>5. f < nwatchers'[w]
  <2>1. f \in Int /\ ListenerFd \in Nat /\ nwatchers[w] \in Nat /\ ListenerFd < nwatchers[w]
    BY WorkersAssumption DEF Fd, IInv, TypeOK, Covered
  <2>2. f <= nwatchers[w]
    <3>1. CASE f = ListenerFd + 1
      BY <2>1, <3>1
    <3>2. CASE f # ListenerFd + 1
      <4>1. f - 1 \in Fd /\ f - 1 \in ListenerFd + 1 .. f - 1
        BY <2>1, <3>2, FS_CardinalityType, WorkersAssumption DEF Fd
      <4>2. f - 1 < nwatchers[w]
        BY <1>1, <4>1 DEF LowestFree, IInv, Covered
      <4>. QED
        BY <2>1, <4>2
    <3>. QED
      BY <3>1, <3>2
  <2>3. nwatchers'[w] = MaybeResize(nwatchers[w], f)
    BY <1>1 DEF IInv, TypeOK
  <2>. QED
    BY <2>1, <2>2, <2>3 DEF MaybeResize
<1>6. Covered'
  <2>. SUFFICES ASSUME NEW x \in Worker
                PROVE  /\ ListenerFd < nwatchers'[x]
                       /\ \A k \in Fd : watchers'[x][k] # None => k < nwatchers'[x]
    BY DEF Covered
  <2>1. nwatchers[x] \in Nat /\ nwatchers'[x] \in Nat /\ nwatchers[x] <= nwatchers'[x]
        /\ ListenerFd \in Nat /\ ListenerFd < nwatchers[x]
    BY <1>4, WorkersAssumption DEF IInv, TypeOK, Covered
  <2>2. ASSUME NEW k \in Fd, watchers'[x][k] # None PROVE k < nwatchers'[x]
    <3>1. CASE x = w /\ k = f
      BY <1>5, <3>1
    <3>2. CASE ~(x = w /\ k = f)
      <4>1. watchers'[x][k] = watchers[x][k]
        BY <1>1, <3>2 DEF IInv, TypeOK
      <4>2. k < nwatchers[x] /\ k \in Int
        BY <2>2, <4>1, WorkersAssumption DEF IInv, Covered, Fd
      <4>. QED
        BY <2>1, <4>2
    <3>. QED
      BY <3>1, <3>2
  <2>. QED
    BY <2>1, <2>2
<1>7. TypeOK'
  BY <1>2, <1>3, <1>4 DEF IInv, TypeOK, parentVars
<1>8. Queued'
  <2>. SUFFICES ASSUME NEW x \in Worker, NEW k \in queue'[x], k # ListenerFd
                PROVE  watchers'[x][k] # None
    BY DEF Queued
  <2>1. c # None
    BY WorkersAssumption
  <2>2. CASE x = w /\ k = f
    BY <1>1, <2>1, <2>2 DEF IInv, TypeOK
  <2>3. CASE ~(x = w /\ k = f)
    <3>1. k \in queue[x] /\ k \in Fd
      BY <1>1, <2>3 DEF IInv, TypeOK
    <3>2. watchers'[x][k] = watchers[x][k]
      BY <1>1, <2>3, <3>1 DEF IInv, TypeOK
    <3>. QED
      BY <3>1, <3>2 DEF IInv, Queued
  <2>. QED
    BY <2>2, <2>3
<1>9. Forked' /\ Reaped'
  BY <1>2, ParentUnconcerned DEF IInv
<1>. QED
  BY <1>2, <1>6, <1>7, <1>8, <1>9 DEF IInv, HupTrue

(* A step of a worker that lives keeps what the parent relies on.           *)
LEMMA OneWorker ==
    ASSUME IInv, NEW w \in Worker, Live(w), UNCHANGED parentVars,
           \A x \in Worker : x # w => wpc'[x] = wpc[x]
    PROVE  Forked' /\ Reaped'
BY ParentUnconcerned DEF IInv, Live

LEMMA EventOnConnection ==
    ASSUME IInv, NEW w \in Worker, NEW v \in got[w], v.on.fd # ListenerFd
    PROVE  /\ v.on.fd \in Fd
           /\ watchers[w][v.on.fd] # None => watchers[w][v.on.fd] \in Client
BY DEF IInv, TypeOK, Entry

LEMMA OnlyDispatched ==
    ASSUME IInv, NEW w \in Worker, Live(w), NEW rest \in SUBSET got[w], Dispatched(w, rest),
           UNCHANGED <<queue, watchers, interest, conn, ended, late>>,
           data' \in [Client -> BOOLEAN]
    PROVE  IInv'
<1>1. /\ got' \in [Worker -> SUBSET [on : Entry, hup : BOOLEAN]]
      /\ \A x \in Worker : got'[x] \subseteq got[x]
      /\ wpc' \in [Worker -> WorkerState]
      /\ \A x \in Worker : x # w => wpc'[x] = wpc[x]
      /\ UNCHANGED <<parentVars, nwatchers>>
  BY DispatchedStep DEF IInv
<1>2. TypeOK'
  BY <1>1 DEF IInv, TypeOK, WorkerState, parentVars
<1>3. Forked' /\ Reaped'
  BY <1>1, OneWorker
<1>4. HupTrue'
  BY <1>1, NoNewEvents DEF IInv
<1>. QED
  BY <1>1, <1>2, <1>3, <1>4 DEF IInv, Queued, Covered

LEMMA ConnectionClosed ==
    ASSUME IInv, NEW w \in Worker, Live(w), NEW f \in Fd, watchers[w][f] \in Client,
           NEW how \in {"eof", "error"}, CloseConnection(w, f, how),
           UNCHANGED <<ended, late>>, data' \in [Client -> BOOLEAN]
    PROVE  IInv'
<1>1. /\ conn' \in [Client -> {"new", "queued", "open", "eof", "error", "lost"}]
      /\ watchers' \in [Worker -> [Fd -> Client \cup {None}]]
      /\ queue' \in [Worker -> SUBSET (Fd \cup {ListenerFd})]
      /\ interest' \subseteq Entry
      /\ got' \in [Worker -> SUBSET [on : Entry, hup : BOOLEAN]]
      /\ \A x \in Worker : got'[x] \subseteq got[x]
      /\ wpc' \in [Worker -> WorkerState]
      /\ \A x \in Worker : x # w => wpc'[x] = wpc[x]
      /\ UNCHANGED <<parentVars, nwatchers>>
      /\ Queued'
      /\ \A x \in Worker, k \in Fd : watchers'[x][k] # None => watchers[x][k] # None
  BY CloseConnectionStep DEF IInv
<1>2. TypeOK'
  BY <1>1 DEF IInv, TypeOK, WorkerState, parentVars
<1>3. Forked' /\ Reaped'
  BY <1>1, OneWorker
<1>4. HupTrue'
  BY <1>1, NoNewEvents DEF IInv
<1>5. Covered'
  BY <1>1 DEF IInv, Covered
<1>. QED
  BY <1>1, <1>2, <1>3, <1>4, <1>5 DEF IInv

LEMMA StreamIoStep ==
    ASSUME IInv, NEW w \in Worker, StreamIo(w) PROVE IInv'
<1>1. PICK v \in got[w] : /\ wpc[w] = "handling" /\ v.on.fd # ListenerFd
                          /\ ReadData(w, v) \/ ReadEnd(w, v) \/ ReadNothing(w, v)
  BY DEF StreamIo
<1>. DEFINE f == v.on.fd
<1>2. Live(w) /\ f \in Fd /\ (watchers[w][f] # None => watchers[w][f] \in Client)
      /\ got[w] \ {v} \in SUBSET got[w]
  BY <1>1, EventOnConnection DEF Live
<1>3. CASE ReadData(w, v)
  <2>1. data' \in [Client -> BOOLEAN] /\ watchers[w][f] \in Client /\ UNCHANGED <<ended, late>>
    BY <1>2, <1>3 DEF ReadData, IInv, TypeOK
  <2>2. CASE CloseConnection(w, f, "eof")
    BY <1>2, <2>1, <2>2, ConnectionClosed
  <2>3. CASE Dispatched(w, got[w] \ {v}) /\ UNCHANGED <<conn, watchers, queue, interest>>
    BY <1>2, <2>1, <2>3, OnlyDispatched
  <2>. QED
    BY <1>3, <2>2, <2>3 DEF ReadData
<1>4. CASE ReadEnd(w, v)
  <2>1. data' \in [Client -> BOOLEAN] /\ watchers[w][f] \in Client /\ UNCHANGED <<ended, late>>
    BY <1>2, <1>4 DEF ReadEnd, IInv, TypeOK
  <2>2. PICK how \in {"eof", "error"} : CloseConnection(w, f, how)
    BY <1>4 DEF ReadEnd
  <2>. QED
    BY <1>2, <2>1, <2>2, ConnectionClosed
<1>5. CASE ReadNothing(w, v)
  <2>1. data' \in [Client -> BOOLEAN]
    BY <1>5 DEF ReadNothing, kernelVars, IInv, TypeOK
  <2>. QED
    BY <1>2, <1>5, <2>1, OnlyDispatched DEF ReadNothing, kernelVars
<1>. QED
  BY <1>1, <1>3, <1>4, <1>5

LEMMA NothingToAcceptStep ==
    ASSUME IInv, NEW w \in Worker, NothingToAccept(w) PROVE IInv'
<1>1. Live(w) /\ Dispatched(w, got[w]) /\ UNCHANGED <<queue, watchers, kernelVars, late>>
  BY DEF NothingToAccept, Live
<1>2. data' \in [Client -> BOOLEAN]
  BY <1>1 DEF kernelVars, IInv, TypeOK
<1>. QED
  BY <1>1, <1>2, OnlyDispatched DEF kernelVars

LEMMA UnacceptedType ==
    ASSUME NEW cs \in [Client -> {"new", "queued", "open", "eof", "error", "lost"}],
           NEW listening
    PROVE  Unaccepted(cs, listening)
             \in [Client -> {"new", "queued", "open", "eof", "error", "lost"}]
BY DEF Unaccepted

LEMMA DieStep ==
    ASSUME IInv, NEW w \in Worker, Die(w) PROVE IInv'
<1>1. /\ Live(w) /\ wpc' = [wpc EXCEPT ![w] = "dead"]
      /\ queue' = [queue EXCEPT ![w] = {}]
      /\ watchers' = [watchers EXCEPT ![w] = [f \in Fd |-> None]]
      /\ got' = [got EXCEPT ![w] = {}]
      /\ interest' \subseteq interest
      /\ UNCHANGED <<parentVars, nwatchers, data, ended, late>>
  BY DEF Die
<1>2. conn' \in [Client -> {"new", "queued", "open", "eof", "error", "lost"}]
  <2>1. \A mine : [c \in Client |-> IF c \in mine THEN "lost" ELSE conn[c]]
                    \in [Client -> {"new", "queued", "open", "eof", "error", "lost"}]
    BY DEF IInv, TypeOK
  <2>. QED
    BY <2>1, UnacceptedType DEF Die
<1>3. /\ wpc' \in [Worker -> WorkerState]
      /\ \A x \in Worker : x # w => wpc'[x] = wpc[x]
  BY <1>1 DEF IInv, TypeOK, WorkerState
<1>4. /\ queue' \in [Worker -> SUBSET (Fd \cup {ListenerFd})]
      /\ watchers' \in [Worker -> [Fd -> Client \cup {None}]]
      /\ got' \in [Worker -> SUBSET [on : Entry, hup : BOOLEAN]]
      /\ \A x \in Worker : got'[x] \subseteq got[x]
  BY <1>1 DEF IInv, TypeOK
<1>5. TypeOK'
  BY <1>1, <1>2, <1>3, <1>4 DEF IInv, TypeOK, WorkerState, parentVars
<1>6. Queued' /\ Covered'
  BY <1>1 DEF IInv, TypeOK, Queued, Covered
<1>7. Forked' /\ Reaped'
  BY <1>1, <1>3, OneWorker
<1>8. HupTrue'
  BY <1>1, <1>4, NoNewEvents DEF IInv
<1>. QED
  BY <1>5, <1>6, <1>7, <1>8 DEF IInv

LEMMA ClientStep ==
    ASSUME IInv, NEW c \in Client, Connect(c) \/ Send(c) \/ End(c) PROVE IInv'
<1>1. UNCHANGED <<parentVars, workerVars, interest, late>>
  BY DEF Connect, Send, End
<1>2. /\ conn' \in [Client -> {"new", "queued", "open", "eof", "error", "lost"}]
      /\ data' \in [Client -> BOOLEAN]
      /\ ended' \in [Client -> {"no", "fin", "rst"}]
      /\ \A d \in Client : ended[d] = "rst" => ended'[d] = "rst"
  BY DEF IInv, TypeOK, Connect, Send, End
<1>3. TypeOK'
  BY <1>1, <1>2 DEF IInv, TypeOK, parentVars, workerVars
<1>4. Forked' /\ Reaped'
  BY <1>1, ParentUnconcerned DEF IInv, workerVars
<1>5. HupTrue'
  BY <1>1, <1>2, NoNewEvents DEF IInv, workerVars
<1>. QED
  BY <1>1, <1>3, <1>4, <1>5 DEF IInv, Queued, Covered, workerVars

-----------------------------------------------------------------------------
LEMMA StepInv == IInv /\ [Next]_vars => IInv'
<1>. SUFFICES ASSUME IInv, [Next]_vars PROVE IInv'
  OBVIOUS
<1>1. CASE Parent
  BY <1>1, ForkStep, ForkFailsStep, CloseListenerStep, WaitpidStep DEF Parent
<1>2. ASSUME NEW w \in Worker, Poll(w) \/ Wake(w) \/ Handle(w) \/ Die(w) PROVE IInv'
  BY <1>2, PollStep, WakeStep, ServerIoStep, OnNewConnectionStep, NothingToAcceptStep,
     StreamIoStep, DieStep DEF Handle, Abort
<1>3. ASSUME NEW c \in Client, Connect(c) \/ Send(c) \/ End(c) PROVE IInv'
  BY <1>3, ClientStep
<1>4. CASE UNCHANGED vars
  BY <1>4 DEF vars, parentVars, workerVars, kernelVars, IInv, TypeOK, Queued, Forked,
              Reaped, HupTrue, Covered
<1>. QED
  BY <1>1, <1>2, <1>3, <1>4 DEF Next

(* The parent waits for all its children and leaves no zombie, however many *)
(* it meant to fork and at whichever of them fork failed                    *)
(* (server.c:53-60, 71-77).                                                 *)
THEOREM ChildrenWaitedFor == Spec => []WaitsForEveryChild
<1>1. IInv => WaitsForEveryChild
  BY DEF IInv, Reaped, WaitsForEveryChild
<1>. QED
  BY InitInv, StepInv, <1>1, PTL DEF Spec

(* Every pid, descriptor, table entry and event of the parent and the       *)
(* workers keeps its type, whoever dies and whatever is closed and reused.  *)
THEOREM TypesSafe == Spec => []TypeOK
<1>1. IInv => TypeOK
  BY DEF IInv
<1>. QED
  BY InitInv, StepInv, <1>1, PTL DEF Spec

-----------------------------------------------------------------------------
(* Only CloseConnection ends a connection, and only the one of its          *)
(* descriptor.                                                              *)
LEMMA ClosesOne ==
    ASSUME TypeOK, NEW w, NEW f, NEW how, CloseConnection(w, f, how),
           NEW c \in Client, conn'[c] # conn[c]
    PROVE  c = watchers[w][f]
BY DEF CloseConnection, TypeOK

LEMMA OthersEndNothing ==
    ASSUME IInv, NEW c \in Client,
           \/ Parent \/ UNCHANGED vars
           \/ \E w \in Worker : Poll(w) \/ Wake(w) \/ Die(w) \/ ServerIo(w)
                                \/ OnNewConnection(w) \/ NothingToAccept(w)
           \/ \E d \in Client : Connect(d) \/ Send(d) \/ End(d)
    PROVE  EndsWithReason(c)
<1>1. CASE UNCHANGED conn
  BY <1>1 DEF EndsWithReason
<1>2. CASE CloseListener
  BY <1>2 DEF CloseListener, Unaccepted, EndsWithReason
<1>3. ASSUME NEW w \in Worker, Die(w) PROVE EndsWithReason(c)
  BY <1>3 DEF Die, Unaccepted, EndsWithReason
<1>4. ASSUME NEW w \in Worker, OnNewConnection(w) PROVE EndsWithReason(c)
  BY <1>4 DEF OnNewConnection, EndsWithReason, IInv, TypeOK
<1>5. ASSUME NEW d \in Client, Connect(d) PROVE EndsWithReason(c)
  BY <1>5 DEF Connect, EndsWithReason, IInv, TypeOK
<1>6. CASE Fork \/ ForkFails \/ Waitpid \/ UNCHANGED vars
  BY <1>1, <1>6 DEF Fork, ForkFails, Waitpid, kernelVars, vars
<1>7. ASSUME NEW w \in Worker, Poll(w) \/ Wake(w) \/ ServerIo(w) \/ NothingToAccept(w)
      PROVE  EndsWithReason(c)
  BY <1>1, <1>7 DEF Poll, Wake, ServerIo, NothingToAccept, kernelVars
<1>8. ASSUME NEW d \in Client, Send(d) \/ End(d) PROVE EndsWithReason(c)
  BY <1>1, <1>8 DEF Send, End
<1>. QED
  BY <1>2, <1>3, <1>4, <1>5, <1>6, <1>7, <1>8 DEF Parent

LEMMA StreamIoEnds ==
    ASSUME IInv, NEW w \in Worker, StreamIo(w), NEW c \in Client PROVE EndsWithReason(c)
<1>. SUFFICES ASSUME conn'[c] # conn[c], ended[c] = "no" PROVE EndsWithReason(c)
  BY DEF EndsWithReason
<1>1. PICK v \in got[w] : ReadData(w, v) \/ ReadEnd(w, v) \/ ReadNothing(w, v)
  BY DEF StreamIo
<1>2. CASE ReadData(w, v)
  <2>1. HupIsEof(v) /\ CloseConnection(w, v.on.fd, "eof")
    BY <1>2 DEF ReadData
  <2>2. v.hup /\ watchers[w][v.on.fd] = c
    BY <2>1, ClosesOne DEF HupIsEof, IInv
  <2>3. ended[v.on.file] = "rst"
    BY <2>2 DEF IInv, HupTrue
  <2>. QED
    BY <2>2, <2>3 DEF EndsWithReason
<1>3. CASE ReadEnd(w, v)
  BY <1>3, ClosesOne DEF ReadEnd, IInv
<1>4. CASE ReadNothing(w, v)
  BY <1>4 DEF ReadNothing, kernelVars
<1>. QED
  BY <1>1, <1>2, <1>3, <1>4

(* With any number of workers on the shared epoll, a connection its client  *)
(* has not ended is ended only by a partial read that follows another       *)
(* connection's reset (stream.c:1252-1258); spurious events alone never     *)
(* do it.                                                                   *)
THEOREM EndedByTwin == Spec => EndedOnlyByTwin
<1>1. IInv /\ [Next]_vars => [\A c \in Client : EndsWithReason(c)]_vars
  <2>. SUFFICES ASSUME IInv, [Next]_vars, NEW c \in Client PROVE EndsWithReason(c)
    OBVIOUS
  <2>. QED
    BY OthersEndNothing, StreamIoEnds DEF Next, Handle, Abort
<1>. QED
  BY InitInv, StepInv, <1>1, PTL DEF Spec, EndedOnlyByTwin

-----------------------------------------------------------------------------
(* However many connections a worker accepts and closes, the events of its  *)
(* own are for its own table: the assertion of uv__io_poll can fail for     *)
(* those of other workers only (core.c:751-783, linux-core.c:305).          *)
THEOREM OwnEventsSafe == Spec => []OwnEventsInTable
<1>1. IInv => OwnEventsInTable
  <2>. SUFFICES ASSUME IInv, NEW w \in Worker, NEW v \in got[w],
                       v.on.fd \in Fd, v.on.file = watchers[w][v.on.fd]
                PROVE  v.on.fd < nwatchers[w]
    BY DEF OwnEventsInTable
  <2>1. watchers[w][v.on.fd] # None
    BY WorkersAssumption DEF IInv, TypeOK, Entry
  <2>. QED
    BY <2>1 DEF IInv, Covered
<1>. QED
  BY InitInv, StepInv, <1>1, PTL DEF Spec
=============================================================================
