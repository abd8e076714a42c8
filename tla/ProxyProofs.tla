---------------------------- MODULE ProxyProofs ----------------------------
(* What holds of the relay for any number of connections, any sizes of      *)
(* buffers and reads, and any interleaving of its callbacks: the links      *)
(* between streams and the data that rest on them, and of the requests to   *)
(* write, whose bytes they hold and where these lie.                        *)
EXTENDS Proxy, UvStreamProofs, RtsBufProofs, FiniteSetTheorems

(* The part of the state the links between streams depend on. *)
LinkTypeOK ==
    /\ todo \in StageLists
    /\ hs \in [Handle -> HandleState]
    /\ gen \in [Handle -> Nat]
    /\ peer \in [Handle -> Handle \cup {None}]
    /\ ready \in [Handle -> BOOLEAN]

(* A stream has no callback data before its creation and after uv_close; an *)
(* upstream has them all the time between, an accepted stream may never.    *)
LiveWhileOpen ==
    \A h \in Handle :
        /\ Live(h) => hs[h] \in {"connecting", "refused", "stuck", "open"}
        /\ hs[h] \in {"connecting", "refused", "stuck"} => Live(h)
        /\ h \in Up /\ hs[h] = "open" => Live(h)

(* A read callback is only made for an open stream. *)
ReadingOpen ==
    todo # <<>> /\ Head(todo) \in {"read", "eof"} => cur \in Handle /\ hs[cur] = "open"

LinkInv == LinkTypeOK /\ LiveWhileOpen /\ ReadingOpen /\ LinksConsistent /\ PeerDataPresent

LEMMA HandleKinds ==
    /\ Down \subseteq Handle /\ Up \subseteq Handle
    /\ \A h \in Handle : h \in Down <=> h \notin Up
    /\ \A h \in Handle : Opposite(h) \subseteq Handle
    /\ \A h \in Handle, x \in Handle : x \in Opposite(h) <=> h \in Opposite(x)
    /\ None \notin Handle
BY ProxyAssumption, NoneAssumption DEF Opposite

LEMMA InitLinkInv == Init => LinkInv
BY HandleKinds
   DEF Init, UvInit, LinkInv, LinkTypeOK, LiveWhileOpen, ReadingOpen, LinksConsistent,
       PeerDataPresent, StageLists, HandleState, Live

-----------------------------------------------------------------------------
(* Steps that leave the links alone.                                        *)

(* What a step has to do with its stages to keep LinkInv, when it does not  *)
(* touch states, links and the existence of buffers.                        *)
LEMMA LinksUntouched ==
    ASSUME LinkInv, UNCHANGED <<hs, connVars>>,
           gen' \in [Handle -> Nat], \A h \in Handle : Live(h)' <=> Live(h),
           todo' \in StageLists, ReadingOpen', PeerDataPresent'
    PROVE  LinkInv'
BY DEF LinkInv, LinkTypeOK, LiveWhileOpen, LinksConsistent, connVars, Ended, Live, Opposite

LEMMA NextStageKeeps ==
    ASSUME LinkInv, UNCHANGED hs, todo # <<>>, NextStage(Tail(todo))
    PROVE  todo' \in StageLists /\ ReadingOpen'
<1>1. todo' = Tail(todo) /\ todo \in StageLists
  BY DEF NextStage, LinkInv, LinkTypeOK
<1>2. todo' \in StageLists
      /\ (todo' # <<>> /\ Head(todo') \in {"read", "eof"} => Head(todo) = "read")
  BY <1>1, TailOfStages
<1>3. todo' # <<>> => cur' = cur
  BY <1>1 DEF NextStage
<1> QED BY <1>2, <1>3 DEF ReadingOpen, LinkInv

(* An append keeps every buffer that is there, and makes none. *)
LEMMA AppendKeepsBuffers ==
    ASSUME NEW h \in Handle, NEW n, NEW caps, NEW gens \in [Handle -> Nat],
           gens[h] # 0, RtsBufAppend(h, n, caps, gens)
    PROVE  gen' \in [Handle -> Nat] /\ \A x \in Handle : gen'[x] # 0 <=> gens[x] # 0
<1>1. PICK oom \in {FALSE, MayOom} :
        gen' = [gens EXCEPT ![h] =
                  IF AppendResult(cap[h], size[h], n, oom).cap # cap[h] THEN @ + 1 ELSE @]
  BY DEF RtsBufAppend
<1> QED BY <1>1

(* What stage a callback is in says what it may rely on. *)
LEMMA ReadStageOpen ==
    ASSUME LinkInv, NEW h \in Handle, cur = h, InStage("read") \/ InStage("eof")
    PROVE  hs[h] = "open" /\ todo # <<>>
BY DEF LinkInv, ReadingOpen, InStage

LEMMA ReadRelayedStep ==
    ASSUME LinkInv, NEW h \in Handle, ReadRelayed(h) PROVE LinkInv'
<1>1. PICK n \in Arriving(h) :
        /\ RtsBufAppend(h, n, cap, gen)
        /\ UNCHANGED connVars
        /\ IF MayTransfer(h)
           THEN Transfer(h, peer[h], wq[peer[h]], wdone[peer[h]])
           ELSE UNCHANGED <<last, wq, wdone, pollout, feed, out, brk, fate>>
        /\ NextStage(AfterRead(n))
  BY DEF ReadRelayed
<1>2. UNCHANGED hs /\ Live(h) /\ todo # <<>> /\ hs[h] = "open" /\ cur = h
  BY ReadStageOpen DEF ReadRelayed
<1>3. gen' \in [Handle -> Nat] /\ \A x \in Handle : Live(x)' <=> Live(x)
  BY <1>1, <1>2, AppendKeepsBuffers DEF Live, LinkInv, LinkTypeOK
<1>4. fate' \in {fate, "SIGPIPE"}
  BY <1>1, UvWriteFate DEF Transfer
<1>5. todo' \in StageLists /\ ReadingOpen'
  <2>1. CASE AfterRead(n) = todo
    BY <1>1, <1>2, <2>1 DEF NextStage, LinkInv, LinkTypeOK, ReadingOpen
  <2>2. CASE AfterRead(n) = Tail(todo)
    BY <1>1, <1>2, <2>2, NextStageKeeps
  <2> QED BY <2>1, <2>2 DEF AfterRead
<1>6. PeerDataPresent'
  BY <1>4 DEF LinkInv, PeerDataPresent
<1> QED BY <1>1, <1>2, <1>3, <1>5, <1>6, LinksUntouched

LEMMA ReadAgainStep ==
    ASSUME LinkInv, NEW h \in Handle, ReadAgain(h) PROVE LinkInv'
<1>1. UNCHANGED <<hs, connVars, gen, fate>> /\ todo # <<>> /\ NextStage(Tail(todo))
  BY DEF ReadAgain, InStage, streamVars, heapVars
<1>2. todo' \in StageLists /\ ReadingOpen'
  BY <1>1, NextStageKeeps
<1> QED BY <1>1, <1>2, LinksUntouched DEF LinkInv, LinkTypeOK, PeerDataPresent, Live

LEMMA AfterWriteStep ==
    ASSUME LinkInv, NEW to \in Handle, AfterWrite(to) PROVE LinkInv'
<1>1. UNCHANGED <<hs, connVars, gen, cur, todo>>
  BY DEF AfterWrite, heapVars
<1>2. fate' \in {fate, "SIGPIPE"}
  BY UvWriteFate DEF AfterWrite, Transfer
<1>3. ReadingOpen' /\ PeerDataPresent'
  BY <1>1, <1>2 DEF LinkInv, ReadingOpen, PeerDataPresent
<1> QED BY <1>1, <1>3, LinksUntouched DEF LinkInv, LinkTypeOK, Live

(* A callback that follows a bad pointer: never the data of a peer. *)
LEMMA CrashStep ==
    ASSUME LinkInv, NEW site, Crash(site), UNCHANGED connVars,
           site \notin {"read: peer has no data",
                        "on_upstream_connect: downstream has no data",
                        "after_write: peer has no data"}
    PROVE  LinkInv'
<1>1. UNCHANGED <<hs, gen, cur, todo>> /\ fate' = site
  BY DEF Crash, loopVars, streamVars, heapVars
<1>2. ReadingOpen' /\ PeerDataPresent'
  BY <1>1 DEF LinkInv, ReadingOpen, PeerDataPresent
<1> QED BY <1>1, <1>2, LinksUntouched DEF LinkInv, LinkTypeOK, Live

LEMMA FaultSteps ==
    ASSUME LinkInv, NEW h \in Handle,
           ConnectFaults(h) \/ AfterWriteFaults(h) \/ ReadDataFaults(h)
    PROVE  LinkInv'
<1>1. peer[h] # None => Live(peer[h])
  BY HandleKinds DEF LinkInv, LinkTypeOK, LinksConsistent
<1>2. CASE ConnectFaults(h)
  BY <1>1, <1>2, CrashStep DEF ConnectFaults, ConnectFault
<1>3. CASE AfterWriteFaults(h)
  BY <1>1, <1>3, CrashStep DEF AfterWriteFaults, AfterWriteFault
<1>4. CASE ReadDataFaults(h)
  <2>1. PICK site \in ReadDataFault(h) : Crash(site)
    BY <1>4 DEF ReadDataFaults
  <2>2. site \in {"read: stream has no data", "rts_buf_append: no buffer",
                  "init_callback_data: no stream"}
    BY <2>1 DEF ReadDataFault
  <2> QED BY <1>4, <2>1, <2>2, CrashStep DEF ReadDataFaults
<1> QED BY <1>2, <1>3, <1>4

LEMMA UvSteps ==
    ASSUME LinkInv, UvNext, UNCHANGED connVars PROVE LinkInv'
<1>1. CASE RunPending
  <2>1. UNCHANGED <<hs, gen, fate>> /\ cur' = Head(batch)
        /\ todo' \in {<<"connect">>, <<"write", "callbacks">>}
    BY <1>1 DEF RunPending, streamVars, heapVars
  <2>2. todo' # <<>> /\ todo' \in StageLists /\ Head(todo') \notin {"read", "eof"}
    BY <2>1 DEF StageLists
  <2>3. ReadingOpen'
    BY <2>2 DEF ReadingOpen
  <2> QED BY <2>1, <2>2, <2>3, LinksUntouched DEF LinkInv, LinkTypeOK, PeerDataPresent, Live
<1>2. CASE PendingDone \/ PollDone \/ ClosingDone
  <2>1. UNCHANGED <<hs, gen, fate, cur, todo>>
    BY <1>2 DEF PendingDone, PollDone, ClosingDone, streamVars, heapVars
  <2> QED BY <2>1, LinksUntouched DEF LinkInv, LinkTypeOK, ReadingOpen, PeerDataPresent, Live
<1>3. CASE WriteStage
  <2>1. UNCHANGED <<hs, gen>> /\ todo # <<>> /\ NextStage(Tail(todo))
    BY <1>3 DEF WriteStage, InStage, heapVars
  <2>2. fate' \in {fate, "SIGPIPE"}
    BY <1>3, WriteFate DEF WriteStage
  <2>3. todo' \in StageLists /\ ReadingOpen'
    BY <2>1, NextStageKeeps
  <2> QED BY <2>1, <2>2, <2>3, LinksUntouched DEF LinkInv, LinkTypeOK, PeerDataPresent, Live
<1>4. CASE CallbacksDone
  <2>1. UNCHANGED <<hs, gen, fate>> /\ todo # <<>> /\ NextStage(Tail(todo))
    BY <1>4 DEF CallbacksDone, InStage, heapVars
  <2>2. todo' \in StageLists /\ ReadingOpen'
    BY <2>1, NextStageKeeps
  <2> QED BY <2>1, <2>2, LinksUntouched DEF LinkInv, LinkTypeOK, PeerDataPresent, Live
<1>5. ASSUME NEW h \in Handle, PollEvent(h) PROVE LinkInv'
  <2>1. UNCHANGED <<hs, gen, fate>> /\ cur' = h /\ h # None
    BY <1>5, HandleKinds DEF PollEvent, streamVars, heapVars
  <2>2. CASE todo' = <<"connect">>
    <3>1. Head(todo') = "connect" /\ todo' \in StageLists
      BY <2>2 DEF StageLists
    <3> QED BY <2>1, <3>1, LinksUntouched
           DEF LinkInv, LinkTypeOK, ReadingOpen, PeerDataPresent, Live
  <2>3. CASE hs[h] = "open" /\ todo' \in EventStages(h)
    <3>1. todo' \in StageLists
      BY <2>3 DEF EventStages, StageLists
    <3> QED BY <2>1, <2>3, <3>1, LinksUntouched
           DEF LinkInv, LinkTypeOK, ReadingOpen, PeerDataPresent, Live
  <2> QED BY <1>5, <2>2, <2>3 DEF PollEvent
<1>6. ASSUME NEW h \in Handle, FinishClose(h) PROVE LinkInv'
  <2>1. hs[h] = "closing" /\ hs' = [hs EXCEPT ![h] = "closed"] /\ UNCHANGED <<gen, fate>>
        /\ cur = None
    BY <1>6 DEF FinishClose, Idle, heapVars
  <2>2. \/ UNCHANGED <<cur, todo>>
        \/ cur' = h /\ todo' = <<"callbacks">>
    BY <1>6 DEF FinishClose
  <2>3. todo' \in StageLists /\ ReadingOpen'
    <3>1. CASE UNCHANGED <<cur, todo>>
      BY <2>1, <3>1 DEF LinkInv, LinkTypeOK, ReadingOpen
    <3>2. CASE cur' = h /\ todo' = <<"callbacks">>
      <4>1. Head(todo') = "callbacks"
        BY <3>2
      <4> QED BY <3>2, <4>1, HandleKinds DEF ReadingOpen, StageLists
    <3> QED BY <2>2, <3>1, <3>2
  <2>4. LinkTypeOK' /\ LiveWhileOpen' /\ PeerDataPresent'
    BY <2>1, <2>3
       DEF LinkInv, LinkTypeOK, LiveWhileOpen, PeerDataPresent, Live, HandleState, connVars
  <2>5. LinksConsistent'
    BY <2>1 DEF LinkInv, LinkTypeOK, LinksConsistent, Live, Ended, Opposite, connVars
  <2> QED BY <2>3, <2>4, <2>5 DEF LinkInv
<1> QED BY <1>1, <1>2, <1>3, <1>4, <1>5, <1>6 DEF UvNext, LoopTurn

-----------------------------------------------------------------------------
(* Steps that make or break links.                                          *)

LEMMA AcceptStep ==
    ASSUME LinkInv, NEW d \in Down, Accept(d) PROVE LinkInv'
<1>1. /\ hs[d] = "unused" /\ hs' = [hs EXCEPT ![d] = "open"]
      /\ gen' = [gen EXCEPT ![d] = 1] \/ gen' = gen
      /\ UNCHANGED <<cur, todo, fate, peer, ready>> /\ d \in Handle /\ d \notin Up
  BY HandleKinds DEF Accept, InitCallbackData, InitCallbackDataFails, connVars
<1>2. LinkTypeOK' /\ LiveWhileOpen' /\ PeerDataPresent'
  <2>1. LinkTypeOK'
    BY <1>1 DEF LinkInv, LinkTypeOK, HandleState
  <2>2. LiveWhileOpen'
    BY <1>1 DEF LinkInv, LinkTypeOK, LiveWhileOpen, Live
  <2> QED BY <1>1, <2>1, <2>2 DEF LinkInv, PeerDataPresent
<1>3. ReadingOpen'
  BY <1>1 DEF LinkInv, LinkTypeOK, ReadingOpen
<1>4. LinksConsistent'
  BY <1>1, HandleKinds DEF LinkInv, LinkTypeOK, LinksConsistent, Live, Ended, Opposite
<1> QED BY <1>2, <1>3, <1>4 DEF LinkInv

LEMMA ConnectedStep ==
    ASSUME LinkInv, NEW u \in Up, Connected(u) PROVE LinkInv'
<1>1. /\ u \in Handle /\ hs[u] = "connecting" /\ peer[u] # None
      /\ hs' = [hs EXCEPT ![u] = "open"]
      /\ ready' = [ready EXCEPT ![peer[u]] = TRUE]
      /\ UNCHANGED <<peer, gen>> /\ todo # <<>> /\ NextStage(Tail(todo))
      /\ cur = u /\ Head(todo) = "connect"
  BY HandleKinds DEF Connected, InStage, heapVars
<1>2. fate' \in {fate, "SIGPIPE"}
  BY UvWriteFate DEF Connected, Transfer
<1>3. todo' \in StageLists /\ ReadingOpen'
  <2>1. /\ todo' = Tail(todo) /\ todo' \in StageLists
        /\ (todo' # <<>> /\ Head(todo') \in {"read", "eof"} => Head(todo) = "read")
    BY <1>1, TailOfStages DEF NextStage, LinkInv, LinkTypeOK
  <2> QED BY <1>1, <2>1 DEF ReadingOpen
<1>4. LinkTypeOK' /\ LiveWhileOpen' /\ PeerDataPresent'
  BY <1>1, <1>2, <1>3
     DEF LinkInv, LinkTypeOK, LiveWhileOpen, PeerDataPresent, Live, HandleState
<1>5. LinksConsistent'
  BY <1>1, HandleKinds DEF LinkInv, LinkTypeOK, LinksConsistent, Live, Ended, Opposite
<1> QED BY <1>3, <1>4, <1>5 DEF LinkInv

LEMMA InitUpstreamStep ==
    ASSUME LinkInv, NEW d \in Down, NEW u \in Up, InitUpstream(d, u) PROVE LinkInv'
<1>1. PICK n \in Arriving(d), c \in NewCapacity :
        /\ RtsBufAppend(d, n, [cap EXCEPT ![u] = c], [gen EXCEPT ![u] = 1])
        /\ NextStage(AfterRead(n))
  BY DEF InitUpstream
<1>2. /\ d \in Handle /\ u \in Handle /\ d # u
      /\ peer[d] = None /\ hs[u] = "unused" /\ UNCHANGED fate
      /\ peer' = [peer EXCEPT ![d] = u, ![u] = d]
      /\ ready' = [ready EXCEPT ![d] = FALSE, ![u] = TRUE]
  BY HandleKinds DEF InitUpstream, Link, NewUpstream
<1>3. PICK s \in {"connecting", "refused", "stuck"} : hs' = [hs EXCEPT ![u] = s]
  BY DEF InitUpstream
<1>4. hs[d] = "open" /\ Live(d) /\ todo # <<>> /\ cur = d
  BY <1>2, ReadStageOpen DEF InitUpstream
<1>5. gen' \in [Handle -> Nat] /\ \A x \in Handle : Live(x)' <=> Live(x) \/ x = u
  <2> DEFINE made == [gen EXCEPT ![u] = 1]
  <2>1. made \in [Handle -> Nat] /\ \A x \in Handle : made[x] # 0 <=> Live(x) \/ x = u
    BY <1>2 DEF LinkInv, LinkTypeOK, Live
  <2>2. RtsBufAppend(d, n, [cap EXCEPT ![u] = c], made)
    BY <1>1
  <2> HIDE DEF made
  <2>3. d \in Handle /\ made[d] # 0
    BY <1>2, <1>4, <2>1
  <2>4. gen' \in [Handle -> Nat] /\ \A x \in Handle : gen'[x] # 0 <=> made[x] # 0
    BY <2>1, <2>2, <2>3, AppendKeepsBuffers
  <2> QED BY <2>1, <2>4 DEF Live
<1>6. todo' \in StageLists /\ ReadingOpen'
  <2>1. CASE AfterRead(n) = todo
    BY <1>1, <1>2, <1>3, <1>4, <2>1 DEF NextStage, LinkInv, LinkTypeOK, ReadingOpen
  <2>2. CASE AfterRead(n) = Tail(todo)
    <3>1. /\ todo' = Tail(todo) /\ todo' \in StageLists
          /\ (todo' # <<>> => cur' = d)
      BY <1>1, <1>4, <2>2, TailOfStages DEF NextStage, LinkInv, LinkTypeOK
    <3> QED BY <1>2, <1>3, <1>4, <3>1 DEF ReadingOpen, LinkInv, LinkTypeOK
  <2> QED BY <2>1, <2>2 DEF AfterRead
<1>7. LinkTypeOK'
  BY <1>2, <1>3, <1>5, <1>6 DEF LinkInv, LinkTypeOK, HandleState
<1>8. LiveWhileOpen' /\ PeerDataPresent'
  BY <1>2, <1>3, <1>4, <1>5 DEF LinkInv, LinkTypeOK, LiveWhileOpen, PeerDataPresent
<1>9. LinksConsistent'
  <2>1. peer[u] = None /\ \A x \in Handle : peer[x] \notin {d, u}
    <3>1. peer[u] = None
      BY <1>2 DEF LinkInv, LinksConsistent, LiveWhileOpen
    <3>2. \A x \in Handle : peer[x] # None => peer[peer[x]] = x /\ peer[x] \in Handle
      BY DEF LinkInv, LinkTypeOK, LinksConsistent
    <3> QED BY <1>2, <3>1, <3>2, HandleKinds
  <2>2. \A x \in Handle :
          /\ peer'[x] = IF x = d THEN u ELSE IF x = u THEN d ELSE peer[x]
          /\ ready'[x] = IF x = d THEN FALSE ELSE IF x = u THEN TRUE ELSE ready[x]
          /\ hs'[x] = IF x = u THEN s ELSE hs[x]
    BY <1>2, <1>3 DEF LinkInv, LinkTypeOK
  <2>3. d \in Down /\ u \in Up /\ d \in Opposite(u) /\ u \in Opposite(d) /\ None \notin {d, u}
    BY <1>2, HandleKinds DEF Opposite
  <2>4. SUFFICES ASSUME NEW x \in Handle
                 PROVE  /\ peer'[x] # None =>
                            /\ peer'[x] \in Opposite(x) /\ peer'[peer'[x]] = x
                            /\ Live(x)' /\ hs'[x] \notin {"closing", "closed"}
                        /\ x \in Down /\ ready'[x] =>
                            peer'[x] # None /\ hs'[peer'[x]] = "open"
    BY DEF LinksConsistent, Ended, Opposite
  <2>5. CASE x = d
    BY <1>2, <1>4, <1>5, <2>2, <2>3, <2>5
  <2>6. CASE x = u
    BY <1>2, <1>5, <2>2, <2>3, <2>6, HandleKinds
  <2>7. CASE x # d /\ x # u
    <3>1. peer'[x] = peer[x] /\ ready'[x] = ready[x] /\ hs'[x] = hs[x]
          /\ (Live(x)' <=> Live(x))
      BY <1>5, <2>2, <2>7
    <3>2. peer[x] # None => /\ peer[x] \in Handle /\ peer'[peer[x]] = peer[peer[x]]
                            /\ hs'[peer[x]] = hs[peer[x]]
      <4>1. peer[x] # None => peer[x] \in Handle /\ peer[x] # d /\ peer[x] # u
        BY <2>1 DEF LinkInv, LinkTypeOK
      <4> QED BY <2>2, <4>1
    <3>3. /\ peer[x] # None => /\ peer[x] \in Opposite(x) /\ peer[peer[x]] = x
                               /\ Live(x) /\ hs[x] \notin {"closing", "closed"}
          /\ x \in Down /\ ready[x] => peer[x] # None /\ hs[peer[x]] = "open"
      BY DEF LinkInv, LinksConsistent, Ended
    <3>4. peer'[x] # None => /\ peer'[x] \in Opposite(x) /\ peer'[peer'[x]] = x
                             /\ Live(x)' /\ hs'[x] \notin {"closing", "closed"}
      BY <3>1, <3>2, <3>3
    <3>5. x \in Down /\ ready'[x] => peer'[x] # None /\ hs'[peer'[x]] = "open"
      BY <3>1, <3>2, <3>3
    <3> QED BY <3>4, <3>5
  <2> QED BY <2>5, <2>6, <2>7
<1> QED BY <1>6, <1>7, <1>8, <1>9 DEF LinkInv

(* The end of a stream: both links go, the stream loses its data. *)
LEMMA CloseStep ==
    ASSUME LinkInv, NEW h \in Handle, Cleanup(h), UvClose(h) PROVE LinkInv'
<1>1. /\ hs' = [hs EXCEPT ![h] = "closing"] /\ gen' = [gen EXCEPT ![h] = 0]
      /\ peer' = [x \in Handle |-> IF x \in {h, peer[h]} THEN None ELSE peer[x]]
      /\ ready' = [x \in Handle |-> IF x \in {h, peer[h]} THEN FALSE ELSE ready[x]]
      /\ todo' = <<>> /\ fate' = fate
  BY DEF Cleanup, Unlink, UvClose
<1>2. LinkTypeOK' /\ LiveWhileOpen' /\ ReadingOpen' /\ PeerDataPresent'
  BY <1>1 DEF LinkInv, LinkTypeOK, LiveWhileOpen, ReadingOpen, PeerDataPresent, Live,
              HandleState, StageLists
<1>3. LinksConsistent'
  BY <1>1, HandleKinds DEF LinkInv, LinkTypeOK, LinksConsistent, Live, Ended, Opposite
<1> QED BY <1>2, <1>3 DEF LinkInv

LEMMA ReadEndStep ==
    ASSUME LinkInv, NEW h \in Handle, ReadEnd(h) PROVE LinkInv'
<1>1. CASE ReadFault(h) = "none"
  BY <1>1, CloseStep DEF ReadEnd
<1>2. CASE ReadFault(h) # "none"
  <2>1. peer[h] # None => Live(peer[h])
    BY HandleKinds DEF LinkInv, LinkTypeOK, LinksConsistent
  <2> QED BY <1>2, <2>1, CrashStep DEF ReadEnd, ReadFault
<1> QED BY <1>1, <1>2

-----------------------------------------------------------------------------
LEMMA NextLinkInv == LinkInv /\ [Next]_vars => LinkInv'
<1> SUFFICES ASSUME LinkInv, [Next]_vars PROVE LinkInv'
  OBVIOUS
<1>1. ASSUME NEW d \in Down, Accept(d) PROVE LinkInv'
  BY <1>1, AcceptStep
<1>2. ASSUME NEW d \in Down, InitUpstreamFails(d) PROVE LinkInv'
  BY <1>2, CloseStep, HandleKinds DEF InitUpstreamFails
<1>3. ASSUME NEW d \in Down, NEW u \in Up, InitUpstream(d, u) PROVE LinkInv'
  BY <1>3, InitUpstreamStep
<1>4. ASSUME NEW u \in Up, Connected(u) PROVE LinkInv'
  BY <1>4, ConnectedStep
<1>5. ASSUME NEW u \in Up, ConnectFaults(u) PROVE LinkInv'
  BY <1>5, FaultSteps, HandleKinds
<1>6. ASSUME NEW h \in Handle, Callback(h) PROVE LinkInv'
  BY <1>6, ReadRelayedStep, ReadAgainStep, ReadEndStep, AfterWriteStep, FaultSteps
     DEF Callback
<1>7. CASE UvNext /\ UNCHANGED <<connVars, bufVars, ghostVars>>
  BY <1>7, UvSteps
<1>8. CASE UNCHANGED vars
  <2>1. UNCHANGED <<hs, connVars, gen, cur, todo, fate>>
    BY <1>8 DEF vars, uvVars
  <2> QED BY <2>1, LinksUntouched DEF LinkInv, LinkTypeOK, ReadingOpen, PeerDataPresent, Live
<1> QED BY <1>1, <1>2, <1>3, <1>4, <1>5, <1>6, <1>7, <1>8 DEF Next

(* For any number of clients the two stream_conn of a pair stay consistent  *)
(* until both are gone (proxy.c:195-204, 326-333, 444-448).                 *)
THEOREM LinksSafe == Spec => []LinksConsistent
<1>1. LinkInv => LinksConsistent
  BY DEF LinkInv
<1> QED BY <1>1, InitLinkInv, NextLinkInv, PTL DEF Spec

(* No callback finds a peer whose callback data are gone: the pointers      *)
(* followed without a test at proxy.c:196, 272, 350, 444 and 507 are sound. *)
THEOREM PeersPresent == Spec => []PeerDataPresent
<1>1. LinkInv => PeerDataPresent
  BY DEF LinkInv
<1> QED BY <1>1, InitLinkInv, NextLinkInv, PTL DEF Spec

-----------------------------------------------------------------------------
(* Types.                                                                   *)

(* Nothing is credited that was not handed over, and nothing is handed over *)
(* that is not in the buffer.                                               *)
Offsets == \A h \in Handle : pos[h] <= last[h] /\ last[h] <= size[h]

DataTypeOK ==
    /\ pos \in [Handle -> Nat] /\ last \in [Handle -> Nat]
    /\ size \in [Handle -> Nat] /\ cap \in [Handle -> Nat]

GhostTypeOK ==
    /\ rd \in [Handle -> Nat]
    /\ lost \in [Handle -> SUBSET Nat]
    /\ client \in [Up -> Down \cup {None}]
    /\ miscredit \subseteq Handle

FateOK == fate \in {"running", "SIGPIPE"} \cup Fault

TypeInv ==
    /\ LinkInv
    /\ WriteTypeOK /\ LoopTypeOK /\ HeapTypeOK /\ DataTypeOK /\ GhostTypeOK
    /\ FateOK /\ Offsets

LEMMA TypeInvType == TypeInv => TypeOK
BY UvTypeParts
   DEF TypeInv, TypeOK, LinkInv, LinkTypeOK, DataTypeOK, GhostTypeOK, FateOK

LEMMA InitTypeInv == Init => TypeInv
<1> SUFFICES ASSUME Init PROVE TypeInv
  OBVIOUS
<1>1. LinkInv
  BY InitLinkInv
<1>2. WriteTypeOK /\ LoopTypeOK /\ HeapTypeOK
  BY UvInitType, UvTypeParts DEF Init
<1>3. DataTypeOK /\ GhostTypeOK /\ Offsets
  BY DEF Init, DataTypeOK, GhostTypeOK, Offsets
<1>4. FateOK
  BY DEF Init, UvInit, FateOK
<1> QED BY <1>1, <1>2, <1>3, <1>4 DEF TypeInv

LEMMA NewCapacityType == \A c \in NewCapacity : c \in Nat
BY ProxyAssumption, IntMaxAssumption DEF NewCapacity

LEMMA MinOfTwo ==
    ASSUME NEW a \in Int, NEW b \in Int
    PROVE  /\ Min({a, b}) \in {a, b} /\ Min({a, b}) <= a /\ Min({a, b}) <= b
           /\ Max({a, b}) \in {a, b} /\ Max({a, b}) >= a /\ Max({a, b}) >= b
<1>1. \E x \in {a, b} : \A y \in {a, b} : x <= y
  <2>1. CASE a <= b
    BY <2>1
  <2>2. CASE b <= a
    BY <2>2
  <2> QED BY <2>1, <2>2
<1>2. \E x \in {a, b} : \A y \in {a, b} : x >= y
  <2>1. CASE a >= b
    BY <2>1
  <2>2. CASE b >= a
    BY <2>2
  <2> QED BY <2>1, <2>2
<1>3. Min({a, b}) \in {a, b} /\ \A y \in {a, b} : Min({a, b}) <= y
  BY <1>1 DEF Min
<1>4. Max({a, b}) \in {a, b} /\ \A y \in {a, b} : Max({a, b}) >= y
  BY <1>2 DEF Max
<1> QED BY <1>3, <1>4

LEMMA ArrivingType ==
    ASSUME TypeInv, NEW h \in Handle, NEW n \in Arriving(h)
    PROVE  n \in Nat \ {0} /\ n <= ReadMax
<1> DEFINE b == MaxBytes[h] - rd[h]
           m == Min({ReadMax, b})
<1>1. ReadMax \in Nat /\ b \in Int
  BY ProxyAssumption, NoneAssumption DEF TypeInv, GhostTypeOK
<1> HIDE DEF b
<1>2. m \in {ReadMax, b} /\ m <= ReadMax
  BY <1>1, MinOfTwo
<1>3. n \in 1 .. m
  BY DEF Arriving, b
<1> HIDE DEF m
<1> QED BY <1>1, <1>2, <1>3

(* The result of an append, whatever the buffer was. *)
LEMMA AppendResultType ==
    ASSUME NEW c \in Nat, NEW s \in Nat, NEW n \in Nat, NEW oom
    PROVE  LET r == AppendResult(c, s, n, oom)
           IN  r.cap \in Nat /\ r.size \in Nat /\ r.size >= s /\ r.size <= s + n
<1> DEFINE k == NewCap(c, s, n)
<1>1. k \in Int
  BY IntMaxAssumption DEF NewCap, AsInt
<1>2. CASE ~MustGrow(c, s, n)
  BY <1>2 DEF AppendResult
<1>3. CASE MustGrow(c, s, n) /\ (oom \/ ~MallocCanServe(k))
  BY <1>3 DEF AppendResult
<1>4. CASE MustGrow(c, s, n) /\ ~(oom \/ ~MallocCanServe(k))
  <2>1. k \in Nat
    BY <1>1, <1>4 DEF MallocCanServe
  <2>2. AppendResult(c, s, n, oom) = [ret |-> 0, cap |-> k, size |-> s + n]
    BY <1>4 DEF AppendResult
  <2> HIDE DEF k
  <2> QED BY <2>1, <2>2
<1> QED BY <1>2, <1>3, <1>4

(* The memory a successful append leaves. *)
LEMMA OverwriteType ==
    ASSUME NEW s \in Seq(Nat), NEW at \in Nat, NEW new \in Seq(Nat)
    PROVE  /\ Overwrite(s, at, new) \in Seq(Nat)
           /\ Len(Overwrite(s, at, new)) >= Len(s)
           /\ Len(Overwrite(s, at, new)) >= at + Len(new)
           /\ Len(Overwrite(s, at, new)) \in {Len(s), at + Len(new)}
<1> DEFINE a == Len(s)
           b == at + Len(new)
           m == Max({a, b})
<1>0. a \in Nat /\ b \in Nat
  OBVIOUS
<1>1. m \in {a, b} /\ m >= a /\ m >= b /\ m \in Nat
  <2> HIDE DEF a, b
  <2>1. a \in Int /\ b \in Int
    BY <1>0
  <2>2. m \in {a, b} /\ m >= a /\ m >= b
    BY <2>1, MinOfTwo, Zenon
  <2> QED BY <1>0, <2>2
<1> HIDE DEF m
<1>2. \A i \in 1 .. m : Overwrite(s, at, new)[i] \in Nat
  <2> SUFFICES ASSUME NEW i \in 1 .. m PROVE Overwrite(s, at, new)[i] \in Nat
    OBVIOUS
  <2>1. Overwrite(s, at, new)[i] =
          IF i \in at + 1 .. at + Len(new) THEN new[i - at]
          ELSE IF i \in DOMAIN s THEN s[i] ELSE 0
    BY DEF Overwrite, m
  <2>2. i \in at + 1 .. at + Len(new) => i - at \in 1 .. Len(new)
    BY <1>1
  <2> QED BY <2>1, <2>2
<1>3. Overwrite(s, at, new) = [i \in 1 .. m |-> Overwrite(s, at, new)[i]]
  BY DEF Overwrite, m
<1>4. Overwrite(s, at, new) \in [1 .. m -> Nat]
  BY <1>2, <1>3
<1>5. Overwrite(s, at, new) \in Seq(Nat) /\ Len(Overwrite(s, at, new)) = m
  BY <1>1, <1>4
<1> QED BY <1>1, <1>5

(* What an append does, as far as types and sizes go.                       *)
LEMMA AppendType ==
    ASSUME TypeInv, NEW h \in Handle, NEW n \in Nat,
           NEW caps \in [Handle -> Nat], NEW gens \in [Handle -> Nat],
           RtsBufAppend(h, n, caps, gens)
    PROVE  /\ HeapTypeOK' /\ rd' \in [Handle -> Nat] /\ lost' \in [Handle -> SUBSET Nat]
           /\ size' \in [Handle -> Nat] /\ cap' \in [Handle -> Nat]
           /\ size'[h] >= size[h] /\ \A x \in Handle : x # h => size'[x] = size[x]
<1> DEFINE new == [i \in 1 .. n |-> rd[h] + i]
<1>1. PICK oom \in {FALSE, MayOom} :
        LET r == AppendResult(cap[h], size[h], n, oom)
        IN  /\ rd' = [rd EXCEPT ![h] = @ + n]
            /\ cap' = [caps EXCEPT ![h] = r.cap] /\ size' = [size EXCEPT ![h] = r.size]
            /\ gen' = [gens EXCEPT ![h] = IF r.cap # cap[h] THEN @ + 1 ELSE @]
            /\ mem' = [mem EXCEPT ![h] =
                         IF r.ret = 0 THEN Overwrite(@, size[h], new) ELSE @]
            /\ lost' = [lost EXCEPT ![h] = IF r.ret = 0 THEN @ ELSE @ \cup Range(new)]
  BY DEF RtsBufAppend
<1> DEFINE r == AppendResult(cap[h], size[h], n, oom)
<1>2. rd[h] \in Nat /\ cap[h] \in Nat /\ size[h] \in Nat /\ mem[h] \in Seq(Nat)
  BY DEF TypeInv, DataTypeOK, GhostTypeOK, HeapTypeOK
<1>3. r.cap \in Nat /\ r.size \in Nat /\ r.size >= size[h]
  BY <1>2, AppendResultType
<1>4. new \in [1 .. n -> Nat] /\ new \in Seq(Nat) /\ Range(new) \subseteq Nat
  <2>1. new \in [1 .. n -> Nat]
    BY <1>2
  <2> HIDE DEF new
  <2> QED BY <2>1 DEF Range
<1>5. Overwrite(mem[h], size[h], new) \in Seq(Nat)
  BY <1>2, <1>4, OverwriteType
<1> HIDE DEF r, new
<1>6. mem' \in [Handle -> Seq(Nat)]
  BY <1>1, <1>5 DEF r, new, TypeInv, HeapTypeOK
<1>7. gen' \in [Handle -> Nat]
  BY <1>1 DEF r
<1>8. rd' \in [Handle -> Nat]
  BY <1>1 DEF TypeInv, GhostTypeOK
<1>9. lost' \in [Handle -> SUBSET Nat]
  <2>1. lost[h] \cup Range(new) \in SUBSET Nat /\ lost \in [Handle -> SUBSET Nat]
    BY <1>4 DEF TypeInv, GhostTypeOK
  <2>2. lost' = [lost EXCEPT ![h] = IF r.ret = 0 THEN lost[h] ELSE lost[h] \cup Range(new)]
    BY <1>1, <2>1 DEF r, new
  <2> QED BY <2>1, <2>2
<1>10. /\ size' \in [Handle -> Nat] /\ cap' \in [Handle -> Nat]
       /\ size'[h] = r.size /\ \A x \in Handle : x # h => size'[x] = size[x]
  <2>1. cap' = [caps EXCEPT ![h] = r.cap] /\ size' = [size EXCEPT ![h] = r.size]
    BY <1>1 DEF r
  <2> QED BY <1>3, <2>1 DEF TypeInv, DataTypeOK
<1> QED BY <1>3, <1>6, <1>7, <1>8, <1>9, <1>10 DEF HeapTypeOK

(* A transfer hands over all that is in the buffer. *)
LEMMA TransferType ==
    ASSUME TypeInv, NEW from \in Handle, NEW to \in Handle,
           HeapTypeOK', gen'[from] # 0,
           size' \in [Handle -> Nat], pos' \in [Handle -> Nat], pos'[from] <= size'[from],
           NEW q \in Seq(WriteReq), NEW done \in Seq(WriteReq), Transfer(from, to, q, done)
    PROVE  /\ WriteTypeOK' /\ Unsent(from) \in WriteReq
           /\ last' \in [Handle -> Nat] /\ last'[from] = size'[from]
           /\ \A x \in Handle : x # from => last'[x] = last[x]
<1>1. gen'[from] \in Nat \ {0} /\ pos'[from] \in Nat /\ size'[from] - pos'[from] \in Nat
  BY DEF HeapTypeOK
<1>2. Unsent(from) \in WriteReq
  BY <1>1 DEF Unsent, WriteReq
<1>3. WriteTypeOK'
  <2>1. UvWrite(to, Unsent(from), q, done, gen', mem')
    BY DEF Transfer
  <2>2. gen' \in [Handle -> Nat] /\ mem' \in [Handle -> Seq(Nat)] /\ WriteTypeOK
    BY DEF HeapTypeOK, TypeInv
  <2> QED BY <1>2, <2>1, <2>2, UvWriteType
<1>4. /\ last' \in [Handle -> Nat] /\ last'[from] = size'[from]
      /\ \A x \in Handle : x # from => last'[x] = last[x]
  BY DEF Transfer, TypeInv, DataTypeOK
<1> QED BY <1>2, <1>3, <1>4

LEMMA UvWriteFateOK ==
    ASSUME TypeInv, fate' \in {fate, "SIGPIPE"} PROVE FateOK'
BY DEF TypeInv, FateOK

LEMMA NextStageTypeOK ==
    ASSUME TypeInv, NEW t, NextStage(t), t = todo \/ (t = Tail(todo) /\ todo # <<>>),
           UNCHANGED <<phase, batch, served>>
    PROVE  LoopTypeOK'
BY NextStageType DEF TypeInv

LEMMA ReadRelayedType ==
    ASSUME TypeInv, NEW h \in Handle, ReadRelayed(h) PROVE TypeInv'
<1>1. PICK n \in Arriving(h) :
        /\ RtsBufAppend(h, n, cap, gen)
        /\ UNCHANGED <<connVars, pos, client, miscredit>>
        /\ IF MayTransfer(h)
           THEN Transfer(h, peer[h], wq[peer[h]], wdone[peer[h]])
           ELSE UNCHANGED <<last, wq, wdone, pollout, feed, out, brk, fate>>
        /\ NextStage(AfterRead(n))
  BY DEF ReadRelayed
<1>2. LinkInv' /\ LinkInv
  BY ReadRelayedStep DEF TypeInv
<1>3. Live(h) /\ todo # <<>> /\ UNCHANGED <<phase, batch, served>>
  BY <1>2, ReadStageOpen DEF ReadRelayed
<1>4. /\ HeapTypeOK' /\ rd' \in [Handle -> Nat] /\ lost' \in [Handle -> SUBSET Nat]
      /\ size' \in [Handle -> Nat] /\ cap' \in [Handle -> Nat]
      /\ size'[h] >= size[h] /\ \A x \in Handle : x # h => size'[x] = size[x]
  <2>1. n \in Nat
    BY ArrivingType
  <2> QED BY <1>1, <2>1, AppendType DEF TypeInv, DataTypeOK, HeapTypeOK
<1>5. LoopTypeOK'
  <2>1. AfterRead(n) = todo \/ AfterRead(n) = Tail(todo)
    BY DEF AfterRead
  <2> QED BY <1>1, <1>3, <2>1, NextStageTypeOK
<1>6. GhostTypeOK'
  BY <1>1, <1>4 DEF TypeInv, GhostTypeOK
<1>7. /\ pos' = pos /\ pos \in [Handle -> Nat] /\ last \in [Handle -> Nat]
      /\ size \in [Handle -> Nat] /\ \A x \in Handle : pos[x] <= last[x] /\ last[x] <= size[x]
  BY <1>1 DEF TypeInv, DataTypeOK, Offsets
<1>8. CASE MayTransfer(h)
  <2>1. Transfer(h, peer[h], wq[peer[h]], wdone[peer[h]]) /\ peer[h] \in Handle
    BY <1>1, <1>2, <1>8 DEF MayTransfer, LinkInv, LinkTypeOK
  <2>2. wq[peer[h]] \in Seq(WriteReq) /\ wdone[peer[h]] \in Seq(WriteReq)
    BY <2>1 DEF TypeInv, WriteTypeOK
  <2>3. gen'[h] # 0
    <3>1. gen' \in [Handle -> Nat] /\ \A x \in Handle : gen'[x] # 0 <=> gen[x] # 0
      BY <1>1, <1>2, <1>3, AppendKeepsBuffers DEF Live, LinkInv, LinkTypeOK
    <3> QED BY <1>3, <3>1 DEF Live
  <2>4. pos'[h] <= size'[h]
    BY <1>4, <1>7
  <2>5. /\ WriteTypeOK' /\ last' \in [Handle -> Nat] /\ last'[h] = size'[h]
        /\ \A x \in Handle : x # h => last'[x] = last[x]
    BY <1>4, <1>7, <2>1, <2>2, <2>3, <2>4, TransferType
  <2>6. DataTypeOK' /\ Offsets'
    BY <1>4, <1>7, <2>4, <2>5 DEF DataTypeOK, Offsets
  <2>7. FateOK'
    BY <2>1, UvWriteFate, UvWriteFateOK DEF Transfer
  <2> QED BY <1>2, <1>4, <1>5, <1>6, <2>5, <2>6, <2>7 DEF TypeInv
<1>9. CASE ~MayTransfer(h)
  <2>1. UNCHANGED <<last, wq, wdone, pollout, feed, out, brk, fate>>
    BY <1>1, <1>9
  <2>2. DataTypeOK' /\ Offsets'
    BY <1>4, <1>7, <2>1 DEF DataTypeOK, Offsets
  <2>3. WriteTypeOK' /\ FateOK'
    BY <2>1 DEF TypeInv, WriteTypeOK, FateOK
  <2> QED BY <1>2, <1>4, <1>5, <1>6, <2>2, <2>3 DEF TypeInv
<1> QED BY <1>8, <1>9

LEMMA ConnectedType ==
    ASSUME TypeInv, NEW u \in Up, Connected(u) PROVE TypeInv'
<1>1. /\ u \in Handle /\ peer[u] # None /\ UNCHANGED <<pos, size, cap, heapVars, ghostVars>>
      /\ IF HasBuf(peer[u]) /\ pos[peer[u]] = last[peer[u]]
         THEN Transfer(peer[u], u, wq[u], wdone[u])
         ELSE UNCHANGED <<last, wq, wdone, pollout, feed, out, brk, fate>>
      /\ NextStage(Tail(todo)) /\ todo # <<>> /\ UNCHANGED <<phase, batch, served>>
  BY HandleKinds DEF Connected, InStage
<1>2. LinkInv' /\ LinkInv
  BY ConnectedStep DEF TypeInv
<1>3. LoopTypeOK'
  BY <1>1, NextStageTypeOK
<1>4. HeapTypeOK' /\ GhostTypeOK'
  BY <1>1 DEF TypeInv, HeapTypeOK, GhostTypeOK, heapVars, ghostVars
<1>5. /\ peer[u] \in Handle /\ Live(peer[u])
  BY <1>1, <1>2, HandleKinds DEF LinkInv, LinkTypeOK, LinksConsistent
<1>6. /\ pos' = pos /\ size' = size /\ cap' = cap /\ gen' = gen
      /\ pos \in [Handle -> Nat] /\ last \in [Handle -> Nat] /\ size \in [Handle -> Nat]
      /\ cap \in [Handle -> Nat]
      /\ \A x \in Handle : pos[x] <= last[x] /\ last[x] <= size[x]
  BY <1>1 DEF TypeInv, DataTypeOK, Offsets, heapVars
<1>7. CASE HasBuf(peer[u]) /\ pos[peer[u]] = last[peer[u]]
  <2>1. Transfer(peer[u], u, wq[u], wdone[u])
    BY <1>1, <1>7
  <2>2. wq[u] \in Seq(WriteReq) /\ wdone[u] \in Seq(WriteReq)
    BY <1>1 DEF TypeInv, WriteTypeOK
  <2>3. pos'[peer[u]] <= size'[peer[u]] /\ gen'[peer[u]] # 0
    BY <1>5, <1>6 DEF Live
  <2>4. /\ WriteTypeOK' /\ last' \in [Handle -> Nat] /\ last'[peer[u]] = size'[peer[u]]
        /\ \A x \in Handle : x # peer[u] => last'[x] = last[x]
    BY <1>1, <1>4, <1>5, <1>6, <2>1, <2>2, <2>3, TransferType
  <2>5. DataTypeOK' /\ Offsets'
    BY <1>6, <2>3, <2>4 DEF DataTypeOK, Offsets
  <2>6. FateOK'
    BY <2>1, UvWriteFate, UvWriteFateOK DEF Transfer
  <2> QED BY <1>2, <1>3, <1>4, <2>4, <2>5, <2>6 DEF TypeInv
<1>8. CASE ~(HasBuf(peer[u]) /\ pos[peer[u]] = last[peer[u]])
  <2>1. UNCHANGED <<last, wq, wdone, pollout, feed, out, brk, fate>>
    BY <1>1, <1>8
  <2>2. DataTypeOK' /\ Offsets'
    BY <1>6, <2>1 DEF DataTypeOK, Offsets
  <2>3. WriteTypeOK' /\ FateOK'
    BY <2>1 DEF TypeInv, WriteTypeOK, FateOK
  <2> QED BY <1>2, <1>3, <1>4, <2>2, <2>3 DEF TypeInv
<1> QED BY <1>7, <1>8

LEMMA AfterWriteType ==
    ASSUME TypeInv, NEW to \in Handle, AfterWrite(to) PROVE TypeInv'
<1> DEFINE from == peer[to]
<1>1. /\ wdone[to] # <<>> /\ AfterWriteFault(to) = "none"
      /\ miscredit' = IF Completes(Head(wdone[to]), from)
                      THEN miscredit ELSE miscredit \cup {from}
      /\ UNCHANGED <<connVars, cap, heapVars, rd, lost, client>>
      /\ UNCHANGED <<phase, batch, served, cur, todo, hs>>
  BY DEF AfterWrite
<1>2. LinkInv' /\ LinkInv
  BY AfterWriteStep DEF TypeInv
<1>3. from \in Handle /\ Live(from)
  BY <1>1, <1>2 DEF AfterWriteFault, LinkInv, LinkTypeOK
<1>4. HeapTypeOK' /\ GhostTypeOK' /\ LoopTypeOK'
  <2>1. GhostTypeOK'
    BY <1>1, <1>3 DEF TypeInv, GhostTypeOK
  <2> QED BY <1>1, <2>1 DEF TypeInv, HeapTypeOK, LoopTypeOK, heapVars
<1>5. /\ cap' = cap /\ gen' = gen
      /\ pos \in [Handle -> Nat] /\ last \in [Handle -> Nat] /\ size \in [Handle -> Nat]
      /\ cap \in [Handle -> Nat]
      /\ \A x \in Handle : pos[x] <= last[x] /\ last[x] <= size[x]
  BY <1>1 DEF TypeInv, DataTypeOK, Offsets, heapVars
<1>6. /\ wq[to] \in Seq(WriteReq) /\ wdone[to] \in Seq(WriteReq)
      /\ Tail(wdone[to]) \in Seq(WriteReq)
  BY <1>1 DEF TypeInv, WriteTypeOK
<1>7. CASE MoreToSend(from)
  <2>1. /\ pos' = [pos EXCEPT ![from] = last[from]] /\ size' = size
        /\ Transfer(from, to, wq[to], Tail(wdone[to]))
    BY <1>7 DEF AfterWrite
  <2>2. /\ pos' \in [Handle -> Nat] /\ pos'[from] = last[from]
        /\ \A x \in Handle : x # from => pos'[x] = pos[x]
    BY <1>3, <1>5, <2>1
  <2>3. pos'[from] <= size'[from] /\ gen'[from] # 0 /\ size' \in [Handle -> Nat]
    BY <1>3, <1>5, <2>1, <2>2 DEF Live
  <2>4. /\ WriteTypeOK' /\ last' \in [Handle -> Nat] /\ last'[from] = size'[from]
        /\ \A x \in Handle : x # from => last'[x] = last[x]
    BY <1>3, <1>4, <1>6, <2>1, <2>2, <2>3, TransferType
  <2>5. DataTypeOK' /\ Offsets'
    BY <1>5, <2>1, <2>2, <2>3, <2>4 DEF DataTypeOK, Offsets
  <2>6. FateOK'
    BY <2>1, UvWriteFate, UvWriteFateOK DEF Transfer
  <2> QED BY <1>2, <1>4, <2>4, <2>5, <2>6 DEF TypeInv
<1>8. CASE ~MoreToSend(from)
  <2>1. /\ BufRestart(from) /\ wdone' = [wdone EXCEPT ![to] = Tail(@)]
        /\ UNCHANGED <<wq, pollout, feed, out, brk, fate>>
    BY <1>8 DEF AfterWrite
  <2>2. DataTypeOK' /\ Offsets'
    BY <1>3, <1>5, <2>1 DEF BufRestart, DataTypeOK, Offsets
  <2>3. WriteTypeOK' /\ FateOK'
    BY <1>6, <2>1 DEF TypeInv, WriteTypeOK, FateOK
  <2> QED BY <1>2, <1>4, <2>2, <2>3 DEF TypeInv
<1> QED BY <1>7, <1>8

LEMMA AcceptType ==
    ASSUME TypeInv, NEW d \in Down, Accept(d) PROVE TypeInv'
<1>1. /\ d \in Handle /\ served' = served \cup {d}
      /\ UNCHANGED <<phase, batch, feed, cur, todo, wq, wdone, pollout, brk, out, mem, fate,
                     connVars, pos, last, size, ghostVars>>
  BY HandleKinds DEF Accept
<1>2. LinkInv'
  BY AcceptStep DEF TypeInv
<1>3. gen' \in [Handle -> Nat] /\ cap' \in [Handle -> Nat]
  <2>1. gen \in [Handle -> Nat] /\ cap \in [Handle -> Nat]
    BY DEF TypeInv, HeapTypeOK, DataTypeOK
  <2>2. CASE InitCallbackData(d)
    <3>1. PICK c \in NewCapacity : cap' = [cap EXCEPT ![d] = c]
      BY <2>2 DEF InitCallbackData
    <3>2. c \in Nat /\ gen' = [gen EXCEPT ![d] = 1]
      BY <2>2, NewCapacityType DEF InitCallbackData
    <3> QED BY <2>1, <3>1, <3>2
  <2>3. CASE InitCallbackDataFails
    BY <2>1, <2>3 DEF InitCallbackDataFails
  <2> QED BY <2>2, <2>3 DEF Accept
<1>4. HeapTypeOK' /\ DataTypeOK' /\ Offsets'
  BY <1>1, <1>3 DEF TypeInv, HeapTypeOK, DataTypeOK, Offsets
<1>5. WriteTypeOK' /\ FateOK'
  BY <1>1 DEF TypeInv, WriteTypeOK, FateOK
<1>6. LoopTypeOK' /\ GhostTypeOK'
  BY <1>1 DEF TypeInv, LoopTypeOK, GhostTypeOK, ghostVars
<1> QED BY <1>2, <1>4, <1>5, <1>6 DEF TypeInv

LEMMA InitUpstreamType ==
    ASSUME TypeInv, NEW d \in Down, NEW u \in Up, InitUpstream(d, u) PROVE TypeInv'
<1>1. PICK n \in Arriving(d), c \in NewCapacity :
        /\ RtsBufAppend(d, n, [cap EXCEPT ![u] = c], [gen EXCEPT ![u] = 1])
        /\ NextStage(AfterRead(n))
  BY DEF InitUpstream
<1>2. /\ d \in Handle /\ u \in Handle /\ served' = served \cup {u} /\ todo # <<>>
      /\ UNCHANGED <<phase, batch, wq, wdone, pollout, brk, out, fate, pos, last, miscredit>>
  BY HandleKinds DEF InitUpstream, InStage
<1>3. LinkInv'
  BY InitUpstreamStep DEF TypeInv
<1>4. n \in Nat /\ c \in Nat
  BY <1>2, ArrivingType, NewCapacityType
<1>5. /\ HeapTypeOK' /\ rd' \in [Handle -> Nat] /\ lost' \in [Handle -> SUBSET Nat]
      /\ size' \in [Handle -> Nat] /\ cap' \in [Handle -> Nat]
      /\ size'[d] >= size[d] /\ \A x \in Handle : x # d => size'[x] = size[x]
  <2>1. /\ [cap EXCEPT ![u] = c] \in [Handle -> Nat]
        /\ [gen EXCEPT ![u] = 1] \in [Handle -> Nat]
    BY <1>4 DEF TypeInv, DataTypeOK, HeapTypeOK
  <2> QED BY <1>1, <1>2, <1>4, <2>1, AppendType
<1>6. feed' \in Seq(Handle)
  <2>1. feed' \in {feed, Fed(feed, u)}
    BY DEF InitUpstream
  <2> QED BY <1>2, <2>1, FedType DEF TypeInv, WriteTypeOK
<1>7. WriteTypeOK' /\ FateOK'
  BY <1>2, <1>6 DEF TypeInv, WriteTypeOK, FateOK
<1>8. LoopTypeOK'
  <2>1. AfterRead(n) = todo \/ AfterRead(n) = Tail(todo)
    BY DEF AfterRead
  <2>2. todo' \in StageLists /\ cur' \in Handle \cup {None}
    BY <1>1, <1>2, <2>1, TailOfStages DEF NextStage, TypeInv, LoopTypeOK
  <2> QED BY <1>2, <2>2 DEF TypeInv, LoopTypeOK
<1>9. DataTypeOK' /\ Offsets'
  <2>1. /\ pos' = pos /\ last' = last /\ pos \in [Handle -> Nat] /\ last \in [Handle -> Nat]
        /\ size \in [Handle -> Nat]
        /\ \A x \in Handle : pos[x] <= last[x] /\ last[x] <= size[x]
    BY <1>2 DEF TypeInv, DataTypeOK, Offsets
  <2>2. DataTypeOK'
    BY <1>5, <2>1 DEF DataTypeOK
  <2>3. ASSUME NEW x \in Handle
        PROVE  size'[x] \in Nat /\ size[x] \in Nat /\ size'[x] >= size[x]
    <3>1. size'[x] \in Nat /\ size[x] \in Nat
      BY <1>5, <2>1
    <3>2. CASE x = d
      BY <1>5, <3>1, <3>2
    <3>3. CASE x # d
      <4>1. size'[x] = size[x]
        BY <1>5, <3>3
      <4> QED BY <3>1, <4>1
    <3> QED BY <3>1, <3>2, <3>3
  <2>4. Offsets'
    BY <2>1, <2>3 DEF Offsets
  <2> QED BY <2>2, <2>4
<1>10. GhostTypeOK'
  <2>1. client' \in [Up -> Down \cup {None}]
    BY DEF InitUpstream, TypeInv, GhostTypeOK
  <2> QED BY <1>2, <1>5, <2>1 DEF TypeInv, GhostTypeOK
<1> QED BY <1>3, <1>5, <1>7, <1>8, <1>9, <1>10 DEF TypeInv

LEMMA CloseType ==
    ASSUME TypeInv, NEW h \in Handle, Cleanup(h), UvClose(h), UNCHANGED ghostVars
    PROVE  TypeInv'
<1>1. LinkInv'
  BY CloseStep DEF TypeInv
<1>2. HeapTypeOK' /\ DataTypeOK' /\ Offsets'
  <2>1. HeapTypeOK'
    BY DEF Cleanup, TypeInv, HeapTypeOK
  <2>2. DataTypeOK'
    BY DEF Cleanup, TypeInv, DataTypeOK
  <2>3. Offsets'
    BY DEF Cleanup, TypeInv, DataTypeOK, Offsets
  <2> QED BY <2>1, <2>2, <2>3
<1>3. WriteTypeOK' /\ LoopTypeOK'
  <2>1. UvTypeOK
    BY UvTypeParts DEF TypeInv, LinkInv, LinkTypeOK
  <2>2. UvTypeOK'
    BY <1>2, <2>1, UvCloseType
  <2> QED BY <2>2 DEF UvTypeOK, WriteTypeOK, LoopTypeOK
<1>4. GhostTypeOK' /\ FateOK'
  BY DEF TypeInv, GhostTypeOK, FateOK, ghostVars, UvClose
<1> QED BY <1>1, <1>2, <1>3, <1>4 DEF TypeInv

LEMMA FaultType ==
    ASSUME TypeInv, LinkInv', NEW site \in Fault, Crash(site),
           UNCHANGED <<connVars, bufVars, ghostVars>>
    PROVE  TypeInv'
<1>1. WriteTypeOK' /\ LoopTypeOK' /\ HeapTypeOK'
  BY DEF Crash, TypeInv, WriteTypeOK, LoopTypeOK, HeapTypeOK, loopVars, streamVars, heapVars
<1>2. DataTypeOK' /\ Offsets' /\ GhostTypeOK'
  BY DEF TypeInv, DataTypeOK, Offsets, GhostTypeOK, bufVars, ghostVars
<1>3. FateOK'
  BY DEF Crash, FateOK
<1> QED BY <1>1, <1>2, <1>3 DEF TypeInv

LEMMA ReadEndType ==
    ASSUME TypeInv, NEW h \in Handle, ReadEnd(h) PROVE TypeInv'
<1>1. CASE ReadFault(h) = "none"
  BY <1>1, CloseType DEF ReadEnd
<1>2. CASE ReadFault(h) # "none"
  <2>1. LinkInv'
    BY ReadEndStep DEF TypeInv
  <2>2. ReadFault(h) \in Fault
    BY <1>2 DEF ReadFault, Fault
  <2> QED BY <1>2, <2>1, <2>2, FaultType DEF ReadEnd
<1> QED BY <1>1, <1>2

LEMMA FaultsType ==
    ASSUME TypeInv, NEW h \in Handle,
           ConnectFaults(h) \/ AfterWriteFaults(h) \/ ReadDataFaults(h)
    PROVE  TypeInv'
<1>1. LinkInv'
  BY FaultSteps DEF TypeInv
<1>2. CASE ConnectFaults(h)
  <2>1. ConnectFault(h) \in Fault
    BY DEF ConnectFault, Fault
  <2> QED BY <1>1, <1>2, <2>1, FaultType DEF ConnectFaults
<1>3. CASE AfterWriteFaults(h)
  <2>1. AfterWriteFault(h) \in Fault
    BY <1>3 DEF AfterWriteFaults, AfterWriteFault, Fault
  <2> QED BY <1>1, <1>3, <2>1, FaultType DEF AfterWriteFaults
<1>4. CASE ReadDataFaults(h)
  <2>1. \A site \in ReadDataFault(h) : site \in Fault
    BY DEF ReadDataFault, Fault
  <2> QED BY <1>1, <1>4, <2>1, FaultType DEF ReadDataFaults
<1> QED BY <1>2, <1>3, <1>4

(* What the loop does by itself leaves the program's data alone.            *)
LEMMA UvOnlyType ==
    ASSUME TypeInv, LinkInv', UvTypeOK', fate' \in {fate, "SIGPIPE"},
           UNCHANGED <<bufVars, ghostVars>>
    PROVE  TypeInv'
<1>1. WriteTypeOK' /\ LoopTypeOK' /\ HeapTypeOK'
  BY DEF UvTypeOK, WriteTypeOK, LoopTypeOK, HeapTypeOK
<1>2. DataTypeOK' /\ Offsets' /\ GhostTypeOK'
  BY DEF TypeInv, DataTypeOK, Offsets, GhostTypeOK, bufVars, ghostVars
<1>3. FateOK'
  BY UvWriteFateOK
<1> QED BY <1>1, <1>2, <1>3 DEF TypeInv

LEMMA NextTypeInv == TypeInv /\ [Next]_vars => TypeInv'
<1> SUFFICES ASSUME TypeInv, [Next]_vars PROVE TypeInv'
  OBVIOUS
<1>0. LinkInv' /\ UvTypeOK
  BY NextLinkInv, UvTypeParts DEF TypeInv, LinkInv, LinkTypeOK
<1>1. ASSUME NEW d \in Down, Accept(d) PROVE TypeInv'
  BY <1>1, AcceptType
<1>2. ASSUME NEW d \in Down, InitUpstreamFails(d) PROVE TypeInv'
  BY <1>2, CloseType, HandleKinds DEF InitUpstreamFails
<1>3. ASSUME NEW d \in Down, NEW u \in Up, InitUpstream(d, u) PROVE TypeInv'
  BY <1>3, InitUpstreamType
<1>4. ASSUME NEW u \in Up, Connected(u) PROVE TypeInv'
  BY <1>4, ConnectedType
<1>5. ASSUME NEW u \in Up, ConnectFaults(u) PROVE TypeInv'
  BY <1>5, FaultsType, HandleKinds
<1>6. ASSUME NEW h \in Handle, ReadAgain(h) PROVE TypeInv'
  <2>1. /\ UNCHANGED <<phase, batch, feed, served, streamVars, heapVars, fate,
                       connVars, bufVars, ghostVars>>
        /\ todo # <<>> /\ NextStage(Tail(todo))
    BY <1>6 DEF ReadAgain, InStage
  <2>2. LoopTypeOK'
    BY <2>1, NextStageTypeOK
  <2>3. WriteTypeOK' /\ HeapTypeOK' /\ (hs \in [Handle -> HandleState])'
    BY <2>1 DEF TypeInv, WriteTypeOK, HeapTypeOK, LinkInv, LinkTypeOK, streamVars, heapVars
  <2>4. UvTypeOK'
    BY <2>2, <2>3 DEF UvTypeOK, WriteTypeOK, LoopTypeOK, HeapTypeOK
  <2> QED BY <1>0, <2>1, <2>4, UvOnlyType
<1>7. ASSUME NEW h \in Handle, Callback(h) PROVE TypeInv'
  BY <1>6, <1>7, ReadRelayedType, ReadEndType, AfterWriteType, FaultsType DEF Callback
<1>8. CASE UvNext /\ UNCHANGED <<connVars, bufVars, ghostVars>>
  BY <1>0, <1>8, UvNextType, UvNextFate, UvOnlyType
<1>9. CASE UNCHANGED vars
  <2>1. UvTypeOK' /\ UNCHANGED <<fate, bufVars, ghostVars>>
    BY <1>0, <1>9 DEF vars, uvVars, UvTypeOK
  <2> QED BY <1>0, <2>1, UvOnlyType
<1> QED BY <1>1, <1>2, <1>3, <1>4, <1>5, <1>7, <1>8, <1>9 DEF Next

(* Every variable keeps its type, and no transfer computes a negative       *)
(* length: what is credited never exceeds what was handed over, nor that    *)
(* what is in the buffer (proxy.c:403-409).                                 *)
THEOREM TypesSafe == Spec => [](TypeOK /\ Offsets)
<1>1. TypeInv => TypeOK /\ Offsets
  BY TypeInvType DEF TypeInv
<1> QED BY <1>1, InitTypeInv, NextTypeInv, PTL DEF Spec

-----------------------------------------------------------------------------
(* What writing does to the requests of a stream.                           *)

(* T is a set of requests of streams in S, to which a request still belongs *)
(* when a part of it is written, and when it has failed.                    *)
Closed(T, S) ==
    /\ T \subseteq WriteReq /\ S \subseteq Handle
    /\ \A r \in T :
        /\ r.src \in S /\ Failed(r) \in T
        /\ \A n \in 0 .. r.len - 1 : Part(r, n) \in T

(* All requests of stream x are in T, all bytes it was written from S.      *)
Within(x, T, S) ==
    wq[x] \in Seq(T) /\ wdone[x] \in Seq(T) /\ out[x] \in Seq(S \X Nat)

WithinNext(x, T, S) ==
    wq'[x] \in Seq(T) /\ wdone'[x] \in Seq(T) /\ out'[x] \in Seq(S \X Nat)

Untouched(x) == wq'[x] = wq[x] /\ wdone'[x] = wdone[x] /\ out'[x] = out[x]

LEMMA UntouchedWithin ==
    ASSUME NEW x, NEW T, NEW S, Within(x, T, S), Untouched(x) PROVE WithinNext(x, T, S)
BY DEF Within, WithinNext, Untouched

LEMMA BytesFrom ==
    ASSUME NEW S, NEW req \in WriteReq, req.src \in S, NEW n \in Nat,
           NEW g \in [Handle -> Nat], NEW m \in [Handle -> Seq(Nat)]
    PROVE  Bytes(req, n, g, m) \in Seq(S \X Nat)
<1>1. Bytes(req, n, g, m) \in Seq(Handle \X Nat)
  BY BytesType
<1>2. \A i \in 1 .. n : Bytes(req, n, g, m)[i] \in S \X Nat
  <2> SUFFICES ASSUME NEW i \in 1 .. n PROVE Bytes(req, n, g, m)[i] \in S \X Nat
    OBVIOUS
  <2>1. req.src \in Handle
    BY DEF WriteReq
  <2>2. m[req.src] \in Seq(Nat)
    BY <2>1
  <2>3. req.off + i \in DOMAIN m[req.src] => m[req.src][req.off + i] \in Nat
    BY <2>2
  <2> QED BY <2>3 DEF Bytes
<1>3. Bytes(req, n, g, m) \in [1 .. n -> S \X Nat]
  BY <1>2 DEF Bytes
<1> QED BY <1>3

LEMMA Uv__WriteWithin ==
    ASSUME WriteTypeOK, NEW T, NEW S, Closed(T, S), NEW h \in Handle,
           NEW q \in Seq(T), q # <<>>, NEW done \in Seq(T), out[h] \in Seq(S \X Nat),
           NEW g \in [Handle -> Nat], NEW m \in [Handle -> Seq(Nat)],
           Uv__Write(h, q, done, g, m)
    PROVE  WithinNext(h, T, S) /\ \A x \in Handle : x # h => Untouched(x)
<1>1. Head(q) \in T /\ Tail(q) \in Seq(T)
  OBVIOUS
<1>2. /\ Head(q) \in WriteReq /\ Head(q).src \in S /\ Failed(Head(q)) \in T
      /\ \A n \in 0 .. Head(q).len - 1 : Part(Head(q), n) \in T
  BY <1>1 DEF Closed
<1>3. Head(q).len \in Nat
  BY <1>2, ReqType
<1>4. \A n \in Nat : out[h] \o Bytes(Head(q), n, g, m) \in Seq(S \X Nat)
  <2> SUFFICES ASSUME NEW n \in Nat
               PROVE  out[h] \o Bytes(Head(q), n, g, m) \in Seq(S \X Nat)
    OBVIOUS
  <2>1. Bytes(Head(q), n, g, m) \in Seq(S \X Nat)
    BY <1>2, BytesFrom
  <2> QED BY <2>1
<1>5. /\ wq \in [Handle -> Seq(WriteReq)] /\ wdone \in [Handle -> Seq(WriteReq)]
      /\ out \in [Handle -> Seq(Handle \X Nat)]
  BY DEF WriteTypeOK
<1>6. CASE WroteAll(h, q, done, g, m)
  <2>1. Append(done, Head(q)) \in Seq(T)
    BY <1>1
  <2> QED BY <1>1, <1>3, <1>4, <1>5, <1>6, <2>1 DEF WroteAll, WithinNext, Untouched
<1>7. CASE WrotePart(h, q, done, g, m)
  <2>1. PICK n \in 0 .. Head(q).len - 1 :
          /\ out' = [out EXCEPT ![h] = @ \o Bytes(Head(q), n, g, m)]
          /\ wq' = [wq EXCEPT ![h] = <<Part(Head(q), n)>> \o Tail(q)]
    BY <1>7 DEF WrotePart, Part
  <2>2. n \in Nat /\ Part(Head(q), n) \in T
    BY <1>2, <1>3
  <2>3. <<Part(Head(q), n)>> \o Tail(q) \in Seq(T)
    BY <1>1, <2>2
  <2>4. out[h] \o Bytes(Head(q), n, g, m) \in Seq(S \X Nat)
    BY <1>4, <2>2
  <2>5. wdone' = [wdone EXCEPT ![h] = done]
    BY <1>7 DEF WrotePart
  <2> QED BY <1>5, <2>1, <2>3, <2>4, <2>5 DEF WithinNext, Untouched
<1>8. CASE WriteFailed(h, q, done)
  <2>1. Append(done, Failed(Head(q))) \in Seq(T)
    BY <1>2
  <2>2. /\ wq' = [wq EXCEPT ![h] = Tail(q)] /\ out' = out
        /\ wdone' = [wdone EXCEPT ![h] = Append(done, Failed(Head(q)))]
    BY <1>8 DEF WriteFailed, Failed
  <2> QED BY <1>1, <1>5, <2>1, <2>2 DEF WithinNext, Untouched
<1>9. CASE WriteKills(h, q, done)
  BY <1>5, <1>9 DEF WriteKills, WithinNext, Untouched
<1> QED BY <1>6, <1>7, <1>8, <1>9 DEF Uv__Write

LEMMA UvWriteWithin ==
    ASSUME WriteTypeOK, NEW T, NEW S, Closed(T, S), NEW h \in Handle, NEW req \in T,
           NEW q \in Seq(T), NEW done \in Seq(T), out[h] \in Seq(S \X Nat),
           NEW g \in [Handle -> Nat], NEW m \in [Handle -> Seq(Nat)],
           UvWrite(h, req, q, done, g, m)
    PROVE  WithinNext(h, T, S) /\ \A x \in Handle : x # h => Untouched(x)
<1>1. Append(q, req) \in Seq(T) /\ Append(q, req) # <<>>
  <2>1. Append(q, req) \in Seq(T)
    OBVIOUS
  <2> QED BY <2>1, AppendNotEmpty
<1>2. CASE WriteQueueSize(q, done) = 0
  BY <1>1, <1>2, Uv__WriteWithin DEF UvWrite
<1>3. CASE WriteQueueSize(q, done) # 0
  BY <1>1, <1>3 DEF UvWrite, WriteTypeOK, WithinNext, Untouched
<1> QED BY <1>2, <1>3

(* Every request of a stream is cancelled when it is closed. *)
LEMMA CancelledWithin ==
    ASSUME NEW T, NEW S, Closed(T, S), NEW q \in Seq(T) PROVE Cancelled(q) \in Seq(T)
<1>1. \A i \in 1 .. Len(q) : Failed(q[i]) \in T
  BY DEF Closed
<1>2. Cancelled(q) \in [1 .. Len(q) -> T]
  <2>1. DOMAIN q = 1 .. Len(q)
    OBVIOUS
  <2>2. Cancelled(q) = [i \in DOMAIN q |-> Failed(q[i])]
    BY DEF Cancelled, Failed
  <2> QED BY <1>1, <2>1, <2>2, Zenon
<1> QED BY <1>2

LEMMA UvNextWithin ==
    ASSUME UvTypeOK, NEW T, NEW S, Closed(T, S), NEW x \in Handle, Within(x, T, S), UvNext
    PROVE  WithinNext(x, T, S)
<1>1. WriteTypeOK /\ HeapTypeOK
  BY UvTypeParts
<1>2. CASE RunPending \/ PendingDone \/ PollDone \/ ClosingDone \/ CallbacksDone
  BY <1>2, UntouchedWithin
     DEF RunPending, PendingDone, PollDone, ClosingDone, CallbacksDone, streamVars, Untouched
<1>3. ASSUME NEW h \in Handle, PollEvent(h) PROVE WithinNext(x, T, S)
  BY <1>3, UntouchedWithin DEF PollEvent, streamVars, Untouched
<1>4. ASSUME NEW h \in Handle, FinishClose(h) PROVE WithinNext(x, T, S)
  <2>1. CASE x = h
    <3>1. Cancelled(wq[x]) \in Seq(T) /\ wdone[x] \in Seq(T) /\ <<>> \in Seq(T)
      BY CancelledWithin DEF Within
    <3>2. wdone[x] \o Cancelled(wq[x]) \in Seq(T)
      BY <3>1
    <3> QED BY <1>1, <1>4, <2>1, <3>1, <3>2
           DEF FinishClose, WriteTypeOK, Within, WithinNext
  <2>2. CASE x # h
    BY <1>1, <1>4, <2>2, UntouchedWithin DEF FinishClose, WriteTypeOK, Untouched
  <2> QED BY <2>1, <2>2
<1>5. CASE WriteStage
  <2>1. CASE wq[cur] = <<>>
    BY <1>5, <2>1, UntouchedWithin DEF WriteStage, Untouched
  <2>2. CASE wq[cur] # <<>>
    <3>1. cur \in Handle /\ Uv__Write(cur, wq[cur], wdone[cur], gen, mem)
      BY <1>5, <2>2, UvTypeParts DEF WriteStage, InStage, LoopTypeOK
    <3>2. gen \in [Handle -> Nat] /\ mem \in [Handle -> Seq(Nat)]
      BY <1>1 DEF HeapTypeOK
    <3>3. CASE x = cur
      BY <1>1, <2>2, <3>1, <3>2, <3>3, Uv__WriteWithin DEF Within
    <3>4. CASE x # cur
      <4>1. Closed(WriteReq, Handle)
        BY ReqType DEF Closed, WriteReq, Failed, Part
      <4>2. wq[cur] \in Seq(WriteReq) /\ wdone[cur] \in Seq(WriteReq)
            /\ out[cur] \in Seq(Handle \X Nat)
        BY <1>1, <3>1 DEF WriteTypeOK
      <4> QED BY <1>1, <2>2, <3>1, <3>2, <3>4, <4>1, <4>2, Uv__WriteWithin, UntouchedWithin
    <3> QED BY <3>3, <3>4
  <2> QED BY <2>1, <2>2
<1> QED BY <1>2, <1>3, <1>4, <1>5 DEF UvNext, LoopTurn

-----------------------------------------------------------------------------
(* What a step of the relay does to the requests.                           *)

(* A stream that is written to gets what waits in the buffer of its peer.   *)
LEMMA UnsentType ==
    ASSUME TypeInv', NEW h \in Handle, gen'[h] # 0
    PROVE  Unsent(h) \in WriteReq /\ Unsent(h).src = h /\ Unsent(h).off + Unsent(h).len = size'[h]
<1>1. gen'[h] \in Nat \ {0} /\ pos'[h] \in Nat /\ size'[h] \in Nat /\ pos'[h] <= size'[h]
  BY DEF TypeInv, HeapTypeOK, DataTypeOK, Offsets
<1>2. size'[h] - pos'[h] \in Nat /\ pos'[h] + (size'[h] - pos'[h]) = size'[h]
  BY <1>1
<1> QED BY <1>1, <1>2 DEF Unsent, WriteReq

LEMMA TailSeq == ASSUME NEW T, NEW q \in Seq(T), q # <<>> PROVE Tail(q) \in Seq(T)
OBVIOUS

LEMMA TransferWithin ==
    ASSUME TypeInv, TypeInv', NEW T, NEW S, Closed(T, S), NEW x \in Handle, Within(x, T, S),
           NEW from \in Handle, NEW to \in Handle, NEW done,
           done = wdone[to] \/ (done = Tail(wdone[to]) /\ wdone[to] # <<>>),
           Transfer(from, to, wq[to], done), gen'[from] # 0,
           x = to => Unsent(from) \in T
    PROVE  WithinNext(x, T, S)
<1>1. UvWrite(to, Unsent(from), wq[to], done, gen', mem')
  BY DEF Transfer
<1>2. WriteTypeOK /\ gen' \in [Handle -> Nat] /\ mem' \in [Handle -> Seq(Nat)]
  BY DEF TypeInv, HeapTypeOK
<1>3. CASE x = to
  <2>1. done \in Seq(T)
    BY <1>3, TailSeq DEF Within
  <2> QED BY <1>1, <1>2, <1>3, <2>1, UvWriteWithin DEF Within
<1>4. CASE x # to
  <2>1. Closed(WriteReq, Handle)
    BY ReqType DEF Closed, WriteReq, Failed, Part
  <2>2. wdone[to] \in Seq(WriteReq) /\ wq[to] \in Seq(WriteReq)
        /\ out[to] \in Seq(Handle \X Nat)
    BY DEF TypeInv, WriteTypeOK
  <2>3. done \in Seq(WriteReq)
    BY <2>2, TailSeq
  <2>4. Unsent(from) \in WriteReq
    BY UnsentType
  <2> QED BY <1>1, <1>2, <1>4, <2>1, <2>2, <2>3, <2>4, UvWriteWithin, UntouchedWithin
<1> QED BY <1>3, <1>4

(* A buffer that grows, or cannot, stays one. *)
LEMMA AppendKeepsCapacity ==
    ASSUME NEW h \in Handle, NEW n, NEW caps \in [Handle -> Nat], NEW gens,
           HasBuf(h), RtsBufAppend(h, n, caps, gens)
    PROVE  cap'[h] # 0
<1>1. PICK oom \in {FALSE, MayOom} :
        cap' = [caps EXCEPT ![h] = AppendResult(cap[h], size[h], n, oom).cap]
  BY DEF RtsBufAppend
<1>2. AppendResult(cap[h], size[h], n, oom).cap # 0
  BY DEF AppendResult, MallocCanServe, HasBuf
<1> QED BY <1>1, <1>2

(* The requests of a stream are those it had, parts of them, and one of the *)
(* buffer of the stream it is linked to.                                    *)
LEMMA RequestsStep ==
    ASSUME TypeInv, [Next]_vars, NEW T, NEW S, Closed(T, S), NEW x \in Handle, Within(x, T, S),
           peer[x] # None /\ gen'[peer[x]] # 0 /\ cap'[peer[x]] # 0 => Unsent(peer[x]) \in T
    PROVE  WithinNext(x, T, S)
<1>0. TypeInv' /\ LinkInv /\ LinksConsistent /\ UvTypeOK
  BY NextTypeInv, TypeInvType DEF TypeInv, LinkInv, TypeOK
<1>1. ASSUME NEW d \in Down, Accept(d) \/ InitUpstreamFails(d) PROVE WithinNext(x, T, S)
  BY <1>1, UntouchedWithin DEF Accept, InitUpstreamFails, UvClose, Untouched
<1>2. ASSUME NEW d \in Down, NEW u \in Up, InitUpstream(d, u) PROVE WithinNext(x, T, S)
  BY <1>2, UntouchedWithin DEF InitUpstream, Untouched
<1>3. ASSUME NEW u \in Up, Connected(u) PROVE WithinNext(x, T, S)
  <2>1. /\ u \in Handle /\ peer[u] # None /\ gen' = gen
        /\ \/ Transfer(peer[u], u, wq[u], wdone[u]) /\ cap'[peer[u]] # 0
           \/ UNCHANGED <<wq, wdone, out>>
    BY <1>3, HandleKinds DEF Connected, heapVars, HasBuf
  <2>2. peer[u] \in Handle /\ gen'[peer[u]] # 0
    <3>1. peer[u] \in Handle /\ peer[peer[u]] = u /\ peer[peer[u]] # None
      BY <1>0, <2>1, HandleKinds DEF LinksConsistent
    <3>2. Live(peer[u])
      BY <1>0, <3>1, HandleKinds DEF LinksConsistent
    <3> QED BY <2>1, <3>1, <3>2 DEF Live
  <2>3. CASE Transfer(peer[u], u, wq[u], wdone[u]) /\ cap'[peer[u]] # 0
    <3>1. x = u => Unsent(peer[u]) \in T
      BY <2>1, <2>2, <2>3
    <3> QED BY <1>0, <2>1, <2>2, <2>3, <3>1, TransferWithin
  <2>4. CASE UNCHANGED <<wq, wdone, out>>
    BY <2>4, UntouchedWithin DEF Untouched
  <2> QED BY <2>1, <2>3, <2>4
<1>4. ASSUME NEW u \in Up, ConnectFaults(u) PROVE WithinNext(x, T, S)
  BY <1>4, UntouchedWithin DEF ConnectFaults, Crash, streamVars, Untouched
<1>5. ASSUME NEW h \in Handle, ReadRelayed(h) PROVE WithinNext(x, T, S)
  <2>1. \/ /\ MayTransfer(h)
           /\ Transfer(h, peer[h], wq[peer[h]], wdone[peer[h]])
        \/ UNCHANGED <<wq, wdone, out>>
    BY <1>5 DEF ReadRelayed
  <2>2. gen'[h] # 0 /\ cap'[h] # 0
    <3>1. PICK n \in Arriving(h) : RtsBufAppend(h, n, cap, gen)
      BY <1>5 DEF ReadRelayed
    <3>2. gen[h] # 0 /\ HasBuf(h)
      BY <1>5 DEF ReadRelayed, Live
    <3>3. cap \in [Handle -> Nat] /\ gen \in [Handle -> Nat]
      BY DEF TypeInv, DataTypeOK, HeapTypeOK
    <3> QED BY <3>1, <3>2, <3>3, AppendKeepsBuffers, AppendKeepsCapacity
  <2>3. CASE /\ MayTransfer(h)
             /\ Transfer(h, peer[h], wq[peer[h]], wdone[peer[h]])
    <3>1. peer[h] \in Handle /\ peer[peer[h]] = h
      BY <1>0, <2>3, HandleKinds DEF MayTransfer, LinksConsistent
    <3>2. x = peer[h] => Unsent(h) \in T
      <4> HAVE x = peer[h]
      <4>1. peer[x] = h /\ h # None
        BY <3>1, HandleKinds
      <4> QED BY <2>2, <4>1
    <3> QED BY <1>0, <2>2, <2>3, <3>1, <3>2, TransferWithin
  <2>4. CASE UNCHANGED <<wq, wdone, out>>
    BY <2>4, UntouchedWithin DEF Untouched
  <2> QED BY <2>1, <2>3, <2>4
<1>6. ASSUME NEW h \in Handle, ReadAgain(h) \/ ReadEnd(h) \/ AfterWriteFaults(h) \/ ReadDataFaults(h)
      PROVE  WithinNext(x, T, S)
  <2>1. UNCHANGED <<wq, wdone, out>>
    BY <1>6 DEF ReadAgain, ReadEnd, AfterWriteFaults, ReadDataFaults, UvClose, Crash, streamVars
  <2> QED BY <2>1, UntouchedWithin DEF Untouched
<1>7. ASSUME NEW to \in Handle, AfterWrite(to) PROVE WithinNext(x, T, S)
  <2>1. /\ wdone[to] # <<>> /\ peer[to] # None /\ gen' = gen /\ cap'[peer[to]] # 0
        /\ \/ Transfer(peer[to], to, wq[to], Tail(wdone[to]))
           \/ wdone' = [wdone EXCEPT ![to] = Tail(@)] /\ UNCHANGED <<wq, out>>
    BY <1>7 DEF AfterWrite, AfterWriteFault, HasBuf, heapVars
  <2>2. peer[to] \in Handle /\ gen'[peer[to]] # 0
    <3>1. peer[to] \in Handle /\ peer[peer[to]] = to /\ peer[peer[to]] # None
      BY <1>0, <2>1, HandleKinds DEF LinksConsistent
    <3>2. Live(peer[to])
      BY <1>0, <3>1, HandleKinds DEF LinksConsistent
    <3> QED BY <2>1, <3>1, <3>2 DEF Live
  <2>3. CASE Transfer(peer[to], to, wq[to], Tail(wdone[to]))
    <3>1. x = to => Unsent(peer[to]) \in T
      BY <2>1, <2>2
    <3> QED BY <1>0, <2>1, <2>2, <2>3, <3>1, TransferWithin
  <2>4. CASE wdone' = [wdone EXCEPT ![to] = Tail(@)] /\ UNCHANGED <<wq, out>>
    <3>1. wdone \in [Handle -> Seq(WriteReq)]
      BY DEF TypeInv, WriteTypeOK
    <3>2. wdone'[x] \in {wdone[x], Tail(wdone[x])} /\ (x # to => wdone'[x] = wdone[x])
      BY <2>4, <3>1
    <3>3. wdone'[x] \in Seq(T)
      <4>1. wdone[x] \in Seq(T) /\ (x = to => wdone[x] # <<>>)
        BY <2>1 DEF Within
      <4> QED BY <3>2, <4>1, TailSeq
    <3> QED BY <2>4, <3>3 DEF Within, WithinNext
  <2> QED BY <2>1, <2>3, <2>4
<1>8. CASE UvNext
  BY <1>0, <1>8, UvNextWithin
<1>9. CASE UNCHANGED vars
  BY <1>9, UntouchedWithin DEF vars, uvVars, Untouched
<1> QED BY <1>1, <1>2, <1>3, <1>4, <1>5, <1>6, <1>7, <1>8, <1>9 DEF Next, Callback

-----------------------------------------------------------------------------
(* What a step of the relay does to the streams and their links.            *)

(* A stream goes from unused over open to closed, and never back. *)
HsStep(h) ==
    \/ hs'[h] = hs[h]
    \/ hs[h] = "unused" /\ hs'[h] \in {"connecting", "refused", "stuck", "open"}
    \/ hs[h] = "connecting" /\ hs'[h] = "open"
    \/ hs[h] = "open" /\ hs'[h] = "closing"
    \/ hs[h] = "closing" /\ hs'[h] = "closed"

EndedNext(h) == hs'[h] \in {"closing", "closed"}

(* A link is cut when one of its two streams ends, and made with an         *)
(* upstream nobody has used.                                                *)
PeerStep(h) ==
    \/ peer'[h] = peer[h]
    \/ peer[h] # None /\ peer'[h] = None /\ (EndedNext(h) \/ EndedNext(peer[h]))
    \/ peer[h] = None /\ \E d \in Down, u \in Up :
          /\ hs[u] = "unused" /\ hs'[u] # "unused"
          /\ (h = d /\ peer'[h] = u) \/ (h = u /\ peer'[h] = d)

(* An upstream is linked from the first. *)
NewLinked(h) == h \in Up /\ hs[h] = "unused" /\ hs'[h] # "unused" => peer'[h] # None

StepOf(h) == HsStep(h) /\ PeerStep(h) /\ NewLinked(h)

(* libuv itself only finishes what was closed. *)
UvHs(h) == hs'[h] = hs[h] \/ (hs[h] = "closing" /\ hs'[h] = "closed")

LEMMA UvHsStep ==
    ASSUME LinkTypeOK, UvNext, NEW h \in Handle PROVE UvHs(h)
<1>1. ASSUME NEW x \in Handle, FinishClose(x) PROVE UvHs(h)
  <2>1. hs' = [hs EXCEPT ![x] = "closed"] /\ hs[x] = "closing" /\ hs \in [Handle -> HandleState]
    BY <1>1 DEF FinishClose, LinkTypeOK
  <2> QED BY <2>1 DEF UvHs
<1>2. CASE RunPending \/ PendingDone \/ PollDone \/ ClosingDone \/ CallbacksDone \/ WriteStage
  BY <1>2 DEF RunPending, PendingDone, PollDone, ClosingDone, CallbacksDone, WriteStage,
              streamVars, UvHs
<1>3. ASSUME NEW x \in Handle, PollEvent(x) PROVE UvHs(h)
  BY <1>3 DEF PollEvent, streamVars, UvHs
<1> QED BY <1>1, <1>2, <1>3 DEF UvNext, LoopTurn

LEMMA CloseStates ==
    ASSUME LinkInv, NEW x \in Handle, hs[x] = "open", Cleanup(x), UvClose(x), NEW h \in Handle
    PROVE  StepOf(h)
<1>1. /\ hs' = [hs EXCEPT ![x] = "closing"] /\ hs \in [Handle -> HandleState]
      /\ peer' = [y \in Handle |-> IF y \in {x, peer[x]} THEN None ELSE peer[y]]
  BY DEF UvClose, Cleanup, Unlink, LinkInv, LinkTypeOK
<1>2. HsStep(h)
  BY <1>1 DEF HsStep
<1>3. hs'[x] = "closing" /\ (peer'[h] = IF h = x \/ h = peer[x] THEN None ELSE peer[h])
  BY <1>1
<1>4. h = peer[x] => peer[h] = x /\ x # None
  BY HandleKinds DEF LinkInv, LinksConsistent
<1>5. PeerStep(h)
  <2>1. CASE h # x /\ h # peer[x]
    BY <1>3, <2>1 DEF PeerStep
  <2>2. CASE h = x
    BY <1>3, <2>2 DEF PeerStep, EndedNext
  <2>3. CASE h = peer[x]
    BY <1>3, <1>4, <2>3 DEF PeerStep, EndedNext
  <2> QED BY <2>1, <2>2, <2>3
<1>6. NewLinked(h)
  BY <1>1 DEF NewLinked
<1> QED BY <1>2, <1>5, <1>6 DEF StepOf

LEMMA StatesStep ==
    ASSUME LinkInv, [Next]_vars, NEW h \in Handle PROVE StepOf(h)
<1>0. LinkTypeOK /\ hs \in [Handle -> HandleState]
  BY DEF LinkInv, LinkTypeOK
<1>1. ASSUME NEW d \in Down, Accept(d) PROVE StepOf(h)
  <2>1. hs' = [hs EXCEPT ![d] = "open"] /\ hs[d] = "unused" /\ peer' = peer /\ d \notin Up
    BY <1>1, HandleKinds DEF Accept, connVars
  <2>2. HsStep(h) /\ NewLinked(h)
    BY <1>0, <2>1 DEF HsStep, NewLinked
  <2> QED BY <2>1, <2>2 DEF PeerStep, StepOf
<1>2. ASSUME NEW d \in Down, InitUpstreamFails(d) PROVE StepOf(h)
  <2>1. d \in Handle /\ hs[d] = "open" /\ Cleanup(d) /\ UvClose(d)
    BY <1>2, ReadStageOpen, HandleKinds DEF InitUpstreamFails
  <2> QED BY <2>1, CloseStates
<1>3. ASSUME NEW d \in Down, NEW u \in Up, InitUpstream(d, u)
      PROVE  StepOf(h)
  <2>1. /\ d \in Handle /\ u \in Handle /\ peer[d] = None /\ hs[u] = "unused"
        /\ peer' = [peer EXCEPT ![d] = u, ![u] = d]
    BY <1>3, HandleKinds DEF InitUpstream, Link, NewUpstream
  <2>2. PICK s \in {"connecting", "refused", "stuck"} : hs' = [hs EXCEPT ![u] = s]
    BY <1>3 DEF InitUpstream
  <2>3. HsStep(h)
    BY <1>0, <2>1, <2>2 DEF HsStep
  <2>4. hs'[u] # "unused"
    BY <1>0, <2>1, <2>2
  <2>5. peer[u] = None /\ peer \in [Handle -> Handle \cup {None}] /\ d # u
    BY <1>0, <2>1, HandleKinds DEF LinkInv, LinksConsistent, LiveWhileOpen, LinkTypeOK
  <2>6. PeerStep(h)
    <3>1. CASE h = d
      BY <2>1, <2>4, <2>5, <3>1 DEF PeerStep
    <3>2. CASE h = u
      BY <2>1, <2>4, <2>5, <3>2 DEF PeerStep
    <3>3. CASE h # d /\ h # u
      BY <2>1, <2>5, <3>3 DEF PeerStep
    <3> QED BY <3>1, <3>2, <3>3
  <2>7. NewLinked(h)
    <3>1. CASE h = u
      BY <2>1, <2>5, <3>1, HandleKinds DEF NewLinked
    <3>2. CASE h # u
      BY <1>0, <2>2, <3>2 DEF NewLinked
    <3> QED BY <3>1, <3>2
  <2> QED BY <2>3, <2>6, <2>7 DEF StepOf
<1>4. ASSUME NEW u \in Up, Connected(u) PROVE StepOf(h)
  <2>1. hs[u] = "connecting" /\ hs' = [hs EXCEPT ![u] = "open"] /\ peer' = peer
    BY <1>4 DEF Connected
  <2> QED BY <1>0, <2>1 DEF HsStep, PeerStep, NewLinked, StepOf
<1>5. ASSUME NEW x \in Handle, ReadEnd(x) PROVE StepOf(h)
  <2>1. CASE ReadFault(x) = "none"
    <3>1. hs[x] = "open" /\ Cleanup(x) /\ UvClose(x)
      BY <1>5, <2>1, ReadStageOpen DEF ReadEnd
    <3> QED BY <3>1, CloseStates
  <2>2. CASE ReadFault(x) # "none"
    BY <1>5, <2>2 DEF ReadEnd, Crash, streamVars, connVars, HsStep, PeerStep,
           NewLinked, StepOf
  <2> QED BY <2>1, <2>2
<1>6. ASSUME NEW x \in Handle,
             ConnectFaults(x) \/ ReadRelayed(x) \/ ReadAgain(x) \/ AfterWrite(x)
               \/ AfterWriteFaults(x) \/ ReadDataFaults(x)
      PROVE  StepOf(h)
  <2>1. UNCHANGED <<hs, peer>>
    BY <1>6 DEF ConnectFaults, ReadRelayed, ReadAgain, AfterWrite, AfterWriteFaults,
                ReadDataFaults, Crash, streamVars, connVars
  <2> QED BY <2>1 DEF HsStep, PeerStep, NewLinked, StepOf
<1>7. CASE UvNext /\ UNCHANGED <<connVars, bufVars, ghostVars>>
  BY <1>0, <1>7, UvHsStep DEF connVars, UvHs, HsStep, PeerStep, NewLinked, StepOf
<1>8. CASE UNCHANGED vars
  BY <1>8 DEF vars, uvVars, connVars, HsStep, PeerStep, NewLinked, StepOf
<1> QED BY <1>1, <1>2, <1>3, <1>4, <1>5, <1>6, <1>7, <1>8, HandleKinds DEF Next, Callback

(* An upstream is made for a client once, and linked to it from the first.  *)
ClientStep(u) ==
    \/ client'[u] = client[u] /\ (hs[u] = "unused" => hs'[u] = "unused")
    \/ hs[u] = "unused" /\ client'[u] \in Down /\ peer'[u] = client'[u]

LEMMA NextClientStep ==
    ASSUME TypeInv, [Next]_vars, NEW u \in Up PROVE ClientStep(u)
<1>0. /\ LinkInv /\ LinkTypeOK /\ hs \in [Handle -> HandleState] /\ u \in Handle
      /\ client \in [Up -> Down \cup {None}] /\ peer \in [Handle -> Handle \cup {None}]
  BY HandleKinds DEF TypeInv, LinkInv, LinkTypeOK, GhostTypeOK
<1>1. CASE client' = client /\ (hs'[u] = hs[u] \/ hs[u] # "unused")
  BY <1>1 DEF ClientStep
<1>2. ASSUME NEW d \in Down, Accept(d) PROVE ClientStep(u)
  BY <1>0, <1>1, <1>2, HandleKinds DEF Accept, ghostVars
<1>3. ASSUME NEW x \in Handle, UvClose(x), hs[x] = "open", client' = client
      PROVE  ClientStep(u)
  BY <1>0, <1>1, <1>3 DEF UvClose
<1>4. ASSUME NEW d \in Down, InitUpstreamFails(d) PROVE ClientStep(u)
  BY <1>0, <1>3, <1>4, ReadStageOpen, HandleKinds DEF InitUpstreamFails, ghostVars
<1>5. ASSUME NEW d \in Down, NEW v \in Up, InitUpstream(d, v) PROVE ClientStep(u)
  <2>1. /\ client' = [client EXCEPT ![v] = d] /\ hs[v] = "unused" /\ d # v
        /\ peer' = [peer EXCEPT ![d] = v, ![v] = d]
    BY <1>5, HandleKinds DEF InitUpstream, NewUpstream, Link
  <2>2. PICK s \in {"connecting", "refused", "stuck"} : hs' = [hs EXCEPT ![v] = s]
    BY <1>5 DEF InitUpstream
  <2>3. CASE u = v
    BY <1>0, <2>1, <2>3 DEF ClientStep
  <2>4. CASE u # v
    BY <1>0, <2>1, <2>2, <2>4 DEF ClientStep
  <2> QED BY <2>3, <2>4
<1>6. ASSUME NEW v \in Up, Connected(v) PROVE ClientStep(u)
  BY <1>0, <1>1, <1>6 DEF Connected, ghostVars
<1>7. ASSUME NEW x \in Handle, ReadEnd(x) PROVE ClientStep(u)
  <2>1. hs[x] = "open" /\ client' = client
    BY <1>0, <1>7, ReadStageOpen DEF ReadEnd, ghostVars
  <2> QED BY <1>1, <1>3, <1>7, <2>1 DEF ReadEnd, Crash, streamVars
<1>8. ASSUME NEW x \in Handle,
             ConnectFaults(x) \/ ReadRelayed(x) \/ ReadAgain(x) \/ AfterWrite(x)
               \/ AfterWriteFaults(x) \/ ReadDataFaults(x)
      PROVE  ClientStep(u)
  <2>1. UNCHANGED <<hs, client>>
    BY <1>8 DEF ConnectFaults, ReadRelayed, ReadAgain, AfterWrite, AfterWriteFaults,
                ReadDataFaults, Crash, streamVars, ghostVars
  <2> QED BY <1>1, <2>1
<1>9. CASE UvNext /\ UNCHANGED <<connVars, bufVars, ghostVars>>
  <2>1. UvHs(u)
    BY <1>0, <1>9, UvHsStep
  <2> QED BY <1>1, <1>9, <2>1 DEF UvHs, ghostVars
<1>10. CASE UNCHANGED vars
  BY <1>1, <1>10 DEF vars, uvVars, ghostVars
<1> QED BY <1>2, <1>4, <1>5, <1>6, <1>7, <1>8, <1>9, <1>10, HandleKinds DEF Next, Callback

-----------------------------------------------------------------------------
(* Clients are kept apart.                                                  *)

(* The streams that what was or will be written to x came from. *)
Src(x) ==
    {wq[x][i].src : i \in DOMAIN wq[x]} \cup {wdone[x][i].src : i \in DOMAIN wdone[x]}
      \cup {out[x][i][1] : i \in DOMAIN out[x]}

ReqOf(S) == {r \in WriteReq : r.src \in S}

LEMMA ReqOfClosed == ASSUME NEW S, S \subseteq Handle PROVE Closed(ReqOf(S), S)
<1>1. ASSUME NEW r \in WriteReq
      PROVE  /\ Failed(r) \in WriteReq /\ Failed(r).src = r.src
             /\ \A n \in 0 .. r.len - 1 : Part(r, n) \in WriteReq /\ Part(r, n).src = r.src
  <2>1. Failed(r) \in WriteReq /\ \A n \in 0 .. r.len - 1 : Part(r, n) \in WriteReq
    BY ReqType DEF Failed, Part
  <2>2. Failed(r).src = r.src /\ \A n \in 0 .. r.len - 1 : Part(r, n).src = r.src
    BY DEF WriteReq, Failed, Part
  <2> QED BY <2>1, <2>2
<1> QED BY <1>1 DEF Closed, ReqOf

LEMMA SeqSubset ==
    ASSUME NEW A, NEW B, NEW q \in Seq(A), \A i \in DOMAIN q : q[i] \in B PROVE q \in Seq(B)
<1>1. q \in [1 .. Len(q) -> B] /\ Len(q) \in Nat
  OBVIOUS
<1> QED BY <1>1

LEMMA SrcWithin ==
    ASSUME WriteTypeOK, NEW x \in Handle, NEW S, Src(x) \subseteq S
    PROVE  Within(x, ReqOf(S), S)
<1>1. wq[x] \in Seq(WriteReq) /\ wdone[x] \in Seq(WriteReq) /\ out[x] \in Seq(Handle \X Nat)
  BY DEF WriteTypeOK
<1>2. /\ \A i \in DOMAIN wq[x] : wq[x][i] \in WriteReq /\ wq[x][i].src \in S
      /\ \A i \in DOMAIN wdone[x] : wdone[x][i] \in WriteReq /\ wdone[x][i].src \in S
      /\ \A i \in DOMAIN out[x] : out[x][i] \in Handle \X Nat /\ out[x][i][1] \in S
  <2>1. /\ \A i \in DOMAIN wq[x] : wq[x][i].src \in S
        /\ \A i \in DOMAIN wdone[x] : wdone[x][i].src \in S
        /\ \A i \in DOMAIN out[x] : out[x][i][1] \in S
    BY DEF Src
  <2>2. /\ \A i \in DOMAIN wq[x] : wq[x][i] \in WriteReq
        /\ \A i \in DOMAIN wdone[x] : wdone[x][i] \in WriteReq
        /\ \A i \in DOMAIN out[x] : out[x][i] \in Handle \X Nat
    BY <1>1
  <2> QED BY <2>1, <2>2
<1>3. /\ \A i \in DOMAIN wq[x] : wq[x][i] \in ReqOf(S)
      /\ \A i \in DOMAIN wdone[x] : wdone[x][i] \in ReqOf(S)
      /\ \A i \in DOMAIN out[x] : out[x][i] \in S \X Nat
  BY <1>2 DEF ReqOf
<1> QED BY <1>1, <1>3, SeqSubset DEF Within

LEMMA WithinSrc ==
    ASSUME NEW x, NEW S, WithinNext(x, ReqOf(S), S) PROVE Src(x)' \subseteq S
<1>1. /\ \A i \in DOMAIN wq'[x] : wq'[x][i] \in ReqOf(S)
      /\ \A i \in DOMAIN wdone'[x] : wdone'[x][i] \in ReqOf(S)
      /\ \A i \in DOMAIN out'[x] : out'[x][i] \in S \X Nat
  BY DEF WithinNext
<1>2. /\ \A i \in DOMAIN wq'[x] : wq'[x][i].src \in S
      /\ \A i \in DOMAIN wdone'[x] : wdone'[x][i].src \in S
      /\ \A i \in DOMAIN out'[x] : out'[x][i][1] \in S
  BY <1>1 DEF ReqOf
<1> QED BY <1>2 DEF Src

LEMMA SrcStep ==
    ASSUME TypeInv, [Next]_vars, NEW x \in Handle
    PROVE  Src(x)' \subseteq Src(x) \cup {h \in Handle : peer[x] = h}
<1> DEFINE S == (Src(x) \cup {h \in Handle : peer[x] = h}) \cap Handle
<1>0. WriteTypeOK /\ TypeInv' /\ S \subseteq Handle
      /\ S \subseteq Src(x) \cup {h \in Handle : peer[x] = h}
  BY NextTypeInv DEF TypeInv
<1>1. Src(x) \subseteq Handle
  <2>1. wq[x] \in Seq(WriteReq) /\ wdone[x] \in Seq(WriteReq) /\ out[x] \in Seq(Handle \X Nat)
    BY <1>0 DEF WriteTypeOK
  <2>2. /\ \A i \in DOMAIN wq[x] : wq[x][i] \in WriteReq
        /\ \A i \in DOMAIN wdone[x] : wdone[x][i] \in WriteReq
        /\ \A i \in DOMAIN out[x] : out[x][i] \in Handle \X Nat
    BY <2>1
  <2>3. \A r \in WriteReq : r.src \in Handle
    BY DEF WriteReq
  <2> QED BY <2>2, <2>3 DEF Src
<1>2. peer[x] # None => peer[x] \in S
  BY DEF TypeInv, LinkInv, LinkTypeOK
<1>3. Src(x) \subseteq S
  BY <1>1
<1> HIDE DEF S
<1>4. Within(x, ReqOf(S), S) /\ Closed(ReqOf(S), S)
  BY <1>0, <1>3, SrcWithin, ReqOfClosed
<1>5. ASSUME peer[x] # None, gen'[peer[x]] # 0 PROVE Unsent(peer[x]) \in ReqOf(S)
  <2>1. peer[x] \in Handle /\ peer[x] \in S
    BY <1>0, <1>2, <1>5
  <2>2. Unsent(peer[x]) \in WriteReq /\ Unsent(peer[x]).src = peer[x]
    BY <1>0, <1>5, <2>1, UnsentType
  <2> QED BY <2>1, <2>2 DEF ReqOf
<1>6. WithinNext(x, ReqOf(S), S)
  BY <1>4, <1>5, RequestsStep
<1> QED BY <1>0, <1>6, WithinSrc

(* The two were linked, or bytes went from one to the other. *)
Touched(d, u) == peer[d] = u \/ d \in Src(u) \/ u \in Src(d)

ApartInv ==
    /\ \A x \in Handle : Src(x) \subseteq Opposite(x)
    /\ \A d \in Down, u \in Up : Touched(d, u) => hs[u] # "unused" /\ client[u] = d

LEMMA InitApartInv == Init => ApartInv
<1> SUFFICES ASSUME Init PROVE ApartInv
  OBVIOUS
<1>1. \A x \in Handle : Src(x) = {} /\ peer[x] = None
  BY DEF Init, UvInit, Src
<1> QED BY <1>1, HandleKinds DEF ApartInv, Touched

LEMMA TouchedStep ==
    ASSUME TypeInv, [Next]_vars, NEW d \in Down, NEW u \in Up, Touched(d, u)'
    PROVE  \/ Touched(d, u)
           \/ hs[u] = "unused" /\ hs'[u] # "unused" /\ peer'[d] = u
<1>0. d \in Handle /\ u \in Handle /\ d \notin Up /\ u \notin Down /\ LinkInv /\ LinksConsistent
  BY HandleKinds DEF TypeInv, LinkInv
<1>1. CASE peer'[d] = u
  <2>1. PeerStep(d)
    BY <1>0, StatesStep DEF StepOf
  <2>2. u # None
    BY <1>0, HandleKinds
  <2> QED BY <1>0, <1>1, <2>1, <2>2 DEF PeerStep, Touched
<1>2. CASE d \in Src(u)'
  <2>1. d \in Src(u) \/ peer[u] = d
    BY <1>0, <1>2, SrcStep
  <2>2. peer[u] = d => peer[d] = u
    BY <1>0, HandleKinds DEF LinksConsistent
  <2> QED BY <2>1, <2>2 DEF Touched
<1>3. CASE u \in Src(d)'
  <2>1. u \in Src(d) \/ peer[d] = u
    BY <1>0, <1>3, SrcStep
  <2> QED BY <2>1 DEF Touched
<1> QED BY <1>1, <1>2, <1>3 DEF Touched

LEMMA NextApartInv == TypeInv /\ ApartInv /\ [Next]_vars => ApartInv'
<1> SUFFICES ASSUME TypeInv, ApartInv, [Next]_vars PROVE ApartInv'
  OBVIOUS
<1>0. LinkInv /\ LinksConsistent /\ LinksConsistent'
  BY NextTypeInv DEF TypeInv, LinkInv
<1>1. ASSUME NEW x \in Handle PROVE Src(x)' \subseteq Opposite(x)
  <2>1. Src(x)' \subseteq Src(x) \cup {h \in Handle : peer[x] = h}
    BY SrcStep
  <2>2. ASSUME NEW h \in Handle, peer[x] = h PROVE h \in Opposite(x)
    BY <1>0, <2>2, HandleKinds DEF LinksConsistent
  <2> QED BY <2>1, <2>2 DEF ApartInv
<1>2. ASSUME NEW d \in Down, NEW u \in Up, Touched(d, u)'
      PROVE  hs'[u] # "unused" /\ client'[u] = d
  <2>1. HsStep(u) /\ ClientStep(u)
    BY <1>0, StatesStep, NextClientStep, HandleKinds DEF StepOf
  <2>2. CASE Touched(d, u)
    <3>1. hs[u] # "unused" /\ client[u] = d
      BY <2>2 DEF ApartInv
    <3> QED BY <2>1, <3>1 DEF HsStep, ClientStep
  <2>3. CASE hs[u] = "unused" /\ hs'[u] # "unused" /\ peer'[d] = u
    <3>1. peer'[u] = d
      BY <1>0, <2>3, HandleKinds DEF LinksConsistent
    <3> QED BY <2>1, <2>3, <3>1 DEF ClientStep
  <2> QED BY <1>2, <2>2, <2>3, TouchedStep
<1> QED BY <1>1, <1>2 DEF ApartInv, Opposite

(* No stream ever gets bytes of two clients out of buffers that are still   *)
(* there, whatever was closed, cancelled or written late: an upstream is    *)
(* used for one client, and each side writes only what it read from the     *)
(* other (proxy.c:196, 326-333).  What is written out of a buffer that was  *)
(* freed or moved is not among these bytes: it may be anybody's.            *)
THEOREM ClientsApart == Spec => []ClientsKeptApart
<1>1. ASSUME ApartInv, TypeInv PROVE ClientsKeptApart
  <2> DEFINE sources(to) == {Source(b) : b \in Range(out[to])} \ {None}
  <2>1. ASSUME NEW to \in Handle PROVE sources(to) \subseteq Src(to) /\ Src(to) \subseteq Opposite(to)
    <3>1. {b[1] : b \in Range(out[to])} \subseteq Src(to)
      BY DEF Src, Range
    <3>2. sources(to) \subseteq {b[1] : b \in Range(out[to])}
      BY DEF Source
    <3> HIDE DEF sources
    <3> QED BY <1>1, <3>1, <3>2 DEF ApartInv
  <2>2. ASSUME NEW u \in Up PROVE Cardinality(sources(u)) <= 1
    <3>1. sources(u) \subseteq Src(u) /\ Src(u) \subseteq Down
      BY <2>1, HandleKinds DEF Opposite
    <3>2. \A d \in sources(u), e \in sources(u) : d = e
      BY <1>1, <3>1 DEF ApartInv, Touched
    <3>3. sources(u) = {} \/ \E d : sources(u) = {d}
      BY <3>2
    <3> HIDE DEF sources
    <3> QED BY <3>3, FS_EmptySet, FS_Singleton
  <2>3. ASSUME NEW d \in Down, NEW e \in Down, d # e PROVE sources(d) \cap sources(e) = {}
    <3>1. /\ sources(d) \subseteq Src(d) /\ Src(d) \subseteq Up
          /\ sources(e) \subseteq Src(e)
      BY <2>1, HandleKinds DEF Opposite
    <3> HIDE DEF sources
    <3>2. \A u \in Up : u \in Src(d) /\ u \in Src(e) => d = e
      BY <1>1 DEF ApartInv, Touched
    <3> QED BY <2>3, <3>1, <3>2
  <2> QED BY <2>2, <2>3 DEF ClientsKeptApart
<1>2. Init => TypeInv /\ ApartInv
  BY InitTypeInv, InitApartInv
<1>3. TypeInv /\ ApartInv /\ [Next]_vars => TypeInv' /\ ApartInv'
  BY NextTypeInv, NextApartInv
<1> QED BY <1>1, <1>2, <1>3, PTL DEF Spec

-----------------------------------------------------------------------------
(* Queued writes lie in their buffers.                                      *)

(* A buffer holds its bytes and a NUL; a stream without data has none.      *)
BufOK(h) ==
    IF HasBuf(h)
    THEN Live(h) /\ cap[h] \in 1 .. IntMax /\ Len(mem[h]) < cap[h] /\ size[h] <= Len(mem[h])
    ELSE mem[h] = <<>> /\ size[h] = 0

(* The requests of a stream that has or had data, and that lie in the        *)
(* memory of its buffer as it is now.                                       *)
InBuf ==
    {r \in WriteReq :
        /\ Live(r.src) \/ Ended(r.src)
        /\ Live(r.src) => HasBuf(r.src) /\ r.off + r.len <= Len(mem[r.src])}

BoundsInv ==
    /\ \A h \in Handle : BufOK(h)
    /\ \A x \in Handle : Within(x, InBuf, Handle)

LEMMA InitBoundsInv == Init => BoundsInv
BY DEF Init, UvInit, BoundsInv, BufOK, HasBuf, Within

LEMMA AppendInBounds ==
    ASSUME TypeInv, NEW h \in Handle, NEW n \in Arriving(h), HasBuf(h), BufOK(h),
           NEW caps \in [Handle -> Nat], NEW gens \in [Handle -> Nat], gens[h] # 0,
           RtsBufAppend(h, n, caps, gens)
    PROVE  /\ BufOK(h)' /\ Len(mem'[h]) >= Len(mem[h])
           /\ \A x \in Handle : x # h =>
                mem'[x] = mem[x] /\ cap'[x] = caps[x] /\ size'[x] = size[x]
                  /\ gen'[x] = gens[x]
<1> DEFINE new == [i \in 1 .. n |-> rd[h] + i]
<1>1. PICK oom \in {FALSE, MayOom} :
        LET r == AppendResult(cap[h], size[h], n, oom)
        IN  /\ cap' = [caps EXCEPT ![h] = r.cap] /\ size' = [size EXCEPT ![h] = r.size]
            /\ gen' = [gens EXCEPT ![h] = IF r.cap # cap[h] THEN @ + 1 ELSE @]
            /\ mem' = [mem EXCEPT ![h] =
                         IF r.ret = 0 THEN Overwrite(@, size[h], new) ELSE @]
  BY DEF RtsBufAppend
<1> DEFINE r == AppendResult(cap[h], size[h], n, oom)
<1>2. /\ n \in Nat /\ n <= IntMax /\ IntMax \in Nat /\ oom \in BOOLEAN
  <2>1. n \in Nat /\ n <= ReadMax /\ ReadMax \in Nat
    BY ArrivingType, NoneAssumption
  <2>2. ReadMax <= IntMax /\ IntMax \in Nat
    BY ProxyAssumption, IntMaxAssumption
  <2>3. oom \in BOOLEAN
    BY ProxyAssumption
  <2> QED BY <2>1, <2>2, <2>3
<1>3. /\ mem[h] \in Seq(Nat) /\ Len(mem[h]) \in Nat /\ rd[h] \in Nat
      /\ cap[h] \in 1 .. IntMax /\ size[h] \in 0 .. cap[h] - 1 /\ size[h] <= Len(mem[h])
      /\ Len(mem[h]) < cap[h]
  <2>1. mem[h] \in Seq(Nat) /\ rd[h] \in Nat /\ size[h] \in Nat
    BY DEF TypeInv, HeapTypeOK, GhostTypeOK, DataTypeOK
  <2>2. cap[h] \in 1 .. IntMax /\ size[h] <= Len(mem[h]) /\ Len(mem[h]) < cap[h]
    BY DEF BufOK
  <2>3. Len(mem[h]) \in Nat
    BY <2>1
  <2> QED BY <1>2, <2>1, <2>2, <2>3
<1>4. \/ /\ r.ret = 0 /\ r.size = size[h] + n
         /\ r.cap \in cap[h] .. IntMax /\ r.size < r.cap
      \/ r.ret = -3 /\ r.size = size[h] /\ r.cap = cap[h]
  BY <1>2, <1>3, AppendResultCases
<1>5. new \in Seq(Nat) /\ Len(new) = n
  <2>1. new \in [1 .. n -> Nat]
    BY <1>2, <1>3
  <2> QED BY <1>2, <2>1
<1> HIDE DEF new
<1> DEFINE s == Overwrite(mem[h], size[h], new)
<1>6. /\ s \in Seq(Nat) /\ Len(s) >= Len(mem[h]) /\ Len(s) >= size[h] + n
      /\ Len(s) \in {Len(mem[h]), size[h] + n}
  <2>1. mem[h] \in Seq(Nat) /\ size[h] \in Nat
    BY <1>3
  <2> QED BY <1>5, <2>1, OverwriteType
<1> HIDE DEF s
<1> HIDE DEF r
<1>7. /\ cap'[h] = r.cap /\ size'[h] = r.size
      /\ mem'[h] = IF r.ret = 0 THEN s ELSE mem[h]
      /\ \A x \in Handle : x # h =>
           mem'[x] = mem[x] /\ cap'[x] = caps[x] /\ size'[x] = size[x] /\ gen'[x] = gens[x]
  BY <1>1 DEF r, s, TypeInv, HeapTypeOK, DataTypeOK
<1>8. Live(h)'
  BY <1>1, AppendKeepsBuffers DEF Live
<1>11. r.cap \in 1 .. IntMax
  BY <1>2, <1>3, <1>4
<1>9. CASE r.ret = 0
  <2>1. mem'[h] = s
    BY <1>7, <1>9
  <2>2. /\ r.size = size[h] + n /\ r.cap \in cap[h] .. IntMax /\ r.size < r.cap
    BY <1>4, <1>9
  <2>3. /\ Len(mem'[h]) >= Len(mem[h]) /\ Len(mem'[h]) >= r.size
        /\ Len(mem'[h]) < r.cap /\ r.cap \in 1 .. IntMax
    <3> DEFINE a == Len(mem[h])
               b == size[h] + n
               c == cap[h]
    <3>1. /\ a \in Nat /\ b \in Nat /\ c \in 1 .. IntMax /\ IntMax \in Nat /\ a < c
          /\ r.size = b /\ r.cap \in c .. IntMax /\ b < r.cap
      BY <1>2, <1>3, <2>2
    <3>2. Len(mem'[h]) \in {a, b} /\ Len(mem'[h]) >= a /\ Len(mem'[h]) >= b
      BY <1>6, <2>1
    <3> HIDE DEF a, b, c
    <3>3. a < r.cap /\ r.cap \in 1 .. IntMax
      BY <3>1
    <3>4. Len(mem'[h]) >= a /\ Len(mem'[h]) >= r.size /\ Len(mem'[h]) < r.cap
      BY <3>1, <3>2, <3>3
    <3> QED BY <3>3, <3>4 DEF a
  <2> QED BY <1>7, <1>8, <2>3 DEF BufOK, HasBuf
<1>10. CASE r.ret # 0
  <2>1. mem'[h] = mem[h] /\ r.size = size[h] /\ r.cap = cap[h]
    BY <1>4, <1>7, <1>10
  <2> QED BY <1>3, <1>7, <1>8, <2>1 DEF BufOK, HasBuf
<1> QED BY <1>9, <1>10

(* A step keeps the buffers in bounds, and no buffer goes or loses memory   *)
(* as long as its stream has data.                                          *)
BufStep(h) ==
    /\ BufOK(h)'
    /\ hs[h] # "unused" /\ gen'[h] # 0 =>
        Live(h) /\ (HasBuf(h) => cap'[h] # 0) /\ Len(mem'[h]) >= Len(mem[h])

LEMMA BufSame ==
    ASSUME TypeInv, NEW h \in Handle, BufOK(h), UNCHANGED <<mem, cap, gen>>,
           size'[h] \in {0, size[h]}
    PROVE  BufStep(h)
BY DEF BufOK, BufStep, HasBuf, Live, TypeInv, HeapTypeOK, DataTypeOK

LEMMA NextBuf ==
    ASSUME TypeInv, \A x \in Handle : BufOK(x), [Next]_vars, NEW h \in Handle PROVE BufStep(h)
<1>0. /\ LinkInv /\ LiveWhileOpen /\ HeapTypeOK /\ DataTypeOK /\ LinkTypeOK /\ BufOK(h)
      /\ BufCap \in 1 .. IntMax /\ Len(<<>>) = 0
  BY ProxyAssumption DEF TypeInv, LinkInv
<1>6. CASE UNCHANGED <<mem, cap, gen, size>>
  BY <1>0, <1>6, BufSame
<1>1. ASSUME NEW d \in Down, Accept(d) PROVE BufStep(h)
  <2>1. mem' = mem /\ size' = size /\ hs[d] = "unused" /\ d \in Handle
    BY <1>1, HandleKinds DEF Accept
  <2>2. CASE InitCallbackDataFails
    BY <1>6, <2>1, <2>2 DEF InitCallbackDataFails
  <2>3. CASE InitCallbackData(d)
    <3>1. PICK c \in NewCapacity : cap' = [cap EXCEPT ![d] = c]
      BY <2>3 DEF InitCallbackData
    <3>2. gen' = [gen EXCEPT ![d] = 1] /\ c \in {0, BufCap}
      BY <2>3 DEF InitCallbackData, NewCapacity
    <3>3. CASE h = d
      <4>1. mem[d] = <<>> /\ size[d] = 0
        BY <1>0, <2>1, <3>3 DEF LiveWhileOpen, BufOK
      <4> QED BY <1>0, <2>1, <3>1, <3>2, <3>3, <4>1 DEF BufOK, BufStep, HasBuf, Live, HeapTypeOK, DataTypeOK
    <3>4. CASE h # d
      BY <1>0, <2>1, <3>1, <3>2, <3>4 DEF BufOK, BufStep, HasBuf, Live, HeapTypeOK, DataTypeOK
    <3> QED BY <3>3, <3>4
  <2> QED BY <1>1, <2>2, <2>3 DEF Accept
<1>2. ASSUME NEW x \in Handle, Cleanup(x) PROVE BufStep(h)
  <2>1. /\ gen' = [gen EXCEPT ![x] = 0] /\ mem' = [mem EXCEPT ![x] = <<>>]
        /\ cap' = [cap EXCEPT ![x] = 0] /\ size' = [size EXCEPT ![x] = 0]
    BY <1>2 DEF Cleanup
  <2>2. CASE h = x
    BY <1>0, <2>1, <2>2 DEF BufOK, BufStep, HasBuf, Live, HeapTypeOK, DataTypeOK
  <2>3. CASE h # x
    BY <1>0, <2>1, <2>3 DEF BufOK, BufStep, HasBuf, Live, HeapTypeOK, DataTypeOK
  <2> QED BY <2>2, <2>3
<1>3. ASSUME NEW d \in Down, NEW u \in Up, InitUpstream(d, u) PROVE BufStep(h)
  <2>1. PICK n \in Arriving(d), c \in NewCapacity :
          RtsBufAppend(d, n, [cap EXCEPT ![u] = c], [gen EXCEPT ![u] = 1])
    BY <1>3 DEF InitUpstream
  <2>2. /\ d \in Handle /\ u \in Handle /\ d # u /\ hs[u] = "unused"
        /\ Live(d) /\ HasBuf(d) /\ BufOK(d) /\ BufOK(u)
    BY <1>0, <1>3, HandleKinds DEF InitUpstream, NewUpstream
  <2>3. PICK caps \in [Handle -> Nat], gens \in [Handle -> Nat] :
          /\ RtsBufAppend(d, n, caps, gens)
          /\ gens[d] = gen[d] /\ caps[u] = c /\ gens[u] = 1
          /\ \A x \in Handle : x # u => caps[x] = cap[x] /\ gens[x] = gen[x]
    <3>1. c \in Nat
      BY NewCapacityType
    <3>2. cap \in [Handle -> Nat] /\ gen \in [Handle -> Nat]
      BY <1>0 DEF HeapTypeOK, DataTypeOK
    <3>3. [cap EXCEPT ![u] = c] \in [Handle -> Nat] /\ [gen EXCEPT ![u] = 1] \in [Handle -> Nat]
      BY <3>1, <3>2
    <3>4. /\ [gen EXCEPT ![u] = 1][d] = gen[d]
          /\ [cap EXCEPT ![u] = c][u] = c /\ [gen EXCEPT ![u] = 1][u] = 1
          /\ \A x \in Handle : x # u =>
               [cap EXCEPT ![u] = c][x] = cap[x] /\ [gen EXCEPT ![u] = 1][x] = gen[x]
      BY <2>2, <3>2
    <3> QED BY <2>1, <3>3, <3>4
  <2>4. /\ BufOK(d)' /\ Len(mem'[d]) >= Len(mem[d])
        /\ \A x \in Handle : x # d =>
             /\ mem'[x] = mem[x] /\ cap'[x] = caps[x]
             /\ size'[x] = size[x] /\ gen'[x] = gens[x]
    <3>1. gens[d] # 0
      BY <2>2, <2>3 DEF Live
    <3>2. d \in Handle /\ HasBuf(d) /\ BufOK(d) /\ RtsBufAppend(d, n, caps, gens)
      BY <2>2, <2>3
    <3> QED BY <3>1, <3>2, AppendInBounds
  <2>5. CASE h = d
    <3>1. cap'[d] # 0
      BY <2>2, <2>3, AppendKeepsCapacity
    <3> QED BY <2>2, <2>4, <2>5, <3>1 DEF BufStep
  <2>6. CASE h = u
    <3>1. ~Live(u) /\ mem[u] = <<>> /\ size[u] = 0
      BY <1>0, <2>2 DEF LiveWhileOpen, BufOK
    <3>2. /\ mem'[u] = <<>> /\ size'[u] = 0 /\ cap'[u] = c /\ gen'[u] = 1
          /\ c \in {0, BufCap}
      BY <2>2, <2>3, <2>4, <3>1 DEF NewCapacity
    <3> QED BY <1>0, <2>2, <2>6, <3>2 DEF BufStep, BufOK, HasBuf, Live
  <2>7. CASE h # d /\ h # u
    <3>1. mem'[h] = mem[h] /\ size'[h] = size[h] /\ cap'[h] = cap[h] /\ gen'[h] = gen[h]
      BY <2>3, <2>4, <2>7
    <3> QED BY <1>0, <3>1 DEF BufStep, BufOK, HasBuf, Live, HeapTypeOK
  <2> QED BY <2>5, <2>6, <2>7
<1>4. ASSUME NEW x \in Handle, ReadRelayed(x) PROVE BufStep(h)
  <2>1. PICK n \in Arriving(x) : RtsBufAppend(x, n, cap, gen)
    BY <1>4 DEF ReadRelayed
  <2>2. Live(x) /\ HasBuf(x) /\ BufOK(x)
    BY <1>0, <1>4 DEF ReadRelayed
  <2>3. /\ BufOK(x)' /\ Len(mem'[x]) >= Len(mem[x])
        /\ \A y \in Handle : y # x =>
             mem'[y] = mem[y] /\ cap'[y] = cap[y] /\ size'[y] = size[y] /\ gen'[y] = gen[y]
    <3>1. cap \in [Handle -> Nat] /\ gen \in [Handle -> Nat] /\ gen[x] # 0
      BY <1>0, <2>2 DEF HeapTypeOK, DataTypeOK, Live
    <3> QED BY <2>1, <2>2, <3>1, AppendInBounds
  <2>4. CASE h = x
    <3>1. cap'[x] # 0
      BY <1>0, <2>1, <2>2, AppendKeepsCapacity DEF DataTypeOK
    <3> QED BY <2>2, <2>3, <2>4, <3>1 DEF BufStep
  <2>5. CASE h # x
    BY <1>0, <2>3, <2>5 DEF BufStep, BufOK, HasBuf, Live, HeapTypeOK
  <2> QED BY <2>4, <2>5
<1>5. ASSUME NEW x \in Handle, AfterWrite(x) PROVE BufStep(h)
  <2>1. UNCHANGED <<mem, cap, gen>>
    BY <1>5 DEF AfterWrite, heapVars
  <2>2. size' = size \/ size' = [size EXCEPT ![peer[x]] = 0]
    BY <1>5 DEF AfterWrite, BufRestart
  <2>3. size'[h] \in {0, size[h]}
    BY <1>0, <2>2 DEF DataTypeOK
  <2> QED BY <1>0, <2>1, <2>3, BufSame
<1>7. ASSUME NEW u \in Up, Connected(u) \/ ConnectFaults(u) PROVE BufStep(h)
  BY <1>6, <1>7 DEF Connected, ConnectFaults, Crash, heapVars, bufVars
<1>8. ASSUME NEW x \in Handle, ReadAgain(x) \/ AfterWriteFaults(x) \/ ReadDataFaults(x)
      PROVE  BufStep(h)
  BY <1>6, <1>8 DEF ReadAgain, AfterWriteFaults, ReadDataFaults, Crash, heapVars, bufVars
<1>9. ASSUME NEW x \in Handle, ReadEnd(x) PROVE BufStep(h)
  <2>1. Cleanup(x) \/ UNCHANGED <<mem, cap, gen, size>>
    BY <1>9 DEF ReadEnd, Crash, heapVars, bufVars
  <2> QED BY <1>2, <1>6, <2>1
<1>10. CASE UvNext /\ UNCHANGED <<connVars, bufVars, ghostVars>>
  <2>1. UNCHANGED heapVars
    BY <1>10 DEF UvNext, LoopTurn, RunPending, PendingDone, PollDone, ClosingDone, FinishClose,
                 WriteStage, CallbacksDone, PollEvent
  <2> QED BY <1>6, <1>10, <2>1 DEF heapVars, bufVars
<1>11. CASE UNCHANGED vars
  BY <1>6, <1>11 DEF vars, uvVars, bufVars
<1>12. ASSUME NEW d \in Down, InitUpstreamFails(d) PROVE BufStep(h)
  BY <1>2, <1>12, HandleKinds DEF InitUpstreamFails
<1> QED BY <1>1, <1>3, <1>4, <1>5, <1>7, <1>8, <1>9, <1>10, <1>11, <1>12, HandleKinds
        DEF Next, Callback

(* A stream that has ended stays so. *)
LEMMA EndedStays ==
    ASSUME LinkInv, [Next]_vars, NEW h \in Handle, Ended(h) PROVE EndedNext(h)
BY StatesStep DEF StepOf, HsStep, Ended, EndedNext

(* A stream keeps its data until it ends. *)
LEMMA LiveStays ==
    ASSUME TypeInv, [Next]_vars, NEW h \in Handle, Live(h) PROVE gen'[h] # 0 \/ EndedNext(h)
<1>0. /\ LinkInv /\ HeapTypeOK /\ LinkTypeOK /\ gen \in [Handle -> Nat] /\ gen[h] # 0
      /\ hs \in [Handle -> HandleState]
  BY DEF TypeInv, LinkInv, HeapTypeOK, LinkTypeOK, Live
<1>1. CASE gen' = gen
  BY <1>0, <1>1
<1>2. ASSUME NEW x \in Handle, Cleanup(x), UvClose(x) PROVE gen'[h] # 0 \/ EndedNext(h)
  BY <1>0, <1>2 DEF Cleanup, UvClose, EndedNext
<1>3. ASSUME NEW x \in Handle, NEW n, NEW caps, NEW gens \in [Handle -> Nat], gens[h] # 0,
             RtsBufAppend(x, n, caps, gens)
      PROVE  gen'[h] # 0
  <2>1. gen'[h] \in {gens[h], gens[h] + 1}
    BY <1>3 DEF RtsBufAppend
  <2> QED BY <1>3, <2>1
<1>4. ASSUME NEW d \in Down, Accept(d) PROVE gen'[h] # 0 \/ EndedNext(h)
  <2>1. gen' = gen \/ gen' = [gen EXCEPT ![d] = 1]
    BY <1>4 DEF Accept, InitCallbackData, InitCallbackDataFails
  <2> QED BY <1>0, <2>1
<1>5. ASSUME NEW d \in Down, NEW u \in Up, InitUpstream(d, u)
      PROVE  gen'[h] # 0 \/ EndedNext(h)
  <2>1. PICK n \in Arriving(d), c \in NewCapacity :
          RtsBufAppend(d, n, [cap EXCEPT ![u] = c], [gen EXCEPT ![u] = 1])
    BY <1>5 DEF InitUpstream
  <2>2. PICK gens \in [Handle -> Nat] :
          gens[h] # 0 /\ RtsBufAppend(d, n, [cap EXCEPT ![u] = c], gens)
    <3>1. [gen EXCEPT ![u] = 1] \in [Handle -> Nat]
      BY <1>0
    <3>2. [gen EXCEPT ![u] = 1][h] # 0
      BY <1>0
    <3> QED BY <2>1, <3>1, <3>2
  <2> QED BY <1>3, <2>2, HandleKinds
<1>6. ASSUME NEW x \in Handle, ReadRelayed(x) PROVE gen'[h] # 0 \/ EndedNext(h)
  <2>1. PICK n \in Arriving(x) : RtsBufAppend(x, n, cap, gen)
    BY <1>6 DEF ReadRelayed
  <2> QED BY <1>0, <1>3, <2>1
<1>7. ASSUME NEW u \in Up, Connected(u) \/ ConnectFaults(u)
      PROVE  gen'[h] # 0 \/ EndedNext(h)
  BY <1>1, <1>7 DEF Connected, ConnectFaults, Crash, heapVars
<1>8. ASSUME NEW x \in Handle, ReadAgain(x) \/ AfterWrite(x) \/ AfterWriteFaults(x)
                                 \/ ReadDataFaults(x)
      PROVE  gen'[h] # 0 \/ EndedNext(h)
  BY <1>1, <1>8 DEF ReadAgain, AfterWrite, AfterWriteFaults, ReadDataFaults, Crash, heapVars
<1>9. ASSUME NEW x \in Handle, ReadEnd(x) PROVE gen'[h] # 0 \/ EndedNext(h)
  <2>1. (Cleanup(x) /\ UvClose(x)) \/ gen' = gen
    BY <1>9 DEF ReadEnd, Crash, heapVars
  <2> QED BY <1>1, <1>2, <2>1
<1>10. CASE UvNext /\ UNCHANGED <<connVars, bufVars, ghostVars>>
  <2>1. UNCHANGED heapVars
    BY <1>10 DEF UvNext, LoopTurn, RunPending, PendingDone, PollDone, ClosingDone, FinishClose,
                 WriteStage, CallbacksDone, PollEvent
  <2> QED BY <1>1, <2>1 DEF heapVars
<1>11. CASE UNCHANGED vars
  BY <1>1, <1>11 DEF vars, uvVars, heapVars
<1>12. ASSUME NEW d \in Down, InitUpstreamFails(d) PROVE gen'[h] # 0 \/ EndedNext(h)
  BY <1>2, <1>12, HandleKinds DEF InitUpstreamFails
<1> QED BY <1>4, <1>5, <1>6, <1>7, <1>8, <1>9, <1>10, <1>11, <1>12, HandleKinds
        DEF Next, Callback

LEMMA SeqMono == ASSUME NEW A, NEW B, A \subseteq B PROVE Seq(A) \subseteq Seq(B)
<1> SUFFICES ASSUME NEW q \in Seq(A) PROVE q \in Seq(B)
  OBVIOUS
<1>1. \A i \in DOMAIN q : q[i] \in A
  OBVIOUS
<1> QED BY <1>1, SeqSubset

LEMMA NextBoundsInv == TypeInv /\ BoundsInv /\ [Next]_vars => BoundsInv'
<1> SUFFICES ASSUME TypeInv, BoundsInv, [Next]_vars PROVE BoundsInv'
  OBVIOUS
<1>1. \A h \in Handle : BufStep(h) /\ HsStep(h)
  BY NextBuf, StatesStep DEF BoundsInv, StepOf, TypeInv
<1>2. TypeInv' /\ LiveWhileOpen' /\ HeapTypeOK'
  BY NextTypeInv DEF TypeInv, LinkInv
<1>3. InBuf \subseteq InBuf'
  <2> SUFFICES ASSUME NEW r \in WriteReq, Live(r.src) \/ Ended(r.src),
                      Live(r.src) => HasBuf(r.src) /\ r.off + r.len <= Len(mem[r.src])
               PROVE  /\ gen'[r.src] # 0 \/ EndedNext(r.src)
                      /\ gen'[r.src] # 0 => /\ cap'[r.src] # 0
                                            /\ r.off + r.len <= Len(mem'[r.src])
    BY DEF InBuf, Live, HasBuf, Ended, EndedNext
  <2>1. r.src \in Handle /\ r.off \in Nat /\ r.len \in Nat
    BY DEF WriteReq
  <2>2. gen'[r.src] # 0 \/ EndedNext(r.src)
    BY <2>1, LiveStays, EndedStays DEF TypeInv
  <2>3. ASSUME gen'[r.src] # 0 PROVE cap'[r.src] # 0 /\ r.off + r.len <= Len(mem'[r.src])
    <3>0. hs[r.src] # "unused"
      BY <2>1 DEF TypeInv, LinkInv, LiveWhileOpen, Ended
    <3>1. /\ Live(r.src) /\ (HasBuf(r.src) => cap'[r.src] # 0)
          /\ Len(mem'[r.src]) >= Len(mem[r.src])
      BY <1>1, <2>1, <2>3, <3>0 DEF BufStep
    <3>2. mem[r.src] \in Seq(Nat) /\ mem'[r.src] \in Seq(Nat)
      BY <1>2, <2>1 DEF TypeInv, HeapTypeOK
    <3>3. Len(mem'[r.src]) \in Nat /\ Len(mem[r.src]) \in Nat
      BY <3>2
    <3> QED BY <2>1, <3>1, <3>3
  <2> QED BY <2>2, <2>3
<1>4. Closed(InBuf', Handle)
  <2>1. ASSUME NEW r \in WriteReq
        PROVE  /\ r.src \in Handle /\ Failed(r) \in WriteReq
               /\ Failed(r).src = r.src /\ Failed(r).off + Failed(r).len = r.off + r.len
    BY ReqType DEF WriteReq, Failed
  <2>2. ASSUME NEW r \in WriteReq, NEW n \in 0 .. r.len - 1
        PROVE  /\ Part(r, n) \in WriteReq /\ Part(r, n).src = r.src
               /\ Part(r, n).off + Part(r, n).len = r.off + r.len
    <3>1. Part(r, n) \in WriteReq
      BY ReqType DEF Part
    <3>2. r.off \in Nat /\ r.len \in Nat /\ n \in Nat
      BY DEF WriteReq
    <3>3. /\ Part(r, n).src = r.src /\ Part(r, n).off = r.off + n /\ Part(r, n).len = r.len - n
      BY DEF Part, WriteReq
    <3> QED BY <3>1, <3>2, <3>3
  <2>3. \A r : r \in InBuf' <=>
          /\ r \in WriteReq /\ (gen'[r.src] # 0 \/ EndedNext(r.src))
          /\ (gen'[r.src] # 0 => cap'[r.src] # 0 /\ r.off + r.len <= Len(mem'[r.src]))
    BY DEF InBuf, Live, HasBuf, Ended, EndedNext
  <2> QED BY <2>1, <2>2, <2>3 DEF Closed
<1>5. ASSUME NEW x \in Handle PROVE WithinNext(x, InBuf', Handle)
  <2>1. Within(x, InBuf', Handle)
    BY <1>3, SeqMono DEF BoundsInv, Within
  <2>2. ASSUME peer[x] # None, gen'[peer[x]] # 0, cap'[peer[x]] # 0
        PROVE  Unsent(peer[x]) \in InBuf'
    <3> DEFINE h == peer[x]
    <3>1. h \in Handle
      BY <2>2 DEF TypeInv, LinkInv, LinkTypeOK
    <3>2. Unsent(h) \in WriteReq /\ Unsent(h).src = h /\ Unsent(h).off + Unsent(h).len = size'[h]
      BY <1>2, <2>2, <3>1, UnsentType
    <3>3. size'[h] <= Len(mem'[h])
      BY <1>1, <2>2, <3>1 DEF BufStep, BufOK, HasBuf
    <3>4. gen'[h] # 0 /\ cap'[h] # 0
      BY <2>2
    <3> HIDE DEF h
    <3>5. Unsent(h) \in InBuf'
      BY <3>2, <3>3, <3>4 DEF InBuf, HasBuf, Live
    <3> QED BY <3>5 DEF h
  <2> HIDE DEF InBuf
  <2> QED BY <1>4, <2>1, <2>2, RequestsStep
<1>6. \A x \in Handle : Within(x, InBuf, Handle)'
  BY <1>5 DEF Within, WithinNext
<1> QED BY <1>1, <1>6 DEF BoundsInv, BufStep

(* A queued write never reads outside its allocation, whatever appends were *)
(* refused, grew the buffer or started it again while it was waiting, for   *)
(* every width of int (proxy.c:406-409, rts_buf.c:46-62).                   *)
THEOREM QueuedSafe == Spec => []QueuedInBounds
<1>1. ASSUME TypeInv, BoundsInv PROVE QueuedInBounds
  <2> SUFFICES ASSUME NEW to \in Handle, NEW i \in DOMAIN wq[to],
                      gen[wq[to][i].src] = wq[to][i].gen
               PROVE  /\ wq[to][i].off + wq[to][i].len <= Len(mem[wq[to][i].src])
                      /\ Len(mem[wq[to][i].src]) < cap[wq[to][i].src]
    BY DEF QueuedInBounds
  <2> DEFINE r == wq[to][i]
  <2>1. r \in InBuf
    BY <1>1 DEF BoundsInv, Within
  <2>2. r.src \in Handle /\ r.gen # 0
    BY <2>1 DEF InBuf, WriteReq
  <2> HIDE DEF r
  <2>3. Live(r.src)
    BY <2>2 DEF Live, r
  <2> QED BY <1>1, <2>1, <2>2, <2>3 DEF InBuf, BoundsInv, BufOK, r
<1>2. Init => TypeInv /\ BoundsInv
  BY InitTypeInv, InitBoundsInv
<1>3. TypeInv /\ BoundsInv /\ [Next]_vars => TypeInv' /\ BoundsInv'
  BY NextTypeInv, NextBoundsInv
<1> QED BY <1>1, <1>2, <1>3, PTL DEF Spec

-----------------------------------------------------------------------------
(* A NULL stream_conn is followed only after an end.                        *)

(* The streams a request of x may be of: any once x has ended, those that   *)
(* have ended, and the one it is linked to.                                 *)
Near(x) == {h \in Handle : Ended(x) \/ Ended(h) \/ peer[x] = h}

RequestsNear == \A x \in Handle : Within(x, ReqOf(Near(x)), Handle)

(* An upstream is linked to the client it was made for until that one ends. *)
OrphansExplained ==
    \A u \in Up : Live(u) =>
        client[u] \in Down /\ (peer[u] = client[u] \/ Ended(client[u]))

(* Only a stream that connects has the end of its connect to deal with. *)
ConnectingLive ==
    todo # <<>> /\ Head(todo) = "connect" => cur \in Handle /\ hs[cur] \in {"connecting", "refused"}

CrashInv == RequestsNear /\ OrphansExplained /\ ConnectingLive /\ CrashNeedsDisconnect

LEMMA InitCrashInv == Init => CrashInv
<1> SUFFICES ASSUME Init PROVE CrashInv
  OBVIOUS
<1>1. RequestsNear
  BY DEF Init, UvInit, RequestsNear, Within
<1>2. OrphansExplained /\ ConnectingLive /\ CrashNeedsDisconnect
  BY HandleKinds DEF Init, UvInit, OrphansExplained, ConnectingLive, CrashNeedsDisconnect, Live
<1> QED BY <1>1, <1>2 DEF CrashInv

LEMMA NextRequestsNear ==
    ASSUME TypeInv, RequestsNear, [Next]_vars, NEW x \in Handle
    PROVE  Within(x, ReqOf(Near(x)), Handle)'
<1> DEFINE N == {h \in Handle : EndedNext(x) \/ EndedNext(h) \/ peer'[x] = h}
<1>1. LinkInv /\ WriteTypeOK /\ TypeInv' /\ N \subseteq Handle
  BY NextTypeInv DEF TypeInv
<1>2. Near(x) \subseteq N
  <2> SUFFICES ASSUME NEW h \in Handle, Ended(x) \/ Ended(h) \/ peer[x] = h
               PROVE  EndedNext(x) \/ EndedNext(h) \/ peer'[x] = h
    BY DEF Near
  <2>1. CASE Ended(x) \/ Ended(h)
    BY <1>1, <2>1, EndedStays
  <2>2. CASE peer[x] = h
    BY <1>1, <2>2, StatesStep, HandleKinds DEF StepOf, PeerStep
  <2> QED BY <2>1, <2>2
<1>3. peer[x] # None => peer[x] \in N
  BY <1>1, <1>2 DEF Near, LinkInv, LinkTypeOK
<1>4. Near(x)' = N
  BY DEF Near, Ended, EndedNext
<1> HIDE DEF N
<1>5. Closed(ReqOf(N), Handle)
  BY <1>1, ReqOfClosed DEF Closed
<1>6. Within(x, ReqOf(N), Handle)
  <2>1. ReqOf(Near(x)) \subseteq ReqOf(N)
    BY <1>2 DEF ReqOf
  <2> QED BY <2>1, SeqMono DEF RequestsNear, Within
<1>7. ASSUME peer[x] # None, gen'[peer[x]] # 0 PROVE Unsent(peer[x]) \in ReqOf(N)
  <2>1. peer[x] \in Handle /\ peer[x] \in N
    BY <1>1, <1>3, <1>7
  <2>2. Unsent(peer[x]) \in WriteReq /\ Unsent(peer[x]).src = peer[x]
    BY <1>1, <1>7, <2>1, UnsentType
  <2> QED BY <2>1, <2>2 DEF ReqOf
<1>8. WithinNext(x, ReqOf(N), Handle)
  BY <1>5, <1>6, <1>7, RequestsStep
<1>9. ReqOf(Near(x))' = ReqOf(N)
  BY <1>4 DEF ReqOf
<1> QED BY <1>8, <1>9 DEF Within, WithinNext

LEMMA NextOrphansExplained ==
    ASSUME TypeInv, OrphansExplained, [Next]_vars PROVE OrphansExplained'
<1>1. LinkInv /\ LiveWhileOpen /\ LiveWhileOpen' /\ LinkTypeOK /\ None \notin Handle
  BY NextTypeInv, HandleKinds DEF TypeInv, LinkInv
<1> SUFFICES ASSUME NEW u \in Up, gen'[u] # 0
             PROVE  client'[u] \in Down /\ (peer'[u] = client'[u] \/ EndedNext(client'[u]))
  BY DEF OrphansExplained, Live, Ended, EndedNext
<1>2. /\ u \in Handle /\ HsStep(u) /\ PeerStep(u) /\ ClientStep(u)
      /\ hs'[u] \in {"connecting", "refused", "stuck", "open"}
  BY <1>1, StatesStep, NextClientStep, HandleKinds DEF StepOf, LiveWhileOpen, Live
<1>3. CASE client'[u] = client[u] /\ hs[u] # "unused"
  <2>1. Live(u)
    BY <1>1, <1>2, <1>3 DEF HsStep, LiveWhileOpen
  <2>2. client[u] \in Down /\ (peer[u] = client[u] \/ Ended(client[u]))
    BY <2>1 DEF OrphansExplained
  <2>3. client[u] \in Handle /\ client[u] # None
    BY <1>1, <2>2, HandleKinds
  <2>4. CASE Ended(client[u])
    BY <1>1, <1>3, <2>2, <2>3, <2>4, EndedStays
  <2>5. CASE peer[u] = client[u]
    <3>1. peer'[u] = peer[u] \/ EndedNext(u) \/ EndedNext(peer[u])
      BY <1>2, <2>3, <2>5 DEF PeerStep
    <3>2. ~EndedNext(u)
      BY <1>2 DEF EndedNext
    <3> QED BY <1>3, <2>2, <2>5, <3>1, <3>2
  <2> QED BY <2>2, <2>4, <2>5
<1>4. CASE hs[u] = "unused" /\ client'[u] \in Down /\ peer'[u] = client'[u]
  BY <1>4
<1> QED BY <1>2, <1>3, <1>4 DEF ClientStep

(* Nothing happens after the end of the process. *)
LEMMA FateIsLast == ASSUME [Next]_vars, fate # "running" PROVE UNCHANGED vars
BY DEF Next, Callback, Accept, InitUpstreamFails, InitUpstream, Connected, ConnectFaults,
       ReadRelayed, ReadDataFaults, ReadAgain, ReadEnd, AfterWrite, AfterWriteFaults, UvNext, LoopTurn,
       RunPending, PendingDone, PollDone, ClosingDone, FinishClose, WriteStage,
       CallbacksDone, PollEvent, Idle, InStage

LEMMA StagesStep ==
    ASSUME TypeInv, ConnectingLive, [Next]_vars PROVE ConnectingLive'
<1>0. todo \in StageLists /\ hs \in [Handle -> HandleState] /\ LoopTypeOK
  BY DEF TypeInv, LinkInv, LinkTypeOK
<1>1. CASE UNCHANGED <<todo, cur, hs>>
  BY <1>1 DEF ConnectingLive
<1>2. CASE todo' = <<>>
  BY <1>2 DEF ConnectingLive
<1>3. ASSUME todo # <<>>, todo' = Tail(todo) PROVE ConnectingLive'
  BY <1>0, <1>3, TailOfStages DEF ConnectingLive
<1>4. ASSUME todo # <<>>, Head(todo) # "connect", NEW n, todo' = AfterRead(n)
      PROVE  ConnectingLive'
  BY <1>3, <1>4 DEF AfterRead, ConnectingLive
<1>5. ASSUME NEW d \in Down, Accept(d) PROVE ConnectingLive'
  BY <1>0, <1>5, UvTypeParts DEF Accept, Idle, ConnectingLive
<1>6. ASSUME NEW h \in Handle, PollEvent(h) PROVE ConnectingLive'
  <2>1. /\ cur' = h /\ hs' = hs
        /\ \/ hs[h] \in {"connecting", "refused"}
           \/ todo' \in EventStages(h)
    BY <1>6 DEF PollEvent, streamVars
  <2>2. \A t \in EventStages(h) : Head(t) # "connect"
    BY DEF EventStages
  <2> QED BY <2>1, <2>2 DEF ConnectingLive
<1>7. CASE RunPending
  <2>1. /\ cur' = Head(batch) /\ hs' = hs /\ batch # <<>>
        /\ todo' = IF hs[Head(batch)] = "refused" THEN <<"connect">>
                                                  ELSE <<"write", "callbacks">>
    BY <1>7 DEF RunPending, streamVars
  <2>2. Head(batch) \in Handle
    BY <1>0, <2>1 DEF TypeInv, WriteTypeOK, LoopTypeOK
  <2>3. Head(todo') = "connect" => hs[Head(batch)] = "refused"
    BY <2>1
  <2> QED BY <2>1, <2>2, <2>3 DEF ConnectingLive
<1>8. ASSUME NEW h \in Handle, FinishClose(h) PROVE ConnectingLive'
  <2>1. Idle /\ hs' = [hs EXCEPT ![h] = "closed"] /\ hs[h] = "closing"
        /\ (UNCHANGED <<cur, todo>> \/ todo' = <<"callbacks">>)
    BY <1>8 DEF FinishClose
  <2> QED BY <1>0, <2>1, HandleKinds DEF ConnectingLive, Idle
<1>9. ASSUME NEW d \in Down, NEW u \in Up, InitUpstream(d, u) PROVE ConnectingLive'
  <2>1. PICK n \in Arriving(d), c \in NewCapacity : todo' = AfterRead(n)
    BY <1>9 DEF InitUpstream, NextStage
  <2> QED BY <1>4, <1>9, <2>1 DEF InitUpstream, InStage
<1>10. ASSUME NEW h \in Handle, ReadRelayed(h) PROVE ConnectingLive'
  <2>1. PICK n \in Arriving(h) : todo' = AfterRead(n)
    BY <1>10 DEF ReadRelayed, NextStage
  <2> QED BY <1>4, <1>10, <2>1 DEF ReadRelayed, InStage
<1>11. ASSUME NEW u \in Up, Connected(u) PROVE ConnectingLive'
  BY <1>3, <1>11 DEF Connected, NextStage, InStage
<1>12. ASSUME NEW h \in Handle, ReadAgain(h) PROVE ConnectingLive'
  BY <1>3, <1>12 DEF ReadAgain, NextStage, InStage
<1>13. CASE WriteStage \/ CallbacksDone
  BY <1>3, <1>13 DEF WriteStage, CallbacksDone, NextStage, InStage
<1>14. CASE PendingDone \/ PollDone \/ ClosingDone
  BY <1>1, <1>14 DEF PendingDone, PollDone, ClosingDone, streamVars
<1>15. ASSUME NEW h \in Handle, ReadEnd(h) PROVE ConnectingLive'
  BY <1>1, <1>2, <1>15 DEF ReadEnd, UvClose, Crash, loopVars, streamVars
<1>16. ASSUME NEW d \in Down, InitUpstreamFails(d) PROVE ConnectingLive'
  BY <1>2, <1>16 DEF InitUpstreamFails, UvClose
<1>17. ASSUME NEW h \in Handle, AfterWrite(h) PROVE ConnectingLive'
  BY <1>1, <1>17 DEF AfterWrite
<1>18. ASSUME NEW h \in Handle, ConnectFaults(h) \/ AfterWriteFaults(h) \/ ReadDataFaults(h)
       PROVE  ConnectingLive'
  BY <1>1, <1>18 DEF ConnectFaults, AfterWriteFaults, ReadDataFaults, Crash, loopVars, streamVars
<1>19. CASE UNCHANGED vars
  BY <1>1, <1>19 DEF vars, uvVars
<1>20. CASE UvNext
  BY <1>6, <1>7, <1>8, <1>13, <1>14, <1>20 DEF UvNext, LoopTurn
<1>21. ASSUME NEW h \in Handle, Callback(h) PROVE ConnectingLive'
  BY <1>10, <1>12, <1>15, <1>17, <1>18, <1>21 DEF Callback
<1> QED BY <1>5, <1>9, <1>11, <1>16, <1>18, <1>19, <1>20, <1>21, HandleKinds DEF Next

(* What ends the process in a callback of the relay. *)
LEMMA FateStep ==
    ASSUME [Next]_vars, fate = "running"
    PROVE  \/ fate' \in {"running", "SIGPIPE"}
           \/ /\ UNCHANGED <<hs, cur, wdone, client>>
              /\ \/ \E h \in Handle : /\ ReadFault(h) # "none" /\ fate' = ReadFault(h)
                                      /\ InStage("read") \/ InStage("eof")
                                      /\ cur = h
                 \/ \E u \in Up : /\ InStage("connect") /\ cur = u
                                  /\ fate' = ConnectFault(u)
                 \/ \E to \in Handle : /\ cur = to /\ wdone[to] # <<>>
                                       /\ fate' = AfterWriteFault(to)
                 \/ \E h \in Handle : fate' \in ReadDataFault(h)
<1>1. ASSUME NEW d \in Down, Accept(d) \/ InitUpstreamFails(d) PROVE fate' = fate
  BY <1>1 DEF Accept, InitUpstreamFails, UvClose
<1>2. ASSUME NEW d \in Down, NEW u \in Up, InitUpstream(d, u) PROVE fate' = fate
  BY <1>2 DEF InitUpstream
<1>3. ASSUME NEW u \in Up, Connected(u) PROVE fate' \in {fate, "SIGPIPE"}
  BY <1>3, UvWriteFate DEF Connected, Transfer
<1>4. ASSUME NEW h \in Handle, ReadRelayed(h) \/ ReadAgain(h) \/ AfterWrite(h)
      PROVE  fate' \in {fate, "SIGPIPE"}
  <2>1. CASE ReadRelayed(h)
    BY <2>1, UvWriteFate DEF ReadRelayed, Transfer
  <2>2. CASE ReadAgain(h)
    BY <2>2 DEF ReadAgain
  <2>3. CASE AfterWrite(h)
    BY <2>3, UvWriteFate DEF AfterWrite, Transfer
  <2> QED BY <1>4, <2>1, <2>2, <2>3
<1>5. ASSUME NEW h \in Handle, ReadEnd(h)
      PROVE  \/ fate' = fate
             \/ /\ ReadFault(h) # "none" /\ fate' = ReadFault(h) /\ cur = h
                /\ InStage("read") \/ InStage("eof")
                /\ UNCHANGED <<hs, cur, wdone, client>>
  BY <1>5 DEF ReadEnd, UvClose, Crash, loopVars, streamVars, ghostVars
<1>6. ASSUME NEW u \in Up, ConnectFaults(u)
      PROVE  /\ InStage("connect") /\ cur = u /\ fate' = ConnectFault(u)
             /\ UNCHANGED <<hs, cur, wdone, client>>
  BY <1>6 DEF ConnectFaults, Crash, loopVars, streamVars, ghostVars
<1>7. ASSUME NEW to \in Handle, AfterWriteFaults(to)
      PROVE  /\ cur = to /\ wdone[to] # <<>> /\ fate' = AfterWriteFault(to)
             /\ UNCHANGED <<hs, cur, wdone, client>>
  BY <1>7 DEF AfterWriteFaults, Crash, loopVars, streamVars, ghostVars
<1>8. UvNext => fate' \in {fate, "SIGPIPE"}
  BY UvNextFate
<1>9. UNCHANGED vars => fate' = fate
  BY DEF vars, uvVars
<1>10. ASSUME NEW h \in Handle, ReadDataFaults(h)
       PROVE  fate' \in ReadDataFault(h) /\ UNCHANGED <<hs, cur, wdone, client>>
  BY <1>10 DEF ReadDataFaults, Crash, loopVars, streamVars, ghostVars
<1> QED BY <1>1, <1>2, <1>3, <1>4, <1>5, <1>6, <1>7, <1>8, <1>9, <1>10 DEF Next, Callback

LEMMA NextCrashNeedsDisconnect ==
    ASSUME TypeInv, BoundsInv, CrashInv, [Next]_vars PROVE CrashNeedsDisconnect'
<1>0. /\ LinkInv /\ LiveWhileOpen /\ LinksConsistent /\ LinkTypeOK
      /\ RequestsNear /\ OrphansExplained /\ ConnectingLive
  BY DEF TypeInv, LinkInv, CrashInv
<1>1. CASE fate # "running"
  <2>1. UNCHANGED <<fate, hs, cur, wdone, client>>
    BY <1>1, FateIsLast DEF vars, uvVars, ghostVars
  <2> QED BY <2>1 DEF CrashInv, CrashNeedsDisconnect, Ended
<1>2. CASE fate = "running" /\ fate' \in {"running", "SIGPIPE"}
  BY <1>2 DEF CrashNeedsDisconnect
<1>3. ASSUME UNCHANGED <<hs, cur, wdone, client>>, NEW h \in Handle,
             ReadFault(h) # "none", fate' = ReadFault(h),
             InStage("read") \/ InStage("eof"), cur = h
      PROVE  CrashNeedsDisconnect'
  <2>1. CASE h \in Up /\ peer[h] = None /\ Live(h)
    <3>1. fate' = "upstream_read: no stream_conn"
      BY <1>3, <2>1 DEF ReadFault
    <3>2. Ended(client[h])
      BY <1>0, <2>1, HandleKinds DEF OrphansExplained
    <3> QED BY <1>3, <3>1, <3>2 DEF CrashNeedsDisconnect, Ended
  <2>2. CASE ~(h \in Up /\ peer[h] = None /\ Live(h))
    <3>1. fate' \in {"read: stream has no data", "read: peer has no data"}
      BY <1>3, <2>2 DEF ReadFault
    <3> QED BY <3>1 DEF CrashNeedsDisconnect
  <2> QED BY <2>1, <2>2
<1>4. ASSUME UNCHANGED <<hs, cur, wdone, client>>, NEW u \in Up, InStage("connect"), cur = u,
             fate' = ConnectFault(u)
      PROVE  CrashNeedsDisconnect'
  <2>1. CASE peer[u] = None
    <3>1. fate' = "on_upstream_connect: no stream_conn"
      BY <1>4, <2>1 DEF ConnectFault
    <3>2. hs[u] \in {"connecting", "refused"}
      BY <1>0, <1>4 DEF ConnectingLive, InStage
    <3>3. Live(u)
      BY <1>0, <3>2, HandleKinds DEF LiveWhileOpen
    <3>4. Ended(client[u])
      BY <1>0, <2>1, <3>3, HandleKinds DEF OrphansExplained
    <3> QED BY <1>4, <3>1, <3>4 DEF CrashNeedsDisconnect, Ended
  <2>2. CASE peer[u] # None
    <3>1. fate' \in {"on_upstream_connect: downstream has no data",
                     "on_upstream_connect: failed, stream_conn is freed"}
      BY <1>4, <2>2 DEF ConnectFault
    <3> QED BY <3>1 DEF CrashNeedsDisconnect
  <2> QED BY <2>1, <2>2
<1>5. ASSUME UNCHANGED <<hs, cur, wdone, client>>, NEW to \in Handle, cur = to, wdone[to] # <<>>,
             fate' = AfterWriteFault(to)
      PROVE  CrashNeedsDisconnect'
  <2> DEFINE req == Head(wdone[to])
  <2>1. fate' \notin {"upstream_read: no stream_conn", "on_upstream_connect: no stream_conn"}
    BY <1>5 DEF AfterWriteFault
  <2>2. req \in ReqOf(Near(to))
    <3>1. wdone[to] \in Seq(ReqOf(Near(to)))
      BY <1>0 DEF RequestsNear, Within
    <3> QED BY <1>5, <3>1
  <2>3. req.src \in Handle /\ (Ended(to) \/ Ended(req.src) \/ peer[to] = req.src)
    BY <2>2 DEF ReqOf, Near
  <2> HIDE DEF req
  <2>4. peer[to] = req.src => Live(to) /\ peer[to] # None
    BY <1>0, <2>3, HandleKinds DEF LinksConsistent
  <2>5. peer[to] = req.src => HasBuf(req.src)
    <3>1. wdone[to] \in Seq(InBuf)
      BY DEF BoundsInv, Within
    <3>2. req \in InBuf
      BY <1>5, <3>1 DEF req
    <3>3. peer[to] = req.src => Live(req.src)
      BY <1>0, <1>5, <2>3, HandleKinds DEF LinksConsistent
    <3> QED BY <3>2, <3>3 DEF InBuf
  <2>6. fate' \in {"after_write: no stream_conn", "after_write: stream has no data",
                   "after_write: peer has no buffer"}
          => Ended(to) \/ Ended(req.src)
    BY <1>5, <2>3, <2>4, <2>5 DEF AfterWriteFault
  <2> QED BY <1>5, <2>1, <2>6 DEF CrashNeedsDisconnect, Ended, req
<1>6. ASSUME NEW h \in Handle, fate' \in ReadDataFault(h) PROVE CrashNeedsDisconnect'
  BY <1>6 DEF ReadDataFault, CrashNeedsDisconnect
<1> QED BY <1>1, <1>2, <1>3, <1>4, <1>5, <1>6, FateStep

LEMMA NextCrashInv == TypeInv /\ BoundsInv /\ CrashInv /\ [Next]_vars => CrashInv'
<1> SUFFICES ASSUME TypeInv, BoundsInv, CrashInv, [Next]_vars PROVE CrashInv'
  OBVIOUS
<1>1. RequestsNear'
  BY NextRequestsNear DEF CrashInv, RequestsNear
<1> QED BY <1>1, NextOrphansExplained, StagesStep, NextCrashNeedsDisconnect DEF CrashInv

(* A callback of an upstream follows a NULL stream_conn only after the      *)
(* client it was made for has ended, and a completed write follows a NULL   *)
(* stream_conn, data or buffer only after the stream it was read from or    *)
(* the one written to has (proxy.c:269, 273, 349, 444, 499, 508).  Not said *)
(* of proxy.c:373, which follows one after a refused connect, nor of what a *)
(* read follows when malloc failed.                                         *)
THEOREM CrashesNeedEnd == Spec => []CrashNeedsDisconnect
<1>1. Init => TypeInv /\ BoundsInv /\ CrashInv
  BY InitTypeInv, InitBoundsInv, InitCrashInv
<1>2. TypeInv /\ BoundsInv /\ CrashInv /\ [Next]_vars
        => TypeInv' /\ BoundsInv' /\ CrashInv'
  BY NextTypeInv, NextBoundsInv, NextCrashInv
<1>3. CrashInv => CrashNeedsDisconnect
  BY DEF CrashInv
<1> QED BY <1>1, <1>2, <1>3, PTL DEF Spec
=============================================================================
