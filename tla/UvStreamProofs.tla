--------------------------- MODULE UvStreamProofs ---------------------------
(* The types of the loop and its streams are kept by all that libuv does,   *)
(* whatever program runs on it.                                             *)
EXTENDS UvStream, TLAPS

(* The variables that uv_write and uv__write change. *)
WriteTypeOK ==
    /\ wq \in [Handle -> Seq(WriteReq)] /\ wdone \in [Handle -> Seq(WriteReq)]
    /\ out \in [Handle -> Seq(Handle \X Nat)]
    /\ feed \in Seq(Handle)
    /\ pollout \in [Handle -> {"off", "new", "on"}]
    /\ brk \in [Handle -> BOOLEAN]

LoopTypeOK ==
    /\ phase \in {"pending", "poll", "closing"}
    /\ batch \in Seq(Handle)
    /\ served \in SUBSET Handle
    /\ cur \in Handle \cup {None}
    /\ todo \in StageLists

HeapTypeOK == mem \in [Handle -> Seq(Nat)] /\ gen \in [Handle -> Nat]

LEMMA UvTypeParts ==
    UvTypeOK <=> WriteTypeOK /\ LoopTypeOK /\ HeapTypeOK /\ hs \in [Handle -> HandleState]
BY DEF UvTypeOK, WriteTypeOK, LoopTypeOK, HeapTypeOK

LEMMA UvInitType == UvInit => UvTypeOK
<1> SUFFICES ASSUME UvInit PROVE UvTypeOK
  OBVIOUS
<1>1. WriteTypeOK
  <2>1. feed \in Seq(Handle) /\ <<>> \in Seq(WriteReq) /\ <<>> \in Seq(Handle \X Nat)
    BY DEF UvInit
  <2>2. /\ pollout \in [Handle -> {"off", "new", "on"}]
        /\ brk \in [Handle -> BOOLEAN]
    BY DEF UvInit
  <2>3. /\ wq \in [Handle -> Seq(WriteReq)] /\ wdone \in [Handle -> Seq(WriteReq)]
        /\ out \in [Handle -> Seq(Handle \X Nat)]
    BY <2>1, Zenon DEF UvInit
  <2> QED BY <2>1, <2>2, <2>3, Zenon DEF WriteTypeOK
<1>2. LoopTypeOK
  BY DEF UvInit, LoopTypeOK, StageLists
<1>3. HeapTypeOK /\ hs \in [Handle -> HandleState]
  BY DEF UvInit, HeapTypeOK, HandleState
<1> QED BY <1>1, <1>2, <1>3, UvTypeParts

-----------------------------------------------------------------------------
(* The queues of watchers.                                                  *)

LEMMA FedType == ASSUME NEW q \in Seq(Handle), NEW h \in Handle PROVE Fed(q, h) \in Seq(Handle)
BY DEF Fed

LEMMA UnfedType ==
    ASSUME NEW q \in Seq(Handle), NEW h PROVE Unfed(q, h) \in Seq(Handle)
<1>1. CASE Contains(q, h)
  <2> DEFINE i == CHOOSE j \in DOMAIN q : q[j] = h
  <2>1. i \in 1 .. Len(q)
    BY <1>1 DEF Contains
  <2> HIDE DEF i
  <2>2. SubSeq(q, 1, i - 1) \in Seq(Handle) /\ SubSeq(q, i + 1, Len(q)) \in Seq(Handle)
    BY <2>1
  <2>3. RemoveAt(q, i) \in Seq(Handle)
    BY <2>2 DEF RemoveAt
  <2> QED BY <1>1, <2>3 DEF Unfed, i
<1>2. CASE ~Contains(q, h)
  BY <1>2 DEF Unfed
<1> QED BY <1>1, <1>2

(* A stage list loses its head and stays one; reading comes first in it,    *)
(* and connecting comes alone.                                              *)
LEMMA TailOfStages ==
    ASSUME NEW t \in StageLists, t # <<>>
    PROVE  /\ Tail(t) \in StageLists
           /\ Tail(t) # <<>> /\ Head(Tail(t)) \in {"read", "eof"} => Head(t) = "read"
           /\ Tail(t) # <<>> => Head(Tail(t)) # "connect"
<1>1. CASE t = <<"connect">>
  <2>1. Tail(t) = <<>>
    BY <1>1
  <2> QED BY <2>1 DEF StageLists
<1>2. CASE t = <<"read">>
  <2>1. Tail(t) = <<>>
    BY <1>2
  <2> QED BY <2>1 DEF StageLists
<1>3. CASE t = <<"eof">>
  <2>1. Tail(t) = <<>>
    BY <1>3
  <2> QED BY <2>1 DEF StageLists
<1>4. CASE t = <<"callbacks">>
  <2>1. Tail(t) = <<>>
    BY <1>4
  <2> QED BY <2>1 DEF StageLists
<1>5. CASE t = <<"read", "eof">>
  <2>1. Tail(t) = <<"eof">> /\ Head(t) = "read" /\ Head(Tail(t)) = "eof"
    BY <1>5
  <2> QED BY <2>1 DEF StageLists
<1>6. CASE t = <<"write", "callbacks">>
  <2>1. Tail(t) = <<"callbacks">>
    BY <1>6
  <2>2. Head(<<"callbacks">>) = "callbacks"
    OBVIOUS
  <2> QED BY <2>1, <2>2 DEF StageLists
<1>7. CASE t = <<"read", "write", "callbacks">>
  <2>1. Tail(t) = <<"write", "callbacks">>
    BY <1>7
  <2>2. Head(<<"write", "callbacks">>) = "write"
    OBVIOUS
  <2> QED BY <2>1, <2>2 DEF StageLists
<1> QED BY <1>1, <1>2, <1>3, <1>4, <1>5, <1>6, <1>7 DEF StageLists

(* Writing to a stream ends the process with SIGPIPE or not at all. *)
LEMMA WriteFate ==
    ASSUME NEW h, NEW q, NEW done, NEW g, NEW m, Uv__Write(h, q, done, g, m)
    PROVE  fate' \in {fate, "SIGPIPE"}
BY DEF Uv__Write, WroteAll, WrotePart, WriteFailed, WriteKills

LEMMA UvWriteFate ==
    ASSUME NEW h, NEW req, NEW q, NEW done, NEW g, NEW m,
           UvWrite(h, req, q, done, g, m)
    PROVE  fate' \in {fate, "SIGPIPE"}
BY WriteFate DEF UvWrite

LEMMA UvNextFate == ASSUME UvNext PROVE fate' \in {fate, "SIGPIPE"}
<1>1. CASE LoopTurn
  BY <1>1 DEF LoopTurn, RunPending, PendingDone, PollDone, ClosingDone, FinishClose
<1>2. CASE WriteStage
  BY <1>2, WriteFate DEF WriteStage
<1> QED BY <1>1, <1>2 DEF UvNext, CallbacksDone, PollEvent

(* What write(2) finds are bytes. *)
LEMMA BytesType ==
    ASSUME NEW req \in WriteReq, NEW n \in Nat,
           NEW g \in [Handle -> Nat], NEW m \in [Handle -> Seq(Nat)]
    PROVE  Bytes(req, n, g, m) \in Seq(Handle \X Nat)
<1>1. req.src \in Handle
  BY DEF WriteReq
<1>2. \A i \in 1 .. n : Bytes(req, n, g, m)[i] \in Handle \X Nat
  <2> SUFFICES ASSUME NEW i \in 1 .. n PROVE Bytes(req, n, g, m)[i] \in Handle \X Nat
    OBVIOUS
  <2>1. m[req.src] \in Seq(Nat)
    BY <1>1
  <2>2. req.off + i \in DOMAIN m[req.src] => m[req.src][req.off + i] \in Nat
    BY <2>1
  <2> QED BY <1>1, <2>2 DEF Bytes
<1>3. Bytes(req, n, g, m) \in [1 .. n -> Handle \X Nat]
  BY <1>2 DEF Bytes
<1> QED BY <1>3

(* A request of which a part is written, or that has failed, is one still.  *)
LEMMA ReqType ==
    ASSUME NEW r \in WriteReq
    PROVE  /\ r.off \in Nat /\ r.len \in Nat
           /\ [r EXCEPT !.err = TRUE] \in WriteReq
           /\ \A n \in 0 .. r.len - 1 :
                 n \in Nat /\ [r EXCEPT !.off = @ + n, !.len = @ - n] \in WriteReq
<1>1. r.off \in Nat /\ r.len \in Nat
  BY DEF WriteReq
<1>2. [r EXCEPT !.err = TRUE] \in WriteReq
  BY DEF WriteReq
<1>3. ASSUME NEW n \in 0 .. r.len - 1
      PROVE  n \in Nat /\ [r EXCEPT !.off = @ + n, !.len = @ - n] \in WriteReq
  <2>1. n \in Nat /\ r.off + n \in Nat /\ r.len - n \in Nat
    BY <1>1
  <2> DEFINE a == r.off + n
             b == r.len - n
  <2>2. [r EXCEPT !.off = a, !.len = b] \in WriteReq
    <3>1. a \in Nat /\ b \in Nat
      BY <2>1
    <3> HIDE DEF a, b
    <3> QED BY <3>1 DEF WriteReq
  <2>3. [r EXCEPT !.off = @ + n, !.len = @ - n] = [r EXCEPT !.off = a, !.len = b]
    BY DEF WriteReq
  <2> QED BY <2>1, <2>2, <2>3
<1> QED BY <1>1, <1>2, <1>3

LEMMA Uv__WriteType ==
    ASSUME WriteTypeOK, NEW h \in Handle, NEW q \in Seq(WriteReq), q # <<>>,
           NEW done \in Seq(WriteReq), NEW g \in [Handle -> Nat],
           NEW m \in [Handle -> Seq(Nat)], Uv__Write(h, q, done, g, m)
    PROVE  WriteTypeOK'
<1>0. Head(q) \in WriteReq /\ Tail(q) \in Seq(WriteReq)
  OBVIOUS
<1>1. Head(q) \in WriteReq /\ Tail(q) \in Seq(WriteReq) /\ Head(q).len \in Nat
  BY <1>0, ReqType
<1>2. CASE WroteAll(h, q, done, g, m)
  <2>1. Bytes(Head(q), Head(q).len, g, m) \in Seq(Handle \X Nat)
    BY <1>1, BytesType
  <2>2. out' \in [Handle -> Seq(Handle \X Nat)]
    BY <1>2, <2>1 DEF WroteAll, WriteTypeOK
  <2>3. Append(done, Head(q)) \in Seq(WriteReq)
    BY <1>1
  <2> QED BY <1>1, <1>2, <2>2, <2>3, FedType DEF WroteAll, WriteTypeOK
<1>3. CASE WrotePart(h, q, done, g, m)
  <2>1. PICK n \in 0 .. Head(q).len - 1 :
          /\ out' = [out EXCEPT ![h] = @ \o Bytes(Head(q), n, g, m)]
          /\ wq' = [wq EXCEPT ![h] =
                      <<[Head(q) EXCEPT !.off = @ + n, !.len = @ - n]>> \o Tail(q)]
    BY <1>3 DEF WrotePart
  <2>3. n \in Nat /\ [Head(q) EXCEPT !.off = @ + n, !.len = @ - n] \in WriteReq
    BY <1>1, ReqType
  <2>2. Bytes(Head(q), n, g, m) \in Seq(Handle \X Nat)
    BY <1>1, <2>3, BytesType
  <2>4. <<[Head(q) EXCEPT !.off = @ + n, !.len = @ - n]>> \o Tail(q) \in Seq(WriteReq)
    BY <1>1, <2>3
  <2>5. wq' \in [Handle -> Seq(WriteReq)] /\ out' \in [Handle -> Seq(Handle \X Nat)]
    BY <2>1, <2>2, <2>4 DEF WriteTypeOK
  <2> QED BY <1>3, <2>5 DEF WrotePart, StartPollout, WriteTypeOK
<1>4. CASE WriteFailed(h, q, done)
  <2>1. [Head(q) EXCEPT !.err = TRUE] \in WriteReq
    BY <1>1, ReqType
  <2>2. Append(done, [Head(q) EXCEPT !.err = TRUE]) \in Seq(WriteReq)
    BY <2>1
  <2> QED BY <1>1, <1>4, <2>2, FedType DEF WriteFailed, WriteTypeOK
<1>5. CASE WriteKills(h, q, done)
  <2>1. wq' \in [Handle -> Seq(WriteReq)] /\ wdone' \in [Handle -> Seq(WriteReq)]
    BY <1>5 DEF WriteKills, WriteTypeOK
  <2> QED BY <1>5, <2>1 DEF WriteKills, WriteTypeOK
<1> QED BY <1>2, <1>3, <1>4, <1>5 DEF Uv__Write

LEMMA AppendNotEmpty ==
    ASSUME NEW S, NEW q \in Seq(S), NEW r \in S PROVE Append(q, r) # <<>>
<1>1. Len(Append(q, r)) = Len(q) + 1
  OBVIOUS
<1>2. Len(Append(q, r)) > 0
  BY <1>1
<1> QED BY <1>2

LEMMA UvWriteType ==
    ASSUME WriteTypeOK, NEW h \in Handle, NEW req \in WriteReq,
           NEW q \in Seq(WriteReq), NEW done \in Seq(WriteReq),
           NEW g \in [Handle -> Nat], NEW m \in [Handle -> Seq(Nat)],
           UvWrite(h, req, q, done, g, m)
    PROVE  WriteTypeOK'
<1>1. Append(q, req) \in Seq(WriteReq) /\ Append(q, req) # <<>>
  <2>1. Append(q, req) \in Seq(WriteReq)
    OBVIOUS
  <2> QED BY <2>1, AppendNotEmpty
<1>2. CASE WriteQueueSize(q, done) = 0
  BY <1>1, <1>2, Uv__WriteType DEF UvWrite
<1>3. CASE WriteQueueSize(q, done) # 0
  BY <1>1, <1>3 DEF UvWrite, StartPollout, WriteTypeOK
<1> QED BY <1>2, <1>3

(* A request that has failed, and one of which n bytes are written. *)
Failed(r)  == [r EXCEPT !.err = TRUE]
Part(r, n) == [r EXCEPT !.off = @ + n, !.len = @ - n]

(* What a write does to a stream whose queue is q by then: k bytes of the   *)
(* first request are accepted, and it is done, stays queued with the rest,  *)
(* or has failed.                                                           *)
WroteBytes(h, q, done, g, m, k) ==
    /\ out' = [out EXCEPT ![h] = @ \o Bytes(Head(q), k, g, m)]
    /\ k > 0 => ~brk[h]
    /\ \/ /\ k = Head(q).len /\ UNCHANGED brk
          /\ wq' = [wq EXCEPT ![h] = Tail(q)]
          /\ wdone' = [wdone EXCEPT ![h] = Append(done, Head(q))]
       \/ /\ (k = 0 \/ k < Head(q).len) /\ UNCHANGED brk
          /\ wq' = [wq EXCEPT ![h] = <<Part(Head(q), k)>> \o Tail(q)]
          /\ wdone' = [wdone EXCEPT ![h] = done]
       \/ /\ k = 0 /\ brk' = [brk EXCEPT ![h] = TRUE]
          /\ wq' = [wq EXCEPT ![h] = Tail(q)]
          /\ wdone' = [wdone EXCEPT ![h] = Append(done, Failed(Head(q)))]

Wrote(h, q, done, g, m) == \E k \in 0 .. Head(q).len : WroteBytes(h, q, done, g, m, k)

LEMMA NoBytes ==
    ASSUME WriteTypeOK, NEW h \in Handle
    PROVE  /\ \A r, g, m : Bytes(r, 0, g, m) = <<>>
           /\ out = [out EXCEPT ![h] = @ \o <<>>]
<1>1. \A r, g, m : Bytes(r, 0, g, m) = <<>>
  BY DEF Bytes
<1>2. out \in [Handle -> Seq(Handle \X Nat)]
  BY DEF WriteTypeOK
<1>3. out[h] \o <<>> = out[h]
  BY <1>2
<1> QED BY <1>1, <1>2, <1>3

LEMMA WholePart == ASSUME NEW r \in WriteReq PROVE Part(r, 0) = r
<1>1. r.off + 0 = r.off /\ r.len - 0 = r.len
  BY DEF WriteReq
<1>2. Part(r, 0) = [r EXCEPT !.off = r.off, !.len = r.len]
  BY <1>1 DEF Part, WriteReq
<1> QED BY <1>2 DEF WriteReq

LEMMA NothingWritten ==
    ASSUME WriteTypeOK, NEW h \in Handle, NEW q \in Seq(WriteReq), q # <<>>,
           NEW done, NEW g, NEW m, UNCHANGED <<out, brk>>,
           wq' = [wq EXCEPT ![h] = q], wdone' = [wdone EXCEPT ![h] = done]
    PROVE  Wrote(h, q, done, g, m)
<1>1. Head(q) \in WriteReq /\ Tail(q) \in Seq(WriteReq) /\ q = <<Head(q)>> \o Tail(q)
  OBVIOUS
<1>2. 0 \in 0 .. Head(q).len /\ Part(Head(q), 0) = Head(q)
  BY <1>1, WholePart DEF WriteReq
<1>0. UNCHANGED out /\ UNCHANGED brk
  OBVIOUS
<1>3. out' = [out EXCEPT ![h] = @ \o Bytes(Head(q), 0, g, m)]
  <2>1. Bytes(Head(q), 0, g, m) = <<>> /\ out = [out EXCEPT ![h] = @ \o <<>>]
    BY NoBytes
  <2> QED BY <1>0, <2>1
<1>4. wq' = [wq EXCEPT ![h] = <<Part(Head(q), 0)>> \o Tail(q)]
  BY <1>1, <1>2
<1>5. WroteBytes(h, q, done, g, m, 0)
  <2>1. ~(0 > 0)
    OBVIOUS
  <2> QED BY <1>0, <1>3, <1>4, <2>1, Zenon DEF WroteBytes
<1> QED BY <1>2, <1>5, Zenon DEF Wrote

LEMMA Uv__WriteWrote ==
    ASSUME WriteTypeOK, NEW h \in Handle, NEW q \in Seq(WriteReq), q # <<>>,
           NEW done, NEW g, NEW m, Uv__Write(h, q, done, g, m)
    PROVE  Wrote(h, q, done, g, m)
<1>1. Head(q) \in WriteReq /\ Head(q).len \in Nat
  <2>1. Head(q) \in WriteReq
    OBVIOUS
  <2> QED BY <2>1 DEF WriteReq
<1>2. CASE WroteAll(h, q, done, g, m)
  <2>1. WroteBytes(h, q, done, g, m, Head(q).len)
    BY <1>2 DEF WroteAll, WroteBytes
  <2> QED BY <1>1, <2>1 DEF Wrote
<1>3. CASE WrotePart(h, q, done, g, m)
  <2>1. PICK n \in 0 .. Head(q).len - 1 :
          /\ out' = [out EXCEPT ![h] = @ \o Bytes(Head(q), n, g, m)]
          /\ wq' = [wq EXCEPT ![h] =
                      <<[Head(q) EXCEPT !.off = @ + n, !.len = @ - n]>> \o Tail(q)]
    BY <1>3 DEF WrotePart
  <2>2. ~brk[h] /\ UNCHANGED brk /\ wdone' = [wdone EXCEPT ![h] = done]
    BY <1>3 DEF WrotePart
  <2>4. n \in 0 .. Head(q).len /\ n < Head(q).len
    BY <1>1
  <2>3. WroteBytes(h, q, done, g, m, n)
    BY <2>1, <2>2, <2>4 DEF WroteBytes, Part
  <2> QED BY <2>3, <2>4 DEF Wrote
<1>4. CASE WriteFailed(h, q, done)
  <2>1. out' = [out EXCEPT ![h] = @ \o Bytes(Head(q), 0, g, m)]
    <3>1. UNCHANGED out
      BY <1>4 DEF WriteFailed
    <3>2. Bytes(Head(q), 0, g, m) = <<>> /\ out = [out EXCEPT ![h] = @ \o <<>>]
      BY NoBytes
    <3> QED BY <3>1, <3>2
  <2>2. WroteBytes(h, q, done, g, m, 0)
    BY <1>4, <2>1 DEF WriteFailed, WroteBytes, Failed
  <2> QED BY <1>1, <2>2 DEF Wrote
<1>5. CASE WriteKills(h, q, done)
  BY <1>5, NothingWritten DEF WriteKills
<1> QED BY <1>2, <1>3, <1>4, <1>5 DEF Uv__Write

(* uv_write puts its request behind the queue, whether it writes or not. *)
LEMMA UvWriteWrote ==
    ASSUME WriteTypeOK, NEW h \in Handle, NEW req \in WriteReq, NEW q \in Seq(WriteReq),
           NEW done, NEW g, NEW m, UvWrite(h, req, q, done, g, m)
    PROVE  Wrote(h, Append(q, req), done, g, m)
<1>1. Append(q, req) \in Seq(WriteReq) /\ Append(q, req) # <<>>
  <2>1. Append(q, req) \in Seq(WriteReq)
    OBVIOUS
  <2> QED BY <2>1, AppendNotEmpty
<1> HIDE DEF Wrote
<1> QED BY <1>1, Uv__WriteWrote, NothingWritten DEF UvWrite

LEMMA UvCloseType ==
    ASSUME UvTypeOK, NEW h \in Handle, UvClose(h), HeapTypeOK' PROVE UvTypeOK'
<1>1. Unfed(batch, h) \in Seq(Handle) /\ Unfed(feed, h) \in Seq(Handle)
  BY UnfedType DEF UvTypeOK
<1>2. WriteTypeOK'
  BY <1>1 DEF UvClose, UvTypeOK, WriteTypeOK
<1>3. LoopTypeOK' /\ (hs \in [Handle -> HandleState])'
  BY <1>1 DEF UvClose, UvTypeOK, LoopTypeOK, StageLists, HandleState
<1>4. WriteTypeOK' /\ LoopTypeOK' /\ HeapTypeOK' /\ (hs \in [Handle -> HandleState])'
  BY <1>2, <1>3
<1> QED BY <1>4 DEF UvTypeOK, WriteTypeOK, LoopTypeOK, HeapTypeOK

(* The stages of the current event go on or the event is dealt with. *)
LEMMA NextStageType ==
    ASSUME LoopTypeOK, NEW t, NextStage(t), t = todo \/ (t = Tail(todo) /\ todo # <<>>),
           UNCHANGED <<phase, batch, served>>
    PROVE  LoopTypeOK'
BY TailOfStages DEF NextStage, LoopTypeOK

LEMMA CrashType ==
    ASSUME UvTypeOK, NEW site, Crash(site) PROVE UvTypeOK'
BY DEF Crash, UvTypeOK, loopVars, streamVars, heapVars

LEMMA LoopTurnType == ASSUME UvTypeOK, LoopTurn PROVE UvTypeOK'
<1>1. CASE RunPending
  <2>1. Tail(batch) \in Seq(Handle) /\ Head(batch) \in Handle
    BY <1>1 DEF RunPending, UvTypeOK
  <2> QED BY <1>1, <2>1 DEF RunPending, UvTypeOK, StageLists, streamVars, heapVars
<1>2. CASE PendingDone
  BY <1>2 DEF PendingDone, UvTypeOK, heapVars
<1>3. CASE PollDone
  BY <1>3 DEF PollDone, UvTypeOK, streamVars, heapVars
<1>5. CASE ClosingDone
  BY <1>5 DEF ClosingDone, UvTypeOK, streamVars, heapVars
<1>4. ASSUME NEW h \in Handle, FinishClose(h) PROVE UvTypeOK'
  <2>1. Cancelled(wq[h]) \in Seq(WriteReq)
    <3>1. wq[h] \in Seq(WriteReq)
      BY DEF UvTypeOK
    <3>2. \A i \in DOMAIN wq[h] : [wq[h][i] EXCEPT !.err = TRUE] \in WriteReq
      <4>1. \A i \in DOMAIN wq[h] : wq[h][i] \in WriteReq
        BY <3>1
      <4> QED BY <4>1, ReqType
    <3>3. Cancelled(wq[h]) \in [1 .. Len(wq[h]) -> WriteReq]
      <4>1. DOMAIN wq[h] = 1 .. Len(wq[h])
        BY <3>1
      <4>2. Cancelled(wq[h]) \in [DOMAIN wq[h] -> WriteReq]
        BY <3>2, Zenon DEF Cancelled
      <4> QED BY <4>1, <4>2
    <3> QED BY <3>1, <3>3
  <2>2. wdone[h] \o Cancelled(wq[h]) \in Seq(WriteReq) /\ <<>> \in Seq(WriteReq)
    BY <2>1 DEF UvTypeOK
  <2>3. WriteTypeOK'
    BY <1>4, <2>2 DEF FinishClose, UvTypeOK, WriteTypeOK
  <2>4. LoopTypeOK' /\ HeapTypeOK' /\ (hs \in [Handle -> HandleState])'
    BY <1>4 DEF FinishClose, UvTypeOK, LoopTypeOK, HeapTypeOK, StageLists, HandleState, heapVars
  <2> QED BY <2>3, <2>4 DEF UvTypeOK, WriteTypeOK, LoopTypeOK, HeapTypeOK
<1> QED BY <1>1, <1>2, <1>3, <1>4, <1>5 DEF LoopTurn

LEMMA UvNextType == ASSUME UvTypeOK, UvNext PROVE UvTypeOK'
<1>1. CASE LoopTurn
  BY <1>1, LoopTurnType
<1>2. CASE WriteStage
  <2>1. LoopTypeOK'
    BY <1>2, NextStageType, UvTypeParts DEF WriteStage, InStage
  <2>2. WriteTypeOK'
    <3>1. CASE wq[cur] = <<>>
      BY <1>2, <3>1 DEF WriteStage, UvTypeOK, WriteTypeOK
    <3>2. CASE wq[cur] # <<>>
      <4>1. cur \in Handle /\ wq[cur] \in Seq(WriteReq) /\ wdone[cur] \in Seq(WriteReq)
            /\ Uv__Write(cur, wq[cur], wdone[cur], gen, mem)
        BY <1>2, <3>2 DEF WriteStage, InStage, UvTypeOK
      <4> QED BY <3>2, <4>1, Uv__WriteType, UvTypeParts DEF HeapTypeOK
    <3> QED BY <3>1, <3>2
  <2> QED BY <1>2, <2>1, <2>2
         DEF WriteStage, UvTypeOK, WriteTypeOK, LoopTypeOK, HeapTypeOK, heapVars
<1>3. CASE CallbacksDone
  <2>1. LoopTypeOK'
    BY <1>3, NextStageType, UvTypeParts DEF CallbacksDone, InStage
  <2> QED BY <1>3, <2>1 DEF CallbacksDone, UvTypeOK, LoopTypeOK, heapVars
<1>4. ASSUME NEW h \in Handle, PollEvent(h) PROVE UvTypeOK'
  <2>1. todo' \in StageLists
    BY <1>4 DEF PollEvent, EventStages, StageLists
  <2> QED BY <1>4, <2>1 DEF PollEvent, UvTypeOK, streamVars, heapVars
<1> QED BY <1>1, <1>2, <1>3, <1>4 DEF UvNext
=============================================================================
