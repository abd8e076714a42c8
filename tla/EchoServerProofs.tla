-------------------------- MODULE EchoServerProofs --------------------------
(* The answer of the echo server has the length and the order of what came, *)
(* and only what had to be queued can be lost, for any number of            *)
(* connections and any sizes.                                               *)
EXTENDS EchoServer, UvStreamProofs

(* The bytes of a queue, one request after the other: what a write, or a    *)
(* part of one, does to them.                                               *)
LEMMA InPlaceAppend ==
    ASSUME NEW q \in Seq(WriteReq), NEW r \in WriteReq, NEW o \in Nat, NEW n \in Nat,
           InPlace(q, o, n)
    PROVE  InPlace(Append(q, r), o, n + r.len)
<1>1. PICK ends \in [0 .. Len(q) -> 0 .. n] :
        /\ ends[0] = o /\ ends[Len(q)] = n
        /\ \A i \in 1 .. Len(q) : ends[i] = ends[i - 1] + q[i].len
  BY DEF InPlace
<1> DEFINE p == Append(q, r)
           new == [i \in 0 .. Len(p) |-> IF i <= Len(q) THEN ends[i] ELSE n + r.len]
<1>2. /\ Len(p) = Len(q) + 1 /\ Len(q) \in Nat /\ p[Len(q) + 1] = r
      /\ \A i \in 1 .. Len(q) : p[i] = q[i]
  OBVIOUS
<1>3. r.len \in Nat
  BY DEF WriteReq
<1> HIDE DEF p
<1>4. new \in [0 .. Len(p) -> 0 .. n + r.len]
  BY <1>1, <1>2, <1>3
<1>5. new[0] = o /\ new[Len(p)] = n + r.len
  BY <1>1, <1>2, <1>3
<1>6. ASSUME NEW i \in 1 .. Len(p) PROVE new[i] = new[i - 1] + p[i].len
  <2>1. CASE i <= Len(q)
    <3>1. i \in 1 .. Len(q) /\ i \in 0 .. Len(p) /\ i - 1 \in 0 .. Len(p) /\ i - 1 <= Len(q)
      BY <1>2, <2>1
    <3>2. new[i] = ends[i] /\ new[i - 1] = ends[i - 1]
      BY <3>1
    <3> QED BY <1>1, <1>2, <3>1, <3>2
  <2>2. CASE i = Len(q) + 1
    <3>1. i \in 0 .. Len(p) /\ i - 1 \in 0 .. Len(p) /\ i - 1 = Len(q) /\ ~(i <= Len(q))
      BY <1>2, <2>2
    <3>2. new[i] = n + r.len /\ new[i - 1] = n
      BY <1>1, <3>1
    <3> QED BY <1>2, <2>2, <3>2
  <2> QED BY <1>2, <2>1, <2>2
<1> HIDE DEF new
<1>7. InPlace(p, o, n + r.len)
  BY <1>4, <1>5, <1>6 DEF InPlace
<1> QED BY <1>7 DEF p

LEMMA InPlaceTaken ==
    ASSUME NEW q \in Seq(WriteReq), q # <<>>, NEW o \in Nat, NEW n \in Nat,
           InPlace(q, o, n)
    PROVE  InPlace(Tail(q), o + Head(q).len, n)
<1>1. PICK ends \in [0 .. Len(q) -> 0 .. n] :
        /\ ends[0] = o /\ ends[Len(q)] = n
        /\ \A i \in 1 .. Len(q) : ends[i] = ends[i - 1] + q[i].len
  BY DEF InPlace
<1> DEFINE p == Tail(q)
           new == [i \in 0 .. Len(p) |-> ends[i + 1]]
<1>2. /\ Len(q) = Len(p) + 1 /\ Len(p) \in Nat /\ q[1] = Head(q)
      /\ \A i \in 1 .. Len(p) : p[i] = q[i + 1]
  OBVIOUS
<1> HIDE DEF p
<1>3. new \in [0 .. Len(p) -> 0 .. n]
  BY <1>1, <1>2
<1>4. new[0] = o + Head(q).len /\ new[Len(p)] = n
  <2>1. ends[1] = ends[0] + q[1].len
    <3>1. 1 \in 1 .. Len(q) /\ 1 - 1 = 0
      BY <1>2
    <3> QED BY <1>1, <3>1
  <2>2. new[0] = ends[1] /\ new[Len(p)] = ends[Len(q)]
    BY <1>2
  <2> QED BY <1>1, <1>2, <2>1, <2>2
<1>5. ASSUME NEW i \in 1 .. Len(p) PROVE new[i] = new[i - 1] + p[i].len
  <2>1. i + 1 \in 1 .. Len(q) /\ (i + 1) - 1 = i /\ (i - 1) + 1 = i
        /\ i \in 0 .. Len(p) /\ i - 1 \in 0 .. Len(p)
    BY <1>2
  <2>2. ends[i + 1] = ends[i] + q[i + 1].len
    BY <1>1, <2>1
  <2>3. new[i] = ends[i + 1] /\ new[i - 1] = ends[i]
    BY <2>1
  <2> QED BY <1>2, <2>2, <2>3
<1> HIDE DEF new
<1>6. InPlace(p, o + Head(q).len, n)
  BY <1>3, <1>4, <1>5 DEF InPlace
<1> QED BY <1>6 DEF p

LEMMA InPlacePart ==
    ASSUME NEW q \in Seq(WriteReq), q # <<>>, NEW o \in Nat, NEW n \in Nat,
           InPlace(q, o, n), NEW k \in 0 .. Head(q).len
    PROVE  InPlace(<<Part(Head(q), k)>> \o Tail(q), o + k, n)
<1>1. PICK ends \in [0 .. Len(q) -> 0 .. n] :
        /\ ends[0] = o /\ ends[Len(q)] = n
        /\ \A i \in 1 .. Len(q) : ends[i] = ends[i - 1] + q[i].len
  BY DEF InPlace
<1>0. Head(q) \in WriteReq /\ Tail(q) \in Seq(WriteReq)
  OBVIOUS
<1>00. Head(q).len \in Nat /\ Part(Head(q), k).len = Head(q).len - k
  BY <1>0 DEF WriteReq, Part
<1> DEFINE r == Part(Head(q), k)
           p == <<r>> \o Tail(q)
           new == [i \in 0 .. Len(p) |-> IF i = 0 THEN o + k ELSE ends[i]]
<1> HIDE DEF r
<1>2. /\ Len(q) = Len(p) /\ Len(q) \in Nat \ {0} /\ q[1] = Head(q) /\ p[1] = r
      /\ \A i \in 2 .. Len(q) : p[i] = q[i]
  BY <1>0
<1> HIDE DEF p
<1>3. ends[1] = o + Head(q).len
  <2>1. 1 \in 1 .. Len(q) /\ 1 - 1 = 0
    BY <1>2
  <2> QED BY <1>1, <1>2, <2>1
<1>4. new \in [0 .. Len(p) -> 0 .. n]
  <2>1. ends[1] \in 0 .. n
    BY <1>1, <1>2
  <2>2. o + k \in 0 .. n
    BY <1>00, <1>3, <2>1
  <2> QED BY <1>1, <1>2, <2>2
<1>5. new[0] = o + k /\ new[Len(p)] = n
  BY <1>1, <1>2
<1>6. ASSUME NEW i \in 1 .. Len(p) PROVE new[i] = new[i - 1] + p[i].len
  <2>1. CASE i = 1
    <3>1. new[1] = ends[1] /\ new[1 - 1] = o + k
      BY <1>2
    <3>2. p[1].len = Head(q).len - k
      BY <1>00, <1>2 DEF r
    <3> QED BY <1>00, <1>3, <2>1, <3>1, <3>2
  <2>2. CASE i \in 2 .. Len(q)
    <3>1. i \in 1 .. Len(q) /\ i # 0 /\ i - 1 # 0 /\ i \in 0 .. Len(p) /\ i - 1 \in 0 .. Len(p)
      BY <1>2, <2>2
    <3>2. new[i] = ends[i] /\ new[i - 1] = ends[i - 1]
      BY <3>1
    <3> QED BY <1>1, <1>2, <2>2, <3>1, <3>2
  <2> QED BY <1>2, <2>1, <2>2
<1> HIDE DEF new
<1>7. InPlace(p, o + k, n)
  BY <1>4, <1>5, <1>6 DEF InPlace
<1> QED BY <1>7 DEF p, r

-----------------------------------------------------------------------------
(* The invariant: the types; a queued request is for its own connection and *)
(* for a buffer that has been freed; what is read comes from an open one.   *)
FreedRequest(h, r) == r.src = h /\ r.gen < gen[h]

QueuedAreFreed == \A h \in Handle : \A i \in 1 .. Len(wq[h]) : FreedRequest(h, wq[h][i])

ReadsOpen ==
    cur # None /\ todo # <<>> /\ Head(todo) \in {"read", "eof"} => hs[cur] = "open"

Types == UvTypeOK /\ rd \in [Handle -> Nat]

Answered(h) == ~brk[h] /\ hs[h] # "closed" => InPlace(wq[h], Len(out[h]), rd[h])

Intact(h) == \A k \in DOMAIN out[h] : out[h][k] \in {<<h, k>>, <<h, 0>>}

IInv ==
    /\ Types /\ QueuedAreFreed /\ ReadsOpen
    /\ \A h \in Handle : Answered(h) /\ Intact(h)

LEMMA InitIInv == Init => IInv
<1> SUFFICES ASSUME Init PROVE IInv
  OBVIOUS
<1>1. UvTypeOK /\ Types
  BY UvInitType DEF Init, Types
<1>2. ASSUME NEW h \in Handle PROVE InPlace(<<>>, 0, 0)
  <2> DEFINE ends == [i \in 0 .. 0 |-> 0]
  <2>1. ends \in [0 .. Len(<<>>) -> 0 .. 0] /\ ends[0] = 0 /\ ends[Len(<<>>)] = 0
        /\ \A i \in 1 .. Len(<<>>) : ends[i] = ends[i - 1] + <<>>[i].len
    OBVIOUS
  <2> HIDE DEF ends
  <2> QED BY <2>1 DEF InPlace
<1>3. ASSUME NEW h \in Handle PROVE Answered(h) /\ Intact(h)
  <2>1. wq[h] = <<>> /\ Len(out[h]) = 0 /\ rd[h] = 0 /\ DOMAIN out[h] = {}
    BY DEF Init, UvInit
  <2>2. InPlace(wq[h], Len(out[h]), rd[h])
    BY <1>2, <2>1
  <2> QED BY <2>1, <2>2 DEF Answered, Intact
<1>4. QueuedAreFreed /\ ReadsOpen
  BY DEF QueuedAreFreed, ReadsOpen, Init, UvInit
<1> QED BY <1>1, <1>3, <1>4 DEF IInv

(* A write to h, its queue being q by then: the rest of the queue goes on   *)
(* where the bytes sent end.                                                *)
LEMMA WroteInPlace ==
    ASSUME WriteTypeOK, NEW h \in Handle, NEW q \in Seq(WriteReq), q # <<>>,
           NEW done, NEW g \in [Handle -> Nat], NEW m \in [Handle -> Seq(Nat)],
           NEW n \in Nat, NEW k \in 0 .. Head(q).len,
           WroteBytes(h, q, done, g, m, k), ~brk'[h], InPlace(q, Len(out[h]), n)
    PROVE  InPlace(wq'[h], Len(out'[h]), n)
<1>1. Head(q) \in WriteReq /\ Head(q).len \in Nat
  <2>1. Head(q) \in WriteReq
    OBVIOUS
  <2> QED BY <2>1 DEF WriteReq
<1>2. Len(out'[h]) = Len(out[h]) + k /\ Len(out[h]) \in Nat
  <2> DEFINE b == Bytes(Head(q), k, g, m)
  <2>0. k \in Nat
    BY <1>1
  <2>1. b \in Seq(Handle \X Nat)
    BY <1>1, <2>0, BytesType
  <2>2. DOMAIN b = 1 .. k
    BY DEF Bytes
  <2>3. out'[h] = out[h] \o b /\ out[h] \in Seq(Handle \X Nat)
    BY DEF WroteBytes, WriteTypeOK
  <2> HIDE DEF b
  <2> QED BY <2>0, <2>1, <2>2, <2>3
<1>3. CASE k = Head(q).len /\ wq' = [wq EXCEPT ![h] = Tail(q)]
  <2>1. InPlace(Tail(q), Len(out[h]) + Head(q).len, n)
    BY <1>2, InPlaceTaken
  <2>2. wq'[h] = Tail(q)
    BY <1>3 DEF WriteTypeOK
  <2> QED BY <1>2, <1>3, <2>1, <2>2
<1>4. CASE wq' = [wq EXCEPT ![h] = <<Part(Head(q), k)>> \o Tail(q)]
  <2>1. InPlace(<<Part(Head(q), k)>> \o Tail(q), Len(out[h]) + k, n)
    BY <1>2, InPlacePart
  <2>2. wq'[h] = <<Part(Head(q), k)>> \o Tail(q)
    BY <1>4 DEF WriteTypeOK
  <2> QED BY <1>2, <2>1, <2>2
<1>5. CASE brk' = [brk EXCEPT ![h] = TRUE]
  BY <1>5 DEF WriteTypeOK
<1> QED BY <1>3, <1>4, <1>5 DEF WroteBytes

(* What stays queued after a write was queued before, for the same buffer.  *)
LEMMA WroteQueue ==
    ASSUME WriteTypeOK, NEW h \in Handle, NEW q \in Seq(WriteReq), q # <<>>,
           NEW done, NEW g, NEW m, NEW k \in 0 .. Head(q).len,
           WroteBytes(h, q, done, g, m, k)
    PROVE  /\ \A c \in Handle : c # h => wq'[c] = wq[c] /\ out'[c] = out[c] /\ brk'[c] = brk[c]
           /\ \A i \in 1 .. Len(wq'[h]) :
                \E j \in 1 .. Len(q) : wq'[h][i].src = q[j].src /\ wq'[h][i].gen = q[j].gen
<1>1. Head(q) \in WriteReq /\ Tail(q) \in Seq(WriteReq) /\ q[1] = Head(q)
      /\ Len(q) = Len(Tail(q)) + 1 /\ \A i \in 1 .. Len(Tail(q)) : Tail(q)[i] = q[i + 1]
  OBVIOUS
<1>2. \A c \in Handle : c # h => wq'[c] = wq[c] /\ out'[c] = out[c] /\ brk'[c] = brk[c]
  BY DEF WroteBytes, WriteTypeOK
<1>3. wq'[h] = Tail(q) \/ wq'[h] = <<Part(Head(q), k)>> \o Tail(q)
  BY DEF WroteBytes, WriteTypeOK
<1>4. ASSUME NEW i \in 1 .. Len(wq'[h])
      PROVE  \E j \in 1 .. Len(q) : wq'[h][i].src = q[j].src /\ wq'[h][i].gen = q[j].gen
  <2>1. CASE wq'[h] = Tail(q)
    <3>1. i + 1 \in 1 .. Len(q) /\ wq'[h][i] = q[i + 1]
      BY <1>1, <2>1
    <3> QED BY <3>1
  <2>2. CASE wq'[h] = <<Part(Head(q), k)>> \o Tail(q)
    <3> DEFINE r == Part(Head(q), k)
    <3>1. r.src = q[1].src /\ r.gen = q[1].gen
      BY <1>1 DEF Part, WriteReq
    <3> HIDE DEF r
    <3>2. wq'[h][i] = IF i = 1 THEN r ELSE q[i]
      BY <1>1, <2>2 DEF r
    <3>3. i \in 1 .. Len(q) /\ 1 \in 1 .. Len(q)
      BY <1>1, <2>2
    <3> QED BY <3>1, <3>2, <3>3
  <2> QED BY <1>3, <2>1, <2>2
<1> QED BY <1>2, <1>4

(* A write to h appends what it sends. *)
LEMMA WroteOut ==
    ASSUME WriteTypeOK, NEW h \in Handle, NEW q \in Seq(WriteReq), q # <<>>,
           NEW done, NEW g \in [Handle -> Nat], NEW m \in [Handle -> Seq(Nat)],
           NEW k \in 0 .. Head(q).len, WroteBytes(h, q, done, g, m, k)
    PROVE  LET b == Bytes(Head(q), k, g, m)
           IN  /\ Len(out'[h]) = Len(out[h]) + k /\ k \in Nat
               /\ \A i \in 1 .. Len(out'[h]) :
                     out'[h][i] = IF i <= Len(out[h]) THEN out[h][i] ELSE b[i - Len(out[h])]
               /\ \A i \in 1 .. Len(out'[h]) : i > Len(out[h]) => i - Len(out[h]) \in 1 .. k
<1> DEFINE b == Bytes(Head(q), k, g, m)
<1>1. Head(q) \in WriteReq
  OBVIOUS
<1>2. k \in Nat
  BY <1>1 DEF WriteReq
<1>3. b \in Seq(Handle \X Nat)
  BY <1>1, <1>2, BytesType
<1>4. DOMAIN b = 1 .. k
  BY DEF Bytes
<1>5. out'[h] = out[h] \o b /\ out[h] \in Seq(Handle \X Nat)
  BY DEF WroteBytes, WriteTypeOK
<1> HIDE DEF b
<1>6. Len(b) = k
  BY <1>2, <1>3, <1>4
<1>7. ASSUME NEW c \in Seq(Handle \X Nat), NEW d, d = c \o b
      PROVE  /\ Len(d) = Len(c) + k
             /\ \A i \in 1 .. Len(d) : d[i] = IF i <= Len(c) THEN c[i] ELSE b[i - Len(c)]
             /\ \A i \in 1 .. Len(d) : i > Len(c) => i - Len(c) \in 1 .. k
  BY <1>2, <1>3, <1>6, <1>7
<1> QED BY <1>2, <1>5, <1>7 DEF b

(* A read on h: its bytes are written at once, and then they are intact, or *)
(* queued.                                                                  *)
LEMMA ReadIInv ==
    ASSUME IInv, NEW h \in Handle, EchoRead(h)
    PROVE  /\ IInv'
           /\ \A c \in Handle : c # h => out'[c] = out[c]
           /\ wq[h] = <<>> =>
                \A i \in DOMAIN out'[h] : i > Len(out[h]) => out'[h][i] # <<h, 0>>
<1>1. PICK n \in 1 .. ReadMax :
        /\ rd' = [rd EXCEPT ![h] = @ + n]
        /\ UvWrite(h, Reply(h, n), wq[h], wdone[h],
                   [gen EXCEPT ![h] = @ + 1],
                   [mem EXCEPT ![h] = [i \in 1 .. n |-> rd[h] + i]])
        /\ gen' = [gen EXCEPT ![h] = @ + 2]
        /\ NextStage(AfterRead(n))
  BY DEF EchoRead
<1> DEFINE r == Reply(h, n)
           q == Append(wq[h], r)
           g == [gen EXCEPT ![h] = @ + 1]
           m == [mem EXCEPT ![h] = [i \in 1 .. n |-> rd[h] + i]]
<1>2. /\ Types /\ UvTypeOK /\ WriteTypeOK /\ LoopTypeOK /\ HeapTypeOK /\ n \in Nat \ {0}
      /\ hs \in [Handle -> HandleState] /\ rd \in [Handle -> Nat]
  BY UvTypeParts, NoneAssumption DEF IInv, Types
<1>3. /\ UNCHANGED <<phase, batch, served, hs, mem>> /\ cur = h /\ todo # <<>>
      /\ Head(todo) = "read" /\ hs[h] = "open"
  BY DEF EchoRead, InStage, IInv, ReadsOpen
<1>4. r \in WriteReq /\ r.len = n /\ r.off = 0 /\ r.src = h /\ r.gen = gen[h] + 1
  BY <1>2 DEF Reply, WriteReq, HeapTypeOK
<1>5. g \in [Handle -> Nat] /\ g[h] = gen[h] + 1
  BY <1>2 DEF HeapTypeOK
<1>6. m \in [Handle -> Seq(Nat)]
  <2> DEFINE new == [i \in 1 .. n |-> rd[h] + i]
  <2>1. new \in [1 .. n -> Nat]
    BY <1>2
  <2>2. new \in Seq(Nat)
    BY <1>2, <2>1
  <2> HIDE DEF new
  <2> QED BY <1>2, <2>2 DEF HeapTypeOK
<1>7. wq[h] \in Seq(WriteReq) /\ wdone[h] \in Seq(WriteReq)
  BY <1>2 DEF WriteTypeOK
<1>8. /\ q \in Seq(WriteReq) /\ q # <<>> /\ Len(q) = Len(wq[h]) + 1 /\ q[Len(q)] = r
      /\ Head(q) = q[1] /\ \A i \in 1 .. Len(wq[h]) : q[i] = wq[h][i]
  <2>1. q \in Seq(WriteReq) /\ Len(q) = Len(wq[h]) + 1 /\ q[Len(q)] = r
        /\ \A i \in 1 .. Len(wq[h]) : q[i] = wq[h][i]
    BY <1>4, <1>7
  <2>2. q # <<>>
    BY <1>4, <1>7, AppendNotEmpty
  <2>3. Head(q) = q[1]
    BY <2>1, <2>2
  <2> QED BY <2>1, <2>2, <2>3
<1>9. UvWrite(h, r, wq[h], wdone[h], g, m)
  BY <1>1
<1> HIDE DEF g, m, r
<1>10. Wrote(h, q, wdone[h], g, m)
  BY <1>2, <1>4, <1>5, <1>6, <1>7, <1>9, UvWriteWrote
<1> HIDE DEF q
<1>11. PICK k \in 0 .. Head(q).len : WroteBytes(h, q, wdone[h], g, m, k)
  BY <1>10 DEF Wrote
<1>12. Types'
  <2>1. WriteTypeOK'
    BY <1>2, <1>4, <1>5, <1>6, <1>7, <1>9, UvWriteType
  <2>2. LoopTypeOK'
    BY <1>1, <1>2, <1>3, NextStageType DEF AfterRead
  <2>3. gen' = [gen EXCEPT ![h] = @ + 2] /\ mem' = mem
    BY <1>1, <1>3
  <2>4. HeapTypeOK'
    BY <1>2, <2>3 DEF HeapTypeOK
  <2>5. (rd \in [Handle -> Nat])' /\ (hs \in [Handle -> HandleState])'
    BY <1>1, <1>2, <1>3
  <2>6. UvTypeOK'
    BY <2>1, <2>2, <2>4, <2>5 DEF UvTypeOK, WriteTypeOK, LoopTypeOK, HeapTypeOK
  <2> QED BY <2>5, <2>6 DEF Types
<1>13. /\ gen'[h] = gen[h] + 2 /\ gen[h] \in Nat /\ rd'[h] = rd[h] + n /\ rd[h] \in Nat
       /\ \A c \in Handle : c # h => gen'[c] = gen[c] /\ rd'[c] = rd[c]
  BY <1>1, <1>2 DEF HeapTypeOK
<1>14. /\ \A c \in Handle : c # h => wq'[c] = wq[c] /\ out'[c] = out[c] /\ brk'[c] = brk[c]
       /\ \A i \in 1 .. Len(wq'[h]) :
            \E j \in 1 .. Len(q) : wq'[h][i].src = q[j].src /\ wq'[h][i].gen = q[j].gen
  BY <1>2, <1>8, <1>11, WroteQueue
<1>15. \A j \in 1 .. Len(q) : q[j].src = h /\ q[j].gen <= gen[h] + 1
  <2> SUFFICES ASSUME NEW j \in 1 .. Len(q) PROVE q[j].src = h /\ q[j].gen <= gen[h] + 1
    OBVIOUS
  <2>1. CASE j = Len(q)
    BY <1>4, <1>8, <1>13, <2>1
  <2>2. CASE j \in 1 .. Len(wq[h])
    <3>1. FreedRequest(h, wq[h][j])
      BY <2>2 DEF IInv, QueuedAreFreed
    <3>2. wq[h][j] \in WriteReq
      BY <1>7, <2>2
    <3>3. wq[h][j].gen \in Nat
      BY <3>2 DEF WriteReq
    <3>4. wq[h][j].src = h /\ wq[h][j].gen < gen[h]
      BY <3>1 DEF FreedRequest
    <3>5. q[j] = wq[h][j]
      BY <1>8, <2>2
    <3> QED BY <1>13, <3>3, <3>4, <3>5
  <2> QED BY <1>7, <1>8, <2>1, <2>2
<1>16. QueuedAreFreed'
  <2> SUFFICES ASSUME NEW c \in Handle, NEW i \in 1 .. Len(wq'[c])
               PROVE  wq'[c][i].src = c /\ wq'[c][i].gen < gen'[c]
    BY DEF QueuedAreFreed, FreedRequest
  <2>1. CASE c # h
    BY <1>13, <1>14, <2>1 DEF IInv, QueuedAreFreed, FreedRequest
  <2>2. CASE c = h
    <3>1. PICK j \in 1 .. Len(q) : wq'[h][i].src = q[j].src /\ wq'[h][i].gen = q[j].gen
      BY <1>14, <2>2
    <3>2. q[j] \in WriteReq
      BY <1>8
    <3>3. q[j].gen \in Nat /\ q[j].src = h /\ q[j].gen <= gen[h] + 1
      BY <1>15, <3>2 DEF WriteReq
    <3> QED BY <1>13, <2>2, <3>1, <3>3
  <2> QED BY <2>1, <2>2
<1>17. ReadsOpen'
  <2>1. todo' = todo \/ (todo' = Tail(todo) /\ todo # <<>>)
    BY <1>1, <1>3 DEF NextStage, AfterRead
  <2>2. cur' \in {cur, None}
    BY <1>1 DEF NextStage
  <2> QED BY <1>3, <2>2 DEF ReadsOpen
<1>18. Answered(h)'
  <2> SUFFICES ASSUME ~brk'[h] PROVE InPlace(wq'[h], Len(out'[h]), rd'[h])
    BY DEF Answered
  <2>1. ~brk[h]
    BY <1>2, <1>11 DEF WroteBytes, WriteTypeOK
  <2>2. InPlace(wq[h], Len(out[h]), rd[h])
    BY <1>3, <2>1 DEF IInv, Answered
  <2>3. Len(out[h]) \in Nat
    BY <1>2 DEF WriteTypeOK
  <2>4. InPlace(q, Len(out[h]), rd[h] + n)
    BY <1>4, <1>7, <1>13, <2>2, <2>3, InPlaceAppend DEF q
  <2>5. rd[h] + n \in Nat
    BY <1>2, <1>13
  <2>6. InPlace(wq'[h], Len(out'[h]), rd[h] + n)
    BY <1>2, <1>5, <1>6, <1>8, <1>11, <2>4, <2>5, WroteInPlace
  <2> QED BY <1>13, <2>6
<1>19. /\ Intact(h)'
       /\ wq[h] = <<>> =>
            \A i \in DOMAIN out'[h] : i > Len(out[h]) => out'[h][i] # <<h, 0>>
  <2> DEFINE b == Bytes(Head(q), k, g, m)
  <2>1. /\ Len(out'[h]) = Len(out[h]) + k /\ k \in Nat
        /\ \A i \in 1 .. Len(out'[h]) :
               out'[h][i] = IF i <= Len(out[h]) THEN out[h][i] ELSE b[i - Len(out[h])]
        /\ \A i \in 1 .. Len(out'[h]) : i > Len(out[h]) => i - Len(out[h]) \in 1 .. k
    BY <1>2, <1>5, <1>6, <1>8, <1>11, WroteOut
  <2>2. out[h] \in Seq(Handle \X Nat) /\ out'[h] \in Seq(Handle \X Nat)
    BY <1>2, <1>12, UvTypeParts DEF WriteTypeOK, Types, UvTypeOK
  <2>20. ASSUME wq[h] = <<>> PROVE \A i \in 1 .. k : b[i] = <<h, rd[h] + i>>
    <3>1. Head(q) = r
      BY <1>7, <1>8, <2>20
    <3>2. k \in 0 .. n /\ Valid(r, g)
      BY <1>4, <1>5, <3>1 DEF Valid
    <3>3. DOMAIN m[h] = 1 .. n /\ \A i \in 1 .. n : m[h][i] = rd[h] + i
      BY <1>2 DEF m, HeapTypeOK
    <3>4. \A i \in 1 .. k : r.off + i = i /\ i \in 1 .. n
      BY <1>2, <1>4, <3>2
    <3>5. \A i \in 1 .. k : Bytes(r, k, g, m)[i] = <<h, rd[h] + i>>
      BY <1>4, <3>2, <3>3, <3>4 DEF Bytes
    <3> QED BY <3>1, <3>5
  <2>3. \A i \in 1 .. k : b[i] \in {<<h, Len(out[h]) + i>>, <<h, 0>>}
    <3>1. CASE wq[h] = <<>> /\ k > 0
      <4>3. \A i \in 1 .. k : b[i] = <<h, rd[h] + i>>
        BY <2>20, <3>1
      <4>4. Len(out[h]) = rd[h]
        <5>1. ~brk[h]
          BY <1>11, <3>1 DEF WroteBytes
        <5>2. InPlace(<<>>, Len(out[h]), rd[h])
          BY <1>3, <3>1, <5>1 DEF IInv, Answered
        <5> QED BY <5>2 DEF InPlace
      <4> QED BY <4>3, <4>4, <1>13
    <3>2. CASE wq[h] # <<>>
      <4>1. Len(wq[h]) > 0 /\ q[1] = wq[h][1] /\ wq[h][1] \in WriteReq
        BY <1>7, <1>8, <3>2
      <4>2. FreedRequest(h, Head(q)) /\ Head(q) \in WriteReq
        BY <1>8, <4>1 DEF IInv, QueuedAreFreed
      <4>3. Head(q).src = h /\ g[h] # Head(q).gen
        BY <1>5, <1>13, <4>2 DEF FreedRequest, WriteReq
      <4> DEFINE r1 == Head(q)
      <4> HIDE DEF r1
      <4>5. r1.src = h /\ g[h] # r1.gen
        BY <4>3 DEF r1
      <4>6. \A i \in 1 .. k : Bytes(r1, k, g, m)[i] = <<h, 0>>
        <5>1. ~Valid(r1, g)
          BY <4>5 DEF Valid
        <5> QED BY <4>5, <5>1 DEF Bytes
      <4>4. \A i \in 1 .. k : b[i] = <<h, 0>>
        BY <4>6 DEF r1
      <4> QED BY <4>4
    <3>3. CASE ~(k > 0)
      BY <2>1, <3>3
    <3> QED BY <3>1, <3>2, <3>3
  <2> HIDE DEF b
  <2>4. ASSUME NEW i \in DOMAIN out'[h] PROVE out'[h][i] \in {<<h, i>>, <<h, 0>>}
    <3>1. i \in 1 .. Len(out'[h]) /\ i \in Nat /\ Len(out[h]) \in Nat
      BY <2>2
    <3>2. CASE i <= Len(out[h])
      <4>1. i \in DOMAIN out[h] /\ out'[h][i] = out[h][i]
        BY <2>1, <2>2, <3>1, <3>2
      <4> QED BY <4>1 DEF IInv, Intact
    <3>3. CASE i > Len(out[h])
      <4> DEFINE x == i - Len(out[h])
      <4>2. out'[h][i] = b[x] /\ x \in 1 .. k
        <5>1. ~(i <= Len(out[h]))
          BY <3>1, <3>3
        <5> QED BY <2>1, <3>1, <3>3, <5>1
      <4>3. Len(out[h]) + x = i
        BY <3>1
      <4> HIDE DEF x
      <4>1. b[x] \in {<<h, Len(out[h]) + x>>, <<h, 0>>} /\ out'[h][i] = b[x]
            /\ Len(out[h]) + x = i
        BY <2>3, <4>2, <4>3
      <4> QED BY <4>1
    <3> QED BY <3>1, <3>2, <3>3
  <2>5. ASSUME wq[h] = <<>>, NEW i \in DOMAIN out'[h], i > Len(out[h])
        PROVE  out'[h][i] # <<h, 0>>
    <3>1. i \in 1 .. Len(out'[h]) /\ i \in Nat /\ Len(out[h]) \in Nat
      BY <2>2
    <3> DEFINE x == i - Len(out[h])
    <3>2. out'[h][i] = b[x] /\ x \in 1 .. k
      <4>1. ~(i <= Len(out[h]))
        BY <2>5, <3>1
      <4> QED BY <2>1, <2>5, <3>1, <4>1
    <3>3. rd[h] + x # 0
      BY <1>13, <3>2
    <3> HIDE DEF x
    <3>4. b[x] = <<h, rd[h] + x>>
      BY <2>5, <2>20, <3>2
    <3> QED BY <3>2, <3>3, <3>4
  <2> QED BY <2>4, <2>5 DEF Intact
<1>20. ASSUME NEW c \in Handle PROVE Answered(c)' /\ Intact(c)'
  <2>1. CASE c = h
    BY <1>18, <1>19, <2>1
  <2>2. CASE c # h
    BY <1>3, <1>13, <1>14, <2>2 DEF IInv, Answered, Intact
  <2> QED BY <2>1, <2>2
<1> QED BY <1>12, <1>14, <1>16, <1>17, <1>19, <1>20 DEF IInv

(* uv__write of the loop: what it sends was queued, and its buffer is gone. *)
LEMMA WriteStageIInv == ASSUME IInv, WriteStage, UNCHANGED rd PROVE IInv'
<1>1. /\ Types /\ UvTypeOK /\ WriteTypeOK /\ LoopTypeOK /\ HeapTypeOK
      /\ hs \in [Handle -> HandleState] /\ rd \in [Handle -> Nat]
  BY UvTypeParts DEF IInv, Types
<1>2. /\ todo # <<>> /\ NextStage(Tail(todo)) /\ cur \in Handle /\ Head(todo) = "write"
      /\ UNCHANGED <<phase, batch, served, hs, mem, gen>>
  BY <1>1 DEF WriteStage, InStage, heapVars, LoopTypeOK
<1>3. Types'
  BY <1>1, UvNextType DEF UvNext, Types
<1>4. ReadsOpen'
  <2>1. Tail(todo) # <<>> /\ Head(Tail(todo)) \in {"read", "eof"} => Head(todo) = "read"
    BY <1>1, <1>2, TailOfStages DEF LoopTypeOK
  <2>2. todo' = Tail(todo)
    BY <1>2 DEF NextStage
  <2> QED BY <1>2, <2>1, <2>2 DEF ReadsOpen
<1>5. CASE wq[cur] = <<>>
  <2>1. UNCHANGED <<wq, out, brk>>
    BY <1>5 DEF WriteStage
  <2>2. QueuedAreFreed' /\ \A h \in Handle : Answered(h)' /\ Intact(h)'
    BY <1>2, <2>1 DEF IInv, QueuedAreFreed, FreedRequest, Answered, Intact
  <2> QED BY <1>3, <1>4, <2>2 DEF IInv
<1>6. ASSUME NEW h \in Handle, h = cur, wq[h] # <<>> PROVE IInv'
  <2> DEFINE q == wq[h]
  <2>1. q \in Seq(WriteReq) /\ q # <<>>
    BY <1>1, <1>6 DEF WriteTypeOK
  <2>2. Uv__Write(h, q, wdone[h], gen, mem)
    BY <1>6 DEF WriteStage
  <2> HIDE DEF q
  <2>3. Wrote(h, q, wdone[h], gen, mem)
    BY <1>1, <2>1, <2>2, Uv__WriteWrote
  <2>4. PICK k \in 0 .. Head(q).len : WroteBytes(h, q, wdone[h], gen, mem, k)
    BY <2>3 DEF Wrote
  <2>5. gen \in [Handle -> Nat] /\ mem \in [Handle -> Seq(Nat)] /\ q = wq[h]
    BY <1>1 DEF HeapTypeOK, q
  <2>6. /\ \A c \in Handle : c # h => wq'[c] = wq[c] /\ out'[c] = out[c] /\ brk'[c] = brk[c]
        /\ \A i \in 1 .. Len(wq'[h]) :
             \E j \in 1 .. Len(q) : wq'[h][i].src = q[j].src /\ wq'[h][i].gen = q[j].gen
    BY <1>1, <2>1, <2>4, WroteQueue
  <2>7. \A j \in 1 .. Len(q) : FreedRequest(h, q[j])
    BY <2>1, <2>5 DEF IInv, QueuedAreFreed
  <2>8. QueuedAreFreed'
    <3> SUFFICES ASSUME NEW c \in Handle, NEW i \in 1 .. Len(wq'[c])
                 PROVE  wq'[c][i].src = c /\ wq'[c][i].gen < gen[c]
      BY <1>2 DEF QueuedAreFreed, FreedRequest
    <3>1. CASE c # h
      BY <2>6, <3>1 DEF IInv, QueuedAreFreed, FreedRequest
    <3>2. CASE c = h
      BY <2>6, <2>7, <3>2 DEF FreedRequest
    <3> QED BY <3>1, <3>2
  <2>9. Answered(h)'
    <3> SUFFICES ASSUME ~brk'[h], hs[h] # "closed" PROVE InPlace(wq'[h], Len(out'[h]), rd[h])
      BY <1>2, <2>1 DEF Answered
    <3>1. ~brk[h]
      BY <1>1, <2>1, <2>4 DEF WroteBytes, WriteTypeOK
    <3>2. InPlace(q, Len(out[h]), rd[h]) /\ rd[h] \in Nat
      BY <1>1, <2>1, <2>5, <3>1 DEF IInv, Answered
    <3> QED BY <1>1, <2>1, <2>4, <2>5, <3>2, WroteInPlace
  <2>10. Intact(h)'
    <3> DEFINE b == Bytes(Head(q), k, gen, mem)
    <3>1. /\ Len(out'[h]) = Len(out[h]) + k /\ k \in Nat
          /\ \A i \in 1 .. Len(out'[h]) :
                 out'[h][i] = IF i <= Len(out[h]) THEN out[h][i] ELSE b[i - Len(out[h])]
          /\ \A i \in 1 .. Len(out'[h]) : i > Len(out[h]) => i - Len(out[h]) \in 1 .. k
      <4>1. gen \in [Handle -> Nat] /\ mem \in [Handle -> Seq(Nat)]
        BY <2>5
      <4> QED BY <1>1, <2>1, <2>4, <4>1, WroteOut, Zenon
    <3>2. out[h] \in Seq(Handle \X Nat) /\ out'[h] \in Seq(Handle \X Nat)
      BY <1>1, <1>3, <2>1, UvTypeParts DEF WriteTypeOK, Types, UvTypeOK
    <3>3. \A i \in 1 .. k : b[i] = <<h, 0>>
      <4> DEFINE r == Head(q)
      <4>1. FreedRequest(h, r) /\ r \in WriteReq
        BY <2>1, <2>7
      <4> HIDE DEF r
      <4>2. r.src = h /\ gen[h] # r.gen
        BY <2>1, <2>5, <4>1 DEF FreedRequest, WriteReq
      <4>3. ~Valid(r, gen)
        BY <4>2 DEF Valid
      <4>4. \A i \in 1 .. k : Bytes(r, k, gen, mem)[i] = <<h, 0>>
        BY <4>2, <4>3 DEF Bytes
      <4> QED BY <4>4 DEF r
    <3> HIDE DEF b
    <3>4. ASSUME NEW i \in DOMAIN out'[h] PROVE out'[h][i] \in {<<h, i>>, <<h, 0>>}
      <4>1. i \in 1 .. Len(out'[h]) /\ i \in Nat /\ Len(out[h]) \in Nat
        BY <3>2
      <4>2. CASE i <= Len(out[h])
        <5>1. i \in DOMAIN out[h] /\ out'[h][i] = out[h][i]
          BY <3>1, <3>2, <4>1, <4>2
        <5> QED BY <2>1, <5>1 DEF IInv, Intact
      <4>3. CASE i > Len(out[h])
        <5> DEFINE x == i - Len(out[h])
        <5>1. out'[h][i] = b[x] /\ x \in 1 .. k
          <6>1. ~(i <= Len(out[h]))
            BY <4>1, <4>3
          <6> QED BY <3>1, <4>1, <4>3, <6>1
        <5> HIDE DEF x
        <5> QED BY <3>3, <5>1
      <4> QED BY <4>1, <4>2, <4>3
    <3> QED BY <3>4, <2>1 DEF Intact
  <2>11. ASSUME NEW c \in Handle PROVE Answered(c)' /\ Intact(c)'
    <3>1. CASE c = h
      BY <2>9, <2>10, <3>1
    <3>2. CASE c # h
      BY <1>2, <2>6, <3>2 DEF IInv, Answered, Intact
    <3> QED BY <3>1, <3>2
  <2> QED BY <1>3, <1>4, <2>8, <2>11 DEF IInv
<1> QED BY <1>2, <1>5, <1>6

(* A step that writes nothing and queues nothing. *)
LEMMA QuietIInv ==
    ASSUME IInv, UvTypeOK', UNCHANGED <<out, brk, gen, rd>>,
           \A h \in Handle : wq'[h] = wq[h] /\ hs'[h] # "closed" => hs[h] # "closed",
           \A h \in Handle : wq'[h] = wq[h] \/ (wq'[h] = <<>> /\ hs'[h] = "closed"),
           ReadsOpen'
    PROVE  IInv'
<1>1. QueuedAreFreed'
  BY DEF IInv, QueuedAreFreed, FreedRequest
<1>2. \A h \in Handle : Answered(h)' /\ Intact(h)'
  BY DEF IInv, Answered, Intact
<1> QED BY <1>1, <1>2 DEF IInv, Types

LEMMA NextIInv == IInv /\ [Next]_vars => IInv'
<1> SUFFICES ASSUME IInv, [Next]_vars PROVE IInv'
  OBVIOUS
<1>0. /\ UvTypeOK /\ WriteTypeOK /\ LoopTypeOK /\ HeapTypeOK /\ ReadsOpen
      /\ hs \in [Handle -> HandleState]
  BY UvTypeParts DEF IInv, Types
<1>1. ASSUME NEW h \in Handle, Accept(h) PROVE IInv'
  <2>1. /\ hs[h] = "unused" /\ hs' = [hs EXCEPT ![h] = "open"] /\ cur = None
        /\ served' = served \cup {h}
        /\ UNCHANGED <<phase, batch, feed, cur, todo, wq, wdone, pollout, brk, out, mem, gen, rd>>
    BY <1>1 DEF Accept, Idle, heapVars
  <2>2. UvTypeOK'
    BY <1>0, <2>1 DEF UvTypeOK, HandleState
  <2>3. ReadsOpen'
    BY <2>1 DEF ReadsOpen
  <2> QED BY <1>0, <2>1, <2>2, <2>3, QuietIInv
<1>2. ASSUME NEW h \in Handle, EchoRead(h) PROVE IInv'
  BY <1>2, ReadIInv
<1>3. ASSUME NEW h \in Handle, ReadAgain(h) PROVE IInv'
  <2>1. /\ todo # <<>> /\ NextStage(Tail(todo)) /\ Head(todo) = "read" /\ cur = h /\ hs[h] = "open"
        /\ UNCHANGED <<phase, batch, feed, served, hs, wq, wdone, pollout, brk, out, mem, gen, rd>>
    BY <1>0, <1>3 DEF ReadAgain, InStage, ReadsOpen, streamVars, heapVars
  <2>2. LoopTypeOK'
    BY <1>0, <2>1, NextStageType
  <2>3. UvTypeOK'
    BY <1>0, <2>1, <2>2 DEF UvTypeOK, LoopTypeOK
  <2>4. ReadsOpen'
    BY <2>1 DEF ReadsOpen, NextStage
  <2> QED BY <2>1, <2>3, <2>4, QuietIInv
<1>4. ASSUME NEW h \in Handle, ReadEnd(h) PROVE IInv'
  <2>1. UvClose(h) /\ UNCHANGED <<mem, gen, rd>> /\ hs[h] = "open"
    BY <1>0, <1>4 DEF ReadEnd, InStage, ReadsOpen, heapVars
  <2>2. HeapTypeOK'
    BY <1>0, <2>1 DEF HeapTypeOK
  <2>3. UvTypeOK'
    BY <1>0, <2>1, <2>2, UvCloseType
  <2>4. ReadsOpen' /\ UNCHANGED <<out, brk, wq>> /\ hs' = [hs EXCEPT ![h] = "closing"]
    BY <2>1 DEF ReadsOpen, UvClose
  <2> QED BY <1>0, <2>1, <2>3, <2>4, QuietIInv
<1>5. ASSUME NEW h \in Handle, EchoWrite(h) PROVE IInv'
  <2>1. /\ wdone' = [wdone EXCEPT ![h] = Tail(@)] /\ wdone[h] # <<>>
        /\ UNCHANGED <<phase, batch, feed, served, cur, todo, hs, wq, pollout, brk, out, mem, gen, rd>>
    BY <1>5 DEF EchoWrite, loopVars, heapVars
  <2>2. Tail(wdone[h]) \in Seq(WriteReq)
    BY <1>0, <2>1 DEF WriteTypeOK
  <2>3. UvTypeOK'
    BY <1>0, <2>1, <2>2 DEF UvTypeOK
  <2>4. ReadsOpen'
    BY <1>0, <2>1 DEF ReadsOpen
  <2> QED BY <2>1, <2>3, <2>4, QuietIInv
<1>6. CASE WriteStage /\ UNCHANGED rd
  BY <1>6, WriteStageIInv
<1>7. CASE UvNext /\ ~WriteStage /\ UNCHANGED rd
  <2>1. UvTypeOK'
    BY <1>0, <1>7, UvNextType
  <2>2. CASE CallbacksDone
    <3>1. /\ todo # <<>> /\ NextStage(Tail(todo)) /\ Head(todo) = "callbacks"
          /\ UNCHANGED <<hs, wq, brk, out, mem, gen, rd>>
      BY <1>7, <2>2 DEF CallbacksDone, InStage, heapVars
    <3>2. Tail(todo) # <<>> /\ Head(Tail(todo)) \in {"read", "eof"} => Head(todo) = "read"
      BY <1>0, <3>1, TailOfStages DEF LoopTypeOK
    <3>3. ReadsOpen'
      BY <3>1, <3>2 DEF ReadsOpen, NextStage
    <3> QED BY <2>1, <3>1, <3>3, QuietIInv
  <2>3. ASSUME NEW h \in Handle, PollEvent(h) PROVE IInv'
    <3>1. /\ UNCHANGED <<hs, wq, brk, out, mem, gen, rd>> /\ cur' = h
          /\ hs[h] = "open" \/ todo' = <<"connect">>
      BY <1>7, <2>3 DEF PollEvent, heapVars, streamVars
    <3>2. ReadsOpen'
      BY <3>1 DEF ReadsOpen
    <3> QED BY <2>1, <3>1, <3>2, QuietIInv
  <2>4. CASE RunPending
    <3>1. UNCHANGED <<hs, wq, brk, out, mem, gen, rd>>
      BY <1>7, <2>4 DEF RunPending, heapVars, streamVars
    <3>2. ReadsOpen'
      BY <2>4 DEF RunPending, ReadsOpen
    <3> QED BY <2>1, <3>1, <3>2, QuietIInv
  <2>5. CASE PendingDone \/ PollDone \/ ClosingDone
    <3>1. UNCHANGED <<cur, hs, wq, brk, out, mem, gen, rd>> /\ cur = None
      BY <1>7, <2>5 DEF PendingDone, PollDone, ClosingDone, Idle, heapVars, streamVars
    <3>2. ReadsOpen'
      BY <3>1 DEF ReadsOpen
    <3> QED BY <2>1, <3>1, <3>2, QuietIInv
  <2>6. ASSUME NEW h \in Handle, FinishClose(h) PROVE IInv'
    <3>1. /\ hs[h] = "closing" /\ hs' = [hs EXCEPT ![h] = "closed"]
          /\ wq' = [wq EXCEPT ![h] = <<>>] /\ cur = None
          /\ UNCHANGED <<brk, out, mem, gen, rd>>
          /\ (cur' = None \/ todo' = <<"callbacks">>)
      BY <1>7, <2>6 DEF FinishClose, Idle, heapVars
    <3>2. ReadsOpen'
      BY <3>1 DEF ReadsOpen
    <3>3. \A c \in Handle : wq'[c] = wq[c] \/ (wq'[c] = <<>> /\ hs'[c] = "closed")
      BY <1>0, <3>1 DEF WriteTypeOK
    <3>4. \A c \in Handle : wq'[c] = wq[c] /\ hs'[c] # "closed" => hs[c] # "closed"
      BY <1>0, <3>1
    <3>5. UNCHANGED <<out, brk, gen, rd>>
      BY <3>1
    <3> QED BY <2>1, <3>2, <3>3, <3>4, <3>5, QuietIInv
  <2> QED BY <1>7, <2>2, <2>3, <2>4, <2>5, <2>6 DEF UvNext, LoopTurn
<1>8. CASE UNCHANGED vars
  <2>1. UvTypeOK' /\ ReadsOpen' /\ UNCHANGED <<out, brk, gen, rd, wq, hs>>
    BY <1>0, <1>8 DEF vars, uvVars, UvTypeOK, ReadsOpen
  <2> QED BY <2>1, QuietIInv
<1> QED BY <1>1, <1>2, <1>3, <1>4, <1>5, <1>6, <1>7, <1>8 DEF Next

-----------------------------------------------------------------------------
(* What is queued for a connection goes on where what is sent ends, up to   *)
(* what came, and the k-th byte sent is the k-th that was read or has been  *)
(* lost, with any number of connections (server.c:126-134).                 *)
THEOREM EchoSafe == Spec => []EchoInPlace
<1>1. IInv => EchoInPlace
  BY DEF IInv, EchoInPlace, Answered, Intact
<1> QED BY <1>1, InitIInv, NextIInv, PTL DEF Spec

OnlyQueuedIsLost ==
    \A h \in Handle :
        LET new == {k \in DOMAIN out'[h] : k > Len(out[h]) /\ out'[h][k] = <<h, 0>>}
        IN  new # {} => wq[h] # <<>>

(* What the kernel takes inside echo_read is intact (server.c:128-134).     *)
THEOREM LostSafe == Spec => LostOnlyWhenQueued
<1>1. ASSUME IInv, [Next]_vars PROVE OnlyQueuedIsLost
  <2> SUFFICES ASSUME NEW h \in Handle, NEW k \in DOMAIN out'[h], k > Len(out[h]),
                      out'[h][k] = <<h, 0>>, wq[h] = <<>>
               PROVE  FALSE
    BY DEF OnlyQueuedIsLost
  <2>0. out \in [Handle -> Seq(Handle \X Nat)] /\ WriteTypeOK
    BY <1>1, UvTypeParts DEF IInv, Types, WriteTypeOK
  <2>1. out'[h] # out[h]
    <3>1. DOMAIN out[h] = 1 .. Len(out[h]) /\ Len(out[h]) \in Nat
      BY <2>0
    <3> QED BY <3>1
  <2>2. ASSUME NEW c \in Handle, EchoRead(c) PROVE FALSE
    <3>1. c = h
      BY <1>1, <2>1, <2>2, ReadIInv
    <3> QED BY <1>1, <2>2, <3>1, ReadIInv
  <2>3. CASE WriteStage
    <3>1. CASE wq[cur] = <<>>
      BY <2>1, <2>3, <3>1 DEF WriteStage
    <3>2. CASE wq[cur] # <<>>
      <4>1. cur # h /\ Uv__Write(cur, wq[cur], wdone[cur], gen, mem)
        BY <2>3, <3>2 DEF WriteStage
      <4>2. out'[h] = out[h]
        BY <2>0, <4>1 DEF Uv__Write, WroteAll, WrotePart, WriteFailed, WriteKills
      <4> QED BY <2>1, <4>2
    <3> QED BY <3>1, <3>2
  <2>4. out' = out \/ WriteStage \/ \E c \in Handle : EchoRead(c)
    BY <1>1 DEF Next, Accept, ReadAgain, ReadEnd, UvClose, EchoWrite, UvNext, LoopTurn, RunPending,
       PendingDone, PollDone, ClosingDone, FinishClose, CallbacksDone, PollEvent,
       streamVars, vars, uvVars
  <2> QED BY <2>1, <2>2, <2>3, <2>4
<1>2. IInv /\ [Next]_vars => [OnlyQueuedIsLost]_vars
  BY <1>1
<1>3. LostOnlyWhenQueued <=> [][OnlyQueuedIsLost]_vars
  BY PTL DEF LostOnlyWhenQueued, OnlyQueuedIsLost
<1> QED BY <1>2, <1>3, InitIInv, NextIInv, PTL DEF Spec
=============================================================================
