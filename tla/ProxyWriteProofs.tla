-------------------------- MODULE ProxyWriteProofs --------------------------
(* That the data of a stream are in one write at a time, as long as         *)
(* completions are credited where they belong, and what follows from it for *)
(* the bytes: those of a queued write stay as they are, every byte read is  *)
(* accounted for, and a stream gets those of another one in order.  For any *)
(* number of connections and any sizes.                                     *)
EXTENDS ProxyProofs, SequenceTheorems

-----------------------------------------------------------------------------
(* The requests of a stream, as far as this goes.                           *)

(* Whose bytes a request writes, None if there are none, and up to where. *)
Sum(r) == [of |-> IF r.len = 0 THEN None ELSE r.src, end |-> r.off + r.len]

(* The i-th request of a stream with completed queue `done` and queue `q`.  *)
Req(q, done, i) == IF i <= Len(done) THEN done[i] ELSE q[i - Len(done)]

Sums(q, done) == [i \in 1 .. Len(done) + Len(q) |-> Sum(Req(q, done, i))]

M(x)     == Sums(wq[x], wdone[x])
MNext(x) == Sums(wq'[x], wdone'[x])

LEMMA SumsEqual ==
    ASSUME NEW q, NEW done, NEW p, NEW d,
           Len(done) + Len(q) = Len(d) + Len(p),
           \A i \in 1 .. Len(done) + Len(q) : Sum(Req(q, done, i)) = Sum(Req(p, d, i))
    PROVE  Sums(q, done) = Sums(p, d)
BY DEF Sums

LEMMA SumParts ==
    ASSUME NEW r \in WriteReq
    PROVE  /\ Sum(Failed(r)) = Sum(r)
           /\ \A n \in 0 .. r.len - 1 : Sum(Part(r, n)) = Sum(r)
<1>1. r.off \in Nat /\ r.len \in Nat
  BY DEF WriteReq
<1>2. Failed(r).src = r.src /\ Failed(r).off = r.off /\ Failed(r).len = r.len
  BY DEF Failed, WriteReq
<1>3. ASSUME NEW n \in 0 .. r.len - 1 PROVE Sum(Part(r, n)) = Sum(r)
  <2>1. n \in Nat /\ n < r.len
    BY <1>1
  <2>2. /\ Part(r, n).src = r.src /\ Part(r, n).off = r.off + n /\ Part(r, n).len = r.len - n
    BY DEF Part, WriteReq
  <2> QED BY <1>1, <2>1, <2>2 DEF Sum
<1> QED BY <1>2, <1>3 DEF Sum

LEMMA TailElements ==
    ASSUME NEW q \in Seq(WriteReq), q # <<>>
    PROVE  /\ Len(q) \in Nat \ {0} /\ Len(Tail(q)) = Len(q) - 1 /\ Head(q) = q[1]
           /\ Head(q) \in WriteReq /\ Tail(q) \in Seq(WriteReq)
           /\ \A i \in 1 .. Len(q) - 1 : Tail(q)[i] = q[i + 1]
OBVIOUS

LEMMA AppendElements ==
    ASSUME NEW q \in Seq(WriteReq), NEW r \in WriteReq
    PROVE  /\ Append(q, r) \in Seq(WriteReq)
           /\ Len(q) \in Nat /\ Len(Append(q, r)) = Len(q) + 1
           /\ Append(q, r)[Len(q) + 1] = r
           /\ \A i \in 1 .. Len(q) : Append(q, r)[i] = q[i]
OBVIOUS

(* Moving the first request to the completed ones, as it is or failed. *)
LEMMA MovedSums ==
    ASSUME NEW q \in Seq(WriteReq), q # <<>>, NEW done \in Seq(WriteReq),
           NEW r \in WriteReq, Sum(r) = Sum(Head(q))
    PROVE  Sums(Tail(q), Append(done, r)) = Sums(q, done)
<1> DEFINE a == Append(done, r)
           t == Tail(q)
           n == Len(done)
<1>1. /\ n \in Nat /\ Len(a) = n + 1 /\ a[n + 1] = r
      /\ \A i \in 1 .. n : a[i] = done[i]
  BY AppendElements
<1>2. /\ Len(q) \in Nat \ {0} /\ Len(t) = Len(q) - 1 /\ Head(q) = q[1]
      /\ \A i \in 1 .. Len(q) - 1 : t[i] = q[i + 1]
  BY TailElements
<1> HIDE DEF a, t, n
<1>3. ASSUME NEW i \in 1 .. Len(a) + Len(t)
      PROVE  Sum(Req(t, a, i)) = Sum(Req(q, done, i))
  <2>1. CASE i <= n
    BY <1>1, <1>2, <2>1 DEF Req, n
  <2>2. CASE i = n + 1
    <3>1. Req(t, a, i) = r
      BY <1>1, <2>2 DEF Req
    <3>2. Req(q, done, i) = q[1]
      BY <1>1, <2>2 DEF Req, n
    <3> QED BY <1>2, <3>1, <3>2
  <2>3. CASE i > n + 1
    <3>1. /\ i \in Nat /\ i - (n + 1) \in 1 .. Len(q) - 1 /\ (i - (n + 1)) + 1 = i - n
      BY <1>1, <1>2, <2>3
    <3>2. Req(t, a, i) = t[i - (n + 1)]
      BY <1>1, <2>3 DEF Req
    <3>3. Req(q, done, i) = q[i - n]
      BY <1>1, <2>3, <3>1 DEF Req, n
    <3>4. t[i - (n + 1)] = q[i - n]
      BY <1>2, <3>1
    <3> QED BY <3>2, <3>3, <3>4
  <2> QED BY <1>1, <1>2, <2>1, <2>2, <2>3
<1>4. Len(a) + Len(t) = Len(done) + Len(q)
  BY <1>1, <1>2 DEF n
<1>5. \A i \in 1 .. Len(a) + Len(t) : Sum(Req(t, a, i)) = Sum(Req(q, done, i))
  BY <1>3
<1>6. Sums(t, a) = Sums(q, done)
  BY <1>4, <1>5, SumsEqual
<1> QED BY <1>6 DEF a, t

(* Writing a part of the first request. *)
LEMMA PartSums ==
    ASSUME NEW q \in Seq(WriteReq), q # <<>>, NEW done \in Seq(WriteReq),
           NEW r \in WriteReq, Sum(r) = Sum(Head(q))
    PROVE  Sums(<<r>> \o Tail(q), done) = Sums(q, done)
<1> DEFINE p == <<r>> \o Tail(q)
           n == Len(done)
<1>1. /\ Len(q) \in Nat \ {0} /\ Len(Tail(q)) = Len(q) - 1 /\ Head(q) = q[1]
      /\ Tail(q) \in Seq(WriteReq)
      /\ \A i \in 1 .. Len(q) - 1 : Tail(q)[i] = q[i + 1]
  BY TailElements
<1>2. /\ Len(p) = Len(q) /\ p[1] = r
      /\ \A i \in 2 .. Len(q) : p[i] = Tail(q)[i - 1]
  BY <1>1
<1>3. n \in Nat
  OBVIOUS
<1> HIDE DEF p, n
<1>4. \A j \in 1 .. Len(q) : Sum(p[j]) = Sum(q[j])
  <2> SUFFICES ASSUME NEW j \in 1 .. Len(q) PROVE Sum(p[j]) = Sum(q[j])
    OBVIOUS
  <2>1. CASE j = 1
    BY <1>1, <1>2, <2>1
  <2>2. CASE j # 1
    <3>1. j \in 2 .. Len(q) /\ j - 1 \in 1 .. Len(q) - 1 /\ (j - 1) + 1 = j
      BY <1>1, <2>2
    <3> QED BY <1>1, <1>2, <3>1
  <2> QED BY <2>1, <2>2
<1>5. ASSUME NEW i \in 1 .. n + Len(q) PROVE Sum(Req(p, done, i)) = Sum(Req(q, done, i))
  <2>1. CASE i <= n
    BY <2>1 DEF Req, n
  <2>2. CASE i > n
    <3>1. i - n \in 1 .. Len(q)
      BY <1>1, <1>3, <2>2
    <3>2. Req(p, done, i) = p[i - n] /\ Req(q, done, i) = q[i - n]
      BY <1>3, <2>2 DEF Req, n
    <3> QED BY <1>4, <3>1, <3>2
  <2> QED BY <1>3, <2>1, <2>2
<1>6. /\ Len(done) + Len(p) = Len(done) + Len(q)
      /\ \A i \in 1 .. Len(done) + Len(p) : Sum(Req(p, done, i)) = Sum(Req(q, done, i))
  BY <1>2, <1>5 DEF n
<1>7. Sums(p, done) = Sums(q, done)
  BY <1>6, SumsEqual
<1> QED BY <1>7 DEF p

LEMMA WriteSums ==
    ASSUME WriteTypeOK, NEW h \in Handle, NEW q \in Seq(WriteReq), q # <<>>,
           NEW done \in Seq(WriteReq), NEW g, NEW m, Uv__Write(h, q, done, g, m)
    PROVE  /\ MNext(h) = Sums(q, done)
           /\ \A x \in Handle : x # h => MNext(x) = M(x)
<1>1. Head(q) \in WriteReq /\ Failed(Head(q)) \in WriteReq
      /\ \A n \in 0 .. Head(q).len - 1 : Part(Head(q), n) \in WriteReq
  <2>1. Head(q) \in WriteReq
    BY TailElements
  <2> QED BY <2>1, ReqType DEF Failed, Part
<1>2. /\ Sum(Failed(Head(q))) = Sum(Head(q))
      /\ \A n \in 0 .. Head(q).len - 1 : Sum(Part(Head(q), n)) = Sum(Head(q))
  BY <1>1, SumParts
<1>3. wq \in [Handle -> Seq(WriteReq)] /\ wdone \in [Handle -> Seq(WriteReq)]
  BY DEF WriteTypeOK
<1>4. ASSUME NEW p, NEW d, wq' = [wq EXCEPT ![h] = p], wdone' = [wdone EXCEPT ![h] = d],
             Sums(p, d) = Sums(q, done)
      PROVE  /\ MNext(h) = Sums(q, done)
             /\ \A x \in Handle : x # h => MNext(x) = M(x)
  <2>1. wq'[h] = p /\ wdone'[h] = d
        /\ \A x \in Handle : x # h => wq'[x] = wq[x] /\ wdone'[x] = wdone[x]
    BY <1>3, <1>4
  <2> QED BY <1>4, <2>1 DEF M, MNext
<1>5. CASE WroteAll(h, q, done, g, m)
  <2>1. /\ wq' = [wq EXCEPT ![h] = Tail(q)]
        /\ wdone' = [wdone EXCEPT ![h] = Append(done, Head(q))]
    BY <1>5 DEF WroteAll
  <2>2. Sums(Tail(q), Append(done, Head(q))) = Sums(q, done)
    BY <1>1, MovedSums
  <2> QED BY <1>4, <2>1, <2>2
<1>6. CASE WrotePart(h, q, done, g, m)
  <2>1. PICK n \in 0 .. Head(q).len - 1 :
          wq' = [wq EXCEPT ![h] = <<Part(Head(q), n)>> \o Tail(q)]
    BY <1>6 DEF WrotePart, Part
  <2>2. wdone' = [wdone EXCEPT ![h] = done]
    BY <1>6 DEF WrotePart
  <2>3. Part(Head(q), n) \in WriteReq /\ Sum(Part(Head(q), n)) = Sum(Head(q))
    BY <1>1, <1>2
  <2>4. Sums(<<Part(Head(q), n)>> \o Tail(q), done) = Sums(q, done)
    BY <2>3, PartSums
  <2> QED BY <1>4, <2>1, <2>2, <2>4
<1>7. CASE WriteFailed(h, q, done)
  <2>1. /\ wq' = [wq EXCEPT ![h] = Tail(q)]
        /\ wdone' = [wdone EXCEPT ![h] = Append(done, Failed(Head(q)))]
    BY <1>7 DEF WriteFailed, Failed
  <2>2. Sums(Tail(q), Append(done, Failed(Head(q)))) = Sums(q, done)
    BY <1>1, <1>2, MovedSums
  <2> QED BY <1>4, <2>1, <2>2
<1>8. CASE WriteKills(h, q, done)
  <2>1. wq' = [wq EXCEPT ![h] = q] /\ wdone' = [wdone EXCEPT ![h] = done]
    BY <1>8 DEF WriteKills
  <2> QED BY <1>4, <2>1
<1> QED BY <1>5, <1>6, <1>7, <1>8 DEF Uv__Write

(* uv_write adds one request behind the others. *)
LEMMA UvWriteSums ==
    ASSUME WriteTypeOK, NEW h \in Handle, NEW q \in Seq(WriteReq), NEW req \in WriteReq,
           NEW done \in Seq(WriteReq), NEW g, NEW m, UvWrite(h, req, q, done, g, m)
    PROVE  /\ MNext(h) = Sums(Append(q, req), done)
           /\ \A x \in Handle : x # h => MNext(x) = M(x)
<1>1. Append(q, req) \in Seq(WriteReq) /\ Append(q, req) # <<>>
  BY AppendElements, AppendNotEmpty
<1>2. CASE WriteQueueSize(q, done) = 0
  BY <1>1, <1>2, WriteSums DEF UvWrite
<1>3. CASE WriteQueueSize(q, done) # 0
  <2>1. wq' = [wq EXCEPT ![h] = Append(q, req)] /\ wdone' = [wdone EXCEPT ![h] = done]
    BY <1>3 DEF UvWrite
  <2> QED BY <2>1 DEF WriteTypeOK, M, MNext
<1> QED BY <1>2, <1>3

(* A closed stream keeps its requests until their callbacks have run. *)
LEMMA CancelledSums ==
    ASSUME NEW q \in Seq(WriteReq), NEW done \in Seq(WriteReq)
    PROVE  Sums(<<>>, done \o Cancelled(q)) = Sums(q, done)
<1> DEFINE d == done \o Cancelled(q)
           n == Len(done)
<1>1. /\ Cancelled(q) \in Seq(WriteReq) /\ Len(Cancelled(q)) = Len(q) /\ Len(q) \in Nat
      /\ \A j \in 1 .. Len(q) : q[j] \in WriteReq /\ Cancelled(q)[j] = Failed(q[j])
  <2>1. Cancelled(q) \in Seq(WriteReq)
    <3>1. Closed(WriteReq, Handle)
      BY ReqType DEF Closed, WriteReq, Failed, Part
    <3> QED BY <3>1, CancelledWithin
  <2>2. DOMAIN q = 1 .. Len(q) /\ Len(q) \in Nat /\ \A j \in 1 .. Len(q) : q[j] \in WriteReq
    OBVIOUS
  <2>3. Cancelled(q) = [j \in 1 .. Len(q) |-> Failed(q[j])]
    BY <2>2 DEF Cancelled, Failed
  <2> QED BY <2>1, <2>2, <2>3
<1>2. /\ n \in Nat /\ Len(d) = n + Len(q)
      /\ \A i \in 1 .. n : d[i] = done[i]
      /\ \A i \in n + 1 .. n + Len(q) : d[i] = Cancelled(q)[i - n]
  <2> HIDE DEF Cancelled
  <2> QED BY <1>1
<1>3. Len(<<>>) = 0
  OBVIOUS
<1> HIDE DEF d, n
<1>4. ASSUME NEW i \in 1 .. n + Len(q) PROVE Sum(Req(<<>>, d, i)) = Sum(Req(q, done, i))
  <2>1. Req(<<>>, d, i) = d[i]
    BY <1>1, <1>2 DEF Req
  <2>2. CASE i <= n
    BY <1>2, <2>1, <2>2 DEF Req, n
  <2>3. CASE i > n
    <3>1. i - n \in 1 .. Len(q) /\ i \in n + 1 .. n + Len(q)
      BY <1>1, <1>2, <2>3
    <3>2. Req(q, done, i) = q[i - n]
      BY <1>2, <2>3 DEF Req, n
    <3>3. d[i] = Failed(q[i - n]) /\ q[i - n] \in WriteReq
      BY <1>1, <1>2, <3>1
    <3> QED BY <2>1, <3>2, <3>3, SumParts
  <2> QED BY <1>1, <1>2, <2>2, <2>3
<1>5. /\ Len(d) + Len(<<>>) = Len(done) + Len(q)
      /\ \A i \in 1 .. Len(d) + Len(<<>>) : Sum(Req(<<>>, d, i)) = Sum(Req(q, done, i))
  BY <1>1, <1>2, <1>3, <1>4 DEF n
<1>6. Sums(<<>>, d) = Sums(q, done)
  BY <1>5, SumsEqual
<1> QED BY <1>6 DEF d

Summary == [of : Handle \cup {None}, end : Nat]

LEMMA SumType == ASSUME NEW r \in WriteReq PROVE Sum(r) \in Summary
<1>1. r.src \in Handle /\ r.off \in Nat /\ r.len \in Nat
  BY DEF WriteReq
<1> QED BY <1>1 DEF Sum, Summary

LEMMA ReqElements ==
    ASSUME NEW T, NEW q \in Seq(T), NEW done \in Seq(T),
           NEW i \in 1 .. Len(done) + Len(q)
    PROVE  Req(q, done, i) \in T
<1>1. Len(done) \in Nat /\ Len(q) \in Nat /\ i \in Nat
  OBVIOUS
<1>2. CASE i <= Len(done)
  <2>1. i \in 1 .. Len(done)
    BY <1>1, <1>2
  <2> QED BY <1>2, <2>1 DEF Req
<1>3. CASE ~(i <= Len(done))
  <2>1. i - Len(done) \in 1 .. Len(q)
    BY <1>1, <1>3
  <2> QED BY <1>3, <2>1 DEF Req
<1> QED BY <1>2, <1>3

LEMMA SumsType ==
    ASSUME NEW q \in Seq(WriteReq), NEW done \in Seq(WriteReq)
    PROVE  /\ Sums(q, done) \in Seq(Summary) /\ Len(Sums(q, done)) = Len(done) + Len(q)
           /\ \A i \in 1 .. Len(done) + Len(q) : Sums(q, done)[i] = Sum(Req(q, done, i))
<1> DEFINE n == Len(done) + Len(q)
<1>1. n \in Nat
  OBVIOUS
<1>2. \A i \in 1 .. n : Sum(Req(q, done, i)) \in Summary
  BY ReqElements, SumType
<1>3. Sums(q, done) = [i \in 1 .. n |-> Sum(Req(q, done, i))]
  BY DEF Sums
<1> HIDE DEF n
<1>4. Sums(q, done) \in [1 .. n -> Summary]
  BY <1>2, <1>3
<1>5. Sums(q, done) \in Seq(Summary) /\ Len(Sums(q, done)) = n
  BY <1>1, <1>4
<1>6. \A i \in 1 .. n : Sums(q, done)[i] = Sum(Req(q, done, i))
  BY <1>3
<1> QED BY <1>5, <1>6 DEF n

(* Two sequences are equal when they have the same length and elements. *)
LEMMA SameSeq ==
    ASSUME NEW A, NEW s \in Seq(A), NEW t \in Seq(A), Len(s) = Len(t),
           \A i \in 1 .. Len(s) : s[i] = t[i]
    PROVE  s = t
OBVIOUS

LEMMA SumsAppend ==
    ASSUME NEW q \in Seq(WriteReq), NEW done \in Seq(WriteReq), NEW r \in WriteReq
    PROVE  Sums(Append(q, r), done) = Append(Sums(q, done), Sum(r))
<1> DEFINE p == Append(q, r)
           s == Sums(q, done)
           n == Len(done)
           k == Len(q)
<1>1. /\ p \in Seq(WriteReq) /\ k \in Nat /\ n \in Nat /\ Len(p) = k + 1 /\ p[k + 1] = r
      /\ \A i \in 1 .. k : p[i] = q[i]
  BY AppendElements
<1>2. /\ s \in Seq(Summary) /\ Len(s) = n + k
      /\ \A i \in 1 .. n + k : s[i] = Sum(Req(q, done, i))
  BY SumsType
<1>3. /\ Sums(p, done) \in Seq(Summary) /\ Len(Sums(p, done)) = n + (k + 1)
      /\ \A i \in 1 .. n + (k + 1) : Sums(p, done)[i] = Sum(Req(p, done, i))
  <2> HIDE DEF p
  <2> QED BY <1>1, SumsType
<1> HIDE DEF p, s, n, k
<1>4. /\ Append(s, Sum(r)) \in Seq(Summary) /\ Len(Append(s, Sum(r))) = n + (k + 1)
      /\ Append(s, Sum(r))[n + k + 1] = Sum(r)
      /\ \A i \in 1 .. n + k : Append(s, Sum(r))[i] = s[i]
  <2>1. Sum(r) \in Summary
    BY SumType
  <2> HIDE DEF Sum
  <2> QED BY <1>1, <1>2, <2>1
<1>5. ASSUME NEW i \in 1 .. n + (k + 1) PROVE Sums(p, done)[i] = Append(s, Sum(r))[i]
  <2>1. CASE i <= n
    <3>1. Req(p, done, i) = Req(q, done, i)
      BY <2>1 DEF Req, n
    <3>2. i \in 1 .. n + k
      BY <1>1, <2>1
    <3> QED BY <1>2, <1>3, <1>4, <3>1, <3>2
  <2>2. CASE i > n /\ i # n + k + 1
    <3>1. i \in 1 .. n + k /\ i - n \in 1 .. k
      BY <1>1, <2>2
    <3>2. Req(p, done, i) = p[i - n] /\ Req(q, done, i) = q[i - n]
      BY <1>1, <2>2 DEF Req, n
    <3> QED BY <1>1, <1>2, <1>3, <1>4, <3>1, <3>2
  <2>3. CASE i = n + k + 1
    <3>1. i - n = k + 1 /\ ~(i <= n)
      BY <1>1, <2>3
    <3>2. Req(p, done, i) = r
      BY <1>1, <3>1 DEF Req, n
    <3>3. Append(s, Sum(r))[i] = Sum(r)
      BY <1>4, <2>3
    <3>4. Sums(p, done)[i] = Sum(Req(p, done, i))
      BY <1>3
    <3> QED BY <3>2, <3>3, <3>4
  <2>4. n \in Nat /\ k \in Nat
    BY <1>1
  <2>5. i <= n \/ (i > n /\ i # n + k + 1) \/ i = n + k + 1
    BY <2>4
  <2> QED BY <2>1, <2>2, <2>3, <2>5
<1>6. Sums(p, done) = Append(s, Sum(r))
  BY <1>3, <1>4, <1>5, SameSeq
<1> QED BY <1>6 DEF p, s

LEMMA SumsTail ==
    ASSUME NEW q \in Seq(WriteReq), NEW done \in Seq(WriteReq), done # <<>>
    PROVE  /\ Sums(q, done) # <<>> /\ Sums(q, done)[1] = Sum(Head(done))
           /\ Sums(q, Tail(done)) = Tail(Sums(q, done))
<1> DEFINE t == Tail(done)
           s == Sums(q, done)
           n == Len(done)
           k == Len(q)
<1>1. /\ t \in Seq(WriteReq) /\ k \in Nat /\ n \in Nat \ {0} /\ Len(t) = n - 1
      /\ Head(done) = done[1] /\ \A i \in 1 .. n - 1 : t[i] = done[i + 1]
  BY TailElements
<1>2. /\ s \in Seq(Summary) /\ Len(s) = n + k
      /\ \A i \in 1 .. n + k : s[i] = Sum(Req(q, done, i))
  BY SumsType
<1>3. /\ Sums(q, t) \in Seq(Summary) /\ Len(Sums(q, t)) = (n - 1) + k
      /\ \A i \in 1 .. (n - 1) + k : Sums(q, t)[i] = Sum(Req(q, t, i))
  <2> HIDE DEF t
  <2> QED BY <1>1, SumsType
<1> HIDE DEF t, s, n, k
<1>4. s # <<>>
  <2>1. Len(s) # 0
    BY <1>1, <1>2
  <2> QED BY <2>1
<1>5. /\ Tail(s) \in Seq(Summary) /\ Len(Tail(s)) = (n - 1) + k
      /\ \A i \in 1 .. (n - 1) + k : Tail(s)[i] = s[i + 1]
  BY <1>1, <1>2, <1>4
<1>6. s[1] = Sum(Head(done))
  <2>1. 1 <= n /\ 1 \in 1 .. n + k
    BY <1>1
  <2>2. Req(q, done, 1) = done[1]
    BY <2>1 DEF Req, n
  <2> QED BY <1>1, <1>2, <2>1, <2>2
<1>7. ASSUME NEW i \in 1 .. (n - 1) + k PROVE Sums(q, t)[i] = Tail(s)[i]
  <2>1. i \in Nat /\ i + 1 \in 1 .. n + k
    BY <1>1
  <2>2. Req(q, t, i) = Req(q, done, i + 1)
    <3>1. CASE i <= n - 1
      <4>1. i \in 1 .. n - 1 /\ i + 1 <= n /\ i <= Len(t)
        BY <1>1, <3>1
      <4> QED BY <1>1, <4>1 DEF Req, n
    <3>2. CASE ~(i <= n - 1)
      <4>1. i - (n - 1) = (i + 1) - n /\ ~(i + 1 <= n) /\ ~(i <= Len(t)) /\ Len(t) = n - 1
        BY <1>1, <3>2
      <4>2. Req(q, t, i) = q[i - (n - 1)]
        BY <4>1 DEF Req
      <4>3. Req(q, done, i + 1) = q[(i + 1) - n]
        BY <4>1 DEF Req, n
      <4> QED BY <4>1, <4>2, <4>3
    <3> QED BY <3>1, <3>2
  <2> QED BY <1>2, <1>3, <1>5, <2>1, <2>2
<1>8. Sums(q, t) = Tail(s)
  BY <1>3, <1>5, <1>7, SameSeq
<1> QED BY <1>4, <1>6, <1>8 DEF s, t

-----------------------------------------------------------------------------
(* Sequences of such summaries, one for each stream.                        *)

Summaries == [Handle -> Seq(Summary)]

(* The places of the writes of bytes of h. *)
Mine(m, h) == {i \in 1 .. Len(m) : m[i].of = h}

EndAt(m, i) == m[i].end

(* The bytes of h are in at most one write. *)
AtMostOne(f, h) ==
    /\ \A x \in Handle : \A i, j \in Mine(f[x], h) : i = j
    /\ \A x, y \in Handle : x # y => Mine(f[x], h) = {} \/ Mine(f[y], h) = {}

(* There is one when the cursors p and l differ, and it ends at l. *)
Settled(f, h, p, l) ==
    /\ \A x \in Handle : \A i \in Mine(f[x], h) : EndAt(f[x], i) = l /\ p < l
    /\ p # l => \E x \in Handle : Mine(f[x], h) # {}

LEMMA MineAppend ==
    ASSUME NEW m \in Seq(Summary), NEW r \in Summary, NEW h
    PROVE  /\ Len(m) \in Nat
           /\ \A i \in 1 .. Len(m) : Append(m, r)[i] = m[i]
           /\ Append(m, r)[Len(m) + 1] = r
           /\ Mine(Append(m, r), h) = Mine(m, h) \cup (IF r.of = h THEN {Len(m) + 1} ELSE {})
<1> DEFINE n == Len(m)
           a == Append(m, r)
<1>1. /\ n \in Nat /\ Len(a) = n + 1 /\ a[n + 1] = r
      /\ \A i \in 1 .. n : a[i] = m[i]
  OBVIOUS
<1>2. 1 .. n + 1 = (1 .. n) \cup {n + 1} /\ n + 1 \notin 1 .. n
  BY <1>1
<1> HIDE DEF n, a
<1>3. Mine(a, h) = Mine(m, h) \cup (IF r.of = h THEN {n + 1} ELSE {})
  <2>1. \A i : i \in Mine(a, h) <=> i \in 1 .. n + 1 /\ a[i].of = h
    BY <1>1 DEF Mine
  <2>2. \A i : i \in Mine(m, h) <=> i \in 1 .. n /\ m[i].of = h
    BY DEF Mine, n
  <2> QED BY <1>1, <1>2, <2>1, <2>2
<1> QED BY <1>1, <1>3 DEF n, a

LEMMA MineTail ==
    ASSUME NEW m \in Seq(Summary), m # <<>>, NEW h, NEW i \in Mine(Tail(m), h)
    PROVE  /\ i \in Nat /\ i + 1 \in Mine(m, h) /\ Tail(m)[i] = m[i + 1]
<1> DEFINE n == Len(m)
           t == Tail(m)
<1>1. /\ n \in Nat \ {0} /\ Len(t) = n - 1
      /\ \A j \in 1 .. n - 1 : t[j] = m[j + 1]
  OBVIOUS
<1> HIDE DEF n, t
<1>2. i \in 1 .. n - 1 /\ t[i].of = h
  <2>1. i \in Mine(t, h)
    BY DEF t
  <2> QED BY <1>1, <2>1 DEF Mine
<1>3. i \in Nat /\ i + 1 \in 1 .. n /\ m[i + 1].of = h /\ t[i] = m[i + 1]
  BY <1>1, <1>2
<1> QED BY <1>3 DEF Mine, n, t

LEMMA MineInTail ==
    ASSUME NEW m \in Seq(Summary), m # <<>>, NEW h, NEW i \in Mine(m, h), i # 1
    PROVE  i - 1 \in Mine(Tail(m), h)
<1> DEFINE n == Len(m)
           t == Tail(m)
<1>1. /\ n \in Nat \ {0} /\ Len(t) = n - 1
      /\ \A j \in 1 .. n - 1 : t[j] = m[j + 1]
  OBVIOUS
<1> HIDE DEF n, t
<1>2. i \in 1 .. n /\ m[i].of = h
  BY DEF Mine, n
<1>3. i - 1 \in 1 .. n - 1 /\ (i - 1) + 1 = i
  BY <1>1, <1>2
<1>4. t[i - 1] = m[i]
  BY <1>1, <1>3
<1>5. i - 1 \in Mine(t, h)
  BY <1>1, <1>2, <1>3, <1>4 DEF Mine
<1> QED BY <1>5 DEF t

(* Summaries g are f and one more write r on stream `to`. *)
Added(f, g, to, r) ==
    g[to] = Append(f[to], r) /\ \A x \in Handle : x # to => g[x] = f[x]

(* Summaries g are f without the first write of stream `to`. *)
Taken(f, g, to) ==
    f[to] # <<>> /\ g[to] = Tail(f[to]) /\ \A x \in Handle : x # to => g[x] = f[x]

LEMMA SummariesOf == ASSUME NEW f \in Summaries, NEW x \in Handle PROVE f[x] \in Seq(Summary)
BY DEF Summaries

(* A write of bytes of another stream, or of none. *)
LEMMA AddedOther ==
    ASSUME NEW f \in Summaries, NEW g, NEW to \in Handle, NEW r \in Summary, Added(f, g, to, r),
           NEW h, r.of # h
    PROVE  /\ AtMostOne(f, h) => AtMostOne(g, h)
           /\ \A p, l : Settled(f, h, p, l) => Settled(g, h, p, l)
<1>1. f[to] \in Seq(Summary)
  BY SummariesOf
<1>2. /\ Mine(Append(f[to], r), h) = Mine(f[to], h)
      /\ \A i \in Mine(f[to], h) : Append(f[to], r)[i] = f[to][i]
  <2>1. /\ \A i \in 1 .. Len(f[to]) : Append(f[to], r)[i] = f[to][i]
        /\ Mine(Append(f[to], r), h)
             = Mine(f[to], h) \cup (IF r.of = h THEN {Len(f[to]) + 1} ELSE {})
    BY <1>1, MineAppend
  <2>2. Mine(f[to], h) \subseteq 1 .. Len(f[to])
    BY DEF Mine
  <2> QED BY <2>1, <2>2
<1>3. \A x \in Handle : /\ Mine(g[x], h) = Mine(f[x], h)
                        /\ \A i \in Mine(f[x], h) : g[x][i] = f[x][i]
  BY <1>2 DEF Added
<1>4. AtMostOne(f, h) => AtMostOne(g, h)
  BY <1>3 DEF AtMostOne
<1>5. \A p, l : Settled(f, h, p, l) => Settled(g, h, p, l)
  BY <1>3 DEF Settled, EndAt
<1> QED BY <1>4, <1>5

(* The one write of bytes of h. *)
LEMMA AddedOwn ==
    ASSUME NEW f \in Summaries, NEW g, NEW to \in Handle, NEW r \in Summary, Added(f, g, to, r),
           NEW h, r.of = h, \A x \in Handle : Mine(f[x], h) = {},
           NEW p, NEW l, r.end = l, p < l
    PROVE  AtMostOne(g, h) /\ Settled(g, h, p, l)
<1>1. f[to] \in Seq(Summary)
  BY SummariesOf
<1>2. PICK n : Mine(g[to], h) = {n} /\ g[to][n] = r
  <2>1. /\ Append(f[to], r)[Len(f[to]) + 1] = r
        /\ Mine(Append(f[to], r), h)
             = Mine(f[to], h) \cup (IF r.of = h THEN {Len(f[to]) + 1} ELSE {})
    BY <1>1, MineAppend
  <2> QED BY <2>1 DEF Added
<1>3. \A x \in Handle : x # to => Mine(g[x], h) = {}
  BY DEF Added
<1>4. AtMostOne(g, h)
  BY <1>2, <1>3 DEF AtMostOne
<1>5. Settled(g, h, p, l)
  BY <1>2, <1>3 DEF Settled, EndAt, EndAt
<1> QED BY <1>4, <1>5

LEMMA TakenMine ==
    ASSUME NEW f \in Summaries, NEW g, NEW to \in Handle, Taken(f, g, to), NEW h
    PROVE  /\ \A i \in Mine(g[to], h) :
                i \in Nat /\ i + 1 \in Mine(f[to], h) /\ EndAt(g[to], i) = EndAt(f[to], i + 1)
           /\ \A i \in Mine(f[to], h) : i # 1 => i - 1 \in Mine(g[to], h)
           /\ \A x \in Handle : x # to => g[x] = f[x]
<1>1. f[to] \in Seq(Summary) /\ f[to] # <<>> /\ g[to] = Tail(f[to])
  BY SummariesOf DEF Taken
<1>2. \A i \in Mine(Tail(f[to]), h) :
        /\ i \in Nat /\ i + 1 \in Mine(f[to], h)
        /\ EndAt(Tail(f[to]), i) = EndAt(f[to], i + 1)
  BY <1>1, MineTail DEF EndAt
<1>3. \A i \in Mine(f[to], h) : i # 1 => i - 1 \in Mine(Tail(f[to]), h)
  BY <1>1, MineInTail
<1> QED BY <1>1, <1>2, <1>3 DEF Taken

LEMMA TakenKeepsOne ==
    ASSUME NEW f \in Summaries, NEW g, NEW to \in Handle, Taken(f, g, to), NEW h,
           AtMostOne(f, h)
    PROVE  AtMostOne(g, h)
<1>1. /\ \A i \in Mine(g[to], h) : i \in Nat /\ i + 1 \in Mine(f[to], h)
      /\ \A x \in Handle : x # to => g[x] = f[x]
  BY TakenMine
<1>2. \A i, j \in Mine(g[to], h) : i = j
  <2> SUFFICES ASSUME NEW i \in Mine(g[to], h), NEW j \in Mine(g[to], h) PROVE i = j
    OBVIOUS
  <2>1. i \in Nat /\ j \in Nat /\ i + 1 = j + 1
    BY <1>1 DEF AtMostOne
  <2> QED BY <2>1
<1>3. \A x \in Handle : Mine(f[x], h) = {} => Mine(g[x], h) = {}
  BY <1>1
<1> QED BY <1>1, <1>2, <1>3 DEF AtMostOne

(* The first write was of bytes of another stream, or of none. *)
LEMMA TakenOther ==
    ASSUME NEW f \in Summaries, NEW g, NEW to \in Handle, Taken(f, g, to),
           NEW h, 1 \notin Mine(f[to], h), NEW p, NEW l, Settled(f, h, p, l)
    PROVE  Settled(g, h, p, l)
<1>1. /\ \A i \in Mine(g[to], h) :
           i \in Nat /\ i + 1 \in Mine(f[to], h) /\ EndAt(g[to], i) = EndAt(f[to], i + 1)
      /\ \A i \in Mine(f[to], h) : i # 1 => i - 1 \in Mine(g[to], h)
      /\ \A x \in Handle : x # to => g[x] = f[x]
  BY TakenMine
<1>2. \A i \in Mine(f[to], h) : i # 1
  OBVIOUS
<1>3. \A x \in Handle : \A i \in Mine(g[x], h) : EndAt(g[x], i) = l /\ p < l
  BY <1>1 DEF Settled
<1>4. \A x \in Handle : Mine(f[x], h) # {} => Mine(g[x], h) # {}
  BY <1>1, <1>2
<1> QED BY <1>3, <1>4 DEF Settled

(* It was the one of bytes of h. *)
LEMMA TakenOwn ==
    ASSUME NEW f \in Summaries, NEW g, NEW to \in Handle, Taken(f, g, to),
           NEW h, 1 \in Mine(f[to], h), AtMostOne(f, h)
    PROVE  \A x \in Handle : Mine(g[x], h) = {}
<1>1. /\ \A i \in Mine(g[to], h) : i \in Nat /\ i + 1 \in Mine(f[to], h)
      /\ \A x \in Handle : x # to => g[x] = f[x]
  BY TakenMine
<1>3. Mine(g[to], h) = {}
  <2> SUFFICES ASSUME NEW i \in Mine(g[to], h) PROVE FALSE
    OBVIOUS
  <2>1. i + 1 = 1 /\ i \in Nat
    BY <1>1 DEF AtMostOne
  <2>2. i # 0
    <3>1. Mine(g[to], h) \subseteq 1 .. Len(g[to])
      BY DEF Mine
    <3> QED BY <3>1
  <2> QED BY <2>1, <2>2
<1>4. \A x \in Handle : x # to => Mine(g[x], h) = {}
  BY <1>1 DEF AtMostOne
<1> QED BY <1>3, <1>4

(* A write of nothing is one of the first bytes of a buffer. *)
NothingAtZero(m) == \A i \in 1 .. Len(m) : m[i].of = None => EndAt(m, i) = 0

LEMMA NothingAdded ==
    ASSUME NEW m \in Seq(Summary), NothingAtZero(m), NEW r \in Summary,
           r.of = None => r.end = 0
    PROVE  NothingAtZero(Append(m, r))
<1> DEFINE n == Len(m)
           a == Append(m, r)
<1>1. /\ n \in Nat /\ Len(a) = n + 1 /\ a[n + 1] = r
      /\ \A i \in 1 .. n : a[i] = m[i]
  OBVIOUS
<1> HIDE DEF n, a
<1>2. ASSUME NEW i \in 1 .. n + 1, a[i].of = None PROVE a[i].end = 0
  <2>1. CASE i = n + 1
    BY <1>1, <1>2, <2>1
  <2>2. CASE i # n + 1
    <3>1. i \in 1 .. n
      BY <1>1, <2>2
    <3>2. a[i] = m[i]
      BY <1>1, <3>1
    <3> QED BY <1>2, <3>1, <3>2 DEF NothingAtZero, EndAt, n
  <2> QED BY <2>1, <2>2
<1>3. NothingAtZero(a)
  BY <1>1, <1>2 DEF NothingAtZero, EndAt
<1> QED BY <1>3 DEF a

LEMMA NothingTaken ==
    ASSUME NEW m \in Seq(Summary), m # <<>>, NothingAtZero(m) PROVE NothingAtZero(Tail(m))
<1> DEFINE n == Len(m)
           t == Tail(m)
<1>1. /\ n \in Nat \ {0} /\ Len(t) = n - 1
      /\ \A j \in 1 .. n - 1 : t[j] = m[j + 1]
  OBVIOUS
<1> HIDE DEF n, t
<1>2. ASSUME NEW i \in 1 .. n - 1, t[i].of = None PROVE t[i].end = 0
  <2>1. i + 1 \in 1 .. n /\ t[i] = m[i + 1]
    BY <1>1
  <2> QED BY <1>2, <2>1 DEF NothingAtZero, EndAt, n
<1>3. NothingAtZero(t)
  BY <1>1, <1>2 DEF NothingAtZero, EndAt
<1> QED BY <1>3 DEF t

-----------------------------------------------------------------------------
(* The writes of the relay.                                                 *)

Ms     == [x \in Handle |-> M(x)]
MsNext == [x \in Handle |-> MNext(x)]

LEMMA MsPrimed == Ms' = MsNext
BY DEF Ms, MsNext, M, MNext, Sums, Sum, Req

LEMMA MsType ==
    /\ WriteTypeOK  => Ms \in Summaries
    /\ WriteTypeOK' => MsNext \in Summaries
<1>1. ASSUME WriteTypeOK PROVE Ms \in Summaries
  <2>1. \A x \in Handle : wq[x] \in Seq(WriteReq) /\ wdone[x] \in Seq(WriteReq)
    BY <1>1 DEF WriteTypeOK
  <2>2. \A x \in Handle : M(x) \in Seq(Summary)
    BY <2>1, SumsType DEF M
  <2> QED BY <2>2 DEF Ms, Summaries
<1>2. ASSUME WriteTypeOK' PROVE MsNext \in Summaries
  <2>1. \A x \in Handle : wq'[x] \in Seq(WriteReq) /\ wdone'[x] \in Seq(WriteReq)
    BY <1>2 DEF WriteTypeOK
  <2>2. \A x \in Handle : MNext(x) \in Seq(Summary)
    BY <2>1, SumsType DEF MNext
  <2> QED BY <2>2 DEF MsNext, Summaries
<1> QED BY <1>1, <1>2

LEMMA MsSame == ASSUME UNCHANGED <<wq, wdone>> PROVE MsNext = Ms
BY DEF Ms, MsNext, M, MNext

(* What a stream's handed-over bytes are in. *)
OneWrite(h) ==
    AtMostOne(Ms, h) /\ (Live(h) => Settled(Ms, h, pos[h], last[h]))

WriteInv ==
    /\ \A h \in Handle : pos[h] = 0 \/ pos[h] < last[h]
    /\ \A x \in Handle : NothingAtZero(Ms[x])
    /\ \A h \in Handle \ miscredit : OneWrite(h)

LEMMA InitWriteInv == Init => WriteInv
<1> SUFFICES ASSUME Init PROVE WriteInv
  OBVIOUS
<1>1. \A x \in Handle : wq[x] = <<>> /\ wdone[x] = <<>>
  BY DEF Init, UvInit
<1>2. Len(<<>>) = 0
  OBVIOUS
<1>3. \A x \in Handle : Len(Ms[x]) = 0
  <2> SUFFICES ASSUME NEW x \in Handle PROVE Len(Ms[x]) = 0
    OBVIOUS
  <2>1. <<>> \in Seq(WriteReq)
    OBVIOUS
  <2>2. Len(Sums(<<>>, <<>>)) = Len(<<>>) + Len(<<>>)
    BY <2>1, SumsType
  <2>3. Len(Sums(<<>>, <<>>)) = 0
    BY <1>2, <2>2
  <2> QED BY <1>1, <2>3 DEF Ms, M
<1>4. \A x \in Handle : NothingAtZero(Ms[x]) /\ \A h : Mine(Ms[x], h) = {}
  BY <1>3 DEF NothingAtZero, Mine
<1>5. \A h \in Handle : pos[h] = 0 /\ last[h] = 0
  BY DEF Init
<1>6. \A h \in Handle : OneWrite(h)
  BY <1>4, <1>5 DEF OneWrite, AtMostOne, Settled
<1> QED BY <1>4, <1>5, <1>6 DEF WriteInv

(* A stream that has no data yet, or never gets them, has no writes. *)
LEMMA NewHasNone ==
    ASSUME BoundsInv, WriteTypeOK, NEW h \in Handle, ~Live(h), ~Ended(h), NEW x \in Handle
    PROVE  Mine(Ms[x], h) = {}
<1>1. wq[x] \in Seq(InBuf) /\ wdone[x] \in Seq(InBuf)
  BY DEF BoundsInv, Within
<1>2. wq[x] \in Seq(WriteReq) /\ wdone[x] \in Seq(WriteReq)
  BY DEF WriteTypeOK
<1>3. ASSUME NEW i \in 1 .. Len(wdone[x]) + Len(wq[x]) PROVE Sum(Req(wq[x], wdone[x], i)).of # h
  <2>1. Req(wq[x], wdone[x], i) \in InBuf
    BY <1>1, ReqElements
  <2>2. LET src == Req(wq[x], wdone[x], i).src IN Live(src) \/ Ended(src)
    BY <2>1 DEF InBuf
  <2>3. h # None
    BY NoneAssumption
  <2> QED BY <2>2, <2>3 DEF Sum
<1>4. /\ Len(M(x)) = Len(wdone[x]) + Len(wq[x])
      /\ \A i \in 1 .. Len(wdone[x]) + Len(wq[x]) : M(x)[i] = Sum(Req(wq[x], wdone[x], i))
  BY <1>2, SumsType DEF M
<1>5. \A i \in 1 .. Len(M(x)) : M(x)[i].of # h
  BY <1>3, <1>4
<1> QED BY <1>5 DEF Mine, Ms

LEMMA WriteInvNext ==
    ASSUME \A h \in Handle : pos'[h] = 0 \/ pos'[h] < last'[h],
           \A x \in Handle : NothingAtZero(MsNext[x]),
           \A h \in Handle \ miscredit' :
              AtMostOne(MsNext, h) /\ (gen'[h] # 0 => Settled(MsNext, h, pos'[h], last'[h]))
    PROVE  WriteInv'
<1>1. Ms' = MsNext
  BY MsPrimed
<1>2. ASSUME NEW h \in Handle, h \notin miscredit' PROVE OneWrite(h)'
  <2>1. AtMostOne(Ms', h) /\ (gen'[h] # 0 => Settled(Ms', h, pos'[h], last'[h]))
    BY <1>1, <1>2
  <2> QED BY <2>1 DEF OneWrite, Live, AtMostOne, Settled
<1>3. \A x \in Handle : NothingAtZero(Ms'[x])
  BY <1>1
<1> QED BY <1>2, <1>3 DEF WriteInv, NothingAtZero, EndAt

(* A step that leaves the writes as they are. *)
LEMMA QuietWrites ==
    ASSUME TypeInv, BoundsInv, WriteInv, MsNext = Ms, UNCHANGED miscredit,
           \A h \in Handle :
              \/ /\ pos'[h] = pos[h] /\ last'[h] = last[h]
                 /\ gen'[h] # 0 => Live(h) \/ hs[h] = "unused"
              \/ pos'[h] = 0 /\ last'[h] = 0 /\ gen'[h] = 0
    PROVE  WriteInv'
<1>0. /\ Ms' = Ms /\ WriteTypeOK /\ DataTypeOK /\ Offsets
  BY MsPrimed DEF TypeInv
<1>1. \A h \in Handle : pos'[h] = 0 \/ pos'[h] < last'[h]
  BY DEF WriteInv
<1>2. \A x \in Handle : NothingAtZero(Ms'[x])
  BY <1>0 DEF WriteInv
<1>3. ASSUME NEW h \in Handle, h \notin miscredit PROVE OneWrite(h)'
  <2>1. AtMostOne(Ms, h) /\ (Live(h) => Settled(Ms, h, pos[h], last[h]))
    BY <1>3 DEF WriteInv, OneWrite
  <2>2. ASSUME gen'[h] # 0 PROVE Settled(Ms, h, pos'[h], last'[h])
    <3>1. pos'[h] = pos[h] /\ last'[h] = last[h] /\ (Live(h) \/ hs[h] = "unused")
      BY <2>2
    <3>2. CASE Live(h)
      BY <2>1, <3>1, <3>2
    <3>3. CASE ~Live(h) /\ hs[h] = "unused"
      <4>1. size[h] = 0
        BY <3>3 DEF BoundsInv, BufOK
      <4>2. pos[h] = 0 /\ last[h] = 0
        BY <1>0, <4>1 DEF DataTypeOK, Offsets
      <4>3. \A x \in Handle : Mine(Ms[x], h) = {}
        BY <1>0, <3>3, NewHasNone DEF Ended
      <4> QED BY <3>1, <4>2, <4>3 DEF Settled
    <3> QED BY <3>1, <3>2, <3>3
  <2>3. AtMostOne(Ms', h) /\ (gen'[h] # 0 => Settled(Ms', h, pos'[h], last'[h]))
    BY <1>0, <2>1, <2>2
  <2> QED BY <2>3 DEF OneWrite, Live, AtMostOne, Settled
<1> QED BY <1>1, <1>2, <1>3 DEF WriteInv

(* libuv writes what is queued, cancels it, and calls back: whose bytes are *)
(* in which write stays as it is.                                           *)
LEMMA UvWrites == ASSUME UvTypeOK, UvNext PROVE MsNext = Ms
<1>0. WriteTypeOK /\ HeapTypeOK
  BY UvTypeParts
<1>1. CASE RunPending \/ PendingDone \/ PollDone \/ ClosingDone \/ CallbacksDone
  BY <1>1, MsSame DEF RunPending, PendingDone, PollDone, ClosingDone, CallbacksDone, streamVars
<1>2. ASSUME NEW h \in Handle, PollEvent(h) PROVE MsNext = Ms
  BY <1>2, MsSame DEF PollEvent, streamVars
<1>3. ASSUME NEW h \in Handle, FinishClose(h) PROVE MsNext = Ms
  <2>1. /\ wq' = [wq EXCEPT ![h] = <<>>]
        /\ wdone' = [wdone EXCEPT ![h] = wdone[h] \o Cancelled(wq[h])]
    BY <1>3 DEF FinishClose
  <2>2. wq \in [Handle -> Seq(WriteReq)] /\ wdone \in [Handle -> Seq(WriteReq)]
    BY <1>0 DEF WriteTypeOK
  <2>3. /\ wq'[h] = <<>> /\ wdone'[h] = wdone[h] \o Cancelled(wq[h])
        /\ \A x \in Handle : x # h => wq'[x] = wq[x] /\ wdone'[x] = wdone[x]
    <3> HIDE DEF Cancelled
    <3> QED BY <2>1, <2>2
  <2>4. Sums(<<>>, wdone[h] \o Cancelled(wq[h])) = Sums(wq[h], wdone[h])
    BY <2>2, CancelledSums
  <2>5. \A x \in Handle : MNext(x) = M(x)
    BY <2>3, <2>4 DEF M, MNext
  <2> QED BY <2>5 DEF Ms, MsNext
<1>4. CASE WriteStage
  <2>1. CASE wq[cur] = <<>>
    BY <1>4, <2>1, MsSame DEF WriteStage
  <2>2. CASE wq[cur] # <<>>
    <3>1. Uv__Write(cur, wq[cur], wdone[cur], gen, mem) /\ cur \in Handle
      BY <1>4, <2>2 DEF WriteStage, InStage, UvTypeOK
    <3>2. wq[cur] \in Seq(WriteReq) /\ wdone[cur] \in Seq(WriteReq)
      BY <1>0, <3>1 DEF WriteTypeOK
    <3>3. MNext(cur) = Sums(wq[cur], wdone[cur]) /\ \A x \in Handle : x # cur => MNext(x) = M(x)
      BY <1>0, <2>2, <3>1, <3>2, WriteSums
    <3>4. \A x \in Handle : MNext(x) = M(x)
      BY <3>3 DEF M
    <3> QED BY <3>4 DEF Ms, MsNext
  <2> QED BY <2>1, <2>2
<1> QED BY <1>1, <1>2, <1>3, <1>4 DEF UvNext, LoopTurn

(* A transfer adds one write, after the callback of the first was run or    *)
(* without it.                                                              *)
LEMMA TransferSums ==
    ASSUME WriteTypeOK, TypeInv', NEW from \in Handle, gen'[from] # 0, NEW to \in Handle,
           Transfer(from, to, wq[to], wdone[to])
    PROVE  Added(Ms, MsNext, to, Sum(Unsent(from)))
<1>1. UvWrite(to, Unsent(from), wq[to], wdone[to], gen', mem')
  BY DEF Transfer
<1>2. Unsent(from) \in WriteReq /\ wq[to] \in Seq(WriteReq) /\ wdone[to] \in Seq(WriteReq)
  BY UnsentType DEF WriteTypeOK
<1> HIDE DEF Unsent
<1>3. /\ MNext(to) = Sums(Append(wq[to], Unsent(from)), wdone[to])
      /\ \A x \in Handle : x # to => MNext(x) = M(x)
  BY <1>1, <1>2, UvWriteSums
<1>4. Sums(Append(wq[to], Unsent(from)), wdone[to]) = Append(M(to), Sum(Unsent(from)))
  BY <1>2, SumsAppend DEF M
<1> QED BY <1>3, <1>4 DEF Added, Ms, MsNext

LEMMA TransferAfterSums ==
    ASSUME WriteTypeOK, TypeInv', NEW from \in Handle, gen'[from] # 0, NEW to \in Handle,
           wdone[to] # <<>>, Transfer(from, to, wq[to], Tail(wdone[to]))
    PROVE  \E f \in Summaries : Taken(Ms, f, to) /\ Added(f, MsNext, to, Sum(Unsent(from)))
<1> DEFINE done == wdone[to]
           f == [Ms EXCEPT ![to] = Tail(Ms[to])]
<1>1. UvWrite(to, Unsent(from), wq[to], Tail(done), gen', mem')
  BY DEF Transfer
<1>2. /\ Unsent(from) \in WriteReq /\ wq[to] \in Seq(WriteReq) /\ done \in Seq(WriteReq)
      /\ Tail(done) \in Seq(WriteReq) /\ done # <<>>
  <2>1. wq[to] \in Seq(WriteReq) /\ done \in Seq(WriteReq)
    BY DEF WriteTypeOK
  <2> QED BY <2>1, UnsentType, TailSeq
<1> HIDE DEF Unsent, done
<1>3. /\ MNext(to) = Sums(Append(wq[to], Unsent(from)), Tail(done))
      /\ \A x \in Handle : x # to => MNext(x) = M(x)
  BY <1>1, <1>2, UvWriteSums
<1>4. Sums(Append(wq[to], Unsent(from)), Tail(done)) = Append(Sums(wq[to], Tail(done)), Sum(Unsent(from)))
  BY <1>2, SumsAppend
<1>5. M(to) # <<>> /\ Sums(wq[to], Tail(done)) = Tail(M(to))
  BY <1>2, SumsTail DEF M, done
<1>6. Ms \in Summaries
  BY MsType
<1>7. /\ f \in Summaries /\ f[to] = Tail(Ms[to])
      /\ \A x \in Handle : x # to => f[x] = Ms[x]
  <2>1. Ms[to] \in Seq(Summary) /\ Ms[to] # <<>>
    BY <1>5, <1>6 DEF Ms, Summaries
  <2>2. Tail(Ms[to]) \in Seq(Summary)
    BY <2>1, TailSeq
  <2> QED BY <1>6, <2>2 DEF Summaries
<1> HIDE DEF f
<1>8. Taken(Ms, f, to)
  BY <1>5, <1>7 DEF Taken, Ms
<1>9. Added(f, MsNext, to, Sum(Unsent(from)))
  BY <1>3, <1>4, <1>5, <1>7 DEF Added, Ms, MsNext
<1> QED BY <1>7, <1>8, <1>9

(* A transfer of a stream whose bytes were all credited. *)
LEMMA TransferWrites ==
    ASSUME TypeInv, TypeInv', WriteInv, NEW from \in Handle, NEW to \in Handle,
           Transfer(from, to, wq[to], wdone[to]), UNCHANGED <<pos, miscredit>>,
           pos[from] = last[from], gen'[from] # 0, Live(from),
           \A h \in Handle : gen'[h] # 0 => Live(h)
    PROVE  WriteInv'
<1> DEFINE r == Sum(Unsent(from))
           new == size'[from]
<1>1. /\ WriteTypeOK /\ DataTypeOK /\ Offsets /\ WriteTypeOK' /\ DataTypeOK' /\ Offsets'
      /\ None \notin Handle
  BY NoneAssumption DEF TypeInv
<1>2. /\ Added(Ms, MsNext, to, r) /\ Ms \in Summaries /\ MsNext \in Summaries /\ Ms' = MsNext
  BY <1>1, TransferSums, MsType, MsPrimed
<1>3. last'[from] = new /\ \A h \in Handle : h # from => last'[h] = last[h]
  BY <1>1 DEF Transfer, DataTypeOK
<1>4. pos[from] = 0 /\ last[from] = 0 /\ new \in Nat
  BY <1>1 DEF WriteInv, DataTypeOK
<1>5. Unsent(from) \in WriteReq /\ Unsent(from).src = from
      /\ Unsent(from).off + Unsent(from).len = new /\ Unsent(from).len = new
  <2>1. Unsent(from) \in WriteReq /\ Unsent(from).src = from
        /\ Unsent(from).off + Unsent(from).len = new
    BY UnsentType
  <2>2. Unsent(from).len = new - pos'[from]
    BY DEF Unsent
  <2> QED BY <1>4, <2>1, <2>2
<1>6. r \in Summary /\ r.end = new /\ r.of = IF new = 0 THEN None ELSE from
  BY <1>5, SumType DEF Sum
<1> HIDE DEF r, new
<1>7. \A h \in Handle : pos'[h] = 0 \/ pos'[h] < last'[h]
  BY <1>3, <1>4 DEF WriteInv
<1>8. \A x \in Handle : NothingAtZero(MsNext[x])
  <2>1. Ms[to] \in Seq(Summary) /\ NothingAtZero(Ms[to])
    BY <1>2, SummariesOf DEF WriteInv
  <2>2. r.of = None => r.end = 0
    BY <1>1, <1>6
  <2>3. NothingAtZero(Append(Ms[to], r))
    BY <1>6, <2>1, <2>2, NothingAdded
  <2> QED BY <1>2, <2>3 DEF Added, WriteInv
<1>9. ASSUME NEW h \in Handle, h \notin miscredit
      PROVE  AtMostOne(MsNext, h) /\ (gen'[h] # 0 => Settled(MsNext, h, pos'[h], last'[h]))
  <2>1. AtMostOne(Ms, h) /\ (Live(h) => Settled(Ms, h, pos[h], last[h]))
    BY <1>9 DEF WriteInv, OneWrite
  <2>2. CASE r.of # h
    <3>1. /\ AtMostOne(Ms, h) => AtMostOne(MsNext, h)
          /\ \A p, l : Settled(Ms, h, p, l) => Settled(MsNext, h, p, l)
      BY <1>2, <1>6, <2>2, AddedOther
    <3>2. pos'[h] = pos[h] /\ last'[h] = last[h]
      BY <1>3, <1>4, <1>6, <2>2
    <3> QED BY <2>1, <3>1, <3>2
  <2>3. CASE r.of = h
    <3>1. h = from /\ new # 0
      BY <1>1, <1>6, <2>3
    <3>2. \A x \in Handle : Mine(Ms[x], h) = {}
      <4>1. \A x \in Handle : \A i \in Mine(Ms[x], h) : pos[from] < last[from]
        BY <2>1, <3>1 DEF Settled
      <4>2. ~(pos[from] < last[from])
        BY <1>4
      <4> QED BY <4>1, <4>2
    <3>3. pos'[h] = 0 /\ last'[h] = new /\ 0 < new
      BY <1>3, <1>4, <3>1
    <3>4. AtMostOne(MsNext, h) /\ Settled(MsNext, h, 0, new)
      BY <1>2, <1>6, <2>3, <3>2, <3>3, AddedOwn
    <3> QED BY <3>3, <3>4
  <2> QED BY <2>2, <2>3
<1> QED BY <1>7, <1>8, <1>9, WriteInvNext

(* What is left of the writes when the callback of the first of stream `to` *)
(* has run: none of the stream that is credited, if it was its own.         *)
LEMMA CreditedWrites ==
    ASSUME TypeInv, RequestsNear, WriteInv, NEW to \in Handle, wdone[to] # <<>>, Live(to),
           NEW f \in Summaries, Taken(Ms, f, to)
    PROVE  /\ \A x \in Handle : NothingAtZero(f[x])
           /\ \A h \in Handle \ miscredit :
                /\ AtMostOne(f, h)
                /\ h # peer[to] /\ Live(h) => Settled(f, h, pos[h], last[h])
                /\ Completes(Head(wdone[to]), h) /\ Live(h)
                     => \A x \in Handle : Mine(f[x], h) = {}
<1> DEFINE req == Head(wdone[to])
<1>1. /\ WriteTypeOK /\ DataTypeOK /\ Offsets /\ LiveWhileOpen /\ Ms \in Summaries
      /\ None \notin Handle
  BY MsType, NoneAssumption DEF TypeInv, LinkInv
<1>2. /\ wq[to] \in Seq(WriteReq) /\ wdone[to] \in Seq(WriteReq)
      /\ req \in WriteReq /\ req \in ReqOf(Near(to))
  <2>1. wdone[to] \in Seq(ReqOf(Near(to))) /\ wdone[to] \in Seq(WriteReq) /\ wq[to] \in Seq(WriteReq)
    BY <1>1 DEF RequestsNear, Within, WriteTypeOK
  <2> QED BY <2>1
<1>3. Ms[to][1] = Sum(req)
  BY <1>2, SumsTail DEF Ms, M
<1>4. req.src \in Handle /\ req.off \in Nat /\ req.len \in Nat
  BY <1>2 DEF WriteReq
<1>5. Ended(to) \/ Ended(req.src) \/ peer[to] = req.src
  BY <1>2 DEF ReqOf, Near
<1> HIDE DEF req
<1>6. Ms[to] \in Seq(Summary) /\ Ms[to] # <<>> /\ 1 \in 1 .. Len(Ms[to])
  <2>1. Ms[to] \in Seq(Summary) /\ Ms[to] # <<>>
    BY <1>1, SummariesOf DEF Taken
  <2> QED BY <2>1
<1>7. \A x \in Handle : NothingAtZero(f[x])
  <2>1. NothingAtZero(Tail(Ms[to]))
    BY <1>6, NothingTaken DEF WriteInv
  <2> QED BY <2>1 DEF Taken, WriteInv
<1>8. ASSUME NEW h \in Handle, h \notin miscredit
      PROVE  /\ AtMostOne(f, h)
             /\ h # peer[to] /\ Live(h) => Settled(f, h, pos[h], last[h])
             /\ Completes(req, h) /\ Live(h) => \A x \in Handle : Mine(f[x], h) = {}
  <2>1. AtMostOne(Ms, h) /\ (Live(h) => Settled(Ms, h, pos[h], last[h]))
    BY <1>8 DEF WriteInv, OneWrite
  <2>2. AtMostOne(f, h)
    BY <1>1, <2>1, TakenKeepsOne
  <2>3. ASSUME h # peer[to], Live(h) PROVE Settled(f, h, pos[h], last[h])
    <3>1. req.src # h
      <4>1. ~Ended(h) /\ ~Ended(to)
        BY <1>1, <2>3 DEF LiveWhileOpen, Ended
      <4> QED BY <1>5, <2>3, <4>1
    <3>2. Sum(req).of # h
      BY <1>1, <3>1 DEF Sum
    <3>3. 1 \notin Mine(Ms[to], h)
      BY <1>3, <3>2 DEF Mine
    <3>4. Settled(Ms, h, pos[h], last[h])
      BY <2>1, <2>3
    <3> QED BY <1>1, <3>3, <3>4, TakenOther
  <2>4. ASSUME Completes(req, h), Live(h) PROVE \A x \in Handle : Mine(f[x], h) = {}
    <3>1. req.src = h /\ req.off + req.len = last[h]
      BY <2>4 DEF Completes
    <3>2. CASE req.len # 0
      <4>1. Sum(req).of = h
        BY <3>1, <3>2 DEF Sum
      <4>2. 1 \in Mine(Ms[to], h)
        BY <1>3, <1>6, <4>1 DEF Mine
      <4> QED BY <1>1, <2>1, <4>2, TakenOwn
    <3>3. CASE req.len = 0
      <4>1. Sum(req).of = None /\ Sum(req).end = last[h]
        BY <3>1, <3>3 DEF Sum
      <4>2. last[h] = 0
        BY <1>3, <1>6, <4>1 DEF WriteInv, NothingAtZero, EndAt
      <4>3. \A x \in Handle : \A i \in Mine(Ms[x], h) : pos[h] < last[h]
        BY <2>1, <2>4 DEF Settled
      <4>4. \A x \in Handle : Mine(Ms[x], h) = {}
        <5>1. ~(pos[h] < last[h])
          BY <1>1, <4>2 DEF DataTypeOK
        <5> QED BY <4>3, <5>1
      <4>5. /\ \A i \in Mine(f[to], h) : i + 1 \in Mine(Ms[to], h)
            /\ \A x \in Handle : x # to => f[x] = Ms[x]
        BY <1>1, TakenMine
      <4> QED BY <4>4, <4>5
    <3> QED BY <3>2, <3>3
  <2> QED BY <2>2, <2>3, <2>4
<1> QED BY <1>7, <1>8 DEF req

LEMMA AfterWriteWrites ==
    ASSUME TypeInv, TypeInv', RequestsNear, WriteInv, NEW to \in Handle, AfterWrite(to)
    PROVE  WriteInv'
<1> DEFINE from == peer[to]
           r == Sum(Unsent(from))
<1>1. /\ wdone[to] # <<>> /\ AfterWriteFault(to) = "none"
      /\ miscredit' = IF Completes(Head(wdone[to]), from)
                      THEN miscredit ELSE miscredit \cup {from}
      /\ UNCHANGED <<connVars, cap, heapVars, rd, lost, client>>
  BY DEF AfterWrite
<1>2. /\ WriteTypeOK /\ DataTypeOK /\ Offsets /\ WriteTypeOK' /\ DataTypeOK' /\ LinkTypeOK
      /\ Ms \in Summaries /\ MsNext \in Summaries /\ None \notin Handle
  <2>1. /\ WriteTypeOK /\ DataTypeOK /\ Offsets /\ WriteTypeOK' /\ DataTypeOK' /\ LinkTypeOK
    BY DEF TypeInv, LinkInv
  <2> QED BY <2>1, MsType, NoneAssumption
<1>3. from \in Handle /\ Live(from) /\ Live(to) /\ gen' = gen
  BY <1>1, <1>2 DEF AfterWriteFault, LinkTypeOK, heapVars
<1> HIDE DEF from, r
<1>4. ASSUME NEW f \in Summaries, Taken(Ms, f, to)
      PROVE  /\ \A x \in Handle : NothingAtZero(f[x])
             /\ \A h \in Handle \ miscredit' :
                  /\ AtMostOne(f, h)
                  /\ h # from /\ Live(h) => Settled(f, h, pos[h], last[h])
             /\ from \notin miscredit' => \A x \in Handle : Mine(f[x], from) = {}
  <2>1. /\ \A x \in Handle : NothingAtZero(f[x])
        /\ \A h \in Handle \ miscredit :
             /\ AtMostOne(f, h)
             /\ h # from /\ Live(h) => Settled(f, h, pos[h], last[h])
             /\ Completes(Head(wdone[to]), h) /\ Live(h) => \A x \in Handle : Mine(f[x], h) = {}
    BY <1>1, <1>3, <1>4, CreditedWrites DEF from
  <2>2. /\ miscredit \subseteq miscredit'
        /\ from \notin miscredit' => Completes(Head(wdone[to]), from) /\ from \notin miscredit
    BY <1>1
  <2> QED BY <1>3, <2>1, <2>2
<1>5. CASE MoreToSend(from)
  <2>1. /\ pos' = [pos EXCEPT ![from] = last[from]] /\ size' = size
        /\ Transfer(from, to, wq[to], Tail(wdone[to]))
    BY <1>5 DEF AfterWrite, from
  <2>2. PICK f \in Summaries : Taken(Ms, f, to) /\ Added(f, MsNext, to, r)
    BY <1>1, <1>2, <1>3, <2>1, TransferAfterSums DEF Live, r
  <2>3. /\ last'[from] = size[from] /\ pos'[from] = last[from]
        /\ \A h \in Handle : h # from => last'[h] = last[h] /\ pos'[h] = pos[h]
    BY <1>2, <1>3, <2>1 DEF Transfer, DataTypeOK
  <2>4. last[from] < size[from] /\ last[from] \in Nat /\ size[from] \in Nat
    BY <1>2, <1>3, <1>5 DEF MoreToSend, Offsets, DataTypeOK
  <2>5. r \in Summary /\ r.of = from /\ r.end = size[from]
    <3>1. /\ Unsent(from) \in WriteReq /\ Unsent(from).src = from
          /\ Unsent(from).off + Unsent(from).len = size'[from]
      BY <1>3, UnsentType DEF Live
    <3>2. Unsent(from).len = size'[from] - pos'[from]
      BY DEF Unsent
    <3>3. Unsent(from).len # 0
      BY <2>1, <2>3, <2>4, <3>2
    <3> QED BY <2>1, <3>1, <3>3, SumType DEF r, Sum
  <2>6. \A h \in Handle : pos'[h] = 0 \/ pos'[h] < last'[h]
    BY <2>3, <2>4 DEF WriteInv
  <2>7. \A x \in Handle : NothingAtZero(MsNext[x])
    <3>1. f[to] \in Seq(Summary) /\ \A x \in Handle : NothingAtZero(f[x])
      BY <1>4, <2>2, SummariesOf
    <3>2. r.of # None
      BY <1>2, <1>3, <2>5
    <3>3. NothingAtZero(Append(f[to], r))
      BY <2>5, <3>1, <3>2, NothingAdded
    <3> QED BY <2>2, <3>1, <3>3 DEF Added
  <2>8. ASSUME NEW h \in Handle, h \notin miscredit'
        PROVE  AtMostOne(MsNext, h) /\ (gen'[h] # 0 => Settled(MsNext, h, pos'[h], last'[h]))
    <3>1. /\ AtMostOne(f, h) /\ (h # from /\ Live(h) => Settled(f, h, pos[h], last[h]))
          /\ h = from => \A x \in Handle : Mine(f[x], h) = {}
      BY <1>4, <2>2, <2>8
    <3>2. CASE h # from
      <4>1. /\ AtMostOne(f, h) => AtMostOne(MsNext, h)
            /\ \A p, l : Settled(f, h, p, l) => Settled(MsNext, h, p, l)
        BY <2>2, <2>5, <3>2, AddedOther
      <4>2. pos'[h] = pos[h] /\ last'[h] = last[h] /\ (gen'[h] # 0 => Live(h))
        BY <1>3, <2>3, <3>2 DEF Live
      <4> QED BY <3>1, <3>2, <4>1, <4>2
    <3>3. CASE h = from
      <4>1. AtMostOne(MsNext, h) /\ Settled(MsNext, h, last[from], size[from])
        BY <2>2, <2>4, <2>5, <3>1, <3>3, AddedOwn
      <4> QED BY <2>3, <3>3, <4>1
    <3> QED BY <3>2, <3>3
  <2> QED BY <2>6, <2>7, <2>8, WriteInvNext
<1>6. CASE ~MoreToSend(from)
  <2>1. /\ pos' = [pos EXCEPT ![from] = 0] /\ last' = [last EXCEPT ![from] = 0]
        /\ wdone' = [wdone EXCEPT ![to] = Tail(wdone[to])] /\ wq' = wq
    BY <1>6 DEF AfterWrite, BufRestart, from
  <2>2. /\ last'[from] = 0 /\ pos'[from] = 0
        /\ \A h \in Handle : h # from => last'[h] = last[h] /\ pos'[h] = pos[h]
    BY <1>2, <1>3, <2>1 DEF DataTypeOK
  <2>3. Taken(Ms, MsNext, to)
    <3>1. /\ wdone'[to] = Tail(wdone[to]) /\ wq'[to] = wq[to]
          /\ \A x \in Handle : x # to => wdone'[x] = wdone[x] /\ wq'[x] = wq[x]
      BY <1>2, <2>1 DEF WriteTypeOK
    <3>2. M(to) # <<>> /\ Sums(wq[to], Tail(wdone[to])) = Tail(M(to))
      <4>1. wq[to] \in Seq(WriteReq) /\ wdone[to] \in Seq(WriteReq)
        BY <1>2 DEF WriteTypeOK
      <4> QED BY <1>1, <4>1, SumsTail DEF M
    <3>3. MNext(to) = Tail(M(to)) /\ \A x \in Handle : x # to => MNext(x) = M(x)
      BY <3>1, <3>2 DEF M, MNext
    <3> QED BY <3>2, <3>3 DEF Taken, Ms, MsNext
  <2>4. \A h \in Handle : pos'[h] = 0 \/ pos'[h] < last'[h]
    BY <2>2 DEF WriteInv
  <2>5. \A x \in Handle : NothingAtZero(MsNext[x])
    BY <1>2, <1>4, <2>3
  <2>6. ASSUME NEW h \in Handle, h \notin miscredit'
        PROVE  AtMostOne(MsNext, h) /\ (gen'[h] # 0 => Settled(MsNext, h, pos'[h], last'[h]))
    <3>1. /\ AtMostOne(MsNext, h)
          /\ h # from /\ Live(h) => Settled(MsNext, h, pos[h], last[h])
          /\ h = from => \A x \in Handle : Mine(MsNext[x], h) = {}
      BY <1>2, <1>4, <2>3, <2>6
    <3>2. CASE h # from
      BY <1>3, <2>2, <3>1, <3>2 DEF Live
    <3>3. CASE h = from
      <4>1. Settled(MsNext, h, 0, 0)
        BY <3>1, <3>3 DEF Settled
      <4> QED BY <2>2, <3>1, <3>3, <4>1
    <3> QED BY <3>2, <3>3
  <2> QED BY <2>4, <2>5, <2>6, WriteInvNext
<1> QED BY <1>5, <1>6

LEMMA CleanupWrites ==
    ASSUME TypeInv, BoundsInv, WriteInv, NEW h \in Handle, Cleanup(h), UvClose(h),
           UNCHANGED ghostVars
    PROVE  WriteInv'
<1>1. /\ MsNext = Ms /\ UNCHANGED miscredit
  BY MsSame DEF UvClose, ghostVars
<1>2. /\ gen' = [gen EXCEPT ![h] = 0]
      /\ pos' = [pos EXCEPT ![h] = 0] /\ last' = [last EXCEPT ![h] = 0]
  BY DEF Cleanup
<1>3. \A x \in Handle :
        \/ pos'[x] = pos[x] /\ last'[x] = last[x] /\ (gen'[x] # 0 => Live(x) \/ hs[x] = "unused")
        \/ pos'[x] = 0 /\ last'[x] = 0 /\ gen'[x] = 0
  BY <1>2 DEF TypeInv, DataTypeOK, HeapTypeOK, Live
<1> QED BY <1>1, <1>3, QuietWrites

LEMMA NextWriteInv ==
    ASSUME TypeInv, BoundsInv, RequestsNear, WriteInv, [Next]_vars PROVE WriteInv'
<1>0. /\ TypeInv' /\ LinkInv /\ LinksConsistent /\ LinkTypeOK /\ LiveWhileOpen
      /\ UvTypeOK /\ DataTypeOK /\ HeapTypeOK
  BY NextTypeInv, TypeInvType DEF TypeInv, LinkInv, TypeOK
<1>1. ASSUME UNCHANGED <<pos, last, miscredit>>, MsNext = Ms,
             \A h \in Handle : gen'[h] # 0 => Live(h) \/ hs[h] = "unused"
      PROVE  WriteInv'
  BY <1>1, QuietWrites
<1>2. CASE UNCHANGED <<pos, last, miscredit, gen>> /\ MsNext = Ms
  BY <1>1, <1>2 DEF Live
<1>3. ASSUME NEW d \in Down, Accept(d) PROVE WriteInv'
  <2>1. /\ UNCHANGED <<pos, last, miscredit, wq, wdone>> /\ hs[d] = "unused"
        /\ gen' = [gen EXCEPT ![d] = 1] \/ gen' = gen
    BY <1>3 DEF Accept, InitCallbackData, InitCallbackDataFails, ghostVars
  <2>2. \A h \in Handle : gen'[h] # 0 => Live(h) \/ hs[h] = "unused"
    BY <1>0, <2>1 DEF HeapTypeOK, Live
  <2> QED BY <1>1, <2>1, <2>2, MsSame
<1>4. ASSUME NEW d \in Down, InitUpstreamFails(d) PROVE WriteInv'
  BY <1>4, CleanupWrites, HandleKinds DEF InitUpstreamFails
<1>5. ASSUME NEW d \in Down, NEW u \in Up, InitUpstream(d, u) PROVE WriteInv'
  <2>1. PICK n \in Arriving(d), c \in NewCapacity :
          RtsBufAppend(d, n, [cap EXCEPT ![u] = c], [gen EXCEPT ![u] = 1])
    BY <1>5 DEF InitUpstream
  <2>2. /\ UNCHANGED <<pos, last, miscredit, wq, wdone>> /\ hs[u] = "unused"
        /\ d \in Handle /\ Live(d)
    BY <1>0, <1>5, HandleKinds DEF InitUpstream, NewUpstream
  <2>3. ASSUME NEW h \in Handle, gen'[h] # 0 PROVE Live(h) \/ hs[h] = "unused"
    <3>1. CASE h = d \/ h = u
      BY <2>2, <3>1
    <3>2. CASE h # d /\ h # u
      <4>1. gen'[h] = gen[h]
        BY <1>0, <2>1, <3>2 DEF RtsBufAppend, HeapTypeOK
      <4> QED BY <2>3, <4>1 DEF Live
    <3> QED BY <3>1, <3>2
  <2> QED BY <1>1, <2>2, <2>3, MsSame
<1>6. ASSUME NEW u \in Up, Connected(u) PROVE WriteInv'
  <2>1. /\ peer[u] # None /\ UNCHANGED <<pos, gen, miscredit>> /\ u \in Handle
        /\ IF HasBuf(peer[u]) /\ pos[peer[u]] = last[peer[u]]
           THEN Transfer(peer[u], u, wq[u], wdone[u])
           ELSE UNCHANGED <<last, wq, wdone, pollout, feed, out, brk, fate>>
    BY <1>6, HandleKinds DEF Connected, heapVars, ghostVars
  <2>2. peer[u] \in Handle /\ Live(peer[u])
    <3>1. peer[u] \in Handle /\ peer[peer[u]] = u
      BY <1>0, <2>1 DEF LinkTypeOK, LinksConsistent
    <3>2. peer[peer[u]] # None
      BY <2>1, <3>1, HandleKinds
    <3> QED BY <1>0, <3>1, <3>2 DEF LinksConsistent
  <2>3. CASE HasBuf(peer[u]) /\ pos[peer[u]] = last[peer[u]]
    BY <1>0, <2>1, <2>2, <2>3, TransferWrites DEF Live
  <2>4. CASE ~(HasBuf(peer[u]) /\ pos[peer[u]] = last[peer[u]])
    BY <1>2, <2>1, <2>4, MsSame
  <2> QED BY <2>3, <2>4
<1>7. ASSUME NEW h \in Handle, ReadRelayed(h) PROVE WriteInv'
  <2>1. PICK n \in Arriving(h) :
          /\ RtsBufAppend(h, n, cap, gen)
          /\ UNCHANGED <<connVars, pos, client, miscredit>>
          /\ IF MayTransfer(h)
             THEN Transfer(h, peer[h], wq[peer[h]], wdone[peer[h]])
             ELSE UNCHANGED <<last, wq, wdone, pollout, feed, out, brk, fate>>
    BY <1>7 DEF ReadRelayed
  <2>2. Live(h)
    BY <1>7 DEF ReadRelayed
  <2>3. \A x \in Handle : (gen'[x] # 0 => Live(x)) /\ (Live(x) => gen'[x] # 0)
    <3>1. gen' \in [Handle -> Nat] /\ \A x \in Handle : gen'[x] # 0 <=> gen[x] # 0
      BY <1>0, <2>1, <2>2, AppendKeepsBuffers DEF Live, LinkTypeOK
    <3> QED BY <3>1 DEF Live
  <2>4. CASE MayTransfer(h)
    <3>1. peer[h] \in Handle /\ pos[h] = last[h]
      BY <1>0, <2>4 DEF MayTransfer, LinkTypeOK
    <3>2. Transfer(h, peer[h], wq[peer[h]], wdone[peer[h]]) /\ UNCHANGED <<pos, miscredit>>
      BY <2>1, <2>4
    <3> QED BY <1>0, <2>2, <2>3, <3>1, <3>2, TransferWrites
  <2>5. CASE ~MayTransfer(h)
    BY <1>1, <2>1, <2>3, <2>5, MsSame
  <2> QED BY <2>4, <2>5
<1>8. ASSUME NEW h \in Handle, ReadEnd(h) PROVE WriteInv'
  <2>1. (Cleanup(h) /\ UvClose(h)) \/ UNCHANGED <<pos, last, gen, wq, wdone>>
    BY <1>8 DEF ReadEnd, Crash, bufVars, heapVars, streamVars
  <2>2. UNCHANGED ghostVars
    BY <1>8 DEF ReadEnd
  <2> QED BY <1>2, <2>1, <2>2, CleanupWrites, MsSame DEF ghostVars
<1>9. ASSUME NEW h \in Handle, AfterWrite(h) PROVE WriteInv'
  BY <1>0, <1>9, AfterWriteWrites
<1>10. ASSUME NEW h \in Handle, ReadAgain(h) \/ AfterWriteFaults(h) \/ ReadDataFaults(h)
       PROVE  WriteInv'
  BY <1>2, <1>10, MsSame
     DEF ReadAgain, AfterWriteFaults, ReadDataFaults, Crash, bufVars, heapVars,
         ghostVars, streamVars
<1>11. ASSUME NEW u \in Up, ConnectFaults(u) PROVE WriteInv'
  BY <1>2, <1>11, MsSame DEF ConnectFaults, Crash, bufVars, heapVars, ghostVars, streamVars
<1>12. CASE UvNext /\ UNCHANGED <<connVars, bufVars, ghostVars>>
  <2>1. UNCHANGED heapVars
    BY <1>12 DEF UvNext, LoopTurn, RunPending, PendingDone, PollDone, ClosingDone, FinishClose,
                 WriteStage, CallbacksDone, PollEvent
  <2>2. MsNext = Ms
    BY <1>0, <1>12, UvWrites
  <2> QED BY <1>2, <1>12, <2>1, <2>2 DEF heapVars, bufVars, ghostVars
<1>13. CASE UNCHANGED vars
  BY <1>2, <1>13, MsSame DEF vars, uvVars, bufVars, ghostVars, heapVars, streamVars
<1> QED BY <1>3, <1>4, <1>5, <1>6, <1>7, <1>8, <1>9, <1>10, <1>11, <1>12, <1>13
        DEF Next, Callback

LEMMA SeqJoin ==
    ASSUME NEW S, NEW q \in Seq(S), NEW done \in Seq(S)
    PROVE  /\ DOMAIN (done \o q) = 1 .. Len(done) + Len(q)
           /\ \A i \in 1 .. Len(done) + Len(q) :
                (done \o q)[i] = Req(q, done, i)
BY DEF Req

(* The bytes of a stream are in at most one write, which ends where they    *)
(* were handed over, and there is one exactly when some are not credited,   *)
(* whatever order reads, connects, completions and ends come in, as long as *)
(* the completions credited to it were its own (proxy.c:398-409).           *)
THEOREM OneWriteSafe == Spec => []OneWriteAtATime
<1>1. ASSUME TypeInv, WriteInv PROVE OneWriteAtATime
  <2> SUFFICES ASSUME NEW h \in Handle, h \notin miscredit
               PROVE  LET held == {r \in Outstanding(h) : Requests(r[1])[r[2]].len > 0}
                      IN  /\ Cardinality(held) <= 1
                          /\ Live(h) => (pos[h] # last[h] <=> held # {})
                          /\ Live(h) => \A r \in held : Completes(Requests(r[1])[r[2]], h)
    BY DEF OneWriteAtATime
  <2> DEFINE held == {r \in Outstanding(h) : Requests(r[1])[r[2]].len > 0}
  <2>1. /\ AtMostOne(Ms, h) /\ (Live(h) => Settled(Ms, h, pos[h], last[h]))
        /\ WriteTypeOK /\ h # None
    BY <1>1, NoneAssumption DEF WriteInv, OneWrite, TypeInv
  <2>2. ASSUME NEW to \in Handle
        PROVE  /\ DOMAIN Requests(to) = 1 .. Len(Ms[to])
               /\ \A i \in DOMAIN Requests(to) :
                    /\ Requests(to)[i] \in WriteReq /\ Ms[to][i] = Sum(Requests(to)[i])
                    /\ i \in Mine(Ms[to], h)
                         <=> Requests(to)[i].src = h /\ Requests(to)[i].len > 0
    <3> DEFINE q == wq[to]
               done == wdone[to]
               n == Len(done) + Len(q)
    <3>1. q \in Seq(WriteReq) /\ done \in Seq(WriteReq)
      BY <2>1 DEF WriteTypeOK
    <3>2. /\ Len(Ms[to]) = n
          /\ \A i \in 1 .. n : Ms[to][i] = Sum(Req(q, done, i)) /\ Req(q, done, i) \in WriteReq
      BY <3>1, SumsType, ReqElements DEF Ms, M
    <3>3. /\ DOMAIN Requests(to) = 1 .. n
          /\ \A i \in 1 .. n : Requests(to)[i] = Req(q, done, i)
      <4>1. Requests(to) = done \o q
        BY DEF Requests
      <4> HIDE DEF q, done
      <4>2. /\ DOMAIN (done \o q) = 1 .. Len(done) + Len(q)
            /\ \A i \in 1 .. Len(done) + Len(q) : (done \o q)[i] = Req(q, done, i)
        BY <3>1, SeqJoin, Zenon
      <4> QED BY <4>1, <4>2, Zenon
    <3> HIDE DEF n, q, done
    <3>4. ASSUME NEW i \in 1 .. n
          PROVE  /\ Requests(to)[i] \in WriteReq /\ Ms[to][i] = Sum(Requests(to)[i])
                 /\ Ms[to][i].of = h <=> Requests(to)[i].src = h /\ Requests(to)[i].len > 0
      <4>1. Requests(to)[i] \in WriteReq /\ Ms[to][i] = Sum(Requests(to)[i])
        BY <3>2, <3>3
      <4>2. Requests(to)[i].len \in Nat
        BY <4>1 DEF WriteReq
      <4> QED BY <2>1, <4>1, <4>2 DEF Sum
    <3> QED BY <3>2, <3>3, <3>4 DEF Mine
  <2>3. ASSUME NEW r
        PROVE  r \in held <=> \E to \in Handle : \E i \in Mine(Ms[to], h) : r = <<to, i>>
    <3>1. r \in Outstanding(h)
            <=> \E to \in Handle : \E i \in DOMAIN Requests(to) :
                  r = <<to, i>> /\ Requests(to)[i].src = h
      BY DEF Outstanding
    <3>2. \A to \in Handle : Mine(Ms[to], h) \subseteq DOMAIN Requests(to)
      BY <2>2 DEF Mine
    <3> QED BY <2>2, <3>1, <3>2
  <2> HIDE DEF held
  <2>4. \A r, s \in held : r = s
    BY <2>1, <2>3 DEF AtMostOne
  <2>5. Cardinality(held) <= 1
    <3>1. CASE held = {}
      BY <3>1, FS_EmptySet
    <3>2. CASE held # {}
      <4>1. PICK a : held = {a}
        BY <2>4, <3>2
      <4>2. Cardinality({a}) = 1
        BY FS_Singleton, Zenon
      <4>3. Cardinality(held) = 1
        BY <4>1, <4>2, Zenon
      <4> QED BY <4>3, SMT
    <3> QED BY <3>1, <3>2
  <2>6. Live(h) => (pos[h] # last[h] <=> held # {})
    <3>1. held # {} <=> \E to \in Handle : Mine(Ms[to], h) # {}
      BY <2>3
    <3>2. ASSUME Live(h), NEW to \in Handle, Mine(Ms[to], h) # {} PROVE pos[h] # last[h]
      <4>1. pos[h] < last[h]
        BY <2>1, <3>2 DEF Settled
      <4>2. pos[h] \in Nat /\ last[h] \in Nat
        BY <1>1 DEF TypeInv, DataTypeOK
      <4> QED BY <4>1, <4>2
    <3>3. Live(h) /\ pos[h] # last[h] => \E to \in Handle : Mine(Ms[to], h) # {}
      BY <2>1 DEF Settled
    <3> QED BY <3>1, <3>2, <3>3
  <2>7. ASSUME Live(h), NEW r \in held PROVE Completes(Requests(r[1])[r[2]], h)
    <3>0. PICK to \in Handle : \E i \in Mine(Ms[to], h) : r = <<to, i>>
      BY <2>3, <2>7
    <3>1. PICK i \in Mine(Ms[to], h) : r = <<to, i>>
      BY <3>0
    <3>2. i \in DOMAIN Requests(to) /\ Ms[to][i] = Sum(Requests(to)[i]) /\ Requests(to)[i].src = h
      BY <2>2 DEF Mine
    <3>3. Ms[to][i].end = last[h]
      BY <2>1, <2>7 DEF Settled, EndAt
    <3>4. Completes(Requests(to)[i], h)
      BY <3>2, <3>3 DEF Completes, Sum
    <3> QED BY <3>1, <3>4
  <2> QED BY <2>5, <2>6, <2>7 DEF held
<1>2. Init => TypeInv /\ BoundsInv /\ CrashInv /\ WriteInv
  BY InitTypeInv, InitBoundsInv, InitCrashInv, InitWriteInv
<1>3. TypeInv /\ BoundsInv /\ CrashInv /\ WriteInv /\ [Next]_vars
        => TypeInv' /\ BoundsInv' /\ CrashInv' /\ WriteInv'
  BY NextTypeInv, NextBoundsInv, NextCrashInv, NextWriteInv DEF CrashInv
<1>4. TypeInv /\ WriteInv => OneWriteAtATime
  BY <1>1
<1> QED BY <1>2, <1>3, <1>4, PTL DEF Spec

-----------------------------------------------------------------------------
(* The bytes of a buffer.                                                   *)

LEMMA OverwriteElements ==
    ASSUME NEW s \in Seq(Nat), NEW at \in Nat, at <= Len(s), NEW new \in Seq(Nat)
    PROVE  /\ \A k \in 1 .. at : Overwrite(s, at, new)[k] = s[k]
           /\ \A i \in 1 .. Len(new) : Overwrite(s, at, new)[at + i] = new[i]
<1> DEFINE a == Len(s)
           b == at + Len(new)
           m == Max({a, b})
<1>0. a \in Nat /\ b \in Nat /\ Len(new) \in Nat /\ DOMAIN s = 1 .. a
  OBVIOUS
<1>1. m >= a /\ m >= b /\ m \in {a, b}
  <2> HIDE DEF a, b
  <2>1. a \in Int /\ b \in Int
    BY <1>0
  <2> QED BY <2>1, MinOfTwo, Zenon
<1> HIDE DEF m
<1>2. \A i \in 1 .. m :
        Overwrite(s, at, new)[i] = IF i \in at + 1 .. b THEN new[i - at]
                                   ELSE IF i \in 1 .. a THEN s[i] ELSE 0
  BY <1>0 DEF Overwrite, m
<1> HIDE DEF a, b
<1>3. ASSUME NEW k \in 1 .. at PROVE Overwrite(s, at, new)[k] = s[k]
  <2>1. k \in 1 .. a /\ k \in 1 .. m /\ ~(k \in at + 1 .. b)
    BY <1>0, <1>1, <1>3 DEF a, b
  <2> QED BY <1>2, <2>1
<1>4. ASSUME NEW i \in 1 .. Len(new) PROVE Overwrite(s, at, new)[at + i] = new[i]
  <2>1. at + i \in at + 1 .. b /\ at + i \in 1 .. m /\ (at + i) - at = i
    BY <1>0, <1>1, <1>4 DEF b
  <2> QED BY <1>2, <2>1
<1> QED BY <1>3, <1>4

(* An append puts the new bytes behind the others, or refuses all of them.  *)
LEMMA AppendBytes ==
    ASSUME TypeInv, NEW h \in Handle, NEW n \in Arriving(h), HasBuf(h), BufOK(h),
           NEW caps, NEW gens, RtsBufAppend(h, n, caps, gens)
    PROVE  /\ n \in Nat \ {0} /\ rd'[h] = rd[h] + n
           /\ \A x \in Handle : x # h =>
                rd'[x] = rd[x] /\ lost'[x] = lost[x] /\ mem'[x] = mem[x] /\ size'[x] = size[x]
           /\ \/ /\ size'[h] = size[h] + n /\ lost'[h] = lost[h]
                 /\ \A k \in 1 .. size[h] : mem'[h][k] = mem[h][k]
                 /\ \A i \in 1 .. n : mem'[h][size[h] + i] = rd[h] + i
              \/ /\ size'[h] = size[h] /\ mem'[h] = mem[h]
                 /\ lost'[h] = lost[h] \cup {rd[h] + i : i \in 1 .. n}
<1> DEFINE new == [i \in 1 .. n |-> rd[h] + i]
<1>1. PICK oom \in {FALSE, MayOom} :
        LET r == AppendResult(cap[h], size[h], n, oom)
        IN  /\ rd' = [rd EXCEPT ![h] = @ + n] /\ size' = [size EXCEPT ![h] = r.size]
            /\ mem' = [mem EXCEPT ![h] =
                         IF r.ret = 0 THEN Overwrite(@, size[h], new) ELSE @]
            /\ lost' = [lost EXCEPT ![h] = IF r.ret = 0 THEN @ ELSE @ \cup Range(new)]
  BY DEF RtsBufAppend
<1> DEFINE r == AppendResult(cap[h], size[h], n, oom)
<1>2. /\ n \in Nat \ {0} /\ n <= IntMax /\ IntMax \in Nat /\ oom \in BOOLEAN
  <2>1. n \in Nat \ {0} /\ n <= ReadMax /\ ReadMax \in Nat
    BY ArrivingType, NoneAssumption
  <2>2. ReadMax <= IntMax /\ IntMax \in Nat
    BY ProxyAssumption, IntMaxAssumption
  <2>3. oom \in BOOLEAN
    BY ProxyAssumption
  <2> QED BY <2>1, <2>2, <2>3
<1>3. /\ mem[h] \in Seq(Nat) /\ rd[h] \in Nat /\ size[h] \in Nat
      /\ cap[h] \in 1 .. IntMax /\ size[h] \in 0 .. cap[h] - 1 /\ size[h] <= Len(mem[h])
  <2>1. mem[h] \in Seq(Nat) /\ rd[h] \in Nat /\ size[h] \in Nat
    BY DEF TypeInv, HeapTypeOK, GhostTypeOK, DataTypeOK
  <2>2. cap[h] \in 1 .. IntMax /\ size[h] <= Len(mem[h]) /\ Len(mem[h]) < cap[h]
    BY DEF BufOK
  <2>3. Len(mem[h]) \in Nat
    BY <2>1
  <2> QED BY <1>2, <2>1, <2>2, <2>3
<1>4. \/ r.ret = 0 /\ r.size = size[h] + n
      \/ r.ret = -3 /\ r.size = size[h]
  BY <1>2, <1>3, AppendResultCases
<1>5. new \in Seq(Nat) /\ Len(new) = n /\ \A i \in 1 .. n : new[i] = rd[h] + i
  <2>1. new \in [1 .. n -> Nat]
    BY <1>2, <1>3
  <2> QED BY <1>2, <2>1
<1>6. Range(new) = {rd[h] + i : i \in 1 .. n}
  BY DEF Range
<1> DEFINE s == Overwrite(mem[h], size[h], new)
<1> HIDE DEF r, new
<1>7. /\ \A k \in 1 .. size[h] : s[k] = mem[h][k]
      /\ \A i \in 1 .. n : s[size[h] + i] = rd[h] + i
  BY <1>3, <1>5, OverwriteElements
<1> HIDE DEF s
<1>8. /\ rd'[h] = rd[h] + n /\ size'[h] = r.size
      /\ mem'[h] = IF r.ret = 0 THEN s ELSE mem[h]
      /\ lost'[h] = IF r.ret = 0 THEN lost[h] ELSE lost[h] \cup Range(new)
      /\ \A x \in Handle : x # h =>
           rd'[x] = rd[x] /\ lost'[x] = lost[x] /\ mem'[x] = mem[x] /\ size'[x] = size[x]
  BY <1>1 DEF r, s, new, TypeInv, HeapTypeOK, DataTypeOK, GhostTypeOK
<1>9. CASE r.ret = 0
  <2>1. size'[h] = size[h] + n /\ lost'[h] = lost[h] /\ mem'[h] = s
    BY <1>4, <1>8, <1>9
  <2> QED BY <1>2, <1>7, <1>8, <2>1
<1>10. CASE r.ret # 0
  <2>1. size'[h] = size[h] /\ lost'[h] = lost[h] \cup Range(new) /\ mem'[h] = mem[h]
    BY <1>4, <1>8, <1>10
  <2> QED BY <1>2, <1>6, <1>8, <2>1
<1> QED BY <1>9, <1>10

(* What a step does to the buffer of a stream: appends to it, gives it up,  *)
(* or leaves the memory as it is.                                           *)
Appended(h, n) ==
    /\ n \in Nat \ {0} /\ rd'[h] = rd[h] + n
    /\ \/ /\ size'[h] = size[h] + n /\ lost'[h] = lost[h]
          /\ \A k \in 1 .. size[h] : mem'[h][k] = mem[h][k]
          /\ \A i \in 1 .. n : mem'[h][size[h] + i] = rd[h] + i
       \/ /\ size'[h] = size[h] /\ mem'[h] = mem[h]
          /\ lost'[h] = lost[h] \cup {rd[h] + i : i \in 1 .. n}

BytesStep(h) ==
    \/ /\ mem'[h] = mem[h] /\ rd'[h] = rd[h] /\ lost'[h] = lost[h]
       /\ size'[h] \in {0, size[h]}
    \/ gen'[h] = 0 /\ size'[h] = 0 /\ rd'[h] = rd[h] /\ lost'[h] = lost[h]
    \/ Live(h) /\ \E n : Appended(h, n)

LEMMA NextBytes ==
    ASSUME TypeInv, \A x \in Handle : BufOK(x), [Next]_vars, NEW h \in Handle
    PROVE  BytesStep(h)
<1>0. /\ LinkInv /\ HeapTypeOK /\ DataTypeOK /\ GhostTypeOK
  BY DEF TypeInv
<1>1. CASE UNCHANGED <<mem, rd, lost, size>>
  BY <1>1 DEF BytesStep
<1>2. ASSUME NEW x \in Handle, Cleanup(x), UNCHANGED ghostVars PROVE BytesStep(h)
  <2>1. /\ gen' = [gen EXCEPT ![x] = 0] /\ mem' = [mem EXCEPT ![x] = <<>>]
        /\ size' = [size EXCEPT ![x] = 0]
    BY <1>2 DEF Cleanup
  <2>2. rd' = rd /\ lost' = lost
    BY <1>2 DEF ghostVars
  <2> QED BY <1>0, <2>1, <2>2 DEF BytesStep, HeapTypeOK, DataTypeOK
<1>3. ASSUME NEW x \in Handle, HasBuf(x), NEW n \in Arriving(x), NEW caps, NEW gens,
             RtsBufAppend(x, n, caps, gens)
      PROVE  BytesStep(h)
  <2>1. /\ n \in Nat \ {0} /\ rd'[x] = rd[x] + n
        /\ \A y \in Handle : y # x =>
             rd'[y] = rd[y] /\ lost'[y] = lost[y] /\ mem'[y] = mem[y] /\ size'[y] = size[y]
        /\ \/ /\ size'[x] = size[x] + n /\ lost'[x] = lost[x]
              /\ \A k \in 1 .. size[x] : mem'[x][k] = mem[x][k]
              /\ \A i \in 1 .. n : mem'[x][size[x] + i] = rd[x] + i
           \/ /\ size'[x] = size[x] /\ mem'[x] = mem[x]
              /\ lost'[x] = lost[x] \cup {rd[x] + i : i \in 1 .. n}
    <3>1. BufOK(x)
      OBVIOUS
    <3> QED BY <1>3, <3>1, AppendBytes
  <2>2. CASE h = x
    <3>1. Appended(h, n)
      BY <2>1, <2>2 DEF Appended
    <3>2. Live(h)
      BY <1>3, <2>2 DEF BufOK
    <3> QED BY <3>1, <3>2 DEF BytesStep
  <2>3. CASE h # x
    BY <2>1, <2>3 DEF BytesStep
  <2> QED BY <2>2, <2>3
<1>4. ASSUME NEW d \in Down, Accept(d) PROVE BytesStep(h)
  BY <1>1, <1>4 DEF Accept, ghostVars
<1>5. ASSUME NEW d \in Down, InitUpstreamFails(d) PROVE BytesStep(h)
  BY <1>2, <1>5, HandleKinds DEF InitUpstreamFails
<1>6. ASSUME NEW d \in Down, NEW u \in Up, InitUpstream(d, u) PROVE BytesStep(h)
  <2>1. PICK n \in Arriving(d), c \in NewCapacity :
          RtsBufAppend(d, n, [cap EXCEPT ![u] = c], [gen EXCEPT ![u] = 1])
    BY <1>6 DEF InitUpstream
  <2>2. d \in Handle /\ HasBuf(d)
    BY <1>6, HandleKinds DEF InitUpstream
  <2> QED BY <1>3, <2>1, <2>2
<1>7. ASSUME NEW x \in Handle, ReadRelayed(x) PROVE BytesStep(h)
  <2>1. PICK n \in Arriving(x) : RtsBufAppend(x, n, cap, gen)
    BY <1>7 DEF ReadRelayed
  <2>2. HasBuf(x)
    BY <1>7 DEF ReadRelayed
  <2> QED BY <1>3, <2>1, <2>2
<1>8. ASSUME NEW x \in Handle, AfterWrite(x) PROVE BytesStep(h)
  <2>1. UNCHANGED <<mem, rd, lost>>
    BY <1>8 DEF AfterWrite, heapVars
  <2>2. size' = size \/ size' = [size EXCEPT ![peer[x]] = 0]
    BY <1>8 DEF AfterWrite, BufRestart
  <2>3. size'[h] \in {0, size[h]}
    BY <1>0, <2>2 DEF DataTypeOK
  <2> QED BY <2>1, <2>3 DEF BytesStep
<1>9. ASSUME NEW u \in Up, Connected(u) \/ ConnectFaults(u) PROVE BytesStep(h)
  BY <1>1, <1>9 DEF Connected, ConnectFaults, Crash, heapVars, bufVars, ghostVars
<1>10. ASSUME NEW x \in Handle, ReadAgain(x) \/ AfterWriteFaults(x) \/ ReadDataFaults(x)
       PROVE  BytesStep(h)
  BY <1>1, <1>10 DEF ReadAgain, AfterWriteFaults, ReadDataFaults, Crash, heapVars, bufVars,
                       ghostVars
<1>11. ASSUME NEW x \in Handle, ReadEnd(x) PROVE BytesStep(h)
  <2>1. Cleanup(x) \/ UNCHANGED <<mem, size>>
    BY <1>11 DEF ReadEnd, Crash, heapVars, bufVars
  <2>2. UNCHANGED ghostVars
    BY <1>11 DEF ReadEnd
  <2> QED BY <1>1, <1>2, <2>1, <2>2 DEF ghostVars
<1>12. CASE UvNext /\ UNCHANGED <<connVars, bufVars, ghostVars>>
  <2>1. UNCHANGED heapVars
    BY <1>12 DEF UvNext, LoopTurn, RunPending, PendingDone, PollDone, ClosingDone, FinishClose,
                 WriteStage, CallbacksDone, PollEvent
  <2> QED BY <1>1, <1>12, <2>1 DEF heapVars, bufVars, ghostVars
<1>13. CASE UNCHANGED vars
  BY <1>1, <1>13 DEF vars, uvVars, bufVars, ghostVars
<1> QED BY <1>4, <1>5, <1>6, <1>7, <1>8, <1>9, <1>10, <1>11, <1>12, <1>13
        DEF Next, Callback

(* Where the requests of a stream are among its summaries. *)
LEMMA SumsAt ==
    ASSUME NEW q \in Seq(WriteReq), NEW done \in Seq(WriteReq)
    PROVE  /\ Len(done) \in Nat /\ Len(q) \in Nat
           /\ \A i \in 1 .. Len(done) :
                i \in 1 .. Len(Sums(q, done)) /\ Sums(q, done)[i] = Sum(done[i])
           /\ \A j \in 1 .. Len(q) :
                /\ Len(done) + j \in 1 .. Len(Sums(q, done))
                /\ Sums(q, done)[Len(done) + j] = Sum(q[j])
<1> DEFINE n == Len(done)
           k == Len(q)
           s == Sums(q, done)
<1>1. /\ n \in Nat /\ k \in Nat /\ Len(s) = n + k
      /\ \A i \in 1 .. n + k : s[i] = Sum(Req(q, done, i))
  BY SumsType
<1> HIDE DEF s
<1>2. ASSUME NEW i \in 1 .. n PROVE i \in 1 .. Len(s) /\ s[i] = Sum(done[i])
  <2>1. i \in 1 .. n + k /\ i <= n
    BY <1>1
  <2> QED BY <1>1, <2>1 DEF Req
<1>3. ASSUME NEW j \in 1 .. k PROVE n + j \in 1 .. Len(s) /\ s[n + j] = Sum(q[j])
  <2>1. n + j \in 1 .. n + k /\ ~(n + j <= n) /\ (n + j) - n = j
    BY <1>1
  <2>2. Req(q, done, n + j) = q[j]
    BY <2>1 DEF Req
  <2> QED BY <1>1, <2>1, <2>2
<1> QED BY <1>1, <1>2, <1>3 DEF s

(* A request with bytes of h is one of those the summaries count. *)
LEMMA MineAt ==
    ASSUME NEW q \in Seq(WriteReq), NEW done \in Seq(WriteReq), NEW h
    PROVE  /\ \A i \in 1 .. Len(done) : done[i].src = h /\ done[i].len # 0 =>
                 i \in Mine(Sums(q, done), h) /\ EndAt(Sums(q, done), i) = done[i].off + done[i].len
           /\ \A j \in 1 .. Len(q) : q[j].src = h /\ q[j].len # 0 =>
                 /\ Len(done) + j \in Mine(Sums(q, done), h)
                 /\ EndAt(Sums(q, done), Len(done) + j) = q[j].off + q[j].len
<1> DEFINE n == Len(done)
           k == Len(q)
           s == Sums(q, done)
<1>1. /\ \A i \in 1 .. n : i \in 1 .. Len(s) /\ s[i] = Sum(done[i])
      /\ \A j \in 1 .. k : n + j \in 1 .. Len(s) /\ s[n + j] = Sum(q[j])
  BY SumsAt
<1>2. \A r : r.src = h /\ r.len # 0 => Sum(r).of = h /\ Sum(r).end = r.off + r.len
  BY DEF Sum
<1> HIDE DEF s, n, k
<1>3. /\ \A i \in 1 .. n : done[i].src = h /\ done[i].len # 0 =>
            i \in Mine(s, h) /\ EndAt(s, i) = done[i].off + done[i].len
      /\ \A j \in 1 .. k : q[j].src = h /\ q[j].len # 0 =>
            n + j \in Mine(s, h) /\ EndAt(s, n + j) = q[j].off + q[j].len
  BY <1>1, <1>2 DEF Mine, EndAt
<1> QED BY <1>3 DEF s, n, k

-----------------------------------------------------------------------------
(* What is queued is not written over.                                      *)

LEMMA SameSub ==
    ASSUME NEW s \in Seq(Nat), NEW t \in Seq(Nat), NEW a \in Nat, NEW n \in Nat,
           a + n <= Len(s), a + n <= Len(t), \A k \in a + 1 .. a + n : s[k] = t[k]
    PROVE  SubSeq(s, a + 1, a + n) = SubSeq(t, a + 1, a + n)
<1>1. /\ a + 1 \in Int /\ a + n \in Int
      /\ \A k \in a + 1 .. a + n : s[k] \in Nat /\ t[k] \in Nat
  OBVIOUS
<1> DEFINE m == IF a + 1 <= a + n THEN (a + n) - (a + 1) + 1 ELSE 0
<1>2. /\ SubSeq(s, a + 1, a + n) \in Seq(Nat) /\ Len(SubSeq(s, a + 1, a + n)) = m
      /\ \A i \in 1 .. (a + n) - (a + 1) + 1 : SubSeq(s, a + 1, a + n)[i] = s[(a + 1) + i - 1]
  BY <1>1, SubSeqProperties
<1>3. /\ SubSeq(t, a + 1, a + n) \in Seq(Nat) /\ Len(SubSeq(t, a + 1, a + n)) = m
      /\ \A i \in 1 .. (a + n) - (a + 1) + 1 : SubSeq(t, a + 1, a + n)[i] = t[(a + 1) + i - 1]
  BY <1>1, SubSeqProperties
<1>4. m = n
  OBVIOUS
<1>5. ASSUME NEW i \in 1 .. n PROVE SubSeq(s, a + 1, a + n)[i] = SubSeq(t, a + 1, a + n)[i]
  <2>1. (a + 1) + i - 1 \in a + 1 .. a + n /\ i \in 1 .. (a + n) - (a + 1) + 1
    OBVIOUS
  <2> QED BY <1>2, <1>3, <2>1
<1> DEFINE u == SubSeq(s, a + 1, a + n)
           v == SubSeq(t, a + 1, a + n)
<1>6. u \in Seq(Nat) /\ v \in Seq(Nat) /\ Len(u) = Len(v) /\ \A i \in 1 .. Len(u) : u[i] = v[i]
  BY <1>2, <1>3, <1>4, <1>5
<1> HIDE DEF u, v
<1>7. u = v
  BY <1>6, SameSeq
<1> QED BY <1>7 DEF u, v

MiscreditStays == miscredit \subseteq miscredit'

LEMMA NextMiscredit == ASSUME [Next]_vars PROVE MiscreditStays
<1>1. CASE UNCHANGED miscredit
  BY <1>1 DEF MiscreditStays
<1>2. ASSUME NEW x \in Handle, AfterWrite(x) PROVE MiscreditStays
  BY <1>2 DEF AfterWrite, MiscreditStays
<1>3. ASSUME NEW d \in Down, Accept(d) \/ InitUpstreamFails(d) PROVE MiscreditStays
  BY <1>1, <1>3 DEF Accept, InitUpstreamFails, ghostVars
<1>4. ASSUME NEW d \in Down, NEW u \in Up, InitUpstream(d, u) PROVE MiscreditStays
  BY <1>1, <1>4 DEF InitUpstream
<1>5. ASSUME NEW u \in Up, Connected(u) \/ ConnectFaults(u) PROVE MiscreditStays
  BY <1>1, <1>5 DEF Connected, ConnectFaults, ghostVars
<1>6. ASSUME NEW x \in Handle, ReadRelayed(x) \/ ReadAgain(x) \/ ReadEnd(x) \/ AfterWriteFaults(x)
                               \/ ReadDataFaults(x)
      PROVE  MiscreditStays
  BY <1>1, <1>6 DEF ReadRelayed, ReadDataFaults, ReadAgain, ReadEnd, AfterWriteFaults, ghostVars
<1> QED BY <1>1, <1>2, <1>3, <1>4, <1>5, <1>6 DEF Next, Callback, vars, ghostVars

(* The bytes of a queued write whose buffer stays are those it had. *)
BytesStable ==
    \A to \in Handle : \A i \in DOMAIN wq[to] :
        LET r == wq[to][i]
        IN  r.src \notin miscredit' /\ gen[r.src] = r.gen /\ gen'[r.src] = r.gen =>
              SubSeq(mem'[r.src], r.off + 1, r.off + r.len)
                = SubSeq(mem[r.src], r.off + 1, r.off + r.len)

(* A step never changes the bytes a queued write will send, as long as its  *)
(* buffer is neither moved nor freed, and its stream is credited with its   *)
(* own writes only: appends go behind `size`, and the write ends at `last`  *)
(* (proxy.c:281-285, rts_buf.c:61).  Once a stream is credited with         *)
(* another's write this is false: its buffer may start again, and be        *)
(* appended to, with a write of it queued (MiscreditsExplained).            *)
THEOREM QueuedStable == Spec => QueuedBytesStable
<1>1. ASSUME TypeInv, BoundsInv, WriteInv, TypeInv', BoundsInv', [Next]_vars PROVE BytesStable
  <2> SUFFICES ASSUME NEW to \in Handle, NEW i \in DOMAIN wq[to], NEW r, r = wq[to][i],
                      r.src \notin miscredit', gen[r.src] = r.gen, gen'[r.src] = r.gen
               PROVE  SubSeq(mem'[r.src], r.off + 1, r.off + r.len)
                        = SubSeq(mem[r.src], r.off + 1, r.off + r.len)
    BY DEF BytesStable
  <2>1. /\ wq[to] \in Seq(WriteReq) /\ wdone[to] \in Seq(WriteReq) /\ i \in 1 .. Len(wq[to])
        /\ wq[to] \in Seq(InBuf)
    <3>1. wq[to] \in Seq(WriteReq) /\ wdone[to] \in Seq(WriteReq) /\ wq[to] \in Seq(InBuf)
      BY <1>1 DEF TypeInv, WriteTypeOK, BoundsInv, Within
    <3> QED BY <3>1
  <2>2. r \in WriteReq /\ r \in InBuf
    BY <2>1
  <2>3. r.src \in Handle /\ r.gen \in Nat \ {0} /\ r.off \in Nat /\ r.len \in Nat
    BY <2>2 DEF WriteReq
  <2> DEFINE h == r.src
  <2>4. /\ mem[h] \in Seq(Nat) /\ mem'[h] \in Seq(Nat) /\ size[h] \in Nat /\ last[h] \in Nat
        /\ last[h] <= size[h] /\ size[h] <= Len(mem[h]) /\ r.off + r.len <= Len(mem[h])
        /\ Live(h) /\ hs[h] # "unused" /\ h \notin miscredit
    <3>0. LiveWhileOpen
      BY <1>1 DEF TypeInv, LinkInv
    <3>1. mem[h] \in Seq(Nat) /\ mem'[h] \in Seq(Nat) /\ size[h] \in Nat /\ last[h] \in Nat
          /\ last[h] <= size[h]
      BY <1>1, <2>3 DEF TypeInv, HeapTypeOK, DataTypeOK, Offsets
    <3>2. Live(h)
      BY <2>3 DEF Live
    <3>4. r.off + r.len <= Len(mem[h]) /\ hs[h] # "unused" /\ HasBuf(h)
      BY <2>2, <2>3, <3>0, <3>2 DEF InBuf, LiveWhileOpen
    <3>3. size[h] <= Len(mem[h])
      BY <1>1, <2>3, <3>4 DEF BoundsInv, BufOK
    <3>5. h \notin miscredit
      BY <1>1, NextMiscredit DEF MiscreditStays
    <3> QED BY <3>1, <3>2, <3>3, <3>4, <3>5
  <2>5. Len(mem'[h]) >= Len(mem[h])
    <3>1. BufStep(h) /\ gen'[h] # 0
      BY <1>1, <2>3, NextBuf DEF BoundsInv
    <3> QED BY <2>4, <3>1 DEF BufStep
  <2>6. \A k \in r.off + 1 .. r.off + r.len : mem'[h][k] = mem[h][k]
    <3>1. BytesStep(h)
      BY <1>1, <2>3, NextBytes DEF BoundsInv
    <3>2. r.len # 0 => r.off + r.len = last[h]
      <4> SUFFICES ASSUME r.len # 0 PROVE r.off + r.len = last[h]
        OBVIOUS
      <4>1. OneWrite(h) /\ Ms[to] = Sums(wq[to], wdone[to])
        BY <1>1, <2>3, <2>4 DEF WriteInv, Ms, M
      <4>2. /\ Len(wdone[to]) + i \in Mine(Ms[to], h)
            /\ EndAt(Ms[to], Len(wdone[to]) + i) = r.off + r.len
        <5> DEFINE q == wq[to]
                   done == wdone[to]
        <5>1. /\ q \in Seq(WriteReq) /\ done \in Seq(WriteReq) /\ i \in 1 .. Len(q) /\ q[i] = r
              /\ Ms[to] = Sums(q, done) /\ r.src = h
          BY <2>1, <4>1
        <5> HIDE DEF q, done, h
        <5>2. \A j \in 1 .. Len(q) : q[j].src = h /\ q[j].len # 0 =>
                /\ Len(done) + j \in Mine(Sums(q, done), h)
                /\ EndAt(Sums(q, done), Len(done) + j) = q[j].off + q[j].len
          BY <5>1, MineAt
        <5>3. Len(done) + i \in Mine(Ms[to], h) /\ EndAt(Ms[to], Len(done) + i) = r.off + r.len
          BY <5>1, <5>2
        <5> QED BY <5>3 DEF done
      <4> QED BY <2>4, <4>1, <4>2 DEF OneWrite, Settled
    <3>3. \A k \in r.off + 1 .. r.off + r.len : k \in 1 .. size[h]
      <4>1. CASE r.len = 0
        BY <2>3, <4>1
      <4>2. CASE r.len # 0
        BY <2>3, <2>4, <3>2, <4>2
      <4> QED BY <4>1, <4>2
    <3>4. gen'[h] # 0
      BY <2>3
    <3> HIDE DEF h
    <3> QED BY <3>1, <3>3, <3>4 DEF BytesStep, Appended
  <2>7. r.off + r.len <= Len(mem'[h]) /\ r.off + r.len <= Len(mem[h])
    <3>1. Len(mem[h]) \in Nat /\ Len(mem'[h]) \in Nat
      BY <2>4
    <3> DEFINE a == Len(mem[h])
               b == Len(mem'[h])
    <3>2. a \in Nat /\ b \in Nat /\ b >= a /\ r.off + r.len <= a /\ r.off \in Nat /\ r.len \in Nat
      BY <2>3, <2>4, <2>5, <3>1
    <3> HIDE DEF a, b
    <3>3. r.off + r.len <= b /\ r.off + r.len <= a
      BY <3>2
    <3> QED BY <3>3 DEF a, b
  <2> HIDE DEF h
  <2>8. SubSeq(mem'[h], r.off + 1, r.off + r.len) = SubSeq(mem[h], r.off + 1, r.off + r.len)
    <3> DEFINE s == mem'[h]
               t == mem[h]
               a == r.off
               n == r.len
    <3>1. /\ s \in Seq(Nat) /\ t \in Seq(Nat) /\ a \in Nat /\ n \in Nat
          /\ a + n <= Len(s) /\ a + n <= Len(t) /\ \A k \in a + 1 .. a + n : s[k] = t[k]
      BY <2>3, <2>4, <2>6, <2>7
    <3> HIDE DEF s, t, a, n
    <3>2. SubSeq(s, a + 1, a + n) = SubSeq(t, a + 1, a + n)
      BY <3>1, SameSub
    <3> QED BY <3>2 DEF s, t, a, n
  <2> QED BY <2>8 DEF h
<1>2. TypeInv /\ BoundsInv /\ WriteInv /\ [Next]_vars => [BytesStable]_vars
  <2>1. TypeInv /\ BoundsInv /\ [Next]_vars => TypeInv' /\ BoundsInv'
    BY NextTypeInv, NextBoundsInv
  <2> QED BY <1>1, <2>1
<1>3. Init => TypeInv /\ BoundsInv /\ CrashInv /\ WriteInv
  BY InitTypeInv, InitBoundsInv, InitCrashInv, InitWriteInv
<1>4. TypeInv /\ BoundsInv /\ CrashInv /\ WriteInv /\ [Next]_vars
        => TypeInv' /\ BoundsInv' /\ CrashInv' /\ WriteInv'
  BY NextTypeInv, NextBoundsInv, NextCrashInv, NextWriteInv DEF CrashInv
<1>5. QueuedBytesStable <=> [][BytesStable]_vars
  BY PTL DEF QueuedBytesStable, BytesStable
<1> QED BY <1>2, <1>3, <1>4, <1>5, PTL DEF Spec

-----------------------------------------------------------------------------
(* What a buffer holds are bytes of its stream that were read and not       *)
(* refused, in the order they were read; the last ones, while none was      *)
(* refused.                                                                 *)
MemOK(h) ==
    /\ lost[h] \subseteq 1 .. rd[h]
    /\ \A k \in 1 .. size[h] : mem[h][k] \in 1 .. rd[h] /\ mem[h][k] \notin lost[h]
    /\ \A j, k \in 1 .. size[h] : j < k => mem[h][j] < mem[h][k]
    /\ lost[h] = {} => \A k \in 1 .. size[h] : mem[h][k] + size[h] = rd[h] + k

MemInv == \A h \in Handle : MemOK(h)

LEMMA InitMemInv == Init => MemInv
<1> SUFFICES ASSUME Init, NEW h \in Handle PROVE MemOK(h)
  BY DEF MemInv
<1>1. size[h] = 0 /\ lost[h] = {} /\ \A k \in 1 .. 0 : FALSE
  BY DEF Init
<1> QED BY <1>1 DEF MemOK

LEMMA NextMemInv ==
    ASSUME TypeInv, TypeInv', \A x \in Handle : BufOK(x), MemInv, [Next]_vars PROVE MemInv'
<1> SUFFICES ASSUME NEW h \in Handle PROVE MemOK(h)'
  BY DEF MemInv
<1>1. BytesStep(h) /\ MemOK(h)
  BY NextBytes DEF MemInv
<1>2. /\ size[h] \in Nat /\ rd[h] \in Nat /\ lost[h] \subseteq Nat
      /\ size'[h] \in Nat /\ rd'[h] \in Nat
  BY DEF TypeInv, DataTypeOK, GhostTypeOK
<1>3. CASE size'[h] = 0 /\ rd'[h] = rd[h] /\ lost'[h] = lost[h]
  BY <1>1, <1>2, <1>3 DEF MemOK
<1>4. CASE mem'[h] = mem[h] /\ rd'[h] = rd[h] /\ lost'[h] = lost[h] /\ size'[h] = size[h]
  BY <1>1, <1>4 DEF MemOK
<1>5. ASSUME NEW n, Appended(h, n) PROVE MemOK(h)'
  <2>1. n \in Nat \ {0} /\ rd'[h] = rd[h] + n
    BY <1>5 DEF Appended
  <2>2. CASE /\ size'[h] = size[h] + n /\ lost'[h] = lost[h]
             /\ \A k \in 1 .. size[h] : mem'[h][k] = mem[h][k]
             /\ \A i \in 1 .. n : mem'[h][size[h] + i] = rd[h] + i
    <3> DEFINE s == size[h]
               r == rd[h]
    <3>1. ASSUME NEW k \in 1 .. s + n
          PROVE  \/ k \in 1 .. s /\ mem'[h][k] = mem[h][k]
                 \/ k \in s + 1 .. s + n /\ mem'[h][k] = r + (k - s)
      <4>1. CASE k \in 1 .. s
        BY <2>2, <4>1
      <4>2. CASE k \notin 1 .. s
        <5>1. k - s \in 1 .. n /\ k = s + (k - s) /\ k \in s + 1 .. s + n
          BY <1>2, <2>1, <3>1, <4>2
        <5> QED BY <2>2, <5>1
      <4> QED BY <4>1, <4>2
    <3>2. /\ \A k \in 1 .. s : mem[h][k] \in 1 .. r /\ mem[h][k] \notin lost[h]
          /\ \A j, k \in 1 .. s : j < k => mem[h][j] < mem[h][k]
          /\ lost[h] = {} => \A k \in 1 .. s : mem[h][k] + s = r + k
          /\ lost[h] \subseteq 1 .. r
      BY <1>1 DEF MemOK
    <3>3. s \in Nat /\ r \in Nat /\ size'[h] = s + n /\ rd'[h] = r + n
      BY <1>2, <2>1, <2>2
    <3> HIDE DEF s, r
    <3>4. \A k \in 1 .. s + n : mem'[h][k] \in 1 .. r + n /\ mem'[h][k] \notin lost[h]
      <4> SUFFICES ASSUME NEW k \in 1 .. s + n
                   PROVE  mem'[h][k] \in 1 .. r + n /\ mem'[h][k] \notin lost[h]
        OBVIOUS
      <4>1. CASE k \in 1 .. s /\ mem'[h][k] = mem[h][k]
        BY <2>1, <3>2, <3>3, <4>1
      <4>2. CASE k \in s + 1 .. s + n /\ mem'[h][k] = r + (k - s)
        <5>1. r + (k - s) \in r + 1 .. r + n
          BY <2>1, <3>3, <4>2
        <5> QED BY <2>1, <3>2, <3>3, <4>2, <5>1
      <4> QED BY <3>1, <4>1, <4>2
    <3>5. \A j, k \in 1 .. s + n : j < k => mem'[h][j] < mem'[h][k]
      <4> SUFFICES ASSUME NEW j \in 1 .. s + n, NEW k \in 1 .. s + n, j < k
                   PROVE  mem'[h][j] < mem'[h][k]
        OBVIOUS
      <4>1. /\ \/ j \in 1 .. s /\ mem'[h][j] = mem[h][j]
               \/ j \in s + 1 .. s + n /\ mem'[h][j] = r + (j - s)
            /\ \/ k \in 1 .. s /\ mem'[h][k] = mem[h][k]
               \/ k \in s + 1 .. s + n /\ mem'[h][k] = r + (k - s)
        BY <3>1
      <4> QED BY <2>1, <3>2, <3>3, <4>1
    <3>6. lost[h] = {} => \A k \in 1 .. s + n : mem'[h][k] + (s + n) = (r + n) + k
      <4> SUFFICES ASSUME lost[h] = {}, NEW k \in 1 .. s + n
                   PROVE  mem'[h][k] + (s + n) = (r + n) + k
        OBVIOUS
      <4>1. CASE k \in 1 .. s /\ mem'[h][k] = mem[h][k]
        BY <2>1, <3>2, <3>3, <4>1
      <4>2. CASE k \in s + 1 .. s + n /\ mem'[h][k] = r + (k - s)
        BY <2>1, <3>3, <4>2
      <4> QED BY <3>1, <4>1, <4>2
    <3>7. lost[h] \subseteq 1 .. r + n
      BY <2>1, <3>2, <3>3
    <3> QED BY <2>2, <3>3, <3>4, <3>5, <3>6, <3>7 DEF MemOK
  <2>3. CASE /\ size'[h] = size[h] /\ mem'[h] = mem[h]
             /\ lost'[h] = lost[h] \cup {rd[h] + i : i \in 1 .. n}
    <3>1. /\ 1 .. rd[h] \subseteq 1 .. rd'[h]
          /\ \A i \in 1 .. n : rd[h] + i \in 1 .. rd'[h] /\ rd[h] + i \notin 1 .. rd[h]
      BY <1>2, <2>1
    <3>2. lost'[h] # {} /\ lost'[h] \subseteq 1 .. rd'[h]
      <4>1. 1 \in 1 .. n
        BY <2>1
      <4> QED BY <1>1, <2>3, <3>1, <4>1 DEF MemOK
    <3>3. \A k \in 1 .. size'[h] : mem'[h][k] \in 1 .. rd'[h] /\ mem'[h][k] \notin lost'[h]
      BY <1>1, <2>3, <3>1 DEF MemOK
    <3> QED BY <1>1, <2>3, <3>2, <3>3 DEF MemOK
  <2> QED BY <1>5, <2>2, <2>3 DEF Appended
<1> QED BY <1>1, <1>3, <1>4, <1>5 DEF BytesStep

-----------------------------------------------------------------------------
(* The requests of a stream as sets.                                        *)

LEMMA JoinElements ==
    ASSUME NEW S, NEW s \in Seq(S), NEW t \in Seq(S)
    PROVE  /\ s \o t \in Seq(S) /\ Len(s \o t) = Len(s) + Len(t)
           /\ Len(s) \in Nat /\ Len(t) \in Nat
           /\ \A i \in 1 .. Len(s) : (s \o t)[i] = s[i]
           /\ \A i \in 1 .. Len(t) : (s \o t)[Len(s) + i] = t[i]
OBVIOUS

LEMMA RangeIs ==
    ASSUME NEW q \in Seq(WriteReq)
    PROVE  /\ Range(q) \subseteq WriteReq
           /\ \A r : r \in Range(q) <=> \E i \in 1 .. Len(q) : r = q[i]
<1>1. DOMAIN q = 1 .. Len(q) /\ \A i \in 1 .. Len(q) : q[i] \in WriteReq
  OBVIOUS
<1> QED BY <1>1 DEF Range

LEMMA RangeHead ==
    ASSUME NEW q \in Seq(WriteReq), q # <<>>
    PROVE  /\ Head(q) \in WriteReq /\ Tail(q) \in Seq(WriteReq)
           /\ Range(q) = {Head(q)} \cup Range(Tail(q))
<1> DEFINE t == Tail(q)
           n == Len(q)
<1>1. /\ n \in Nat \ {0} /\ Len(t) = n - 1 /\ Head(q) = q[1] /\ Head(q) \in WriteReq
      /\ t \in Seq(WriteReq) /\ \A i \in 1 .. n - 1 : t[i] = q[i + 1]
  BY TailElements
<1> HIDE DEF t
<1>2. /\ \A r : r \in Range(q) <=> \E i \in 1 .. n : r = q[i]
      /\ \A r : r \in Range(t) <=> \E i \in 1 .. n - 1 : r = t[i]
  BY <1>1, RangeIs
<1> HIDE DEF n
<1>3. ASSUME NEW r \in Range(q) PROVE r \in {Head(q)} \cup Range(t)
  <2>1. PICK i \in 1 .. n : r = q[i]
    BY <1>2
  <2>2. CASE i = 1
    BY <1>1, <2>1, <2>2
  <2>3. CASE i # 1
    <3>1. i - 1 \in 1 .. n - 1 /\ (i - 1) + 1 = i
      BY <1>1, <2>3
    <3> QED BY <1>1, <1>2, <2>1, <3>1
  <2> QED BY <2>2, <2>3
<1>4. ASSUME NEW r \in {Head(q)} \cup Range(t) PROVE r \in Range(q)
  <2>1. CASE r = Head(q)
    <3>1. 1 \in 1 .. n
      BY <1>1
    <3> QED BY <1>1, <1>2, <2>1, <3>1
  <2>2. CASE r \in Range(t)
    <3>1. PICK i \in 1 .. n - 1 : r = t[i]
      BY <1>2, <2>2
    <3>2. i + 1 \in 1 .. n
      BY <1>1
    <3> QED BY <1>1, <1>2, <3>1, <3>2
  <2> QED BY <1>4, <2>1, <2>2
<1>5. Range(q) = {Head(q)} \cup Range(t)
  BY <1>3, <1>4
<1> QED BY <1>1, <1>5 DEF t

LEMMA RangeAppend ==
    ASSUME NEW q \in Seq(WriteReq), NEW r \in WriteReq
    PROVE  Append(q, r) \in Seq(WriteReq) /\ Range(Append(q, r)) = Range(q) \cup {r}
<1> DEFINE a == Append(q, r)
           n == Len(q)
<1>1. /\ a \in Seq(WriteReq) /\ n \in Nat /\ Len(a) = n + 1 /\ a[n + 1] = r
      /\ \A i \in 1 .. n : a[i] = q[i]
  BY AppendElements
<1> HIDE DEF a
<1>2. /\ \A s : s \in Range(q) <=> \E i \in 1 .. n : s = q[i]
      /\ \A s : s \in Range(a) <=> \E i \in 1 .. n + 1 : s = a[i]
  BY <1>1, RangeIs
<1>3. 1 .. n + 1 = (1 .. n) \cup {n + 1}
  BY <1>1
<1> HIDE DEF n
<1>4. Range(a) = Range(q) \cup {r}
  BY <1>1, <1>2, <1>3
<1> QED BY <1>1, <1>4 DEF a

LEMMA RangeCons ==
    ASSUME NEW q \in Seq(WriteReq), NEW r \in WriteReq
    PROVE  <<r>> \o q \in Seq(WriteReq) /\ Range(<<r>> \o q) = {r} \cup Range(q)
<1> DEFINE a == <<r>> \o q
<1>1. a \in Seq(WriteReq) /\ Head(a) = r /\ Tail(a) = q /\ a # <<>>
  OBVIOUS
<1> HIDE DEF a
<1>2. Range(a) = {r} \cup Range(q)
  BY <1>1, RangeHead
<1> QED BY <1>1, <1>2 DEF a

LEMMA RangeJoin ==
    ASSUME NEW done \in Seq(WriteReq), NEW c \in Seq(WriteReq)
    PROVE  done \o c \in Seq(WriteReq) /\ Range(done \o c) = Range(done) \cup Range(c)
<1> SUFFICES ASSUME NEW d, d = done \o c, NEW n, n = Len(done), NEW k, k = Len(c)
             PROVE  d \in Seq(WriteReq) /\ Range(d) = Range(done) \cup Range(c)
  OBVIOUS
<1>4. /\ d \in Seq(WriteReq) /\ Len(d) = n + k /\ n \in Nat /\ k \in Nat
      /\ \A i \in 1 .. n : d[i] = done[i]
      /\ \A i \in 1 .. k : d[n + i] = c[i]
  BY JoinElements
<1>5. /\ \A r : r \in Range(d) <=> \E i \in 1 .. n + k : r = d[i]
      /\ \A r : r \in Range(done) <=> \E i \in 1 .. n : r = done[i]
      /\ \A r : r \in Range(c) <=> \E i \in 1 .. k : r = c[i]
  <2>1. \A r : r \in Range(d) <=> \E i \in 1 .. Len(d) : r = d[i]
    BY <1>4, RangeIs
  <2>2. \A r : r \in Range(done) <=> \E i \in 1 .. Len(done) : r = done[i]
    BY RangeIs
  <2>3. \A r : r \in Range(c) <=> \E i \in 1 .. Len(c) : r = c[i]
    BY RangeIs
  <2> QED BY <1>4, <2>1, <2>2, <2>3
<1>6. ASSUME NEW r \in Range(d) PROVE r \in Range(done) \cup Range(c)
  <2>1. PICK i \in 1 .. n + k : r = d[i]
    BY <1>5
  <2>2. CASE i \in 1 .. n
    BY <1>4, <1>5, <2>1, <2>2
  <2>3. CASE i \notin 1 .. n
    <3>1. i - n \in 1 .. k /\ n + (i - n) = i
      BY <1>4, <2>3
    <3> QED BY <1>4, <1>5, <2>1, <3>1
  <2> QED BY <2>2, <2>3
<1>7. ASSUME NEW r \in Range(done) \cup Range(c) PROVE r \in Range(d)
  <2>1. 1 .. n \subseteq 1 .. n + k /\ \A i \in 1 .. k : n + i \in 1 .. n + k
    BY <1>4
  <2>2. CASE r \in Range(done)
    <3>1. PICK i \in 1 .. n : r = done[i]
      BY <1>5, <2>2
    <3>2. i \in 1 .. n + k /\ r = d[i]
      BY <1>4, <2>1, <3>1
    <3> QED BY <1>5, <3>2
  <2>3. CASE r \in Range(c)
    <3>1. PICK i \in 1 .. k : r = c[i]
      BY <1>5, <2>3
    <3>2. n + i \in 1 .. n + k /\ r = d[n + i]
      BY <1>4, <2>1, <3>1
    <3> QED BY <1>5, <3>2
  <2> QED BY <1>7, <2>2, <2>3
<1>8. Range(d) = Range(done) \cup Range(c)
  BY <1>6, <1>7
<1> QED BY <1>4, <1>8

LEMMA RangeCancelled ==
    ASSUME NEW q \in Seq(WriteReq), NEW done \in Seq(WriteReq)
    PROVE  /\ done \o Cancelled(q) \in Seq(WriteReq)
           /\ Range(done \o Cancelled(q)) = Range(done) \cup {Failed(r) : r \in Range(q)}
<1> DEFINE c == Cancelled(q)
<1>1. c \in Seq(WriteReq) /\ Len(c) = Len(q) /\ \A j \in 1 .. Len(q) : c[j] = Failed(q[j])
  <2>1. c \in Seq(WriteReq)
    <3>1. Closed(WriteReq, Handle)
      BY ReqType DEF Closed, WriteReq, Failed, Part
    <3> QED BY <3>1, CancelledWithin
  <2>2. DOMAIN q = 1 .. Len(q) /\ Len(q) \in Nat
    OBVIOUS
  <2>3. c = [j \in 1 .. Len(q) |-> Failed(q[j])]
    BY <2>2 DEF Cancelled, Failed
  <2> QED BY <2>1, <2>2, <2>3
<1> HIDE DEF c
<1>2. /\ \A r : r \in Range(c) <=> \E i \in 1 .. Len(q) : r = c[i]
      /\ \A r : r \in Range(q) <=> \E i \in 1 .. Len(q) : r = q[i]
  BY <1>1, RangeIs
<1>3. Range(c) = {Failed(r) : r \in Range(q)}
  BY <1>1, <1>2
<1>4. c \in Seq(WriteReq)
  BY <1>1
<1>5. /\ done \o c \in Seq(WriteReq)
      /\ Range(done \o c) = Range(done) \cup Range(c)
  BY <1>4, RangeJoin
<1> QED BY <1>3, <1>5 DEF c

(* What becomes of the first request when k bytes of it are written.        *)
HeadOutcome(h, q, done, k) ==
    \/ /\ k = Head(q).len /\ brk'[h] = brk[h]
       /\ Range(wq'[h]) = Range(Tail(q))
       /\ Range(wdone'[h]) = Range(done) \cup {Head(q)}
    \/ /\ (k = 0 \/ k < Head(q).len) /\ brk'[h] = brk[h]
       /\ Range(wq'[h]) = {Part(Head(q), k)} \cup Range(Tail(q))
       /\ Range(wdone'[h]) = Range(done)
    \/ /\ k = 0 /\ brk'[h]
       /\ Range(wq'[h]) = Range(Tail(q))
       /\ Range(wdone'[h]) = Range(done) \cup {Failed(Head(q))}

LEMMA WroteRanges ==
    ASSUME WriteTypeOK, NEW h \in Handle, NEW q \in Seq(WriteReq), q # <<>>,
           NEW done \in Seq(WriteReq), NEW g, NEW m, NEW k \in 0 .. Head(q).len,
           WroteBytes(h, q, done, g, m, k)
    PROVE  /\ \A x \in Handle : x # h =>
                wq'[x] = wq[x] /\ wdone'[x] = wdone[x] /\ out'[x] = out[x] /\ brk'[x] = brk[x]
           /\ out'[h] = out[h] \o Bytes(Head(q), k, g, m)
           /\ k > 0 => ~brk[h]
           /\ HeadOutcome(h, q, done, k)
<1> DEFINE r == Head(q)
           t == Tail(q)
           b == Bytes(r, k, g, m)
<1>1. /\ wq \in [Handle -> Seq(WriteReq)] /\ wdone \in [Handle -> Seq(WriteReq)]
      /\ out \in [Handle -> Seq(Handle \X Nat)] /\ brk \in [Handle -> BOOLEAN]
  BY DEF WriteTypeOK
<1>2. r \in WriteReq /\ t \in Seq(WriteReq) /\ r.len \in Nat
  <2>1. r \in WriteReq /\ t \in Seq(WriteReq)
    BY RangeHead
  <2> QED BY <2>1 DEF WriteReq
<1>3. /\ out' = [out EXCEPT ![h] = @ \o b]
      /\ k > 0 => ~brk[h]
  BY DEF WroteBytes
<1>4. Failed(r) \in WriteReq
  BY <1>2, ReqType DEF Failed
<1>5. Part(r, k) \in WriteReq
  <2>1. r.off \in Nat /\ r.len \in Nat /\ k \in Nat /\ r.off + k \in Nat /\ r.len - k \in Nat
    <3>1. r.off \in Nat
      BY <1>2 DEF WriteReq
    <3> QED BY <1>2, <3>1
  <2> DEFINE a == r.off + k
             c == r.len - k
  <2>2. [r EXCEPT !.off = a, !.len = c] \in WriteReq
    <3>1. a \in Nat /\ c \in Nat
      BY <2>1
    <3> HIDE DEF a, c, r
    <3> QED BY <1>2, <3>1 DEF WriteReq
  <2>3. Part(r, k) = [r EXCEPT !.off = a, !.len = c]
    BY <1>2 DEF Part, WriteReq
  <2> QED BY <2>2, <2>3
<1>6. /\ Range(Append(done, r)) = Range(done) \cup {r}
      /\ Range(Append(done, Failed(r))) = Range(done) \cup {Failed(r)}
      /\ Range(<<Part(r, k)>> \o t) = {Part(r, k)} \cup Range(t)
  BY <1>2, <1>4, <1>5, RangeAppend, RangeCons
<1>7. \/ /\ k = r.len /\ brk' = brk
         /\ wq' = [wq EXCEPT ![h] = t] /\ wdone' = [wdone EXCEPT ![h] = Append(done, r)]
      \/ /\ (k = 0 \/ k < r.len) /\ brk' = brk
         /\ wq' = [wq EXCEPT ![h] = <<Part(r, k)>> \o t] /\ wdone' = [wdone EXCEPT ![h] = done]
      \/ /\ k = 0 /\ brk' = [brk EXCEPT ![h] = TRUE]
         /\ wq' = [wq EXCEPT ![h] = t] /\ wdone' = [wdone EXCEPT ![h] = Append(done, Failed(r))]
  BY DEF WroteBytes
<1> HIDE DEF r, t, b
<1>8. /\ out'[h] = out[h] \o b
      /\ \A x \in Handle : x # h => out'[x] = out[x]
  BY <1>1, <1>3
<1>9. \A x \in Handle : x # h => wq'[x] = wq[x] /\ wdone'[x] = wdone[x] /\ brk'[x] = brk[x]
  BY <1>1, <1>7
<1>10. \/ k = r.len /\ brk'[h] = brk[h] /\ wq'[h] = t /\ wdone'[h] = Append(done, r)
       \/ /\ (k = 0 \/ k < r.len) /\ brk'[h] = brk[h]
          /\ wq'[h] = <<Part(r, k)>> \o t /\ wdone'[h] = done
       \/ k = 0 /\ brk'[h] /\ wq'[h] = t /\ wdone'[h] = Append(done, Failed(r))
  BY <1>1, <1>7
<1>11. \/ /\ k = r.len /\ brk'[h] = brk[h]
          /\ Range(wq'[h]) = Range(t) /\ Range(wdone'[h]) = Range(done) \cup {r}
       \/ /\ (k = 0 \/ k < r.len) /\ brk'[h] = brk[h]
          /\ Range(wq'[h]) = {Part(r, k)} \cup Range(t) /\ Range(wdone'[h]) = Range(done)
       \/ /\ k = 0 /\ brk'[h]
          /\ Range(wq'[h]) = Range(t) /\ Range(wdone'[h]) = Range(done) \cup {Failed(r)}
  BY <1>6, <1>10
<1>12. HeadOutcome(h, q, done, k)
  BY <1>11, Zenon DEF r, t, HeadOutcome
<1> QED BY <1>3, <1>8, <1>9, <1>12 DEF b, r

-----------------------------------------------------------------------------
(* What a step does to the queues, and to the buffers the bytes come from.  *)

Same(h) ==
    mem'[h] = mem[h] /\ size'[h] = size[h] /\ rd'[h] = rd[h] /\ lost'[h] = lost[h]

Grown(h) == Same(h) \/ \E n : Appended(h, n)

(* The queues stay as they are; a buffer may be appended to. *)
QuietStep ==
    /\ UNCHANGED <<wq, wdone, out, brk>>
    /\ \A h \in Handle : EndedNext(h) \/ (last'[h] = last[h] /\ Grown(h))

(* The requests of a closed stream are cancelled. *)
CancelStep(x) ==
    /\ FinishClose(x) /\ MsNext = Ms
    /\ UNCHANGED last /\ \A h \in Handle : Same(h)

(* A stream that is writable takes bytes of its first request. *)
FlushStep(x) ==
    /\ wq[x] # <<>> /\ Wrote(x, wq[x], wdone[x], gen', mem') /\ MsNext = Ms
    /\ UNCHANGED last /\ \A h \in Handle : Same(h)

(* The bytes of a stream are handed over, after an append or without. *)
SendStep(from, to) ==
    /\ peer[from] = to /\ UNCHANGED <<peer, pos, miscredit>>
    /\ Live(from) /\ gen'[from] # 0 /\ pos[from] = last[from]
    /\ \A h \in Handle : Grown(h)
    /\ (\E n : Appended(from, n)) \/ (from \in Down /\ hs[to] = "connecting" /\ Same(from))
    /\ to \in Up => hs'[to] = "open"
    /\ Transfer(from, to, wq[to], wdone[to])

LEMMA AppendGrows ==
    ASSUME TypeInv, NEW h \in Handle, NEW n \in Arriving(h), HasBuf(h), BufOK(h),
           NEW caps, NEW gens, RtsBufAppend(h, n, caps, gens)
    PROVE  (\A x \in Handle : Grown(x)) /\ Appended(h, n)
<1>1. /\ n \in Nat \ {0} /\ rd'[h] = rd[h] + n
      /\ \A x \in Handle : x # h =>
           rd'[x] = rd[x] /\ lost'[x] = lost[x] /\ mem'[x] = mem[x] /\ size'[x] = size[x]
      /\ \/ /\ size'[h] = size[h] + n /\ lost'[h] = lost[h]
            /\ \A k \in 1 .. size[h] : mem'[h][k] = mem[h][k]
            /\ \A i \in 1 .. n : mem'[h][size[h] + i] = rd[h] + i
         \/ /\ size'[h] = size[h] /\ mem'[h] = mem[h]
            /\ lost'[h] = lost[h] \cup {rd[h] + i : i \in 1 .. n}
  BY AppendBytes
<1>2. Appended(h, n)
  BY <1>1 DEF Appended
<1>3. \A x \in Handle : x # h => Same(x)
  BY <1>1 DEF Same
<1> QED BY <1>2, <1>3 DEF Grown

(* Any other step only affects the queues of a stream that ends. *)
LEMMA NextKind ==
    ASSUME TypeInv, \A x \in Handle : BufOK(x), [Next]_vars
    PROVE  \/ QuietStep
           \/ \E x \in Handle : CancelStep(x) \/ FlushStep(x) \/ AfterWrite(x)
           \/ \E from \in Handle, to \in Handle : SendStep(from, to)
<1>0. /\ LinkInv /\ LinksConsistent /\ LinkTypeOK /\ HeapTypeOK /\ DataTypeOK /\ WriteTypeOK
      /\ UvTypeOK
  BY TypeInvType DEF TypeInv, LinkInv, TypeOK
<1> DEFINE Kind == \/ QuietStep
                   \/ \E x \in Handle : CancelStep(x) \/ FlushStep(x) \/ AfterWrite(x)
                   \/ \E from \in Handle, to \in Handle : SendStep(from, to)
<1> SUFFICES Kind
  BY DEF Kind
<1> HIDE DEF Kind
<1>1. CASE UNCHANGED <<wq, wdone, out, brk, last, mem, size, rd, lost>>
  <2>1. \A h \in Handle : Same(h)
    BY <1>1 DEF Same
  <2>2. QuietStep
    BY <1>1, <2>1 DEF QuietStep, Grown
  <2> QED BY <2>2 DEF Kind
<1>2. ASSUME NEW x \in Handle, Cleanup(x), UvClose(x), UNCHANGED ghostVars PROVE Kind
  <2>1. /\ mem' = [mem EXCEPT ![x] = <<>>] /\ size' = [size EXCEPT ![x] = 0]
        /\ last' = [last EXCEPT ![x] = 0]
        /\ hs' = [hs EXCEPT ![x] = "closing"] /\ UNCHANGED <<wq, wdone, out, brk>>
    BY <1>2 DEF Cleanup, UvClose
  <2>2. EndedNext(x)
    BY <1>0, <2>1 DEF EndedNext, LinkTypeOK
  <2>3. \A h \in Handle : h # x => last'[h] = last[h] /\ Same(h)
    BY <1>0, <1>2, <2>1 DEF Same, HeapTypeOK, DataTypeOK, ghostVars
  <2>4. QuietStep
    BY <2>1, <2>2, <2>3 DEF QuietStep, Grown
  <2> QED BY <2>4 DEF Kind
<1>3. ASSUME \A h \in Handle : Grown(h), UNCHANGED <<wq, wdone, out, brk, last>> PROVE Kind
  BY <1>3 DEF QuietStep, Kind
<1>4. ASSUME NEW d \in Down, Accept(d) PROVE Kind
  BY <1>1, <1>4 DEF Accept, ghostVars
<1>5. ASSUME NEW d \in Down, InitUpstreamFails(d) PROVE Kind
  BY <1>2, <1>5, HandleKinds DEF InitUpstreamFails
<1>6. ASSUME NEW d \in Down, NEW u \in Up, InitUpstream(d, u) PROVE Kind
  <2>1. PICK n \in Arriving(d), c \in NewCapacity :
          RtsBufAppend(d, n, [cap EXCEPT ![u] = c], [gen EXCEPT ![u] = 1])
    BY <1>6 DEF InitUpstream
  <2>2. d \in Handle /\ HasBuf(d)
    BY <1>6, HandleKinds DEF InitUpstream
  <2>3. BufOK(d)
    BY <2>2
  <2>4. \A h \in Handle : Grown(h)
    BY <2>1, <2>2, <2>3, AppendGrows
  <2>5. UNCHANGED <<wq, wdone, out, brk, last>>
    BY <1>6 DEF InitUpstream
  <2> QED BY <1>3, <2>4, <2>5
<1>7. ASSUME NEW x \in Handle, ReadRelayed(x) PROVE Kind
  <2>1. PICK n \in Arriving(x) :
          /\ RtsBufAppend(x, n, cap, gen)
          /\ UNCHANGED <<connVars, pos, client, miscredit>>
          /\ IF MayTransfer(x)
             THEN Transfer(x, peer[x], wq[peer[x]], wdone[peer[x]])
             ELSE UNCHANGED <<last, wq, wdone, pollout, feed, out, brk, fate>>
    BY <1>7 DEF ReadRelayed
  <2>2. Live(x) /\ HasBuf(x) /\ BufOK(x)
    BY <1>7 DEF ReadRelayed
  <2>3. (\A h \in Handle : Grown(h)) /\ Appended(x, n)
    BY <2>1, <2>2, AppendGrows
  <2>4. CASE MayTransfer(x)
    <3>1. gen'[x] # 0
      <4>1. gen \in [Handle -> Nat] /\ gen[x] # 0
        BY <1>0, <2>2 DEF Live, HeapTypeOK
      <4> QED BY <2>1, <4>1, AppendKeepsBuffers
    <3>2. peer[x] \in Handle /\ pos[x] = last[x]
      BY <1>0, <2>4 DEF MayTransfer, LinkTypeOK
    <3>4. peer[x] \in Up => hs'[peer[x]] = "open"
      <4>1. ready[x] /\ peer[x] # None /\ hs' = hs
        BY <1>7, <2>4 DEF MayTransfer, ReadRelayed
      <4>2. peer[x] \in Opposite(x)
        BY <1>0, <4>1 DEF LinksConsistent
      <4>3. peer[x] \in Up => x \in Down
        BY <4>2, HandleKinds DEF Opposite
      <4> QED BY <1>0, <4>1, <4>3 DEF LinksConsistent
    <3>3. SendStep(x, peer[x])
      BY <2>1, <2>2, <2>3, <2>4, <3>1, <3>2, <3>4 DEF SendStep, connVars
    <3> QED BY <3>2, <3>3 DEF Kind
  <2>5. CASE ~MayTransfer(x)
    BY <1>3, <2>1, <2>3, <2>5
  <2> QED BY <2>4, <2>5
<1>8. ASSUME NEW u \in Up, Connected(u) PROVE Kind
  <2>1. /\ u \in Handle /\ peer[u] # None /\ UNCHANGED <<peer, pos, size, mem, gen, rd, lost, miscredit>>
        /\ IF HasBuf(peer[u]) /\ pos[peer[u]] = last[peer[u]]
           THEN Transfer(peer[u], u, wq[u], wdone[u])
           ELSE UNCHANGED <<last, wq, wdone, pollout, feed, out, brk, fate>>
    BY <1>8, HandleKinds DEF Connected, heapVars, ghostVars
  <2>2. peer[u] \in Handle /\ peer[peer[u]] = u /\ Live(peer[u])
    <3>1. peer[u] \in Handle /\ peer[peer[u]] = u
      BY <1>0, <2>1 DEF LinkTypeOK, LinksConsistent
    <3>2. peer[peer[u]] # None
      BY <2>1, <3>1, HandleKinds
    <3> QED BY <1>0, <3>1, <3>2 DEF LinksConsistent
  <2>3. CASE HasBuf(peer[u]) /\ pos[peer[u]] = last[peer[u]]
    <3>1. \A h \in Handle : Grown(h)
      BY <2>1 DEF Grown, Same
    <3>3. hs[u] = "connecting" /\ hs'[u] = "open" /\ peer[u] \in Down /\ Same(peer[u])
      <4>1. hs[u] = "connecting" /\ hs' = [hs EXCEPT ![u] = "open"] /\ peer[u] \in Opposite(u)
        BY <1>0, <1>8, <2>1 DEF Connected, LinksConsistent
      <4>2. peer[u] \in Down
        BY <4>1, HandleKinds DEF Opposite
      <4> QED BY <1>0, <2>1, <4>1, <4>2 DEF LinkTypeOK, Same
    <3>2. SendStep(peer[u], u)
      BY <2>1, <2>2, <2>3, <3>1, <3>3 DEF SendStep, Live
    <3> QED BY <2>1, <2>2, <3>2 DEF Kind
  <2>4. CASE ~(HasBuf(peer[u]) /\ pos[peer[u]] = last[peer[u]])
    BY <1>1, <2>1, <2>4
  <2> QED BY <2>3, <2>4
<1>9. ASSUME NEW x \in Handle, AfterWrite(x) PROVE Kind
  BY <1>9 DEF Kind
<1>10. ASSUME NEW x \in Handle, ReadAgain(x) \/ AfterWriteFaults(x) \/ ReadDataFaults(x)
       PROVE  Kind
  BY <1>1, <1>10 DEF ReadAgain, AfterWriteFaults, ReadDataFaults, Crash, heapVars, bufVars,
                       ghostVars, streamVars
<1>11. ASSUME NEW u \in Up, ConnectFaults(u) PROVE Kind
  BY <1>1, <1>11 DEF ConnectFaults, Crash, heapVars, bufVars, ghostVars, streamVars
<1>12. ASSUME NEW x \in Handle, ReadEnd(x) PROVE Kind
  <2>1. CASE ReadFault(x) = "none"
    BY <1>2, <1>12, <2>1 DEF ReadEnd
  <2>2. CASE ReadFault(x) # "none"
    BY <1>1, <1>12, <2>2 DEF ReadEnd, Crash, heapVars, bufVars, ghostVars, streamVars
  <2> QED BY <2>1, <2>2
<1>13. CASE UvNext /\ UNCHANGED <<connVars, bufVars, ghostVars>>
  <2>0. MsNext = Ms
    BY <1>0, <1>13, UvWrites
  <2>1. UNCHANGED heapVars
    BY <1>13 DEF UvNext, LoopTurn, RunPending, PendingDone, PollDone, ClosingDone, FinishClose,
                 WriteStage, CallbacksDone, PollEvent
  <2>2. UNCHANGED <<last, mem, gen, size, rd, lost>>
    BY <1>13, <2>1 DEF heapVars, bufVars, ghostVars
  <2>3. \A h \in Handle : Same(h)
    BY <2>2 DEF Same
  <2>4. CASE UNCHANGED <<wq, wdone, out, brk>>
    BY <1>1, <2>2, <2>4
  <2>5. ASSUME NEW x \in Handle, FinishClose(x) PROVE Kind
    <3>1. CancelStep(x)
      BY <2>0, <2>2, <2>3, <2>5 DEF CancelStep
    <3> QED BY <3>1 DEF Kind
  <2>6. CASE WriteStage
    <3>1. CASE wq[cur] = <<>>
      BY <2>4, <2>6, <3>1 DEF WriteStage
    <3>2. CASE wq[cur] # <<>>
      <4>1. Uv__Write(cur, wq[cur], wdone[cur], gen, mem) /\ cur \in Handle
        BY <1>0, <2>6, <3>2 DEF WriteStage, InStage, UvTypeOK
      <4>2. wq[cur] \in Seq(WriteReq)
        BY <1>0, <4>1 DEF WriteTypeOK
      <4>3. Wrote(cur, wq[cur], wdone[cur], gen, mem)
        BY <1>0, <3>2, <4>1, <4>2, Uv__WriteWrote
      <4>4. FlushStep(cur)
        BY <2>0, <2>2, <2>3, <3>2, <4>3 DEF FlushStep
      <4> QED BY <4>1, <4>4 DEF Kind
    <3> QED BY <3>1, <3>2
  <2>7. CASE RunPending \/ PendingDone \/ PollDone \/ ClosingDone \/ CallbacksDone
    BY <2>4, <2>7 DEF RunPending, PendingDone, PollDone, ClosingDone, CallbacksDone, streamVars
  <2>8. ASSUME NEW x \in Handle, PollEvent(x) PROVE Kind
    BY <2>4, <2>8 DEF PollEvent, streamVars
  <2> QED BY <1>13, <2>5, <2>6, <2>7, <2>8 DEF UvNext, LoopTurn
<1>14. CASE UNCHANGED vars
  BY <1>1, <1>14 DEF vars, uvVars, bufVars, ghostVars, heapVars, streamVars
<1> QED BY <1>4, <1>5, <1>6, <1>7, <1>8, <1>9, <1>10, <1>11, <1>12, <1>13, <1>14 DEF Next, Callback

LEMMA TransferWrote ==
    ASSUME WriteTypeOK, TypeInv', NEW from \in Handle, gen'[from] # 0, NEW to \in Handle,
           NEW q \in Seq(WriteReq), NEW done, Transfer(from, to, q, done)
    PROVE  /\ Unsent(from) \in WriteReq /\ ~Unsent(from).err
           /\ Append(q, Unsent(from)) \in Seq(WriteReq) /\ Append(q, Unsent(from)) # <<>>
           /\ Wrote(to, Append(q, Unsent(from)), done, gen', mem')
<1>1. Unsent(from) \in WriteReq /\ ~Unsent(from).err
  <2>1. Unsent(from) \in WriteReq
    BY UnsentType
  <2> QED BY <2>1 DEF Unsent
<1>2. UvWrite(to, Unsent(from), q, done, gen', mem')
  BY DEF Transfer
<1> DEFINE r == Unsent(from)
<1>3. r \in WriteReq /\ ~r.err /\ UvWrite(to, r, q, done, gen', mem')
  BY <1>1, <1>2
<1> HIDE DEF r
<1>4. Append(q, r) \in Seq(WriteReq) /\ Append(q, r) # <<>>
  BY <1>3, AppendElements, AppendNotEmpty
<1>5. Wrote(to, Append(q, r), done, gen', mem')
  BY <1>3, UvWriteWrote
<1> QED BY <1>3, <1>4, <1>5 DEF r

(* The two outcomes of a completion. *)
SendsMore(from, to) ==
    /\ last[from] < size[from] /\ pos'[from] = last[from] /\ last'[from] = size[from]
    /\ size' = size /\ \A h \in Handle : h # from => last'[h] = last[h]
    /\ Transfer(from, to, wq[to], Tail(wdone[to]))

Restarts(from, to) ==
    /\ last[from] = size[from] /\ size'[from] = 0 /\ last'[from] = 0
    /\ \A h \in Handle : h # from => last'[h] = last[h] /\ size'[h] = size[h]
    /\ UNCHANGED <<wq, out, brk>> /\ wdone' = [wdone EXCEPT ![to] = Tail(wdone[to])]

LEMMA AfterWriteCases ==
    ASSUME TypeInv, NEW to \in Handle, AfterWrite(to)
    PROVE  /\ peer[to] \in Handle /\ peer[peer[to]] = to /\ Live(to) /\ Live(peer[to])
           /\ wdone[to] # <<>> /\ UNCHANGED <<mem, gen, rd, lost, peer, hs>>
           /\ peer[to] \notin miscredit' => Completes(Head(wdone[to]), peer[to])
           /\ SendsMore(peer[to], to) \/ Restarts(peer[to], to)
<1> DEFINE from == peer[to]
<1>0. /\ LinkTypeOK /\ LinksConsistent /\ DataTypeOK /\ WriteTypeOK /\ Offsets
      /\ None \notin Handle
  BY NoneAssumption DEF TypeInv, LinkInv
<1>1. /\ wdone[to] # <<>> /\ AfterWriteFault(to) = "none"
      /\ miscredit' = IF Completes(Head(wdone[to]), from)
                      THEN miscredit ELSE miscredit \cup {from}
      /\ UNCHANGED <<peer, mem, gen, rd, lost, hs>>
  BY DEF AfterWrite, heapVars, connVars
<1>2. from \in Handle /\ Live(from) /\ Live(to) /\ peer[from] = to
  BY <1>0, <1>1 DEF AfterWriteFault, LinkTypeOK, LinksConsistent
<1>3. from \notin miscredit' => Completes(Head(wdone[to]), from)
  BY <1>1
<1> HIDE DEF from
<1>4. CASE MoreToSend(from)
  <2>1. /\ pos' = [pos EXCEPT ![from] = last[from]] /\ size' = size
        /\ Transfer(from, to, wq[to], Tail(wdone[to]))
    BY <1>4 DEF AfterWrite, from
  <2>2. /\ last'[from] = size[from] /\ pos'[from] = last[from]
        /\ \A h \in Handle : h # from => last'[h] = last[h]
    BY <1>0, <1>2, <2>1 DEF Transfer, DataTypeOK
  <2>3. last[from] < size[from]
    BY <1>0, <1>2, <1>4 DEF MoreToSend, Offsets, DataTypeOK
  <2>4. SendsMore(from, to)
    BY <2>1, <2>2, <2>3 DEF SendsMore
  <2> QED BY <1>1, <1>2, <1>3, <2>4 DEF from
<1>5. CASE ~MoreToSend(from)
  <2>1. /\ last' = [last EXCEPT ![from] = 0] /\ size' = [size EXCEPT ![from] = 0]
        /\ wdone' = [wdone EXCEPT ![to] = Tail(wdone[to])] /\ UNCHANGED <<wq, out, brk>>
    BY <1>5 DEF AfterWrite, BufRestart, from
  <2>2. Restarts(from, to)
    BY <1>0, <1>2, <1>5, <2>1 DEF Restarts, MoreToSend, DataTypeOK
  <2> QED BY <1>1, <1>2, <1>3, <2>2 DEF from
<1> QED BY <1>4, <1>5

-----------------------------------------------------------------------------
(* Failed requests.                                                         *)

(* A request that has failed is not queued any more, and it failed because  *)
(* the peer reset the connection or the stream was closed.                  *)
ErrOK(q, done, b) ==
    (\A r \in Range(q) : ~r.err) /\ \A r \in Range(done) : r.err => b

ErrInv == \A x \in Handle : ErrOK(wq[x], wdone[x], brk[x] \/ Ended(x))

LEMMA InitErrInv == Init => ErrInv
BY DEF Init, UvInit, ErrInv, ErrOK, Range

LEMMA WroteErr ==
    ASSUME WriteTypeOK, NEW h \in Handle, NEW q \in Seq(WriteReq), q # <<>>,
           NEW done \in Seq(WriteReq), NEW g, NEW m, Wrote(h, q, done, g, m),
           NEW e, ErrOK(q, done, brk[h] \/ e)
    PROVE  /\ ErrOK(wq'[h], wdone'[h], brk'[h] \/ e)
           /\ \A x \in Handle : x # h =>
                wq'[x] = wq[x] /\ wdone'[x] = wdone[x] /\ out'[x] = out[x] /\ brk'[x] = brk[x]
           /\ brk[h] => brk'[h]
<1> DEFINE r == Head(q)
           t == Range(Tail(q))
<1>1. PICK k \in 0 .. r.len : WroteBytes(h, q, done, g, m, k)
  BY DEF Wrote
<1>2. r \in WriteReq /\ Range(q) = {r} \cup t
  BY RangeHead
<1>3. /\ \A x \in Handle : x # h =>
           wq'[x] = wq[x] /\ wdone'[x] = wdone[x] /\ out'[x] = out[x] /\ brk'[x] = brk[x]
      /\ out'[h] = out[h] \o Bytes(Head(q), k, g, m)
      /\ k > 0 => ~brk[h]
      /\ HeadOutcome(h, q, done, k)
  BY <1>1, WroteRanges
<1>4. \/ /\ brk'[h] = brk[h]
         /\ Range(wq'[h]) = t /\ Range(wdone'[h]) = Range(done) \cup {r}
      \/ /\ brk'[h] = brk[h]
         /\ Range(wq'[h]) = {Part(r, k)} \cup t /\ Range(wdone'[h]) = Range(done)
      \/ /\ brk'[h]
         /\ Range(wq'[h]) = t /\ Range(wdone'[h]) = Range(done) \cup {Failed(r)}
  <2> HIDE DEF r, t
  <2> QED BY <1>3, Zenon DEF r, t, HeadOutcome
<1>5. Part(r, k).err = r.err
  BY <1>2 DEF Part, WriteReq
<1> HIDE DEF r, t
<1>6. /\ ~r.err /\ \A s \in t : ~s.err
      /\ \A s \in Range(done) : s.err => brk[h] \/ e
  BY <1>2 DEF ErrOK
<1>7. ErrOK(wq'[h], wdone'[h], brk'[h] \/ e) /\ (brk[h] => brk'[h])
  BY <1>4, <1>5, <1>6 DEF ErrOK
<1> QED BY <1>3, <1>7

LEMMA NextErrInv ==
    ASSUME TypeInv, TypeInv', \A x \in Handle : BufOK(x), ErrInv, [Next]_vars
    PROVE  ErrInv' /\ \A x \in Handle : brk[x] => brk'[x]
<1> DEFINE Goal(x) == /\ ErrOK(wq'[x], wdone'[x], brk'[x] \/ EndedNext(x))
                      /\ brk[x] => brk'[x]
<1>0. WriteTypeOK /\ LinkInv
  BY DEF TypeInv
<1>1. \A x \in Handle : Ended(x) => EndedNext(x)
  BY <1>0, EndedStays
<1>2. ASSUME NEW x \in Handle, wq'[x] = wq[x], wdone'[x] = wdone[x], brk'[x] = brk[x]
      PROVE  Goal(x)
  BY <1>1, <1>2 DEF ErrInv, ErrOK
<1>3. ASSUME NEW h \in Handle, NEW q \in Seq(WriteReq), q # <<>>, NEW done \in Seq(WriteReq),
             Wrote(h, q, done, gen', mem'), ErrOK(q, done, brk[h] \/ Ended(h)),
             NEW x \in Handle
      PROVE  Goal(x)
  <2>0. ErrOK(q, done, brk[h] \/ EndedNext(h))
    BY <1>1, <1>3 DEF ErrOK
  <2>1. /\ ErrOK(wq'[h], wdone'[h], brk'[h] \/ EndedNext(h)) /\ (brk[h] => brk'[h])
        /\ x # h => wq'[x] = wq[x] /\ wdone'[x] = wdone[x] /\ brk'[x] = brk[x]
    BY <1>0, <1>3, <2>0, WroteErr
  <2> QED BY <1>2, <2>1
<1> HIDE DEF Goal
<1>4. ASSUME NEW to \in Handle, NEW from \in Handle, gen'[from] # 0,
             NEW done \in Seq(WriteReq), Range(done) \subseteq Range(wdone[to]),
             Transfer(from, to, wq[to], done), NEW x \in Handle
      PROVE  Goal(x)
  <2>1. wq[to] \in Seq(WriteReq) /\ ErrOK(wq[to], wdone[to], brk[to] \/ Ended(to))
    BY <1>0 DEF WriteTypeOK, ErrInv
  <2> DEFINE r == Unsent(from)
             q == wq[to]
  <2>2. /\ q \in Seq(WriteReq) /\ r \in WriteReq /\ ~r.err
        /\ Append(q, r) \in Seq(WriteReq) /\ Append(q, r) # <<>>
        /\ Wrote(to, Append(q, r), done, gen', mem')
    BY <1>0, <1>4, <2>1, TransferWrote
  <2> HIDE DEF r
  <2>3. Range(Append(q, r)) = Range(q) \cup {r}
    BY <2>2, RangeAppend
  <2>4. ErrOK(Append(q, r), done, brk[to] \/ Ended(to))
    BY <1>4, <2>1, <2>2, <2>3 DEF ErrOK
  <2> QED BY <1>3, <1>4, <2>2, <2>4
<1>5. ASSUME QuietStep, NEW x \in Handle PROVE Goal(x)
  BY <1>2, <1>5 DEF QuietStep
<1>6. ASSUME NEW h \in Handle, CancelStep(h), NEW x \in Handle PROVE Goal(x)
  <2>1. /\ wdone' = [wdone EXCEPT ![h] = wdone[h] \o Cancelled(wq[h])]
        /\ wq' = [wq EXCEPT ![h] = <<>>]
        /\ hs' = [hs EXCEPT ![h] = "closed"] /\ brk' = brk
    BY <1>6 DEF CancelStep, FinishClose
  <2>2. /\ wq'[h] = <<>> /\ hs'[h] = "closed"
        /\ x # h => wq'[x] = wq[x] /\ wdone'[x] = wdone[x]
    <3> DEFINE d == wdone[h] \o Cancelled(wq[h])
    <3>1. wdone' = [wdone EXCEPT ![h] = d]
      BY <2>1
    <3> HIDE DEF d
    <3> QED BY <1>0, <2>1, <3>1 DEF WriteTypeOK, LinkInv, LinkTypeOK
  <2>3. ErrOK(wq'[h], wdone'[h], brk'[h] \/ EndedNext(h))
    BY <2>2 DEF ErrOK, EndedNext, Range
  <2>4. CASE x = h
    BY <2>1, <2>3, <2>4 DEF Goal
  <2>5. CASE x # h
    BY <1>2, <2>1, <2>2, <2>5
  <2> QED BY <2>4, <2>5
<1>7. ASSUME NEW h \in Handle, FlushStep(h), NEW x \in Handle PROVE Goal(x)
  <2>1. /\ wq[h] \in Seq(WriteReq) /\ wdone[h] \in Seq(WriteReq) /\ wq[h] # <<>>
        /\ Wrote(h, wq[h], wdone[h], gen', mem')
        /\ ErrOK(wq[h], wdone[h], brk[h] \/ Ended(h))
    BY <1>0, <1>7 DEF FlushStep, ErrInv, WriteTypeOK
  <2> QED BY <1>3, <2>1
<1>8. ASSUME NEW from \in Handle, NEW to \in Handle, SendStep(from, to), NEW x \in Handle
      PROVE  Goal(x)
  <2>1. wdone[to] \in Seq(WriteReq) /\ gen'[from] # 0 /\ Transfer(from, to, wq[to], wdone[to])
    BY <1>0, <1>8 DEF SendStep, WriteTypeOK
  <2> QED BY <1>4, <2>1
<1>9. ASSUME NEW to \in Handle, AfterWrite(to), NEW x \in Handle PROVE Goal(x)
  <2>1. /\ peer[to] \in Handle /\ Live(peer[to]) /\ wdone[to] # <<>> /\ gen' = gen
        /\ SendsMore(peer[to], to) \/ Restarts(peer[to], to)
    BY <1>9, AfterWriteCases
  <2>2. wdone[to] \in Seq(WriteReq)
    BY <1>0 DEF WriteTypeOK
  <2>3. Tail(wdone[to]) \in Seq(WriteReq) /\ Range(Tail(wdone[to])) \subseteq Range(wdone[to])
    BY <2>1, <2>2, RangeHead
  <2>4. CASE SendsMore(peer[to], to)
    <3>1. gen'[peer[to]] # 0 /\ Transfer(peer[to], to, wq[to], Tail(wdone[to]))
      BY <2>1, <2>4 DEF SendsMore, Live
    <3> QED BY <1>4, <2>1, <2>3, <3>1
  <2>5. CASE Restarts(peer[to], to)
    <3>1. /\ wq' = wq /\ brk' = brk /\ wdone' = [wdone EXCEPT ![to] = Tail(wdone[to])]
      BY <2>5 DEF Restarts
    <3>2. wdone'[to] = Tail(wdone[to]) /\ (x # to => wdone'[x] = wdone[x])
      BY <1>0, <3>1 DEF WriteTypeOK
    <3>3. CASE x = to
      <4>1. ErrOK(wq[to], wdone[to], brk[to] \/ Ended(to))
        BY DEF ErrInv
      <4>2. ErrOK(wq'[to], wdone'[to], brk'[to] \/ EndedNext(to))
        BY <1>1, <2>3, <3>1, <3>2, <4>1 DEF ErrOK
      <4> QED BY <3>1, <3>3, <4>2 DEF Goal
    <3>4. CASE x # to
      BY <1>2, <3>1, <3>2, <3>4
    <3> QED BY <3>3, <3>4
  <2> QED BY <2>1, <2>4, <2>5
<1>10. \A x \in Handle : Goal(x)
  BY <1>5, <1>6, <1>7, <1>8, <1>9, NextKind
<1> QED BY <1>10 DEF Goal, ErrInv, ErrOK, EndedNext, Ended

-----------------------------------------------------------------------------
(* Where the one write of a stream's bytes is.                              *)

LEMMA MineOfAppend ==
    ASSUME NEW m \in Seq(Summary), NEW r \in Summary, NEW h, r.of # h
    PROVE  Mine(Append(m, r), h) = Mine(m, h)
<1>1. Mine(Append(m, r), h) = Mine(m, h) \cup (IF r.of = h THEN {Len(m) + 1} ELSE {})
  BY MineAppend
<1> QED BY <1>1

LEMMA MineOfTaken ==
    ASSUME NEW f \in Summaries, NEW g, NEW to \in Handle, Taken(f, g, to), NEW h,
           1 \notin Mine(f[to], h), NEW x \in Handle
    PROVE  Mine(g[x], h) = {} <=> Mine(f[x], h) = {}
<1>1. /\ \A i \in Mine(g[to], h) : i + 1 \in Mine(f[to], h)
      /\ \A i \in Mine(f[to], h) : i # 1 => i - 1 \in Mine(g[to], h)
      /\ \A y \in Handle : y # to => g[y] = f[y]
  BY TakenMine
<1> QED BY <1>1

(* The first request of a stream was not of a third one that is still there. *)
LEMMA CompletedNear ==
    ASSUME TypeInv, RequestsNear, NEW to \in Handle, wdone[to] # <<>>, Live(to),
           NEW h \in Handle, ~Ended(h), h # peer[to]
    PROVE  /\ Head(wdone[to]).src # h /\ Head(wdone[to]) \in WriteReq
           /\ 1 \notin Mine(Ms[to], h)
<1>1. WriteTypeOK /\ LiveWhileOpen /\ None \notin Handle
  BY NoneAssumption DEF TypeInv, LinkInv
<1>2. wq[to] \in Seq(WriteReq) /\ wdone[to] \in Seq(WriteReq) /\ wdone[to] \in Seq(ReqOf(Near(to)))
  BY <1>1 DEF RequestsNear, Within, WriteTypeOK
<1>3. Head(wdone[to]) \in ReqOf(Near(to)) /\ Head(wdone[to]) \in WriteReq
  BY <1>2
<1>4. Head(wdone[to]).src # h
  <2>1. ~Ended(to)
    BY <1>1 DEF LiveWhileOpen, Ended
  <2> QED BY <1>3, <2>1 DEF ReqOf, Near
<1>5. Ms[to][1] = Sum(Head(wdone[to]))
  BY <1>2, SumsTail DEF Ms, M
<1>6. Sum(Head(wdone[to])).of # h
  BY <1>1, <1>4 DEF Sum
<1> QED BY <1>3, <1>4, <1>5, <1>6 DEF Mine

(* It only comes and goes at the stream the other is linked to. *)
LEMMA NextMine ==
    ASSUME TypeInv, TypeInv', \A x \in Handle : BufOK(x), RequestsNear, [Next]_vars,
           NEW h \in Handle, ~Ended(h), NEW x \in Handle
    PROVE  \/ Mine(MsNext[x], h) = {} <=> Mine(Ms[x], h) = {}
           \/ peer[h] = x /\ peer'[h] = x
<1>0. /\ WriteTypeOK /\ Ms \in Summaries /\ None \notin Handle /\ LinkInv
  <2>1. WriteTypeOK
    BY DEF TypeInv
  <2> QED BY <2>1, MsType, NoneAssumption DEF TypeInv
<1>1. CASE MsNext = Ms
  BY <1>1
<1>2. ASSUME NEW from \in Handle, gen'[from] # 0 PROVE Sum(Unsent(from)) \in Summary
        /\ (from # h => Sum(Unsent(from)).of # h)
  <2>1. Unsent(from) \in WriteReq /\ Unsent(from).src = from
    BY <1>2, UnsentType
  <2> QED BY <1>0, <2>1, SumType DEF Sum
<1>3. ASSUME NEW from \in Handle, NEW to \in Handle, SendStep(from, to)
      PROVE  \/ Mine(MsNext[x], h) = {} <=> Mine(Ms[x], h) = {}
             \/ peer[h] = x /\ peer'[h] = x
  <2>1. Added(Ms, MsNext, to, Sum(Unsent(from))) /\ peer[from] = to /\ peer' = peer /\ gen'[from] # 0
    BY <1>0, <1>3, TransferSums DEF SendStep
  <2>2. CASE x # to
    BY <2>1, <2>2 DEF Added
  <2>3. CASE x = to /\ from = h
    BY <2>1, <2>3
  <2>4. CASE x = to /\ from # h
    <3>1. Ms[to] \in Seq(Summary)
      BY <1>0, SummariesOf
    <3>2. Sum(Unsent(from)) \in Summary /\ Sum(Unsent(from)).of # h
      BY <1>2, <2>1, <2>4
    <3>3. Mine(Append(Ms[to], Sum(Unsent(from))), h) = Mine(Ms[to], h)
      BY <3>1, <3>2, MineOfAppend
    <3> QED BY <2>1, <2>4, <3>3 DEF Added
  <2> QED BY <2>2, <2>3, <2>4
<1>4. ASSUME NEW to \in Handle, AfterWrite(to)
      PROVE  \/ Mine(MsNext[x], h) = {} <=> Mine(Ms[x], h) = {}
             \/ peer[h] = x /\ peer'[h] = x
  <2>1. /\ peer[to] \in Handle /\ peer[peer[to]] = to /\ Live(to) /\ Live(peer[to])
        /\ wdone[to] # <<>> /\ gen' = gen /\ peer' = peer
        /\ SendsMore(peer[to], to) \/ Restarts(peer[to], to)
    BY <1>4, AfterWriteCases
  <2> DEFINE from == peer[to]
  <2>2. CASE h = from /\ x = to
    BY <2>1, <2>2
  <2>3. h # from => 1 \notin Mine(Ms[to], h)
    BY <2>1, CompletedNear
  <2>4. CASE SendsMore(from, to)
    <3>0. gen'[from] # 0 /\ Transfer(from, to, wq[to], Tail(wdone[to]))
      BY <2>1, <2>4 DEF SendsMore, Live
    <3>1. PICK f \in Summaries : Taken(Ms, f, to) /\ Added(f, MsNext, to, Sum(Unsent(from)))
      BY <1>0, <2>1, <3>0, TransferAfterSums
    <3>2. CASE x # to
      BY <3>1, <3>2 DEF Taken, Added
    <3>3. CASE x = to /\ h # from
      <4>1. Mine(f[x], h) = {} <=> Mine(Ms[x], h) = {}
        BY <1>0, <2>3, <3>1, <3>3, MineOfTaken
      <4>2. f[to] \in Seq(Summary)
        BY <3>1, SummariesOf
      <4>3. Mine(MsNext[x], h) = Mine(f[x], h)
        <5>1. Sum(Unsent(from)) \in Summary /\ Sum(Unsent(from)).of # h
          BY <1>2, <2>1, <3>0, <3>3
        <5> HIDE DEF from
        <5> QED BY <3>1, <3>3, <4>2, <5>1, MineOfAppend DEF Added
      <4> QED BY <4>1, <4>3
    <3> QED BY <2>2, <3>2, <3>3
  <2>5. CASE Restarts(from, to)
    <3>1. /\ wdone'[to] = Tail(wdone[to]) /\ wq'[to] = wq[to]
          /\ \A y \in Handle : y # to => wdone'[y] = wdone[y] /\ wq'[y] = wq[y]
      BY <1>0, <2>5 DEF Restarts, WriteTypeOK
    <3>2. M(to) # <<>> /\ Sums(wq[to], Tail(wdone[to])) = Tail(M(to))
      <4>1. wq[to] \in Seq(WriteReq) /\ wdone[to] \in Seq(WriteReq)
        BY <1>0 DEF WriteTypeOK
      <4> QED BY <2>1, <4>1, SumsTail DEF M
    <3>3. MNext(to) = Tail(M(to)) /\ \A y \in Handle : y # to => MNext(y) = M(y)
      BY <3>1, <3>2 DEF M, MNext
    <3>4. Taken(Ms, MsNext, to)
      BY <3>2, <3>3 DEF Taken, Ms, MsNext
    <3>5. CASE x # to
      BY <3>4, <3>5 DEF Taken
    <3>6. CASE x = to /\ h # from
      BY <1>0, <2>3, <3>4, <3>6, MineOfTaken
    <3> QED BY <2>2, <3>5, <3>6
  <2> QED BY <2>1, <2>4, <2>5
<1>5. QuietStep => MsNext = Ms
  BY MsSame DEF QuietStep
<1> QED BY <1>1, <1>3, <1>4, <1>5, NextKind DEF CancelStep, FlushStep

(* The stream that takes the bytes of h, or will be handed them. *)
Target(h, x) ==
    /\ \A y \in Handle : y # x => Mine(Ms[y], h) = {}
    /\ Mine(Ms[x], h) # {} \/ peer[h] = x

TargetNext(h, x) ==
    /\ \A y \in Handle : y # x => Mine(MsNext[y], h) = {}
    /\ Mine(MsNext[x], h) # {} \/ peer'[h] = x

(* It is the same before a step, or a stream that got nothing of h yet. *)
LEMMA TargetStays ==
    ASSUME TypeInv, TypeInv', \A x \in Handle : BufOK(x), RequestsNear, ApartInv, [Next]_vars,
           NEW h \in Handle, ~Ended(h), AtMostOne(Ms, h), NEW x \in Handle, TargetNext(h, x)
    PROVE  Target(h, x) \/ h \notin Src(x)
<1>1. \A y \in Handle : \/ Mine(MsNext[y], h) = {} <=> Mine(Ms[y], h) = {}
                        \/ peer[h] = y /\ peer'[h] = y
  BY NextMine
<1>2. CASE \E y \in Handle : peer[h] = y /\ peer'[h] = y
                             /\ ~(Mine(MsNext[y], h) = {} <=> Mine(Ms[y], h) = {})
  <2>1. PICK y \in Handle : peer[h] = y /\ peer'[h] = y
                            /\ ~(Mine(MsNext[y], h) = {} <=> Mine(Ms[y], h) = {})
    BY <1>2
  <2>2. \A z \in Handle : z # y => (Mine(MsNext[z], h) = {} <=> Mine(Ms[z], h) = {})
    BY <1>1, <2>1
  <2>3. CASE y = x
    BY <2>1, <2>2, <2>3 DEF Target, TargetNext
  <2>4. CASE y # x
    <3>1. Mine(Ms[y], h) # {} /\ Mine(Ms[x], h) # {}
      BY <2>1, <2>2, <2>4 DEF TargetNext
    <3> QED BY <2>4, <3>1 DEF AtMostOne
  <2> QED BY <2>3, <2>4
<1>3. CASE \A y \in Handle : Mine(MsNext[y], h) = {} <=> Mine(Ms[y], h) = {}
  <2>1. CASE Mine(MsNext[x], h) # {}
    BY <1>3, <2>1 DEF Target, TargetNext
  <2>2. CASE peer'[h] = x /\ peer[h] = x
    BY <1>3, <2>2 DEF Target, TargetNext
  <2>3. CASE peer'[h] = x /\ peer[h] # x
    <3>1. PeerStep(h) /\ None \notin Handle
      BY StatesStep, NoneAssumption DEF TypeInv, StepOf
    <3>2. PICK d \in Down, u \in Up : hs[u] = "unused" /\ ((h = d /\ x = u) \/ (h = u /\ x = d))
      BY <2>3, <3>1 DEF PeerStep
    <3>3. ~Touched(d, u)
      BY <3>2 DEF ApartInv
    <3> QED BY <3>2, <3>3 DEF Touched
  <2> QED BY <2>1, <2>2, <2>3 DEF TargetNext
<1> QED BY <1>1, <1>2, <1>3

-----------------------------------------------------------------------------
(* The requests that hold bytes of a stream not written, and which bytes    *)
(* these are.                                                               *)

Own(q, done, h) ==
    {r \in Range(q) \cup {s \in Range(done) : s.err} : r.src = h /\ r.len # 0}

Held(h)     == UNION {Own(wq[x], wdone[x], h) : x \in Handle}
HeldNext(h) == UNION {Own(wq'[x], wdone'[x], h) : x \in Handle}

(* The requests H have the bytes from a on, up to the last handed over. *)
FrontOf(H, l, a) ==
    a \in Nat /\ (H = {} => a = l) /\ \A r \in H : r.off = a /\ r.off + r.len = l

BytesOf(m, l, s, P) ==
    {m[i] : i \in l + 1 .. s}
      \cup UNION {{m[i] : i \in r.off + 1 .. r.off + r.len} : r \in P}

NotEmpty(P)      == {r \in P : r.len # 0}
BytesOn(m, a, s) == {m[i] : i \in a + 1 .. s}

LEMMA BytesOfFront ==
    ASSUME NEW m, NEW l \in Nat, NEW s \in Nat, l <= s, NEW P \in SUBSET WriteReq, NEW a,
           FrontOf(NotEmpty(P), l, a)
    PROVE  a \in 0 .. l /\ BytesOf(m, l, s, P) = BytesOn(m, a, s)
<1> USE DEF NotEmpty, BytesOn
<1> DEFINE H == {r \in P : r.len # 0}
<1>0. a \in Nat /\ \A r \in P : r.off \in Nat /\ r.len \in Nat
  BY DEF FrontOf, WriteReq
<1>1. a <= l
  <2>1. CASE H = {}
    BY <1>0, <2>1 DEF FrontOf
  <2>2. CASE H # {}
    <3>1. PICK r \in P : r.len # 0
      BY <2>2
    <3>2. r.off = a /\ r.off + r.len = l
      BY <3>1 DEF FrontOf
    <3> QED BY <1>0, <3>2
  <2> QED BY <2>1, <2>2
<1>2. ASSUME NEW v \in BytesOf(m, l, s, P) PROVE v \in {m[i] : i \in a + 1 .. s}
  <2>1. CASE v \in {m[i] : i \in l + 1 .. s}
    <3>1. PICK i \in l + 1 .. s : v = m[i]
      BY <2>1
    <3>2. i \in a + 1 .. s
      BY <1>0, <1>1
    <3> QED BY <3>1, <3>2
  <2>2. CASE v \in UNION {{m[i] : i \in r.off + 1 .. r.off + r.len} : r \in P}
    <3>1. PICK r \in P : v \in {m[i] : i \in r.off + 1 .. r.off + r.len}
      BY <2>2
    <3>2. PICK i \in r.off + 1 .. r.off + r.len : v = m[i]
      BY <3>1
    <3>3. r.len # 0
      BY <1>0
    <3>4. r.off = a /\ r.off + r.len = l
      BY <3>3 DEF FrontOf
    <3>5. i \in a + 1 .. s
      BY <1>0, <3>4
    <3> QED BY <3>2, <3>5
  <2> QED BY <1>2, <2>1, <2>2 DEF BytesOf
<1>3. ASSUME NEW v \in {m[i] : i \in a + 1 .. s} PROVE v \in BytesOf(m, l, s, P)
  <2>1. PICK i \in a + 1 .. s : v = m[i]
    BY <1>3
  <2>2. CASE i > l
    <3>1. i \in l + 1 .. s
      BY <1>0, <2>2
    <3> QED BY <2>1, <3>1 DEF BytesOf
  <2>3. CASE i <= l
    <3>1. H # {}
      BY <1>0, <2>3 DEF FrontOf
    <3>2. PICK r \in P : r.len # 0
      BY <3>1
    <3>3. r.off = a /\ r.off + r.len = l
      BY <3>2 DEF FrontOf
    <3>4. i \in r.off + 1 .. r.off + r.len
      BY <1>0, <2>3, <3>3
    <3> QED BY <2>1, <3>4 DEF BytesOf
  <2> QED BY <1>0, <2>2, <2>3
<1>4. BytesOf(m, l, s, P) = {m[i] : i \in a + 1 .. s}
  BY <1>2, <1>3
<1> QED BY <1>0, <1>1, <1>4

(* Where such a request is among the summaries. *)
LEMMA OwnAt ==
    ASSUME NEW q \in Seq(WriteReq), NEW done \in Seq(WriteReq), NEW h, NEW r \in Own(q, done, h)
    PROVE  \E i \in Mine(Sums(q, done), h) :
              r = Req(q, done, i) /\ EndAt(Sums(q, done), i) = r.off + r.len
<1> DEFINE n == Len(done)
           s == Sums(q, done)
<1>0. n \in Nat
  OBVIOUS
<1>1. r.src = h /\ r.len # 0 /\ (r \in Range(q) \/ r \in Range(done))
  BY DEF Own
<1>2. /\ \A i \in 1 .. n : done[i].src = h /\ done[i].len # 0 =>
           i \in Mine(s, h) /\ EndAt(s, i) = done[i].off + done[i].len
      /\ \A j \in 1 .. Len(q) : q[j].src = h /\ q[j].len # 0 =>
           n + j \in Mine(s, h) /\ EndAt(s, n + j) = q[j].off + q[j].len
  BY MineAt
<1> HIDE DEF s
<1>3. CASE r \in Range(q)
  <2>1. PICK j \in 1 .. Len(q) : r = q[j]
    BY <1>3, RangeIs
  <2>2. Req(q, done, n + j) = q[j]
    <3>1. ~(n + j <= n) /\ (n + j) - n = j
      BY <1>0
    <3> HIDE DEF n
    <3> QED BY <3>1 DEF Req, n
  <2> QED BY <1>1, <1>2, <2>1, <2>2 DEF s
<1>4. CASE r \in Range(done)
  <2>1. PICK i \in 1 .. n : r = done[i]
    BY <1>4, RangeIs
  <2>2. Req(q, done, i) = done[i]
    <3>1. i <= n
      BY <1>0
    <3> QED BY <3>1 DEF Req
  <2> QED BY <1>1, <1>2, <2>1, <2>2 DEF s
<1> QED BY <1>1, <1>3, <1>4

LEMMA FrontExists ==
    ASSUME TypeInv, BoundsInv, WriteInv, NEW h \in Handle, h \notin miscredit, ~Ended(h)
    PROVE  \E a : FrontOf(Held(h), last[h], a)
<1>0. /\ WriteTypeOK /\ DataTypeOK /\ LiveWhileOpen /\ hs[h] \in HandleState
      /\ OneWrite(h)
  BY DEF TypeInv, LinkInv, LinkTypeOK, WriteInv
<1>1. ASSUME NEW r \in Held(h)
      PROVE  \E x \in Handle : \E i \in Mine(Ms[x], h) :
                r = Req(wq[x], wdone[x], i) /\ EndAt(Ms[x], i) = r.off + r.len
  <2>1. PICK x \in Handle : r \in Own(wq[x], wdone[x], h)
    BY <1>1 DEF Held
  <2> DEFINE q == wq[x]
             done == wdone[x]
  <2>2. q \in Seq(WriteReq) /\ done \in Seq(WriteReq) /\ r \in Own(q, done, h)
        /\ Ms[x] = Sums(q, done)
    BY <1>0, <2>1 DEF WriteTypeOK, Ms, M
  <2> HIDE DEF q, done
  <2>3. \E i \in Mine(Sums(q, done), h) :
              r = Req(q, done, i) /\ EndAt(Sums(q, done), i) = r.off + r.len
    BY <2>2, OwnAt
  <2> QED BY <2>2, <2>3 DEF q, done
<1>2. CASE Held(h) = {}
  <2>1. FrontOf(Held(h), last[h], last[h])
    BY <1>0, <1>2 DEF FrontOf, DataTypeOK
  <2> QED BY <2>1
<1>3. CASE Held(h) # {}
  <2>0. PICK r \in Held(h) : TRUE
    BY <1>3
  <2>1. PICK x \in Handle : \E i \in Mine(Ms[x], h) :
                r = Req(wq[x], wdone[x], i) /\ EndAt(Ms[x], i) = r.off + r.len
    BY <1>1
  <2>2. PICK i \in Mine(Ms[x], h) :
                r = Req(wq[x], wdone[x], i) /\ EndAt(Ms[x], i) = r.off + r.len
    BY <2>1
  <2>3. Live(h)
    BY <1>0, <2>2, NewHasNone
  <2>4. r.off + r.len = last[h]
    BY <1>0, <2>2, <2>3 DEF OneWrite, Settled
  <2>5. ASSUME NEW s \in Held(h) PROVE s = r
    <3>1. PICK y \in Handle : \E j \in Mine(Ms[y], h) : s = Req(wq[y], wdone[y], j)
      BY <1>1
    <3>2. PICK j \in Mine(Ms[y], h) : s = Req(wq[y], wdone[y], j)
      BY <3>1
    <3>3. y = x
      BY <1>0, <2>2, <3>2 DEF OneWrite, AtMostOne
    <3>4. i = j
      BY <1>0, <2>2, <3>2, <3>3 DEF OneWrite, AtMostOne
    <3> QED BY <2>2, <3>2, <3>3, <3>4
  <2>6. r.off \in Nat
    <3>1. wq[x] \in Seq(WriteReq) /\ wdone[x] \in Seq(WriteReq)
      BY <1>0 DEF WriteTypeOK
    <3>2. r \in WriteReq
      <4>1. PICK z \in Handle : r \in Own(wq[z], wdone[z], h)
        BY <2>0 DEF Held
      <4>2. wq[z] \in Seq(WriteReq) /\ wdone[z] \in Seq(WriteReq)
        BY <1>0 DEF WriteTypeOK
      <4>3. Range(wq[z]) \subseteq WriteReq /\ Range(wdone[z]) \subseteq WriteReq
        BY <4>2, RangeIs
      <4> QED BY <4>1, <4>3 DEF Own
    <3> QED BY <3>2 DEF WriteReq
  <2>7. FrontOf(Held(h), last[h], r.off)
    BY <2>0, <2>4, <2>5, <2>6 DEF FrontOf
  <2> QED BY <2>7
<1> QED BY <1>2, <1>3

(* What is held when k bytes of the first request of a stream are written. *)
OwnMove(x, q, done, k, h) ==
    /\ Head(q).src # h \/ Head(q).len = 0
         => Own(wq'[x], wdone'[x], h) = Own(q, done, h)
    /\ Head(q).src = h /\ Head(q).len # 0 /\ Own(Tail(q), done, h) = {}
         => /\ k = Head(q).len => Own(wq'[x], wdone'[x], h) = {}
            /\ k # Head(q).len =>
                 \E s : /\ Own(wq'[x], wdone'[x], h) = {s}
                        /\ s.off = Head(q).off + k /\ s.len = Head(q).len - k

LEMMA OwnOutcome ==
    ASSUME NEW x \in Handle, NEW q \in Seq(WriteReq), q # <<>>, NEW done \in Seq(WriteReq),
           ~Head(q).err, NEW k \in 0 .. Head(q).len, HeadOutcome(x, q, done, k), NEW h
    PROVE  OwnMove(x, q, done, k, h)
<1> SUFFICES ASSUME NEW r, r = Head(q), NEW t, t = Range(Tail(q)), NEW d, d = Range(done)
             PROVE  /\ r.src # h \/ r.len = 0
                         => Own(wq'[x], wdone'[x], h) = Own(q, done, h)
                    /\ r.src = h /\ r.len # 0 /\ Own(Tail(q), done, h) = {}
                         => /\ k = r.len => Own(wq'[x], wdone'[x], h) = {}
                            /\ k # r.len =>
                                 \E s : /\ Own(wq'[x], wdone'[x], h) = {s}
                                        /\ s.off = r.off + k /\ s.len = r.len - k
  BY DEF OwnMove
<1>1. r \in WriteReq /\ ~r.err /\ Range(q) = {r} \cup t
  BY RangeHead
<1>2. /\ r.len \in Nat /\ r.off \in Nat /\ k \in 0 .. r.len
      /\ Part(r, k).src = r.src /\ Part(r, k).err = r.err
      /\ Part(r, k).off = r.off + k /\ Part(r, k).len = r.len - k
      /\ Failed(r).src = r.src /\ Failed(r).err /\ Failed(r).off = r.off /\ Failed(r).len = r.len
  BY <1>1 DEF WriteReq, Part, Failed
<1>3. \/ /\ k = r.len
         /\ Range(wq'[x]) = t /\ Range(wdone'[x]) = d \cup {r}
      \/ /\ Range(wq'[x]) = {Part(r, k)} \cup t /\ Range(wdone'[x]) = d
      \/ /\ k = 0
         /\ Range(wq'[x]) = t /\ Range(wdone'[x]) = d \cup {Failed(r)}
  BY DEF HeadOutcome
<1> DEFINE own == Own(q, done, h)
           rest == Own(Tail(q), done, h)
           next == Own(wq'[x], wdone'[x], h)
<1>4. /\ \A s : s \in rest <=> (s \in t \/ (s \in d /\ s.err)) /\ s.src = h /\ s.len # 0
      /\ \A s : s \in own <=> (s = r \/ s \in t \/ (s \in d /\ s.err)) /\ s.src = h /\ s.len # 0
      /\ \A s : s \in next <=> /\ s \in Range(wq'[x]) \/ (s \in Range(wdone'[x]) /\ s.err)
                               /\ s.src = h /\ s.len # 0
  BY <1>1 DEF Own
<1> HIDE DEF own, rest, next
<1>5. ASSUME r.src # h \/ r.len = 0 PROVE next = own
  <2>1. k = 0 \/ r.src # h
    BY <1>2, <1>5
  <2>2. Part(r, k).src # h \/ Part(r, k).len = 0
    BY <1>2, <1>5
  <2>3. Failed(r).src # h \/ Failed(r).len = 0
    BY <1>2, <1>5
  <2>4. \A s : s \in next <=> s \in own
    BY <1>3, <1>4, <1>5, <2>2, <2>3
  <2> QED BY <2>4
<1>6. ASSUME r.src = h, r.len # 0, rest = {}, k = r.len PROVE next = {}
  <2>1. Part(r, k).len = 0 /\ k # 0
    BY <1>2, <1>6
  <2> QED BY <1>1, <1>3, <1>4, <1>6, <2>1
<1>7. ASSUME r.src = h, r.len # 0, rest = {}, k # r.len
      PROVE  \E s : next = {s} /\ s.off = r.off + k /\ s.len = r.len - k
  <2>1. CASE Range(wq'[x]) = {Part(r, k)} \cup t /\ Range(wdone'[x]) = d
    <3>1. Part(r, k).len # 0
      BY <1>2, <1>7
    <3>2. next = {Part(r, k)}
      BY <1>2, <1>4, <1>7, <2>1, <3>1
    <3> QED BY <1>2, <3>2
  <2>2. CASE k = 0 /\ Range(wq'[x]) = t /\ Range(wdone'[x]) = d \cup {Failed(r)}
    <3>1. next = {Failed(r)}
      BY <1>2, <1>4, <1>7, <2>2
    <3>2. Failed(r).off = r.off + k /\ Failed(r).len = r.len - k
      BY <1>2, <2>2
    <3> QED BY <3>1, <3>2
  <2> QED BY <1>3, <1>7, <2>1, <2>2
<1> QED BY <1>5, <1>6, <1>7 DEF own, rest, next

-----------------------------------------------------------------------------
(* What a write does to the bytes of a stream.                              *)

(* The requests with bytes of h when stream `to` is about to write queue q. *)
HeldAt(to, q, done, h) ==
    (UNION {Own(wq[y], wdone[y], h) : y \in Handle \ {to}}) \cup Own(q, done, h)

(* Of s, which stream x gets, the bytes of h are k of its buffer from a on. *)
Put(h, x, s, a, k) ==
    \/ k = 0 /\ \A i \in 1 .. Len(s) : s[i][1] # h
    \/ /\ k \in Nat \ {0} /\ Len(s) = k /\ ~brk[x] /\ Mine(MsNext[x], h) # {}
       /\ \A i \in 1 .. k : s[i][1] = h /\ s[i][2] \in {0, mem'[h][a + i]}

(* When the first request has bytes of h, no other one has. *)
OnlyHead(to, q, done, h) ==
    /\ Mine(MsNext[to], h) # {} /\ Own(Tail(q), done, h) = {}
    /\ \A y \in Handle : y # to => Own(wq[y], wdone[y], h) = {}

LEMMA Alone ==
    ASSUME WriteTypeOK, NEW to \in Handle, NEW q \in Seq(WriteReq), q # <<>>,
           NEW done \in Seq(WriteReq), MsNext[to] = Sums(q, done),
           \A y \in Handle : y # to => wq'[y] = wq[y] /\ wdone'[y] = wdone[y],
           NEW h, AtMostOne(MsNext, h), Head(q).src = h, Head(q).len # 0
    PROVE  OnlyHead(to, q, done, h)
<1> DEFINE n == Len(done)
           s == Sums(q, done)
<1>1. /\ Len(q) \in Nat \ {0} /\ Len(Tail(q)) = Len(q) - 1 /\ Head(q) = q[1]
      /\ Tail(q) \in Seq(WriteReq)
      /\ \A i \in 1 .. Len(q) - 1 : Tail(q)[i] = q[i + 1]
      /\ n \in Nat
  BY TailElements
<1>2. /\ \A i \in 1 .. n : done[i].src = h /\ done[i].len # 0 => i \in Mine(s, h)
      /\ \A j \in 1 .. Len(q) : q[j].src = h /\ q[j].len # 0 => n + j \in Mine(s, h)
  BY MineAt
<1>3. \A i, j \in Mine(s, h) : i = j
  BY DEF AtMostOne
<1> HIDE DEF s, n
<1>4. n + 1 \in Mine(s, h)
  BY <1>1, <1>2
<1>5. ASSUME NEW r \in Own(Tail(q), done, h) PROVE FALSE
  <2>1. r.src = h /\ r.len # 0 /\ (r \in Range(Tail(q)) \/ r \in Range(done))
    BY <1>5 DEF Own
  <2>2. CASE r \in Range(Tail(q))
    <3>0. Tail(q) \in Seq(WriteReq)
      BY <1>1
    <3>1. PICK j \in 1 .. Len(Tail(q)) : r = Tail(q)[j]
      BY <2>2, <3>0, RangeIs, Zenon
    <3>2. j + 1 \in 1 .. Len(q) /\ r = q[j + 1]
      BY <1>1, <3>1
    <3>3. n + (j + 1) \in Mine(s, h)
      BY <1>2, <2>1, <3>2
    <3>4. n + (j + 1) = n + 1
      BY <1>3, <1>4, <3>3
    <3> QED BY <1>1, <3>1, <3>4
  <2>3. CASE r \in Range(done)
    <3>1. PICK i \in 1 .. n : r = done[i]
      BY <2>3, RangeIs DEF n
    <3>2. i = n + 1
      BY <1>2, <1>3, <1>4, <2>1, <3>1
    <3> QED BY <1>1, <3>1, <3>2
  <2> QED BY <2>1, <2>2, <2>3
<1>6. ASSUME NEW y \in Handle, y # to, NEW r \in Own(wq[y], wdone[y], h) PROVE FALSE
  <2>1. wq[y] \in Seq(WriteReq) /\ wdone[y] \in Seq(WriteReq)
    BY DEF WriteTypeOK
  <2>2. Mine(Sums(wq[y], wdone[y]), h) # {}
    BY <1>6, <2>1, OwnAt
  <2>3. MsNext[y] = Sums(wq[y], wdone[y])
    BY <1>6 DEF MsNext, MNext
  <2>4. Mine(MsNext[to], h) # {}
    BY <1>4 DEF s
  <2> QED BY <1>6, <2>2, <2>3, <2>4 DEF AtMostOne
<1> QED BY <1>4, <1>5, <1>6 DEF s, OnlyHead

(* Bytes of a request are bytes of its stream, from where it begins. *)
LEMMA BytesAre ==
    ASSUME NEW r \in WriteReq, NEW k \in Nat, NEW g, NEW m
    PROVE  /\ Len(Bytes(r, k, g, m)) = k
           /\ \A i \in 1 .. k : /\ Bytes(r, k, g, m)[i][1] = r.src
                                /\ Bytes(r, k, g, m)[i][2] \in {0, m[r.src][r.off + i]}
                                /\ ~Valid(r, g) => Bytes(r, k, g, m)[i][2] = 0
<1>1. Len(Bytes(r, k, g, m)) = k
  BY DEF Bytes
<1>2. ASSUME NEW i \in 1 .. k
      PROVE  /\ Bytes(r, k, g, m)[i][1] = r.src
             /\ Bytes(r, k, g, m)[i][2] \in {0, m[r.src][r.off + i]}
             /\ ~Valid(r, g) => Bytes(r, k, g, m)[i][2] = 0
  <2> DEFINE b == IF Valid(r, g) /\ r.off + i \in DOMAIN m[r.src] THEN m[r.src][r.off + i] ELSE 0
  <2>1. Bytes(r, k, g, m)[i] = <<r.src, b>>
    BY DEF Bytes
  <2>2. b \in {0, m[r.src][r.off + i]} /\ (~Valid(r, g) => b = 0)
    OBVIOUS
  <2> HIDE DEF b
  <2> QED BY <2>1, <2>2
<1> QED BY <1>1, <1>2

LEMMA WriteFront ==
    ASSUME WriteTypeOK, NEW to \in Handle, NEW q \in Seq(WriteReq), q # <<>>, ~Head(q).err,
           NEW done \in Seq(WriteReq), MsNext[to] = Sums(q, done),
           NEW k \in 0 .. Head(q).len, WroteBytes(to, q, done, gen', mem', k),
           NEW h \in Handle, AtMostOne(MsNext, h),
           NEW l \in Nat, NEW a, FrontOf(HeldAt(to, q, done, h), l, a)
    PROVE  \E n \in Nat : /\ FrontOf(HeldNext(h), l, a + n)
                          /\ Put(h, to, Bytes(Head(q), k, gen', mem'), a, n)
<1>0. k \in Nat /\ Head(q).len \in Nat /\ Head(q).off \in Nat /\ Head(q) \in WriteReq /\ a \in Nat
      /\ k <= Head(q).len
  <2>1. Head(q) \in WriteReq /\ a \in Nat
    BY RangeHead DEF FrontOf
  <2>2. Head(q).len \in Nat /\ Head(q).off \in Nat
    BY <2>1 DEF WriteReq
  <2> QED BY <2>1, <2>2
<1>1. /\ \A x \in Handle : x # to => wq'[x] = wq[x] /\ wdone'[x] = wdone[x]
      /\ k > 0 => ~brk[to]
      /\ HeadOutcome(to, q, done, k)
  BY WroteRanges
<1> DEFINE s == Bytes(Head(q), k, gen', mem')
           others == UNION {Own(wq[y], wdone[y], h) : y \in Handle \ {to}}
<1>2. HeldNext(h) = others \cup Own(wq'[to], wdone'[to], h)
  <2>1. \A y \in Handle \ {to} : Own(wq'[y], wdone'[y], h) = Own(wq[y], wdone[y], h)
    BY <1>1
  <2> HIDE DEF s
  <2> QED BY <2>1 DEF HeldNext
<1>3. /\ Len(s) = k
      /\ \A i \in 1 .. k : /\ s[i][1] = Head(q).src
                           /\ s[i][2] \in {0, mem'[Head(q).src][Head(q).off + i]}
  BY <1>0, BytesAre
<1>4. OwnMove(to, q, done, k, h)
  BY <1>1, OwnOutcome
<1>5. HeldAt(to, q, done, h) = others \cup Own(q, done, h)
  BY DEF HeldAt
<1> HIDE DEF s, others
<1>6. CASE Head(q).src # h \/ Head(q).len = 0
  <2>1. HeldNext(h) = HeldAt(to, q, done, h) /\ a + 0 = a
    BY <1>0, <1>2, <1>4, <1>5, <1>6 DEF OwnMove
  <2>2. \A i \in 1 .. Len(s) : s[i][1] # h
    BY <1>0, <1>3, <1>6
  <2>3. FrontOf(HeldNext(h), l, a + 0) /\ Put(h, to, s, a, 0)
    BY <2>1, <2>2 DEF Put
  <2> QED BY <2>3 DEF s
<1>7. CASE Head(q).src = h /\ Head(q).len # 0
  <2>0. OnlyHead(to, q, done, h)
    BY <1>1, <1>7, Alone
  <2>1. /\ Mine(MsNext[to], h) # {}
        /\ Own(Tail(q), done, h) = {}
        /\ \A y \in Handle : y # to => Own(wq[y], wdone[y], h) = {}
    BY <2>0 DEF OnlyHead
  <2>2. others = {}
    BY <2>1 DEF others
  <2>3. Head(q) \in HeldAt(to, q, done, h)
    <3>1. Head(q) \in Range(q)
      BY RangeHead
    <3>2. Head(q) \in Own(q, done, h)
      BY <1>7, <3>1 DEF Own
    <3> QED BY <1>5, <3>2
  <2>4. Head(q).off = a /\ Head(q).off + Head(q).len = l
    BY <2>3 DEF FrontOf
  <2>5. FrontOf(HeldNext(h), l, a + k)
    <3>1. CASE k = Head(q).len
      <4>1. HeldNext(h) = {} /\ a + k = l
        BY <1>2, <1>4, <1>7, <2>1, <2>2, <2>4, <3>1 DEF OwnMove
      <4> QED BY <1>0, <4>1 DEF FrontOf
    <3>2. CASE k # Head(q).len
      <4>1. PICK t : /\ Own(wq'[to], wdone'[to], h) = {t}
                     /\ t.off = Head(q).off + k /\ t.len = Head(q).len - k
        BY <1>4, <1>7, <2>1, <3>2 DEF OwnMove
      <4>2. HeldNext(h) = {t} /\ t.off = a + k /\ t.off + t.len = l
        BY <1>0, <1>2, <2>2, <2>4, <4>1
      <4>3. a + k \in Nat
        BY <1>0
      <4> QED BY <4>2, <4>3 DEF FrontOf
    <3> QED BY <3>1, <3>2
  <2>6. Put(h, to, s, a, k)
    <3>1. \A i \in 1 .. k : s[i][1] = h /\ s[i][2] \in {0, mem'[h][a + i]}
      BY <1>3, <1>7, <2>4
    <3>2. CASE k = 0
      BY <1>3, <3>2 DEF Put
    <3>3. CASE k # 0
      BY <1>0, <1>1, <1>3, <2>1, <3>1, <3>3 DEF Put
    <3> QED BY <3>2, <3>3
  <2> QED BY <1>0, <2>5, <2>6 DEF s
<1> QED BY <1>6, <1>7

LEMMA OwnNone ==
    ASSUME NEW q \in Seq(WriteReq), NEW done \in Seq(WriteReq), NEW h,
           Mine(Sums(q, done), h) = {}
    PROVE  Own(q, done, h) = {}
BY OwnAt

LEMMA OwnAppend ==
    ASSUME NEW q \in Seq(WriteReq), NEW done, NEW r \in WriteReq, NEW h
    PROVE  Own(Append(q, r), done, h)
             = Own(q, done, h) \cup (IF r.src = h /\ r.len # 0 THEN {r} ELSE {})
<1>1. Range(Append(q, r)) = Range(q) \cup {r}
  BY RangeAppend
<1> QED BY <1>1 DEF Own

LEMMA OwnTail ==
    ASSUME NEW q, NEW done \in Seq(WriteReq), done # <<>>, NEW h
    PROVE  Own(q, done, h)
             = Own(q, Tail(done), h)
                 \cup (IF Head(done).err /\ Head(done).src = h /\ Head(done).len # 0
                       THEN {Head(done)} ELSE {})
<1>1. Range(done) = {Head(done)} \cup Range(Tail(done))
  BY RangeHead
<1> DEFINE r == Head(done)
           t == Range(Tail(done))
<1> HIDE DEF r, t
<1>2. Range(done) = {r} \cup t
  BY <1>1 DEF r, t
<1>3. Own(q, done, h)
        = {s \in Range(q) \cup {u \in t : u.err} : s.src = h /\ s.len # 0}
            \cup (IF r.err /\ r.src = h /\ r.len # 0 THEN {r} ELSE {})
  BY <1>2 DEF Own
<1> QED BY <1>3 DEF Own, r, t

LEMMA HeldIs ==
    ASSUME NEW to \in Handle, NEW h PROVE Held(h) = HeldAt(to, wq[to], wdone[to], h)
BY DEF Held, HeldAt

(* A request that holds the bytes of h up to l, when no other one does. *)
LEMMA FrontOfOne ==
    ASSUME NEW to \in Handle, NEW q \in Seq(WriteReq), NEW done \in Seq(WriteReq),
           NEW r \in WriteReq, NEW h, r.src = h,
           \A y \in Handle : y # to => Own(wq[y], wdone[y], h) = {}, Own(q, done, h) = {}
    PROVE  FrontOf(HeldAt(to, Append(q, r), done, h), r.off + r.len, r.off)
<1>1. HeldAt(to, Append(q, r), done, h) = IF r.len # 0 THEN {r} ELSE {}
  <2>1. Own(Append(q, r), done, h) = IF r.len # 0 THEN {r} ELSE {}
    BY OwnAppend
  <2>2. UNION {Own(wq[y], wdone[y], h) : y \in Handle \ {to}} = {}
    OBVIOUS
  <2> QED BY <2>1, <2>2 DEF HeldAt
<1>2. r.off \in Nat /\ r.len \in Nat
  BY DEF WriteReq
<1>3. r.len = 0 => r.off = r.off + r.len
  BY <1>2
<1> QED BY <1>1, <1>2, <1>3 DEF FrontOf

LEMMA FrontLike ==
    ASSUME NEW G, NEW H, NEW l, NEW a, FrontOf(G, l, a), H = {} => G = {},
           \A r \in H : \E s \in G : r.off = s.off /\ r.len = s.len
    PROVE  FrontOf(H, l, a)
BY DEF FrontOf

-----------------------------------------------------------------------------
(* What a step does to the bytes of a stream that stays.                    *)

(* A write of its bytes failed. *)
Broken(h) == peer[h] \in Handle /\ brk[peer[h]] /\ Mine(Ms[peer[h]], h) # {}

(* Its bytes from a on were not written before the step, those from b on    *)
(* are not before the step writes: what was credited or given up is between. *)
Moved(h, a, b) ==
    \/ Grown(h) /\ b = a
    \/ Same(h) /\ a <= b /\ Broken(h)
    \/ /\ size'[h] = 0 /\ b = 0 /\ rd'[h] = rd[h] /\ lost'[h] = lost[h]
       /\ a = size[h] \/ Broken(h)

Piece(h, x, s) ==
    \E a, b, k \in Nat :
        /\ FrontOf(Held(h), last[h], a) /\ FrontOf(HeldNext(h), last'[h], b + k)
        /\ Moved(h, a, b) /\ Put(h, x, s, b, k)

KeptNext(h) == ~EndedNext(h) /\ h \notin miscredit'

(* Stream x gets s and no other one anything: of a stream whose buffer is   *)
(* gone only indeterminate bytes.                                           *)
Written(x, s) ==
    /\ s \in Seq(Handle \X Nat) /\ out'[x] = out[x] \o s
    /\ \A y \in Handle : y # x => out'[y] = out[y]
    /\ \A h \in Handle : gen'[h] = 0 => \A i \in 1 .. Len(s) : s[i][1] = h => s[i][2] = 0

LEMMA NothingIsWritten ==
    ASSUME WriteTypeOK, out' = out, NEW x \in Handle PROVE Written(x, <<>>)
<1>1. out[x] \in Seq(Handle \X Nat)
  BY DEF WriteTypeOK
<1>2. out[x] \o <<>> = out[x] /\ <<>> \in Seq(Handle \X Nat) /\ Len(<<>>) = 0
  BY <1>1
<1> QED BY <1>2 DEF Written

LEMMA IsWritten ==
    ASSUME WriteTypeOK, HeapTypeOK', NEW to \in Handle, NEW q \in Seq(WriteReq), q # <<>>,
           NEW done \in Seq(WriteReq),
           NEW k \in 0 .. Head(q).len, WroteBytes(to, q, done, gen', mem', k)
    PROVE  Written(to, Bytes(Head(q), k, gen', mem'))
<1>0. k \in Nat /\ Head(q) \in WriteReq /\ Head(q).src \in Handle /\ Head(q).gen # 0
  <2>1. Head(q) \in WriteReq
    BY RangeHead
  <2>2. Head(q).len \in Nat /\ Head(q).src \in Handle /\ Head(q).gen # 0
    BY <2>1 DEF WriteReq
  <2> QED BY <2>1, <2>2
<1> DEFINE s == Bytes(Head(q), k, gen', mem')
<1>1. out'[to] = out[to] \o s /\ \A x \in Handle : x # to => out'[x] = out[x]
  <2>1. out' = [out EXCEPT ![to] = @ \o s] /\ out \in [Handle -> Seq(Handle \X Nat)]
    BY DEF WroteBytes, WriteTypeOK
  <2> HIDE DEF s
  <2> QED BY <2>1
<1>2. Bytes(Head(q), k, gen', mem') \in Seq(Handle \X Nat)
  <2>1. gen' \in [Handle -> Nat] /\ mem' \in [Handle -> Seq(Nat)]
    BY DEF HeapTypeOK
  <2> QED BY <1>0, <2>1, BytesFrom
<1>3. /\ Len(Bytes(Head(q), k, gen', mem')) = k
      /\ \A i \in 1 .. k : /\ Bytes(Head(q), k, gen', mem')[i][1] = Head(q).src
                           /\ ~Valid(Head(q), gen') => Bytes(Head(q), k, gen', mem')[i][2] = 0
  BY <1>0, BytesAre
<1>4. \A h \in Handle : gen'[h] = 0 /\ Head(q).src = h => ~Valid(Head(q), gen')
  BY <1>0 DEF Valid
<1> QED BY <1>1, <1>2, <1>3, <1>4 DEF Written

LEMMA WritePiece ==
    ASSUME WriteTypeOK, NEW to \in Handle, NEW q \in Seq(WriteReq), q # <<>>, ~Head(q).err,
           NEW done \in Seq(WriteReq), MsNext[to] = Sums(q, done),
           NEW k \in 0 .. Head(q).len, WroteBytes(to, q, done, gen', mem', k),
           NEW h \in Handle, AtMostOne(MsNext, h), last'[h] \in Nat,
           NEW a, FrontOf(Held(h), last[h], a),
           NEW b, FrontOf(HeldAt(to, q, done, h), last'[h], b), Moved(h, a, b)
    PROVE  Piece(h, to, Bytes(Head(q), k, gen', mem'))
<1>1. \E n \in Nat : /\ FrontOf(HeldNext(h), last'[h], b + n)
                     /\ Put(h, to, Bytes(Head(q), k, gen', mem'), b, n)
  BY WriteFront
<1>2. a \in Nat /\ b \in Nat
  BY DEF FrontOf
<1> QED BY <1>1, <1>2 DEF Piece

LEMMA QuietPiece ==
    ASSUME NEW h \in Handle, NEW x \in Handle,
           NEW a, FrontOf(Held(h), last[h], a),
           NEW b, FrontOf(HeldNext(h), last'[h], b), Moved(h, a, b)
    PROVE  Piece(h, x, <<>>)
<1>1. a \in Nat /\ b \in Nat /\ b + 0 = b
  BY DEF FrontOf
<1>2. Put(h, x, <<>>, b, 0)
  BY DEF Put
<1> QED BY <1>1, <1>2 DEF Piece

RelayInv == TypeInv /\ BoundsInv /\ CrashInv /\ ApartInv /\ WriteInv /\ MemInv /\ ErrInv

LEMMA InitRelayInv == Init => RelayInv
BY InitTypeInv, InitBoundsInv, InitCrashInv, InitApartInv, InitWriteInv, InitMemInv, InitErrInv
DEF RelayInv

LEMMA NextRelayInv == ASSUME RelayInv, [Next]_vars PROVE RelayInv'
<1>0. TypeInv /\ BoundsInv /\ CrashInv /\ ApartInv /\ WriteInv /\ MemInv /\ ErrInv /\ RequestsNear
  BY DEF RelayInv, CrashInv
<1>1. TypeInv' /\ BoundsInv'
  BY <1>0, NextTypeInv, NextBoundsInv
<1>2. CrashInv' /\ ApartInv'
  BY <1>0, NextCrashInv, NextApartInv
<1>3. WriteInv'
  BY <1>0, NextWriteInv
<1>4. \A x \in Handle : BufOK(x)
  BY <1>0 DEF BoundsInv
<1>5. MemInv'
  BY <1>0, <1>1, <1>4, NextMemInv
<1>6. ErrInv'
  BY <1>0, <1>1, <1>4, NextErrInv
<1> QED BY <1>1, <1>2, <1>3, <1>5, <1>6 DEF RelayInv

LEMMA KeptFacts ==
    ASSUME RelayInv, RelayInv', [Next]_vars, NEW h \in Handle, KeptNext(h)
    PROVE  /\ ~Ended(h) /\ h \notin miscredit
           /\ AtMostOne(Ms, h) /\ AtMostOne(MsNext, h)
           /\ last[h] \in Nat /\ last'[h] \in Nat
           /\ \E a : FrontOf(Held(h), last[h], a)
<1>0. TypeInv /\ TypeInv' /\ BoundsInv /\ WriteInv /\ WriteInv' /\ LinkInv
  BY DEF RelayInv, TypeInv
<1>1. ~Ended(h)
  BY <1>0, EndedStays DEF KeptNext
<1>2. h \notin miscredit
  <2>1. MiscreditStays
    BY NextMiscredit
  <2> QED BY <2>1 DEF MiscreditStays, KeptNext
<1>3. AtMostOne(Ms, h)
  BY <1>0, <1>2 DEF WriteInv, OneWrite
<1>4. AtMostOne(MsNext, h)
  <2>1. \A g \in Handle \ miscredit' : AtMostOne(Ms', g)
    BY <1>0 DEF WriteInv, OneWrite, AtMostOne
  <2>2. AtMostOne(Ms', h)
    BY <2>1 DEF KeptNext
  <2> QED BY <2>2, MsPrimed
<1>5. last[h] \in Nat /\ last'[h] \in Nat
  BY <1>0 DEF TypeInv, DataTypeOK
<1>6. \E a : FrontOf(Held(h), last[h], a)
  BY <1>0, <1>1, <1>2, FrontExists
<1> QED BY <1>1, <1>2, <1>3, <1>4, <1>5, <1>6

Pieces(x, s) == Written(x, s) /\ \A h \in Handle : KeptNext(h) => Piece(h, x, s)

LEMMA QuietPieces ==
    ASSUME RelayInv, RelayInv', [Next]_vars, NEW x \in Handle, QuietStep
    PROVE  Pieces(x, <<>>)
<1>0. WriteTypeOK /\ WriteTypeOK'
  BY DEF RelayInv, TypeInv
<1>1. Written(x, <<>>)
  BY <1>0, NothingIsWritten DEF QuietStep
<1>2. ASSUME NEW h \in Handle, KeptNext(h) PROVE Piece(h, x, <<>>)
  <2>1. PICK a : FrontOf(Held(h), last[h], a)
    BY <1>2, KeptFacts
  <2>2. last'[h] = last[h] /\ Grown(h)
    BY <1>2 DEF QuietStep, KeptNext
  <2>3. HeldNext(h) = Held(h)
    BY DEF QuietStep, Held, HeldNext
  <2>4. FrontOf(HeldNext(h), last'[h], a) /\ Moved(h, a, a)
    BY <2>1, <2>2, <2>3 DEF Moved
  <2> QED BY <2>1, <2>4, QuietPiece
<1> QED BY <1>1, <1>2 DEF Pieces

LEMMA OwnCancelled ==
    ASSUME NEW q \in Seq(WriteReq), NEW done \in Seq(WriteReq), NEW h
    PROVE  /\ Own(q, done, h) = {} <=> Own(<<>>, done \o Cancelled(q), h) = {}
           /\ \A r \in Own(<<>>, done \o Cancelled(q), h) :
                \E s \in Own(q, done, h) : r.off = s.off /\ r.len = s.len
<1>1. /\ Range(done \o Cancelled(q)) = Range(done) \cup {Failed(r) : r \in Range(q)}
      /\ Range(<<>>) = {}
  <2>1. Range(<<>>) = {}
    BY DEF Range
  <2> QED BY <2>1, RangeCancelled
<1>2. Range(q) \subseteq WriteReq
  BY RangeIs
<1>3. \A r \in Range(q) : /\ Failed(r).src = r.src /\ Failed(r).off = r.off
                          /\ Failed(r).len = r.len /\ Failed(r).err
  BY <1>2 DEF Failed, WriteReq
<1> DEFINE Q == Range(q)
           D == Range(done)
           d == done \o Cancelled(q)
<1> HIDE DEF Q, D, d
<1>4. /\ Range(d) = D \cup {Failed(r) : r \in Q}
      /\ \A r \in Q : /\ Failed(r).src = r.src /\ Failed(r).off = r.off
                      /\ Failed(r).len = r.len /\ Failed(r).err
  BY <1>1, <1>3 DEF Q, D, d
<1>5. \A r : r \in Own(<<>>, d, h) <=> (r \in D \/ \E s \in Q : r = Failed(s)) /\ r.err
                                        /\ r.src = h /\ r.len # 0
  BY <1>1, <1>4 DEF Own
<1>6. \A r : r \in Own(q, done, h) <=> (r \in Q \/ (r \in D /\ r.err)) /\ r.src = h /\ r.len # 0
  BY DEF Own, Q, D
<1>7. ASSUME NEW r \in Own(<<>>, d, h)
      PROVE  \E s \in Own(q, done, h) : r.off = s.off /\ r.len = s.len
  <2>1. CASE r \in D
    <3>1. r \in Own(q, done, h)
      BY <1>5, <1>6, <1>7, <2>1
    <3> QED BY <3>1
  <2>2. CASE \E s \in Q : r = Failed(s)
    <3>1. PICK s \in Q : r = Failed(s)
      BY <2>2
    <3>2. s \in Own(q, done, h) /\ r.off = s.off /\ r.len = s.len
      BY <1>4, <1>5, <1>6, <1>7, <3>1
    <3> QED BY <3>2
  <2> QED BY <1>5, <1>7, <2>1, <2>2
<1>8. ASSUME NEW s \in Own(q, done, h) PROVE Own(<<>>, d, h) # {}
  <2>1. CASE s \in Q
    <3>1. Failed(s) \in Own(<<>>, d, h)
      BY <1>4, <1>5, <1>6, <1>8, <2>1
    <3> QED BY <3>1
  <2>2. CASE s \in D /\ s.err
    <3>1. s \in Own(<<>>, d, h)
      BY <1>5, <1>6, <1>8, <2>2
    <3> QED BY <3>1
  <2> QED BY <1>6, <1>8, <2>1, <2>2
<1> QED BY <1>7, <1>8 DEF d

LEMMA CancelPieces ==
    ASSUME RelayInv, RelayInv', [Next]_vars, NEW x \in Handle, CancelStep(x)
    PROVE  Pieces(x, <<>>)
<1>0. WriteTypeOK
  BY DEF RelayInv, TypeInv
<1>1. Written(x, <<>>)
  BY <1>0, NothingIsWritten DEF CancelStep, FinishClose
<1> DEFINE d == wdone[x] \o Cancelled(wq[x])
<1>2. wdone' = [wdone EXCEPT ![x] = d] /\ wq' = [wq EXCEPT ![x] = <<>>]
  BY DEF CancelStep, FinishClose
<1> HIDE DEF d
<1>3. /\ wdone'[x] = d /\ wq'[x] = <<>>
      /\ \A y \in Handle : y # x => wdone'[y] = wdone[y] /\ wq'[y] = wq[y]
  BY <1>0, <1>2 DEF WriteTypeOK
<1>4. ASSUME NEW h \in Handle, KeptNext(h) PROVE Piece(h, x, <<>>)
  <2>1. PICK a : FrontOf(Held(h), last[h], a)
    BY <1>4, KeptFacts
  <2>2. last'[h] = last[h] /\ Grown(h)
    BY DEF CancelStep, Grown
  <2>3. wq[x] \in Seq(WriteReq) /\ wdone[x] \in Seq(WriteReq)
    BY <1>0 DEF WriteTypeOK
  <2>4. /\ Own(wq[x], wdone[x], h) = {} <=> Own(<<>>, d, h) = {}
        /\ \A r \in Own(<<>>, d, h) :
             \E s \in Own(wq[x], wdone[x], h) : r.off = s.off /\ r.len = s.len
    BY <2>3, OwnCancelled DEF d
  <2> DEFINE Others == UNION {Own(wq[y], wdone[y], h) : y \in Handle \ {x}}
  <2>5. Held(h) = Others \cup Own(wq[x], wdone[x], h)
    BY DEF Held
  <2>6. HeldNext(h) = Others \cup Own(<<>>, d, h)
    <3>1. \A y \in Handle \ {x} : Own(wq'[y], wdone'[y], h) = Own(wq[y], wdone[y], h)
      BY <1>3
    <3>2. HeldNext(h) = (UNION {Own(wq'[y], wdone'[y], h) : y \in Handle \ {x}})
                          \cup Own(wq'[x], wdone'[x], h)
      BY DEF HeldNext
    <3> QED BY <1>3, <3>1, <3>2
  <2> HIDE DEF Others
  <2>7. /\ HeldNext(h) = {} => Held(h) = {}
        /\ \A r \in HeldNext(h) : \E s \in Held(h) : r.off = s.off /\ r.len = s.len
    BY <2>4, <2>5, <2>6
  <2>8. FrontOf(HeldNext(h), last[h], a)
    BY <2>1, <2>7, FrontLike
  <2>9. FrontOf(HeldNext(h), last'[h], a) /\ Moved(h, a, a)
    BY <2>2, <2>8 DEF Moved
  <2> QED BY <2>1, <2>9, QuietPiece
<1> QED BY <1>1, <1>4 DEF Pieces

LEMMA FlushPieces ==
    ASSUME RelayInv, RelayInv', [Next]_vars, NEW x \in Handle, FlushStep(x)
    PROVE  \E s : Pieces(x, s)
<1>0. WriteTypeOK /\ HeapTypeOK' /\ wq[x] \in Seq(WriteReq) /\ wdone[x] \in Seq(WriteReq)
  BY DEF RelayInv, TypeInv, WriteTypeOK
<1> DEFINE q == wq[x]
           done == wdone[x]
<1>1. q # <<>> /\ Wrote(x, q, done, gen', mem') /\ q \in Seq(WriteReq) /\ done \in Seq(WriteReq)
      /\ MsNext[x] = Sums(q, done)
  BY <1>0 DEF FlushStep, Ms, M
<1>2. ~Head(q).err
  <2>1. \A r \in Range(q) : ~r.err
    BY DEF RelayInv, ErrInv, ErrOK
  <2>2. Range(q) = {Head(q)} \cup Range(Tail(q))
    BY <1>1, RangeHead
  <2> QED BY <2>1, <2>2
<1>3. \A h \in Handle : Held(h) = HeldAt(x, q, done, h)
  BY HeldIs
<1> HIDE DEF q, done
<1>4. PICK k \in 0 .. Head(q).len : WroteBytes(x, q, done, gen', mem', k)
  BY <1>1 DEF Wrote
<1> DEFINE s == Bytes(Head(q), k, gen', mem')
<1>5. Written(x, s)
  BY <1>0, <1>1, <1>4, IsWritten
<1>6. ASSUME NEW h \in Handle, KeptNext(h) PROVE Piece(h, x, s)
  <2>1. PICK a : FrontOf(Held(h), last[h], a)
    BY <1>6, KeptFacts
  <2>2. last'[h] = last[h] /\ Grown(h)
    BY DEF FlushStep, Grown
  <2>3. FrontOf(HeldAt(x, q, done, h), last'[h], a) /\ Moved(h, a, a)
    BY <1>3, <2>1, <2>2 DEF Moved
  <2>4. AtMostOne(MsNext, h) /\ last'[h] \in Nat
    BY <1>6, KeptFacts
  <2> QED BY <1>0, <1>1, <1>2, <1>4, <2>1, <2>3, <2>4, WritePiece
<1> QED BY <1>5, <1>6 DEF Pieces

(* What is not written of h before stream `to` writes its queue q. *)
Ready(h, to, q, done) ==
    \E a, b : /\ FrontOf(Held(h), last[h], a) /\ FrontOf(HeldAt(to, q, done, h), last'[h], b)
              /\ Moved(h, a, b)

LEMMA TransferPieces ==
    ASSUME RelayInv, RelayInv', [Next]_vars, NEW from \in Handle, NEW to \in Handle,
           gen'[from] # 0, NEW done \in Seq(WriteReq), Transfer(from, to, wq[to], done),
           \A h \in Handle : KeptNext(h) => Ready(h, to, Append(wq[to], Unsent(from)), done)
    PROVE  \E s : Pieces(to, s)
<1>0. WriteTypeOK /\ HeapTypeOK' /\ TypeInv' /\ wq[to] \in Seq(WriteReq)
  BY DEF RelayInv, TypeInv, WriteTypeOK
<1> DEFINE p == wq[to]
           r == Unsent(from)
<1>1. \A u \in Range(p) : ~u.err
  BY DEF RelayInv, ErrInv, ErrOK
<1>2. UvWrite(to, r, p, done, gen', mem') /\ p \in Seq(WriteReq)
  BY <1>0 DEF Transfer
<1>3. /\ Unsent(from) \in WriteReq /\ ~Unsent(from).err
      /\ Append(p, Unsent(from)) \in Seq(WriteReq) /\ Append(p, Unsent(from)) # <<>>
      /\ Wrote(to, Append(p, Unsent(from)), done, gen', mem')
  BY <1>0, <1>2, TransferWrote
<1> DEFINE q == Append(p, r)
<1>4. q \in Seq(WriteReq) /\ q # <<>> /\ Wrote(to, q, done, gen', mem')
  BY <1>3
<1> HIDE DEF r
<1>5. MsNext[to] = Sums(q, done)
  <2>1. r \in WriteReq
    BY <1>3 DEF r
  <2> HIDE DEF p
  <2>2. MNext(to) = Sums(Append(p, r), done)
    BY <1>0, <1>2, <2>1, UvWriteSums
  <2> QED BY <2>2 DEF MsNext
<1>6. ~Head(q).err
  <2>1. r \in WriteReq /\ ~r.err
    BY <1>3 DEF r
  <2> HIDE DEF p
  <2>2. Range(q) = Range(p) \cup {r} /\ Range(q) = {Head(q)} \cup Range(Tail(q))
    BY <1>2, <1>4, <2>1, RangeAppend, RangeHead
  <2> HIDE DEF q
  <2> QED BY <1>1, <2>1, <2>2
<1>7. \A h \in Handle : KeptNext(h) => Ready(h, to, q, done)
  BY DEF r
<1> HIDE DEF q, p
<1>8. PICK k \in 0 .. Head(q).len : WroteBytes(to, q, done, gen', mem', k)
  BY <1>4 DEF Wrote
<1> DEFINE s == Bytes(Head(q), k, gen', mem')
<1>9. Written(to, s)
  BY <1>0, <1>4, <1>8, IsWritten
<1>10. ASSUME NEW h \in Handle, KeptNext(h) PROVE Piece(h, to, s)
  <2>1. PICK a, b : /\ FrontOf(Held(h), last[h], a) /\ FrontOf(HeldAt(to, q, done, h), last'[h], b)
                    /\ Moved(h, a, b)
    BY <1>7, <1>10 DEF Ready
  <2>2. AtMostOne(MsNext, h) /\ last'[h] \in Nat
    BY <1>10, KeptFacts
  <2> QED BY <1>0, <1>4, <1>5, <1>6, <1>8, <2>1, <2>2, WritePiece
<1> QED BY <1>9, <1>10 DEF Pieces

LEMMA SendPieces ==
    ASSUME RelayInv, RelayInv', [Next]_vars, NEW from \in Handle, NEW to \in Handle,
           SendStep(from, to)
    PROVE  \E s : Pieces(to, s)
<1>0. /\ WriteTypeOK /\ DataTypeOK /\ TypeInv' /\ WriteInv
      /\ wq[to] \in Seq(WriteReq) /\ wdone[to] \in Seq(WriteReq)
  BY DEF RelayInv, TypeInv, WriteTypeOK
<1>1. /\ gen'[from] # 0 /\ Live(from) /\ pos' = pos /\ pos[from] = last[from]
      /\ Transfer(from, to, wq[to], wdone[to]) /\ \A h \in Handle : Grown(h)
  BY DEF SendStep
<1>2. Unsent(from) \in WriteReq /\ Unsent(from).src = from
      /\ Unsent(from).off + Unsent(from).len = size'[from] /\ Unsent(from).off = pos[from]
  BY <1>0, <1>1, UnsentType DEF Unsent
<1>3. last'[from] = size'[from] /\ \A h \in Handle : h # from => last'[h] = last[h]
  BY <1>0, <1>1 DEF Transfer, DataTypeOK
<1> DEFINE r == Unsent(from)
           q == Append(wq[to], r)
           done == wdone[to]
<1>4. ASSUME NEW h \in Handle, KeptNext(h) PROVE Ready(h, to, q, done)
  <2>1. PICK a : FrontOf(Held(h), last[h], a)
    BY <1>4, KeptFacts
  <2>2. CASE h = from
    <3>1. \A y \in Handle : Mine(Ms[y], h) = {}
      <4>1. h \notin miscredit
        BY <1>4, KeptFacts
      <4>2. Settled(Ms, h, pos[h], last[h]) /\ pos[h] \in Nat
        BY <1>0, <1>1, <2>2, <4>1 DEF WriteInv, OneWrite, DataTypeOK
      <4> QED BY <1>1, <2>2, <4>2 DEF Settled
    <3>2. \A y \in Handle : Own(wq[y], wdone[y], h) = {}
      <4> TAKE y \in Handle
      <4>1. wq[y] \in Seq(WriteReq) /\ wdone[y] \in Seq(WriteReq)
        BY <1>0 DEF WriteTypeOK
      <4>2. Mine(Sums(wq[y], wdone[y]), h) = {}
        BY <3>1 DEF Ms, M
      <4> QED BY <4>1, <4>2, OwnNone
    <3>3. a = last[h] /\ pos[h] = 0 /\ last[h] = 0
      <4>1. Held(h) = {}
        BY <3>2 DEF Held
      <4>2. pos[h] = 0 \/ pos[h] < last[h]
        BY <1>0 DEF WriteInv
      <4>3. pos[h] \in Nat /\ last[h] \in Nat
        BY <1>0 DEF DataTypeOK
      <4> QED BY <1>1, <2>1, <2>2, <4>1, <4>2, <4>3 DEF FrontOf
    <3>4. FrontOf(HeldAt(to, q, done, h), last'[h], 0)
      <4>1. r \in WriteReq /\ r.src = h /\ r.off + r.len = last'[h] /\ r.off = 0
        BY <1>2, <1>3, <2>2, <3>3
      <4> HIDE DEF r
      <4>2. FrontOf(HeldAt(to, q, done, h), r.off + r.len, r.off)
        BY <1>0, <3>2, <4>1, FrontOfOne
      <4> QED BY <4>1, <4>2
    <3>5. Moved(h, a, 0)
      BY <1>1, <3>3 DEF Moved
    <3> QED BY <2>1, <3>4, <3>5 DEF Ready
  <2>3. CASE h # from
    <3>1. HeldAt(to, q, done, h) = Held(h)
      <4>1. r \in WriteReq /\ r.src # h
        BY <1>2, <2>3
      <4> HIDE DEF r
      <4>2. Own(q, done, h) = Own(wq[to], done, h)
        <5> DEFINE p == wq[to]
        <5>1. p \in Seq(WriteReq)
          BY <1>0
        <5> HIDE DEF p, done
        <5>2. Own(Append(p, r), done, h) = Own(p, done, h)
          <6>1. Own(Append(p, r), done, h)
                  = Own(p, done, h) \cup (IF r.src = h /\ r.len # 0 THEN {r} ELSE {})
            BY <4>1, <5>1, OwnAppend
          <6>2. (IF r.src = h /\ r.len # 0 THEN {r} ELSE {}) = {}
            BY <4>1
          <6> QED BY <6>1, <6>2
        <5> QED BY <5>2 DEF p, done
      <4>3. Held(h) = HeldAt(to, wq[to], wdone[to], h)
        BY HeldIs
      <4> HIDE DEF q
      <4> QED BY <4>2, <4>3 DEF HeldAt
    <3>2. last'[h] = last[h] /\ Moved(h, a, a)
      BY <1>1, <1>3, <2>3 DEF Moved
    <3> QED BY <2>1, <3>1, <3>2 DEF Ready
  <2> QED BY <2>2, <2>3
<1> QED BY <1>0, <1>1, <1>4, TransferPieces

(* The stream that is credited with its own write: no other request has     *)
(* bytes of it, and those the write has not sent are given up.              *)
Credited(h, to) ==
    /\ \A y \in Handle : y # to => Own(wq[y], wdone[y], h) = {}
    /\ Own(wq[to], Tail(wdone[to]), h) = {}
    /\ \E a \in Nat : /\ FrontOf(Held(h), last[h], a) /\ a <= last[h]
                      /\ a = last[h] \/ Broken(h)

LEMMA CreditedOwn ==
    ASSUME RelayInv, NEW to \in Handle, wdone[to] # <<>>, Live(to), NEW h \in Handle,
           peer[to] = h, peer[h] = to, Live(h), h \notin miscredit,
           Completes(Head(wdone[to]), h)
    PROVE  Credited(h, to)
<1>0. /\ TypeInv /\ WriteTypeOK /\ DataTypeOK /\ RequestsNear /\ WriteInv /\ LiveWhileOpen
      /\ wq[to] \in Seq(WriteReq) /\ wdone[to] \in Seq(WriteReq)
  BY DEF RelayInv, CrashInv, TypeInv, LinkInv, WriteTypeOK
<1> DEFINE q == wq[to]
           done == wdone[to]
           f == [x \in Handle |-> IF x = to THEN Sums(q, Tail(done)) ELSE M(x)]
<1>1. /\ Ms[to] = Sums(q, done) /\ Ms[to] # <<>> /\ Ms[to][1] = Sum(Head(done))
      /\ f[to] = Tail(Ms[to]) /\ \A x \in Handle : x # to => f[x] = Ms[x]
  <2>1. Sums(q, done) # <<>> /\ Sums(q, done)[1] = Sum(Head(done))
        /\ Sums(q, Tail(done)) = Tail(Sums(q, done))
    BY <1>0, SumsTail
  <2> QED BY <2>1 DEF Ms, M
<1>2. Tail(done) \in Seq(WriteReq) /\ Head(done) \in WriteReq
  BY <1>0, RangeHead
<1>3. f \in Summaries
  <2>1. Sums(q, Tail(done)) \in Seq(Summary)
    BY <1>0, <1>2, SumsType
  <2>2. \A x \in Handle : M(x) \in Seq(Summary)
    <3>1. Ms \in Summaries
      BY <1>0, MsType
    <3>2. \A x \in Handle : Ms[x] \in Seq(Summary)
      BY <3>1, SummariesOf
    <3> QED BY <3>2 DEF Ms
  <2> QED BY <2>1, <2>2 DEF Summaries
<1>4. Taken(Ms, f, to)
  BY <1>1 DEF Taken
<1>5. \A x \in Handle : Mine(f[x], h) = {}
  <2> HIDE DEF f
  <2>1. \A g \in Handle \ miscredit :
          Completes(Head(wdone[to]), g) /\ Live(g) => \A x \in Handle : Mine(f[x], g) = {}
    BY <1>0, <1>3, <1>4, CreditedWrites
  <2> QED BY <2>1
<1>6. \A y \in Handle : y # to => Own(wq[y], wdone[y], h) = {}
  <2> TAKE y \in Handle
  <2> HAVE y # to
  <2>1. wq[y] \in Seq(WriteReq) /\ wdone[y] \in Seq(WriteReq)
    BY <1>0 DEF WriteTypeOK
  <2>2. Mine(Sums(wq[y], wdone[y]), h) = {}
    <3>1. Mine(M(y), h) = {}
      BY <1>5
    <3> QED BY <3>1 DEF M
  <2> QED BY <2>1, <2>2, OwnNone
<1>7. Own(q, Tail(done), h) = {}
  <2>1. Mine(Sums(q, Tail(done)), h) = {}
    BY <1>5
  <2> QED BY <1>0, <1>2, <2>1, OwnNone
<1>8. Head(done).off \in Nat /\ Head(done).len \in Nat /\ last[h] \in Nat
      /\ Head(done).src = h /\ Head(done).off + Head(done).len = last[h]
  BY <1>0, <1>2 DEF WriteReq, Completes, DataTypeOK
<1>9. Held(h) = IF Head(done).err /\ Head(done).len # 0 THEN {Head(done)} ELSE {}
  <2>1. Own(q, done, h) = Own(q, Tail(done), h)
             \cup (IF Head(done).err /\ Head(done).src = h /\ Head(done).len # 0
                   THEN {Head(done)} ELSE {})
    BY <1>0, OwnTail
  <2>2. Held(h) = HeldAt(to, q, done, h)
    BY HeldIs
  <2>3. UNION {Own(wq[y], wdone[y], h) : y \in Handle \ {to}} = {}
    BY <1>6
  <2> HIDE DEF q, done
  <2> QED BY <1>7, <1>8, <2>1, <2>2, <2>3 DEF HeldAt
<1> DEFINE r == Head(done)
<1> HIDE DEF f
<1>10. CASE r.err /\ r.len # 0
  <2>1. FrontOf(Held(h), last[h], r.off) /\ r.off \in Nat /\ r.off <= last[h]
    <3>1. /\ r.off \in Nat /\ r.len \in Nat /\ r.off + r.len = last[h] /\ Held(h) = {r}
      BY <1>8, <1>9, <1>10
    <3> HIDE DEF r
    <3> QED BY <3>1 DEF FrontOf
  <2>2. Broken(h)
    <3>1. brk[to] \/ Ended(to)
      <4>1. \A u \in Range(done) : u.err => brk[to] \/ Ended(to)
        BY DEF RelayInv, ErrInv, ErrOK
      <4>2. Range(done) = {r} \cup Range(Tail(done))
        BY <1>0, RangeHead
      <4> QED BY <1>10, <4>1, <4>2
    <3>2. brk[to]
      BY <1>0, <3>1 DEF LiveWhileOpen, Ended
    <3>3. Mine(Ms[to], h) # {}
      <4>1. Ms[to][1].of = h
        BY <1>1, <1>8, <1>10 DEF Sum
      <4>2. 1 \in 1 .. Len(Ms[to])
        <5>1. Ms \in Summaries
          BY <1>0, MsType
        <5>2. Ms[to] \in Seq(Summary)
          BY <5>1, SummariesOf
        <5> QED BY <1>1, <5>2
      <4> QED BY <4>1, <4>2 DEF Mine
    <3> QED BY <3>2, <3>3 DEF Broken
  <2> QED BY <1>6, <1>7, <2>1, <2>2 DEF Credited
<1>11. CASE ~(r.err /\ r.len # 0)
  <2>1. FrontOf(Held(h), last[h], last[h])
    BY <1>8, <1>9, <1>11 DEF FrontOf
  <2>2. last[h] \in Nat /\ last[h] <= last[h]
    BY <1>8
  <2> QED BY <1>6, <1>7, <2>1, <2>2, Zenon DEF Credited
<1> QED BY <1>10, <1>11

LEMMA AfterWritePieces ==
    ASSUME RelayInv, RelayInv', [Next]_vars, NEW to \in Handle, AfterWrite(to)
    PROVE  \E s : Pieces(to, s)
<1>0. /\ TypeInv /\ TypeInv' /\ WriteTypeOK /\ DataTypeOK /\ RequestsNear
      /\ wq[to] \in Seq(WriteReq) /\ wdone[to] \in Seq(WriteReq)
  BY DEF RelayInv, CrashInv, TypeInv, WriteTypeOK
<1>1. /\ peer[to] \in Handle /\ peer[peer[to]] = to /\ Live(to) /\ Live(peer[to])
      /\ wdone[to] # <<>> /\ UNCHANGED <<mem, gen, rd, lost, peer, hs>>
      /\ peer[to] \notin miscredit' => Completes(Head(wdone[to]), peer[to])
      /\ SendsMore(peer[to], to) \/ Restarts(peer[to], to)
  BY <1>0, AfterWriteCases
<1> DEFINE from == peer[to]
           done == Tail(wdone[to])
<1>2. done \in Seq(WriteReq)
  BY <1>0, <1>1, RangeHead
<1>3. ASSUME NEW h \in Handle, KeptNext(h), h = from PROVE Credited(h, to)
  <2>1. h \notin miscredit /\ h \notin miscredit'
    BY <1>3, KeptFacts DEF KeptNext
  <2> QED BY <1>1, <1>3, <2>1, CreditedOwn
<1>4. ASSUME NEW h \in Handle, KeptNext(h), h # from
      PROVE  Own(wq[to], done, h) = Own(wq[to], wdone[to], h)
  <2>1. ~Ended(h)
    BY <1>4, KeptFacts
  <2>2. Head(wdone[to]).src # h
    BY <1>0, <1>1, <1>4, <2>1, CompletedNear
  <2>3. Own(wq[to], wdone[to], h) = Own(wq[to], Tail(wdone[to]), h)
             \cup (IF Head(wdone[to]).err /\ Head(wdone[to]).src = h /\ Head(wdone[to]).len # 0
                   THEN {Head(wdone[to])} ELSE {})
    BY <1>0, <1>1, OwnTail
  <2> QED BY <2>2, <2>3
<1>5. CASE SendsMore(from, to)
  <2>1. /\ last[from] < size[from] /\ pos'[from] = last[from] /\ last'[from] = size[from]
        /\ size' = size /\ \A h \in Handle : h # from => last'[h] = last[h]
        /\ Transfer(from, to, wq[to], done) /\ gen'[from] # 0
    BY <1>1, <1>5 DEF SendsMore, Live
  <2>2. \A h \in Handle : Same(h) /\ Grown(h)
    BY <1>1, <2>1 DEF Same, Grown
  <2>3. Unsent(from) \in WriteReq /\ Unsent(from).src = from
        /\ Unsent(from).off + Unsent(from).len = size'[from] /\ Unsent(from).off = last[from]
    BY <1>0, <1>1, <2>1, UnsentType DEF Unsent
  <2> DEFINE r == Unsent(from)
             q == Append(wq[to], r)
  <2>4. ASSUME NEW h \in Handle, KeptNext(h) PROVE Ready(h, to, q, done)
    <3>1. CASE h = from
      <4>1. /\ \A y \in Handle : y # to => Own(wq[y], wdone[y], h) = {}
            /\ Own(wq[to], done, h) = {}
            /\ \E a \in Nat : /\ FrontOf(Held(h), last[h], a) /\ a <= last[h]
                              /\ a = last[h] \/ Broken(h)
        BY <1>3, <2>4, <3>1 DEF Credited
      <4>2. PICK a \in Nat : /\ FrontOf(Held(h), last[h], a) /\ a <= last[h]
                             /\ a = last[h] \/ Broken(h)
        BY <4>1
      <4>3. FrontOf(HeldAt(to, q, done, h), last'[h], last[h])
        <5>1. r \in WriteReq /\ r.src = h /\ r.off + r.len = last'[h] /\ r.off = last[h]
          BY <2>1, <2>3, <3>1
        <5> HIDE DEF r, done
        <5>2. FrontOf(HeldAt(to, q, done, h), r.off + r.len, r.off)
          BY <1>0, <1>2, <4>1, <5>1, FrontOfOne
        <5> QED BY <5>1, <5>2
      <4>4. Moved(h, a, last[h])
        BY <2>2, <4>2 DEF Moved
      <4> QED BY <4>2, <4>3, <4>4 DEF Ready
    <3>2. CASE h # from
      <4>1. PICK a : FrontOf(Held(h), last[h], a)
        BY <2>4, KeptFacts
      <4>2. HeldAt(to, q, done, h) = Held(h)
        <5>1. r \in WriteReq /\ r.src # h
          BY <2>3, <3>2
        <5>2. Own(q, done, h) = Own(wq[to], done, h)
          <6> DEFINE p == wq[to]
          <6>1. p \in Seq(WriteReq)
            BY <1>0
          <6> HIDE DEF p, done, r
          <6>2. Own(Append(p, r), done, h)
                  = Own(p, done, h) \cup (IF r.src = h /\ r.len # 0 THEN {r} ELSE {})
            BY <5>1, <6>1, OwnAppend
          <6>3. (IF r.src = h /\ r.len # 0 THEN {r} ELSE {}) = {}
            BY <5>1
          <6>4. Own(Append(p, r), done, h) = Own(p, done, h)
            BY <6>2, <6>3
          <6> QED BY <6>4 DEF p, done, r
        <5>3. Own(wq[to], done, h) = Own(wq[to], wdone[to], h)
          BY <1>4, <2>4, <3>2
        <5>4. Held(h) = HeldAt(to, wq[to], wdone[to], h)
          BY HeldIs
        <5> HIDE DEF q, done
        <5> QED BY <5>2, <5>3, <5>4 DEF HeldAt
      <4>3. last'[h] = last[h] /\ Moved(h, a, a)
        BY <2>1, <2>2, <3>2 DEF Moved
      <4> QED BY <4>1, <4>2, <4>3 DEF Ready
    <3> QED BY <3>1, <3>2
  <2> QED BY <1>1, <1>2, <2>1, <2>4, TransferPieces
<1>6. CASE Restarts(from, to)
  <2>1. /\ last[from] = size[from] /\ size'[from] = 0 /\ last'[from] = 0
        /\ \A h \in Handle : h # from => last'[h] = last[h] /\ size'[h] = size[h]
        /\ UNCHANGED <<wq, out, brk>> /\ wdone' = [wdone EXCEPT ![to] = done]
    BY <1>6 DEF Restarts
  <2>2. wdone'[to] = done /\ \A y \in Handle : y # to => wdone'[y] = wdone[y]
    <3> HIDE DEF done
    <3> QED BY <1>0, <2>1 DEF WriteTypeOK
  <2>3. Written(to, <<>>)
    BY <1>0, <2>1, NothingIsWritten
  <2>4. \A h \in Handle : HeldNext(h) = HeldAt(to, wq[to], done, h)
    <3> TAKE h \in Handle
    <3>1. \A y \in Handle \ {to} : Own(wq'[y], wdone'[y], h) = Own(wq[y], wdone[y], h)
      BY <2>1, <2>2
    <3>2. HeldNext(h) = (UNION {Own(wq'[y], wdone'[y], h) : y \in Handle \ {to}})
                          \cup Own(wq'[to], wdone'[to], h)
      BY DEF HeldNext
    <3>3. Own(wq'[to], wdone'[to], h) = Own(wq[to], done, h)
      BY <2>1, <2>2
    <3> HIDE DEF done
    <3> QED BY <3>1, <3>2, <3>3 DEF HeldAt
  <2>5. ASSUME NEW h \in Handle, KeptNext(h) PROVE Piece(h, to, <<>>)
    <3>1. CASE h = from
      <4>1. /\ \A y \in Handle : y # to => Own(wq[y], wdone[y], h) = {}
            /\ Own(wq[to], done, h) = {}
            /\ \E a \in Nat : /\ FrontOf(Held(h), last[h], a) /\ a <= last[h]
                              /\ a = last[h] \/ Broken(h)
        BY <1>3, <2>5, <3>1 DEF Credited
      <4>2. PICK a \in Nat : /\ FrontOf(Held(h), last[h], a) /\ a <= last[h]
                             /\ a = last[h] \/ Broken(h)
        BY <4>1
      <4>3. HeldNext(h) = {}
        <5> HIDE DEF done
        <5> QED BY <2>4, <4>1 DEF HeldAt
      <4>4. FrontOf(HeldNext(h), last'[h], 0)
        BY <2>1, <3>1, <4>3 DEF FrontOf
      <4>5. Moved(h, a, 0)
        BY <1>1, <2>1, <3>1, <4>2 DEF Moved
      <4> QED BY <4>2, <4>4, <4>5, QuietPiece
    <3>2. CASE h # from
      <4>1. PICK a : FrontOf(Held(h), last[h], a)
        BY <2>5, KeptFacts
      <4>2. HeldNext(h) = Held(h)
        <5>1. Own(wq[to], done, h) = Own(wq[to], wdone[to], h)
          BY <1>4, <2>5, <3>2
        <5>2. Held(h) = HeldAt(to, wq[to], wdone[to], h)
          BY HeldIs
        <5> HIDE DEF done
        <5> QED BY <2>4, <5>1, <5>2 DEF HeldAt
      <4>3. last'[h] = last[h] /\ Moved(h, a, a)
        BY <1>1, <2>1, <3>2 DEF Moved, Grown, Same
      <4>4. FrontOf(HeldNext(h), last'[h], a)
        BY <4>1, <4>2, <4>3
      <4> QED BY <4>1, <4>3, <4>4, QuietPiece
    <3> QED BY <3>1, <3>2
  <2> QED BY <2>3, <2>5 DEF Pieces
<1> QED BY <1>1, <1>5, <1>6

(* Every step writes to at most one stream; of each stream that stays it    *)
(* writes bytes that follow in its buffer, or none.                         *)
LEMMA NextPieces ==
    ASSUME RelayInv, RelayInv', [Next]_vars, NEW h \in Handle
    PROVE  \E x \in Handle : \E s : Pieces(x, s)
<1>1. TypeInv /\ \A x \in Handle : BufOK(x)
  BY DEF RelayInv, BoundsInv
<1>2. CASE QuietStep
  BY <1>2, QuietPieces
<1>3. ASSUME NEW x \in Handle, CancelStep(x) PROVE \E y \in Handle : \E s : Pieces(y, s)
  BY <1>3, CancelPieces
<1>4. ASSUME NEW x \in Handle, FlushStep(x) PROVE \E y \in Handle : \E s : Pieces(y, s)
  BY <1>4, FlushPieces
<1>5. ASSUME NEW x \in Handle, AfterWrite(x) PROVE \E y \in Handle : \E s : Pieces(y, s)
  BY <1>5, AfterWritePieces
<1>6. ASSUME NEW from \in Handle, NEW to \in Handle, SendStep(from, to)
      PROVE  \E y \in Handle : \E s : Pieces(y, s)
  BY <1>6, SendPieces
<1> QED BY <1>1, <1>2, <1>3, <1>4, <1>5, <1>6, NextKind

-----------------------------------------------------------------------------
(* The bytes of a stream that are not written, before a step and after it.  *)

OwnOf(p, d, h) == UNION {Own(p[x], d[x], h) : x \in Handle}

LEMMA OwnType ==
    ASSUME NEW h,
           NEW p \in [Handle -> Seq(WriteReq)], NEW d \in [Handle -> Seq(WriteReq)]
    PROVE  OwnOf(p, d, h) \in SUBSET WriteReq /\ NotEmpty(OwnOf(p, d, h)) = OwnOf(p, d, h)
<1>1. ASSUME NEW x \in Handle
      PROVE  Own(p[x], d[x], h) \subseteq WriteReq /\ \A r \in Own(p[x], d[x], h) : r.len # 0
  <2>1. p[x] \in Seq(WriteReq) /\ d[x] \in Seq(WriteReq)
    OBVIOUS
  <2>2. Range(p[x]) \subseteq WriteReq /\ Range(d[x]) \subseteq WriteReq
    BY <2>1, RangeIs
  <2> QED BY <2>2 DEF Own
<1> QED BY <1>1 DEF OwnOf, NotEmpty

(* The bytes of a buffer m that are not written, in either state. *)
UnwrittenOn(m, l, s, a, p, d, h) ==
    a \in 0 .. l /\ BytesOf(m, l, s, OwnOf(p, d, h)) = BytesOn(m, a, s)

LEMMA UnwrittenOf ==
    ASSUME NEW p \in [Handle -> Seq(WriteReq)], NEW d \in [Handle -> Seq(WriteReq)], NEW h,
           NEW m, NEW l \in Nat, NEW s \in Nat, l <= s, NEW a, FrontOf(OwnOf(p, d, h), l, a)
    PROVE  UnwrittenOn(m, l, s, a, p, d, h)
<1> DEFINE P == OwnOf(p, d, h)
<1>1. P \in SUBSET WriteReq /\ NotEmpty(P) = OwnOf(p, d, h)
  BY OwnType
<1> HIDE DEF P
<1>2. FrontOf(NotEmpty(P), l, a)
  BY <1>1
<1>3. a \in 0 .. l /\ BytesOf(m, l, s, P) = BytesOn(m, a, s)
  BY <1>1, <1>2, BytesOfFront
<1> QED BY <1>3 DEF P, UnwrittenOn

LEMMA UnwrittenIs ==
    ASSUME TypeInv, NEW h \in Handle, NEW a, FrontOf(Held(h), last[h], a)
    PROVE  a \in 0 .. last[h] /\ Unwritten(h) = BytesOn(mem[h], a, size[h])
<1> DEFINE m == mem[h]
           l == last[h]
           s == size[h]
<1>1. /\ wq \in [Handle -> Seq(WriteReq)] /\ wdone \in [Handle -> Seq(WriteReq)]
      /\ l \in Nat /\ s \in Nat /\ l <= s
  BY DEF TypeInv, WriteTypeOK, DataTypeOK, Offsets
<1>2. FrontOf(OwnOf(wq, wdone, h), l, a)
  BY DEF Held, OwnOf
<1>3. Unwritten(h) = BytesOf(m, l, s, OwnOf(wq, wdone, h))
  BY DEF Unwritten, Pending, BytesOf, OwnOf, Own
<1> HIDE DEF m, l, s
<1>4. UnwrittenOn(m, l, s, a, wq, wdone, h)
  BY <1>1, <1>2, UnwrittenOf
<1> QED BY <1>3, <1>4 DEF m, l, s, UnwrittenOn

LEMMA UnwrittenNextIs ==
    ASSUME TypeInv', NEW h \in Handle, NEW a, FrontOf(HeldNext(h), last'[h], a)
    PROVE  a \in 0 .. last'[h] /\ Unwritten(h)' = BytesOn(mem'[h], a, size'[h])
<1>1. /\ wq' \in [Handle -> Seq(WriteReq)] /\ wdone' \in [Handle -> Seq(WriteReq)]
      /\ last'[h] \in Nat /\ size'[h] \in Nat /\ last'[h] <= size'[h]
  BY DEF TypeInv, WriteTypeOK, DataTypeOK, Offsets
<1>2. FrontOf(OwnOf(wq', wdone', h), last'[h], a)
  BY DEF HeldNext, OwnOf
<1>3. Unwritten(h)' = BytesOf(mem'[h], last'[h], size'[h], OwnOf(wq', wdone', h))
  BY DEF Unwritten, Pending, BytesOf, OwnOf, Own
<1>4. SUFFICES ASSUME NEW m, m = mem'[h], NEW l, l = last'[h], NEW s, s = size'[h],
                      NEW p, p = wq', NEW d, d = wdone'
               PROVE  UnwrittenOn(m, l, s, a, p, d, h)
  BY <1>3 DEF UnwrittenOn
<1>5. p \in [Handle -> Seq(WriteReq)] /\ d \in [Handle -> Seq(WriteReq)]
      /\ l \in Nat /\ s \in Nat /\ l <= s /\ FrontOf(OwnOf(p, d, h), l, a)
  BY <1>1, <1>2, <1>4
<1> QED BY <1>5, UnwrittenOf

(* V are the bytes of h not written when the step comes to write: those it  *)
(* had and new ones, and all of them unless some are given up.              *)
Waits(h, V) ==
    /\ rd[h] <= rd'[h]
    /\ lost[h] \subseteq lost'[h] /\ lost'[h] \subseteq lost[h] \cup (rd[h] + 1 .. rd'[h])
    /\ V \subseteq Unwritten(h) \cup (rd[h] + 1 .. rd'[h])
    /\ Broken(h) \/ Unwritten(h) \subseteq V
    /\ rd[h] + 1 .. rd'[h] \subseteq V \cup lost'[h]

(* Of these the step writes w, the first ones in their order, or nothing.   *)
TakesFirst(h, x, s, V, w) ==
    /\ Len(s) # 0 /\ ~brk[x] /\ Mine(MsNext[x], h) # {}
    /\ \A c : c \in V <=> (\E i \in 1 .. Len(s) : c = w[i]) \/ c \in Unwritten(h)'
    /\ \A i \in 1 .. Len(s) :
         /\ s[i][1] = h /\ s[i][2] \in {0, w[i]}
         /\ w[i] \in 1 .. rd'[h] /\ w[i] \notin lost'[h]
         /\ \A c \in Unwritten(h)' : w[i] < c
    /\ \A i, j \in 1 .. Len(s) : i < j => w[i] < w[j]
    /\ lost'[h] = {} =>
         /\ \A i, j \in 1 .. Len(s) : j = i + 1 => w[j] = w[i] + 1
         /\ \A c \in w[Len(s)] + 1 .. rd'[h] : c \in Unwritten(h)'

Splits(h, x, s, V) ==
    \/ Unwritten(h)' = V /\ \A i \in 1 .. Len(s) : s[i][1] # h
    \/ \E w : TakesFirst(h, x, s, V, w)

LEMMA MovedWaits ==
    ASSUME RelayInv, RelayInv', NEW h \in Handle, NEW a \in Nat, NEW b \in Nat, Moved(h, a, b),
           a <= size[h], b <= size'[h],
           Unwritten(h) = BytesOn(mem[h], a, size[h])
    PROVE  Waits(h, BytesOn(mem'[h], b, size'[h]))
<1> DEFINE V == BytesOn(mem'[h], b, size'[h])
           U == BytesOn(mem[h], a, size[h])
<1> USE DEF BytesOn
<1>0. size[h] \in Nat /\ size'[h] \in Nat /\ rd[h] \in Nat /\ rd'[h] \in Nat
  BY DEF RelayInv, TypeInv, DataTypeOK, GhostTypeOK
<1>1. CASE Same(h) /\ a <= b /\ (b = a \/ Broken(h))
  <2>1. V \subseteq U /\ (b = a => V = U)
    BY <1>0, <1>1 DEF Same
  <2> HIDE DEF V, U
  <2>2. Waits(h, V)
    BY <1>0, <1>1, <2>1 DEF Same, Waits, U
  <2> QED BY <2>2 DEF V
<1>2. CASE size'[h] = 0 /\ b = 0 /\ rd'[h] = rd[h] /\ lost'[h] = lost[h] /\ (a = size[h] \/ Broken(h))
  <2>1. V = {} /\ (a = size[h] => U = {})
    BY <1>0, <1>2
  <2> HIDE DEF V, U
  <2>2. Waits(h, V)
    BY <1>0, <1>2, <2>1 DEF Waits, U
  <2> QED BY <2>2 DEF V
<1>3. ASSUME NEW n, Appended(h, n), b = a PROVE Waits(h, V)
  <2>1. n \in Nat \ {0} /\ rd'[h] = rd[h] + n
    BY <1>3 DEF Appended
  <2>2. CASE size'[h] = size[h] /\ mem'[h] = mem[h]
             /\ lost'[h] = lost[h] \cup {rd[h] + i : i \in 1 .. n}
    <3>1. V = U
      BY <1>3, <2>2
    <3>2. {rd[h] + i : i \in 1 .. n} = rd[h] + 1 .. rd'[h]
      <4>1. \A i \in 1 .. n : rd[h] + i \in rd[h] + 1 .. rd'[h]
        BY <1>0, <2>1
      <4>2. \A c \in rd[h] + 1 .. rd'[h] : c - rd[h] \in 1 .. n /\ c = rd[h] + (c - rd[h])
        BY <1>0, <2>1
      <4> QED BY <4>1, <4>2
    <3>3. rd[h] <= rd'[h]
      BY <1>0, <2>1
    <3> HIDE DEF V, U
    <3> QED BY <2>2, <3>1, <3>2, <3>3 DEF Waits, U
  <2>3. CASE /\ size'[h] = size[h] + n /\ lost'[h] = lost[h]
             /\ \A k \in 1 .. size[h] : mem'[h][k] = mem[h][k]
             /\ \A i \in 1 .. n : mem'[h][size[h] + i] = rd[h] + i
    <3>1. \A c \in V : c \in U \/ c \in rd[h] + 1 .. rd'[h]
      <4> TAKE c \in V
      <4>1. PICK i \in b + 1 .. size'[h] : c = mem'[h][i]
        OBVIOUS
      <4>2. CASE i <= size[h]
        <5>1. i \in 1 .. size[h] /\ i \in a + 1 .. size[h]
          BY <1>0, <1>3, <4>2
        <5> QED BY <2>3, <4>1, <5>1
      <4>3. CASE ~(i <= size[h])
        <5>1. i - size[h] \in 1 .. n /\ size[h] + (i - size[h]) = i
          BY <1>0, <2>1, <2>3, <4>3
        <5>2. c = rd[h] + (i - size[h])
          BY <2>3, <4>1, <5>1
        <5> QED BY <1>0, <2>1, <5>1, <5>2
      <4> QED BY <4>2, <4>3
    <3>2. \A c \in U : c \in V
      <4> TAKE c \in U
      <4>1. PICK i \in a + 1 .. size[h] : c = mem[h][i]
        OBVIOUS
      <4>2. i \in 1 .. size[h] /\ i \in b + 1 .. size'[h]
        BY <1>0, <1>3, <2>1, <2>3
      <4> QED BY <2>3, <4>1, <4>2
    <3>3. \A c \in rd[h] + 1 .. rd'[h] : c \in V
      <4> TAKE c \in rd[h] + 1 .. rd'[h]
      <4>1. c - rd[h] \in 1 .. n /\ c = rd[h] + (c - rd[h])
        BY <1>0, <2>1
      <4>2. mem'[h][size[h] + (c - rd[h])] = c
        BY <2>3, <4>1
      <4>3. size[h] + (c - rd[h]) \in b + 1 .. size'[h]
        BY <1>0, <1>3, <2>1, <2>3, <4>1
      <4> QED BY <4>2, <4>3
    <3>4. rd[h] <= rd'[h]
      BY <1>0, <2>1
    <3> HIDE DEF V, U
    <3> QED BY <2>3, <3>1, <3>2, <3>3, <3>4 DEF Waits, U
  <2> QED BY <1>3, <2>2, <2>3 DEF Appended
<1> QED BY <1>1, <1>2, <1>3 DEF Moved, Grown

LEMMA PieceSplits ==
    ASSUME RelayInv, RelayInv', NEW h \in Handle, NEW x \in Handle, NEW s, Piece(h, x, s)
    PROVE  \E V : Waits(h, V) /\ Splits(h, x, s, V)
<1>1. PICK a \in Nat, b \in Nat, k \in Nat :
        /\ FrontOf(Held(h), last[h], a) /\ FrontOf(HeldNext(h), last'[h], b + k)
        /\ Moved(h, a, b) /\ Put(h, x, s, b, k)
  BY DEF Piece
<1>2. /\ TypeInv /\ TypeInv' /\ rd[h] \in Nat /\ rd'[h] \in Nat
      /\ last[h] \in Nat /\ size[h] \in Nat /\ last[h] <= size[h]
      /\ last'[h] \in Nat /\ size'[h] \in Nat /\ last'[h] <= size'[h]
  BY DEF RelayInv, TypeInv, DataTypeOK, GhostTypeOK, Offsets
<1>3. a \in 0 .. last[h] /\ Unwritten(h) = BytesOn(mem[h], a, size[h])
  BY <1>1, <1>2, UnwrittenIs
<1>4. b + k \in 0 .. last'[h] /\ Unwritten(h)' = BytesOn(mem'[h], b + k, size'[h])
  BY <1>1, <1>2, UnwrittenNextIs
<1>5. a <= size[h] /\ b <= size'[h] /\ b + k <= size'[h]
  BY <1>2, <1>3, <1>4
<1> DEFINE V == BytesOn(mem'[h], b, size'[h])
<1>6. Waits(h, V)
  BY <1>1, <1>3, <1>5, MovedWaits
<1>7. CASE k = 0 /\ \A i \in 1 .. Len(s) : s[i][1] # h
  <2>1. Unwritten(h)' = V
    BY <1>1, <1>4, <1>7
  <2> QED BY <1>6, <1>7, <2>1 DEF Splits
<1>8. CASE /\ k \in Nat \ {0} /\ Len(s) = k /\ ~brk[x] /\ Mine(MsNext[x], h) # {}
           /\ \A i \in 1 .. k : s[i][1] = h /\ s[i][2] \in {0, mem'[h][b + i]}
  <2> SUFFICES ASSUME NEW n, n = size'[h], NEW m, m = mem'[h], NEW r, r = rd'[h],
                      NEW L, L = lost'[h]
               PROVE  \E U : Waits(h, U) /\ Splits(h, x, s, U)
    OBVIOUS
  <2> DEFINE w == [i \in 1 .. k |-> m[b + i]]
  <2>1. /\ \A i \in 1 .. n : m[i] \in 1 .. r /\ m[i] \notin L
        /\ \A i, j \in 1 .. n : i < j => m[i] < m[j]
        /\ L = {} => \A i \in 1 .. n : m[i] + n = r + i
    BY DEF RelayInv, MemInv, MemOK
  <2>2. n \in Nat /\ r \in Nat /\ b + k <= n
    BY <1>2, <1>5
  <2>3. Unwritten(h)' = {m[i] : i \in b + k + 1 .. n} /\ V = {m[i] : i \in b + 1 .. n}
    BY <1>4 DEF BytesOn
  <2>4. \A i \in 1 .. k : b + i \in 1 .. n /\ w[i] = m[b + i]
    BY <1>1, <2>2
  <2> DEFINE U == Unwritten(h)'
  <2>5. ASSUME NEW c PROVE c \in V <=> (\E i \in 1 .. k : c = w[i]) \/ c \in U
    <3>1. ASSUME c \in V PROVE (\E i \in 1 .. k : c = w[i]) \/ c \in U
      <4>1. PICK i \in b + 1 .. n : c = m[i]
        BY <2>3, <3>1
      <4>2. CASE i > b + k
        <5>1. i \in b + k + 1 .. n
          BY <1>1, <2>2, <4>2
        <5> QED BY <2>3, <4>1, <5>1
      <4>3. CASE i <= b + k
        <5>1. i - b \in 1 .. k /\ b + (i - b) = i
          BY <1>1, <2>2, <4>3
        <5> QED BY <2>4, <4>1, <5>1
      <4> QED BY <1>1, <2>2, <4>2, <4>3
    <3>2. ASSUME NEW i \in 1 .. k, c = w[i] PROVE c \in V
      <4>1. b + i \in b + 1 .. n
        BY <1>1, <2>2
      <4> QED BY <2>3, <2>4, <3>2, <4>1
    <3>3. ASSUME c \in U PROVE c \in V
      <4>1. PICK i \in b + k + 1 .. n : c = m[i]
        BY <2>3, <3>3
      <4>2. i \in b + 1 .. n
        BY <1>1, <2>2
      <4> QED BY <2>3, <4>1, <4>2
    <3> QED BY <3>1, <3>2, <3>3
  <2>6. ASSUME NEW i \in 1 .. k
        PROVE  w[i] \in 1 .. r /\ w[i] \notin L /\ \A c \in U : w[i] < c
    <3>1. w[i] \in 1 .. r /\ w[i] \notin L
      BY <2>1, <2>4
    <3>2. ASSUME NEW c \in U PROVE w[i] < c
      <4>1. PICK j \in b + k + 1 .. n : c = m[j]
        BY <2>3
      <4>2. j \in 1 .. n /\ b + i \in 1 .. n /\ b + i < j
        BY <1>1, <2>2, <2>4
      <4> QED BY <2>1, <2>4, <4>1, <4>2
    <3> QED BY <3>1, <3>2
  <2>7. \A i, j \in 1 .. k : i < j => w[i] < w[j]
    <3> TAKE i, j \in 1 .. k
    <3> HAVE i < j
    <3>1. b + i \in 1 .. n /\ b + j \in 1 .. n /\ b + i < b + j
      BY <1>1, <2>4
    <3> QED BY <2>1, <2>4, <3>1
  <2>8. ASSUME L = {}
        PROVE  /\ \A i, j \in 1 .. k : j = i + 1 => w[j] = w[i] + 1
               /\ \A c \in w[k] + 1 .. r : c \in U
    <3>1. \A i \in 1 .. n : m[i] \in Nat /\ m[i] = r + i - n
      BY <2>1, <2>2, <2>8
    <3>2. \A i \in 1 .. k : w[i] = r + (b + i) - n
      BY <2>4, <3>1
    <3>3. \A i, j \in 1 .. k : j = i + 1 => w[j] = w[i] + 1
      BY <1>1, <2>2, <3>2
    <3>4. ASSUME NEW c \in w[k] + 1 .. r PROVE c \in U
      <4>1. w[k] = r + (b + k) - n
        BY <1>8, <3>2
      <4>2. c \in (r + (b + k) - n) + 1 .. r
        BY <4>1
      <4>3. PICK i \in Nat : i = c + n - r /\ i \in b + k + 1 .. n /\ i \in 1 .. n
        <5> HIDE DEF w, V
        <5>1. c \in Int /\ c >= (r + (b + k) - n) + 1 /\ c <= r
          BY <1>1, <2>2, <4>2
        <5> QED BY <1>1, <2>2, <5>1
      <4>4. m[i] = c
        <5> HIDE DEF w, V
        <5>1. c \in Int
          BY <1>1, <2>2, <4>2
        <5> QED BY <2>2, <3>1, <4>3, <5>1
      <4> QED BY <2>3, <4>3, <4>4
    <3> QED BY <3>3, <3>4
  <2>9. TakesFirst(h, x, s, V, w)
    <3>1. \A i \in 1 .. Len(s) : s[i][1] = h /\ s[i][2] \in {0, w[i]}
      BY <1>8, <2>4
    <3>2. Len(s) # 0 /\ Len(s) = k /\ ~brk[x] /\ Mine(MsNext[x], h) # {}
      BY <1>8
    <3> HIDE DEF w, V
    <3> QED BY <2>5, <2>6, <2>7, <2>8, <3>1, <3>2 DEF TakesFirst
  <2> HIDE DEF w, V
  <2>10. Splits(h, x, s, V)
    BY <2>9 DEF Splits
  <2> QED BY <1>6, <2>10 DEF V
<1> QED BY <1>1, <1>7, <1>8 DEF Put

-----------------------------------------------------------------------------
(* The order of the bytes of a stream, and that none goes missing.          *)

Kept(h) == ~Ended(h) /\ h \notin miscredit

(* The bytes of h in o, the indeterminate ones left out, and the last one. *)
Got(o, h) == {c \in Nat \ {0} : \E i \in 1 .. Len(o) : o[i][1] = h /\ o[i][2] = c}
LastIs(o, h, c) == Len(o) # 0 /\ o[Len(o)][1] = h /\ o[Len(o)][2] = c /\ c # 0

(* What was written of a stream comes before what is not. *)
Sent(h) ==
    \A x \in Handle : \A c \in Got(out[x], h) :
        c <= rd[h] /\ c \notin lost[h] /\ \A u \in Unwritten(h) : c < u

(* The stream that takes the bytes of h got the last one before those not   *)
(* written, if it got the last one it has from h.                           *)
Follows(h) ==
    lost[h] = {} =>
      \A x \in Handle : ~brk[x] /\ Target(h, x) =>
        \A c \in Nat : LastIs(out[x], h, c) => \A d \in c + 1 .. rd[h] : d \in Unwritten(h)

Covered(h) ==
    (\A to \in Opposite(h) : ~brk[to]) /\ 0 \notin Delivered(h) =>
      \A c \in 1 .. rd[h] :
        c \in lost[h] \/ c \in Unwritten(h) \/ \E x \in Handle : c \in Got(out[x], h)

InOrder(o, h, l) ==
    \A i, j \in 1 .. Len(o) :
        o[i][1] = h /\ o[j][1] = h /\ i < j /\ o[i][2] # 0 /\ o[j][2] # 0 =>
            /\ o[i][2] < o[j][2]
            /\ j = i + 1 /\ l = {} => o[j][2] = o[i][2] + 1

OrderInv ==
    /\ \A h \in Handle : Kept(h) => Sent(h) /\ Follows(h) /\ Covered(h)
    /\ \A h \in Handle \ miscredit : \A x \in Handle : InOrder(out[x], h, lost[h])

LEMMA InitOrderInv == Init => OrderInv
<1> SUFFICES ASSUME Init PROVE OrderInv
  OBVIOUS
<1>1. /\ \A x \in Handle : out[x] = <<>>
      /\ \A h \in Handle : rd[h] = 0 /\ lost[h] = {}
  BY DEF Init, UvInit
<1>2. \A x \in Handle : Len(out[x]) = 0
  BY <1>1
<1>3. \A h \in Handle : Sent(h)
  <2>1. \A h \in Handle, x \in Handle : Got(out[x], h) = {}
    BY <1>2 DEF Got
  <2> QED BY <2>1 DEF Sent
<1>4. \A h \in Handle : Follows(h)
  BY <1>2 DEF Follows, LastIs
<1>5. \A h \in Handle : Covered(h)
  BY <1>1 DEF Covered
<1>6. \A h \in Handle, x \in Handle : InOrder(out[x], h, lost[h])
  BY <1>2 DEF InOrder
<1> QED BY <1>3, <1>4, <1>5, <1>6 DEF OrderInv

LEMMA PairsJoin ==
    ASSUME NEW o \in Seq(Handle \X Nat), NEW s \in Seq(Handle \X Nat)
    PROVE  /\ Len(o \o s) = Len(o) + Len(s) /\ Len(o) \in Nat /\ Len(s) \in Nat
           /\ \A i \in 1 .. Len(o) : (o \o s)[i] = o[i]
           /\ \A i \in 1 .. Len(s) : (o \o s)[Len(o) + i] = s[i]
           /\ \A i \in 1 .. Len(o) + Len(s) : i > Len(o) =>
                i - Len(o) \in 1 .. Len(s) /\ (o \o s)[i] = s[i - Len(o)]
<1>1. /\ Len(o \o s) = Len(o) + Len(s) /\ Len(o) \in Nat /\ Len(s) \in Nat
      /\ \A i \in 1 .. Len(o) : (o \o s)[i] = o[i]
      /\ \A i \in 1 .. Len(s) : (o \o s)[Len(o) + i] = s[i]
  BY JoinElements
<1>2. ASSUME NEW i \in 1 .. Len(o) + Len(s), i > Len(o)
      PROVE  i - Len(o) \in 1 .. Len(s) /\ (o \o s)[i] = s[i - Len(o)]
  <2>1. i - Len(o) \in 1 .. Len(s) /\ Len(o) + (i - Len(o)) = i
    BY <1>1, <1>2
  <2> QED BY <1>1, <2>1
<1> QED BY <1>1, <1>2

GotSum(o, s, h) == Got(o \o s, h) = Got(o, h) \cup Got(s, h)

LEMMA GotJoin ==
    ASSUME NEW o \in Seq(Handle \X Nat), NEW s \in Seq(Handle \X Nat), NEW h
    PROVE  GotSum(o, s, h)
<1> SUFFICES ASSUME NEW t, t = o \o s PROVE Got(t, h) = Got(o, h) \cup Got(s, h)
  BY DEF GotSum
<1>1. /\ Len(t) = Len(o) + Len(s) /\ Len(o) \in Nat /\ Len(s) \in Nat
      /\ \A i \in 1 .. Len(o) : t[i] = o[i]
      /\ \A i \in 1 .. Len(s) : t[Len(o) + i] = s[i]
      /\ \A i \in 1 .. Len(o) + Len(s) : i > Len(o) =>
           i - Len(o) \in 1 .. Len(s) /\ t[i] = s[i - Len(o)]
  BY PairsJoin
<1>2. ASSUME NEW c \in Got(t, h) PROVE c \in Got(o, h) \/ c \in Got(s, h)
  <2>1. c \in Nat \ {0}
    BY DEF Got
  <2>2. PICK i \in 1 .. Len(t) : t[i][1] = h /\ t[i][2] = c
    BY DEF Got
  <2>3. CASE i > Len(o)
    <3>1. i - Len(o) \in 1 .. Len(s) /\ t[i] = s[i - Len(o)]
      BY <1>1, <2>3
    <3> QED BY <2>1, <2>2, <3>1 DEF Got
  <2>4. CASE ~(i > Len(o))
    <3>1. i \in 1 .. Len(o)
      BY <1>1, <2>4
    <3> QED BY <1>1, <2>1, <2>2, <3>1 DEF Got
  <2> QED BY <2>3, <2>4
<1>3. ASSUME NEW c \in Got(o, h) PROVE c \in Got(t, h)
  <2>1. PICK i \in 1 .. Len(o) : o[i][1] = h /\ o[i][2] = c
    BY DEF Got
  <2>2. i \in 1 .. Len(t) /\ t[i] = o[i]
    BY <1>1
  <2> QED BY <2>1, <2>2 DEF Got
<1>4. ASSUME NEW c \in Got(s, h) PROVE c \in Got(t, h)
  <2>1. PICK i \in 1 .. Len(s) : s[i][1] = h /\ s[i][2] = c
    BY DEF Got
  <2>2. Len(o) + i \in 1 .. Len(t) /\ t[Len(o) + i] = s[i]
    BY <1>1
  <2> QED BY <2>1, <2>2 DEF Got
<1> QED BY <1>2, <1>3, <1>4

-----------------------------------------------------------------------------
(* One step, of a stream that stays.                                        *)

(* What the lemmas below are about: the step gives s to stream x, and the   *)
(* bytes V of h are not written before.                                     *)
Stepping(h, x, s, V) ==
    /\ Written(x, s) /\ KeptNext(h) /\ Waits(h, V) /\ Splits(h, x, s, V)
    /\ x \in Handle /\ h \in Handle

LEMMA NothingLater ==
    ASSUME RelayInv, RelayInv', NEW h, NEW x, NEW s, NEW V, Stepping(h, x, s, V), Sent(h),
           NEW y \in Handle, NEW c \in Got(out[y], h)
    PROVE  /\ c \in Nat /\ c <= rd'[h] /\ c \notin lost'[h] /\ \A u \in V : c < u
           /\ Unwritten(h)' \subseteq V
<1>1. h \in Handle /\ rd[h] \in Nat
  BY DEF RelayInv, TypeInv, GhostTypeOK, Stepping
<1>2. c \in Nat /\ c <= rd[h] /\ c \notin lost[h] /\ \A u \in Unwritten(h) : c < u
  BY DEF Sent, Got
<1>3. Unwritten(h)' \subseteq V
  BY DEF Stepping, Splits, TakesFirst
<1>4. rd'[h] \in Nat /\ rd[h] <= rd'[h]
        /\ lost'[h] \subseteq lost[h] \cup (rd[h] + 1 .. rd'[h])
        /\ V \subseteq Unwritten(h) \cup (rd[h] + 1 .. rd'[h])
  <2>1. rd'[h] \in Nat
    BY DEF Stepping, RelayInv, TypeInv, GhostTypeOK
  <2> QED BY <2>1 DEF Stepping, Waits
<1> QED BY <1>1, <1>2, <1>3, <1>4

LEMMA GotNext ==
    ASSUME TypeInv, NEW h, NEW x \in Handle, NEW s, Written(x, s), NEW y \in Handle
    PROVE  Got(out'[y], h) = IF y = x THEN Got(out[y], h) \cup Got(s, h) ELSE Got(out[y], h)
<1>1. out[y] \in Seq(Handle \X Nat) /\ s \in Seq(Handle \X Nat)
  BY DEF TypeInv, WriteTypeOK, Written
<1>2. out'[y] = IF y = x THEN out[y] \o s ELSE out[y]
  BY DEF Written
<1>3. Got(out[y] \o s, h) = Got(out[y], h) \cup Got(s, h)
  <2> DEFINE o == out[y]
  <2>1. o \in Seq(Handle \X Nat) /\ s \in Seq(Handle \X Nat)
    BY <1>1
  <2> HIDE DEF o
  <2>2. GotSum(o, s, h)
    BY <2>1, GotJoin
  <2> QED BY <2>2 DEF o, GotSum
<1> QED BY <1>2, <1>3

LEMMA GotTaken ==
    ASSUME NEW h, NEW x, NEW s, NEW V, Splits(h, x, s, V), NEW c \in Got(s, h)
    PROVE  /\ c \in V /\ c \in 1 .. rd'[h] /\ c \notin lost'[h]
           /\ \A u \in Unwritten(h)' : c < u
<1>1. PICK i \in 1 .. Len(s) : s[i][1] = h /\ s[i][2] = c
  BY DEF Got
<1>2. c # 0
  BY DEF Got
<1>3. PICK w : TakesFirst(h, x, s, V, w)
  BY <1>1 DEF Splits
<1>4. c = w[i]
  BY <1>1, <1>2, <1>3 DEF TakesFirst
<1> QED BY <1>3, <1>4 DEF TakesFirst

LEMMA StepSent ==
    ASSUME RelayInv, RelayInv', NEW h, NEW x, NEW s, NEW V, Stepping(h, x, s, V), Sent(h)
    PROVE  Sent(h)'
<1>0. TypeInv /\ x \in Handle /\ h \in Handle /\ Written(x, s) /\ rd'[h] \in Nat /\ Splits(h, x, s, V)
  BY DEF RelayInv, TypeInv, GhostTypeOK, Stepping
<1>1. ASSUME NEW y \in Handle, NEW c \in Got(out'[y], h)
      PROVE  c <= rd'[h] /\ c \notin lost'[h] /\ \A u \in Unwritten(h)' : c < u
  <2>1. c \in Got(out[y], h) \/ c \in Got(s, h)
    <3>1. Got(out'[y], h) = IF y = x THEN Got(out[y], h) \cup Got(s, h) ELSE Got(out[y], h)
      BY <1>0, GotNext, Zenon
    <3> QED BY <1>1, <3>1
  <2>2. CASE c \in Got(out[y], h)
    <3>1. /\ c \in Nat /\ c <= rd'[h] /\ c \notin lost'[h] /\ \A u \in V : c < u
          /\ Unwritten(h)' \subseteq V
      BY <2>2, NothingLater
    <3> QED BY <3>1
  <2>3. CASE c \in Got(s, h)
    <3>1. /\ c \in V /\ c \in 1 .. rd'[h] /\ c \notin lost'[h]
          /\ \A u \in Unwritten(h)' : c < u
      BY <1>0, <2>3, GotTaken
    <3> QED BY <1>0, <3>1
  <2> QED BY <2>1, <2>2, <2>3
<1>2. \A y \in Handle : \A c \in Got(out'[y], h) :
          c <= rd'[h] /\ c \notin lost'[h] /\ \A u \in Unwritten(h)' : c < u
  BY <1>1
<1> QED BY <1>2 DEF Sent, Got

(* The stream that takes the bytes of h now did so before, and no write to  *)
(* it has failed.                                                           *)
LEMMA TargetHolds ==
    ASSUME RelayInv, RelayInv', [Next]_vars, NEW h \in Handle, KeptNext(h),
           NEW y \in Handle, TargetNext(h, y), ~brk[y], h \in Src(y)
    PROVE  Target(h, y) /\ ~Broken(h)
<1>1. TypeInv /\ TypeInv' /\ (\A z \in Handle : BufOK(z)) /\ RequestsNear /\ ApartInv
  BY DEF RelayInv, BoundsInv, CrashInv
<1>2. ~Ended(h) /\ AtMostOne(Ms, h)
  BY KeptFacts
<1>3. Target(h, y)
  BY <1>1, <1>2, TargetStays
<1>4. ~Broken(h)
  BY <1>3 DEF Broken, Target
<1> QED BY <1>3, <1>4

LEMMA FollowsAll ==
    ASSUME RelayInv, RelayInv', NEW h, NEW x, NEW s, NEW V, Stepping(h, x, s, V), Follows(h),
           lost'[h] = {}, NEW y \in Handle, Target(h, y), ~Broken(h), ~brk[y],
           NEW c \in Nat, LastIs(out[y], h, c)
    PROVE  \A d \in c + 1 .. rd'[h] : d \in V
<1>0. h \in Handle /\ rd[h] \in Nat /\ rd'[h] \in Nat
  BY DEF RelayInv, TypeInv, GhostTypeOK, Stepping
<1>1. /\ rd[h] <= rd'[h] /\ lost[h] = {} /\ Unwritten(h) \subseteq V
      /\ rd[h] + 1 .. rd'[h] \subseteq V
  BY DEF Stepping, Waits
<1>2. \A d \in c + 1 .. rd[h] : d \in Unwritten(h)
  BY <1>1 DEF Follows
<1> TAKE d \in c + 1 .. rd'[h]
<1>3. CASE d <= rd[h]
  <2>1. d \in c + 1 .. rd[h]
    BY <1>0, <1>3
  <2> QED BY <1>1, <1>2, <2>1
<1>4. CASE d > rd[h]
  <2>1. d \in rd[h] + 1 .. rd'[h]
    BY <1>0, <1>4
  <2> QED BY <1>1, <2>1
<1> QED BY <1>0, <1>3, <1>4

LEMMA LastInSrc ==
    ASSUME TypeInv, NEW h, NEW y \in Handle, NEW i \in 1 .. Len(out[y]), out[y][i][1] = h
    PROVE  h \in Src(y)
<1>1. out[y] \in Seq(Handle \X Nat)
  BY DEF TypeInv, WriteTypeOK
<1>2. i \in DOMAIN out[y]
  BY <1>1
<1> QED BY <1>2 DEF Src

LEMMA StepFollows ==
    ASSUME RelayInv, RelayInv', [Next]_vars, NEW h, NEW x, NEW s, NEW V, Stepping(h, x, s, V),
           Follows(h)
    PROVE  Follows(h)'
<1>0. /\ TypeInv /\ x \in Handle /\ h \in Handle /\ KeptNext(h) /\ Written(x, s)
      /\ Splits(h, x, s, V) /\ s \in Seq(Handle \X Nat)
      /\ \A z \in Handle : brk[z] => brk'[z]
  <2>1. TypeInv /\ TypeInv' /\ ErrInv /\ \A z \in Handle : BufOK(z)
    BY DEF RelayInv, BoundsInv
  <2>2. \A z \in Handle : brk[z] => brk'[z]
    BY <2>1, NextErrInv
  <2> QED BY <2>1, <2>2 DEF Stepping, Written
<1>1. ASSUME lost'[h] = {}, NEW y \in Handle, ~brk'[y], TargetNext(h, y),
             NEW c \in Nat, LastIs(out'[y], h, c), NEW d \in c + 1 .. rd'[h]
      PROVE  d \in Unwritten(h)'
  <2>1. ~brk[y]
    BY <1>0, <1>1
  <2>2. CASE out'[y] = out[y] /\ Unwritten(h)' = V
    <3>1. LastIs(out[y], h, c)
      BY <1>1, <2>2
    <3>2. h \in Src(y)
      <4>1. out[y] \in Seq(Handle \X Nat)
        BY <1>0 DEF TypeInv, WriteTypeOK
      <4>2. Len(out[y]) \in 1 .. Len(out[y]) /\ out[y][Len(out[y])][1] = h
        BY <3>1, <4>1 DEF LastIs
      <4> QED BY <1>0, <4>2, LastInSrc
    <3>3. Target(h, y) /\ ~Broken(h)
      BY <1>0, <1>1, <2>1, <3>2, TargetHolds
    <3>4. d \in V
      BY <1>1, <2>1, <3>1, <3>3, FollowsAll
    <3> QED BY <2>2, <3>4
  <2>3. CASE Unwritten(h)' = V /\ \A i \in 1 .. Len(s) : s[i][1] # h
    <3>1. CASE y # x \/ Len(s) = 0
      <4>1. out'[y] = out[y]
        <5>1. CASE y # x
          BY <1>0, <5>1 DEF Written
        <5>2. CASE y = x /\ Len(s) = 0
          <6>1. s = <<>> /\ out[y] \in Seq(Handle \X Nat)
            BY <1>0, <5>2 DEF TypeInv, WriteTypeOK
          <6>2. out'[y] = out[y] \o s
            BY <1>0, <5>2 DEF Written
          <6> QED BY <6>1, <6>2
        <5> QED BY <3>1, <5>1, <5>2
      <4> QED BY <2>2, <2>3, <4>1
    <3>2. CASE y = x /\ Len(s) # 0
      <4>1. out'[y] = out[y] \o s /\ out[y] \in Seq(Handle \X Nat)
        BY <1>0, <3>2 DEF Written, TypeInv, WriteTypeOK
      <4>2. /\ Len(out'[y]) = Len(out[y]) + Len(s) /\ Len(s) \in 1 .. Len(s)
            /\ out'[y][Len(out[y]) + Len(s)] = s[Len(s)]
        <5> SUFFICES ASSUME NEW t, t = out[y] \o s
                     PROVE  /\ Len(t) = Len(out[y]) + Len(s) /\ Len(s) \in 1 .. Len(s)
                            /\ t[Len(out[y]) + Len(s)] = s[Len(s)]
          BY <4>1
        <5>1. /\ Len(t) = Len(out[y]) + Len(s) /\ Len(s) \in Nat
              /\ \A i \in 1 .. Len(s) : t[Len(out[y]) + i] = s[i]
          BY <1>0, <4>1, PairsJoin
        <5> QED BY <3>2, <5>1
      <4>3. s[Len(s)][1] = h
        BY <1>1, <4>2 DEF LastIs
      <4> QED BY <2>3, <4>2, <4>3
    <3> QED BY <3>1, <3>2
  <2>4. ASSUME NEW w, TakesFirst(h, x, s, V, w) PROVE d \in Unwritten(h)'
    <3>1. Mine(MsNext[x], h) # {} /\ Len(s) # 0
      BY <2>4 DEF TakesFirst
    <3>2. y = x
      BY <1>0, <1>1, <3>1 DEF TargetNext
    <3>3. out'[y] = out[y] \o s /\ out[y] \in Seq(Handle \X Nat)
      BY <1>0, <3>2 DEF Written, TypeInv, WriteTypeOK
    <3>4. /\ Len(out'[y]) = Len(out[y]) + Len(s) /\ Len(s) \in 1 .. Len(s)
          /\ out'[y][Len(out[y]) + Len(s)] = s[Len(s)]
      <4> SUFFICES ASSUME NEW t, t = out[y] \o s
                   PROVE  /\ Len(t) = Len(out[y]) + Len(s) /\ Len(s) \in 1 .. Len(s)
                          /\ t[Len(out[y]) + Len(s)] = s[Len(s)]
        BY <3>3
      <4>1. /\ Len(t) = Len(out[y]) + Len(s) /\ Len(s) \in Nat
            /\ \A i \in 1 .. Len(s) : t[Len(out[y]) + i] = s[i]
        BY <1>0, <3>3, PairsJoin
      <4> QED BY <3>1, <4>1
    <3>5. s[Len(s)][2] = c /\ c # 0
      BY <1>1, <3>4 DEF LastIs
    <3>6. c = w[Len(s)]
      BY <2>4, <3>4, <3>5 DEF TakesFirst
    <3> QED BY <1>1, <2>4, <3>6 DEF TakesFirst
  <2> QED BY <1>0, <2>3, <2>4 DEF Splits
<1>2. \A y \in Handle : Target(h, y)' <=> TargetNext(h, y)
  BY MsPrimed DEF Target, TargetNext, Mine
<1> QED BY <1>1, <1>2 DEF Follows, LastIs

(* What the streams f got of h, the indeterminate bytes among it. *)
SentBy(f, h) == {b[2] : b \in {c \in UNION {Range(f[to]) : to \in Handle} : c[1] = h}}

GotAt(f, h, c) ==
    \E x \in Handle : \E i \in 1 .. Len(f[x]) : f[x][i][1] = h /\ f[x][i][2] = c

LEMMA SentByIs ==
    ASSUME NEW f \in [Handle -> Seq(Handle \X Nat)], NEW h, NEW c
    PROVE  c \in SentBy(f, h) <=> GotAt(f, h, c)
<1>1. ASSUME NEW x \in Handle PROVE Range(f[x]) = {f[x][i] : i \in 1 .. Len(f[x])}
  <2>1. f[x] \in Seq(Handle \X Nat)
    OBVIOUS
  <2>2. SUFFICES ASSUME NEW s, s = f[x], s \in Seq(Handle \X Nat)
                 PROVE  Range(s) = {s[i] : i \in 1 .. Len(s)}
    BY <2>1
  <2>3. DOMAIN s = 1 .. Len(s)
    BY <2>2
  <2> QED BY <2>3 DEF Range
<1> DEFINE A == UNION {Range(f[to]) : to \in Handle}
<1>2. \A b : b \in A <=> \E x \in Handle : \E i \in 1 .. Len(f[x]) : f[x][i] = b
  BY <1>1
<1>3. SentBy(f, h) = {b[2] : b \in {e \in A : e[1] = h}}
  BY DEF SentBy
<1> HIDE DEF A
<1>4. c \in SentBy(f, h) <=> \E b \in A : b[1] = h /\ b[2] = c
  BY <1>3
<1> QED BY <1>2, <1>4 DEF GotAt

(* An indeterminate byte of h that was written, or is by this step. *)
LEMMA ZeroNext ==
    ASSUME TypeInv, TypeInv', NEW h \in Handle, NEW x \in Handle, NEW s, Written(x, s),
           0 \notin Delivered(h)'
    PROVE  /\ 0 \notin Delivered(h)
           /\ \A i \in 1 .. Len(s) : s[i][1] = h => s[i][2] # 0
<1>0. /\ out \in [Handle -> Seq(Handle \X Nat)] /\ out' \in [Handle -> Seq(Handle \X Nat)]
      /\ s \in Seq(Handle \X Nat) /\ out[x] \in Seq(Handle \X Nat)
  BY DEF TypeInv, WriteTypeOK, Written
<1>1. 0 \in Delivered(h) <=> GotAt(out, h, 0)
  <2>1. Delivered(h) = SentBy(out, h)
    BY DEF Delivered, SentBy
  <2>2. 0 \in SentBy(out, h) <=> GotAt(out, h, 0)
    BY <1>0, SentByIs
  <2> QED BY <2>1, <2>2
<1>2. \A y \in Handle : \A i \in 1 .. Len(out'[y]) : out'[y][i][1] = h => out'[y][i][2] # 0
  <2>1. Delivered(h)' = SentBy(out', h)
    BY DEF Delivered, SentBy
  <2> SUFFICES ASSUME NEW f, f = out'
               PROVE  \A y \in Handle : \A i \in 1 .. Len(f[y]) : f[y][i][1] = h => f[y][i][2] # 0
    OBVIOUS
  <2>2. 0 \in SentBy(f, h) <=> GotAt(f, h, 0)
    BY <1>0, SentByIs
  <2> QED BY <2>1, <2>2 DEF GotAt
<1> DEFINE o == out[x]
<1>3. /\ Len(out'[x]) = Len(o) + Len(s) /\ Len(o) \in Nat /\ Len(s) \in Nat
      /\ \A i \in 1 .. Len(o) : out'[x][i] = o[i]
      /\ \A i \in 1 .. Len(s) : out'[x][Len(o) + i] = s[i]
  <2> SUFFICES ASSUME NEW t, t = o \o s
               PROVE  /\ Len(t) = Len(o) + Len(s) /\ Len(o) \in Nat /\ Len(s) \in Nat
                      /\ \A i \in 1 .. Len(o) : t[i] = o[i]
                      /\ \A i \in 1 .. Len(s) : t[Len(o) + i] = s[i]
    BY DEF Written
  <2> HIDE DEF o
  <2>1. o \in Seq(Handle \X Nat)
    BY <1>0 DEF o
  <2> QED BY <1>0, <2>1, PairsJoin
<1>4. 0 \notin Delivered(h)
  <2> SUFFICES ASSUME NEW y \in Handle, NEW i \in 1 .. Len(out[y]), out[y][i][1] = h
               PROVE  out[y][i][2] # 0
    BY <1>1 DEF GotAt
  <2>1. CASE y = x
    <3>1. i \in 1 .. Len(out'[x]) /\ out'[x][i] = out[y][i]
      BY <1>3, <2>1
    <3> QED BY <1>2, <3>1
  <2>2. CASE y # x
    BY <1>2, <2>2 DEF Written
  <2> QED BY <2>1, <2>2
<1>5. ASSUME NEW i \in 1 .. Len(s), s[i][1] = h PROVE s[i][2] # 0
  <2>1. Len(o) + i \in 1 .. Len(out'[x]) /\ out'[x][Len(o) + i] = s[i]
    BY <1>3
  <2> HIDE DEF o
  <2> QED BY <1>2, <1>5, <2>1
<1> QED BY <1>4, <1>5

LEMMA StepCovered ==
    ASSUME RelayInv, RelayInv', [Next]_vars, NEW h, NEW x, NEW s, NEW V, Stepping(h, x, s, V),
           Covered(h)
    PROVE  Covered(h)'
<1>0. /\ TypeInv /\ TypeInv' /\ x \in Handle /\ h \in Handle /\ Written(x, s)
      /\ Waits(h, V) /\ Splits(h, x, s, V) /\ rd[h] \in Nat /\ rd'[h] \in Nat
      /\ s \in Seq(Handle \X Nat)
      /\ \A z \in Handle : brk[z] => brk'[z]
  <2>1. TypeInv /\ TypeInv' /\ ErrInv /\ \A z \in Handle : BufOK(z)
    BY DEF RelayInv, BoundsInv
  <2>2. \A z \in Handle : brk[z] => brk'[z]
    BY <2>1, NextErrInv
  <2> QED BY <2>1, <2>2 DEF Stepping, Written, TypeInv, GhostTypeOK
<1>1. ASSUME \A to \in Opposite(h) : ~brk'[to], 0 \notin Delivered(h)', NEW c \in 1 .. rd'[h]
      PROVE  c \in lost'[h] \/ c \in Unwritten(h)' \/ \E y \in Handle : c \in Got(out'[y], h)
  <2>1. \A to \in Opposite(h) : ~brk[to]
    BY <1>0, <1>1, HandleKinds
  <2>2. 0 \notin Delivered(h) /\ \A i \in 1 .. Len(s) : s[i][1] = h => s[i][2] # 0
    BY <1>0, <1>1, ZeroNext
  <2>3. ~Broken(h)
    BY <1>0, <2>1, HandleKinds DEF Broken, TypeInv, LinkInv, LinksConsistent
  <2>4. c \in lost'[h] \/ c \in V \/ \E y \in Handle : c \in Got(out[y], h)
    <3>1. CASE c > rd[h]
      <4>1. c \in rd[h] + 1 .. rd'[h]
        BY <1>0, <1>1, <3>1
      <4> QED BY <1>0, <4>1 DEF Waits
    <3>2. CASE ~(c > rd[h])
      <4>1. c \in 1 .. rd[h]
        BY <1>0, <1>1, <3>2
      <4>2. c \in lost[h] \/ c \in Unwritten(h) \/ \E y \in Handle : c \in Got(out[y], h)
        BY <2>1, <2>2, <4>1 DEF Covered
      <4> QED BY <1>0, <2>3, <4>2 DEF Waits
    <3> QED BY <3>1, <3>2
  <2>5. CASE \E y \in Handle : c \in Got(out[y], h)
    <3>1. PICK y \in Handle : c \in Got(out[y], h)
      BY <2>5
    <3>2. Got(out'[y], h) = IF y = x THEN Got(out[y], h) \cup Got(s, h) ELSE Got(out[y], h)
      BY <1>0, GotNext, Zenon
    <3>3. c \in Got(out'[y], h)
      BY <3>1, <3>2
    <3> QED BY <3>3
  <2>6. CASE c \in V
    <3>1. CASE Unwritten(h)' = V
      BY <2>6, <3>1
    <3>2. ASSUME NEW w, TakesFirst(h, x, s, V, w)
          PROVE  c \in Unwritten(h)' \/ \E y \in Handle : c \in Got(out'[y], h)
      <4>1. CASE \E i \in 1 .. Len(s) : c = w[i]
        <5>1. PICK i \in 1 .. Len(s) : c = w[i]
          BY <4>1
        <5>2. s[i][1] = h /\ s[i][2] = c
          BY <2>2, <3>2, <5>1 DEF TakesFirst
        <5>3. c \in Nat \ {0}
          BY <1>0, <1>1
        <5>4. c \in Got(s, h)
          BY <5>2, <5>3 DEF Got
        <5>5. Got(out'[x], h) = Got(out[x], h) \cup Got(s, h)
          <6>1. Got(out'[x], h) = IF x = x THEN Got(out[x], h) \cup Got(s, h) ELSE Got(out[x], h)
            BY <1>0, GotNext, Zenon
          <6> QED BY <6>1
        <5> QED BY <1>0, <5>4, <5>5
      <4>2. CASE c \in Unwritten(h)'
        BY <4>2
      <4> QED BY <2>6, <3>2, <4>1, <4>2 DEF TakesFirst
    <3> QED BY <1>0, <3>1, <3>2 DEF Splits
  <2> QED BY <2>4, <2>5, <2>6
<1> QED BY <1>1 DEF Covered, Got

Joins(o, s, h, l) ==
    \A i \in 1 .. Len(o), j \in 1 .. Len(s) :
        o[i][1] = h /\ s[j][1] = h /\ o[i][2] # 0 /\ s[j][2] # 0 =>
            /\ o[i][2] < s[j][2]
            /\ i = Len(o) /\ j = 1 /\ l = {} => s[j][2] = o[i][2] + 1

LEMMA InOrderJoin ==
    ASSUME NEW o \in Seq(Handle \X Nat), NEW s \in Seq(Handle \X Nat), NEW h, NEW k, NEW l,
           k \subseteq l, InOrder(o, h, k), InOrder(s, h, l), Joins(o, s, h, l)
    PROVE  InOrder(o \o s, h, l)
<1> SUFFICES ASSUME NEW t, t = o \o s PROVE InOrder(t, h, l)
  OBVIOUS
<1>1. /\ Len(t) = Len(o) + Len(s) /\ Len(o) \in Nat /\ Len(s) \in Nat
      /\ \A i \in 1 .. Len(o) : t[i] = o[i]
      /\ \A i \in 1 .. Len(o) + Len(s) : i > Len(o) =>
           i - Len(o) \in 1 .. Len(s) /\ t[i] = s[i - Len(o)]
  BY PairsJoin
<1> SUFFICES ASSUME NEW i \in 1 .. Len(t), NEW j \in 1 .. Len(t),
                    t[i][1] = h, t[j][1] = h, i < j, t[i][2] # 0, t[j][2] # 0
             PROVE  /\ t[i][2] < t[j][2]
                    /\ j = i + 1 /\ l = {} => t[j][2] = t[i][2] + 1
  BY DEF InOrder
<1>2. CASE j <= Len(o)
  <2>1. i \in 1 .. Len(o) /\ j \in 1 .. Len(o) /\ t[i] = o[i] /\ t[j] = o[j]
    BY <1>1, <1>2
  <2> QED BY <2>1 DEF InOrder
<1>3. CASE i > Len(o)
  <2>1. i - Len(o) \in 1 .. Len(s) /\ t[i] = s[i - Len(o)]
    BY <1>1, <1>3
  <2>2. j - Len(o) \in 1 .. Len(s) /\ t[j] = s[j - Len(o)]
    BY <1>1, <1>3
  <2>3. i - Len(o) < j - Len(o) /\ (j = i + 1 => j - Len(o) = (i - Len(o)) + 1)
    BY <1>1
  <2> QED BY <2>1, <2>2, <2>3 DEF InOrder
<1>4. CASE i <= Len(o) /\ j > Len(o)
  <2>1. i \in 1 .. Len(o) /\ t[i] = o[i]
    BY <1>1, <1>4
  <2>2. j - Len(o) \in 1 .. Len(s) /\ t[j] = s[j - Len(o)]
    BY <1>1, <1>4
  <2>3. j = i + 1 => i = Len(o) /\ j - Len(o) = 1
    BY <1>1, <1>4
  <2> QED BY <2>1, <2>2, <2>3 DEF Joins
<1>5. j <= Len(o) \/ i > Len(o) \/ (i <= Len(o) /\ j > Len(o))
  <2>1. i \in Int /\ j \in Int /\ Len(o) \in Nat
    BY <1>1
  <2> QED BY <2>1
<1> QED BY <1>2, <1>3, <1>4, <1>5, Zenon

(* The first byte a step takes follows the last one its target got.         *)
LEMMA TakesNext ==
    ASSUME RelayInv, RelayInv', [Next]_vars, NEW h, NEW x, NEW s, NEW V, Stepping(h, x, s, V),
           Sent(h), Follows(h), NEW w, TakesFirst(h, x, s, V, w), lost'[h] = {},
           NEW c \in Nat, LastIs(out[x], h, c)
    PROVE  w[1] = c + 1
<1>0. /\ TypeInv /\ x \in Handle /\ h \in Handle /\ KeptNext(h) /\ rd'[h] \in Nat
      /\ out[x] \in Seq(Handle \X Nat)
  BY DEF RelayInv, TypeInv, WriteTypeOK, GhostTypeOK, Stepping
<1>1. ~brk[x] /\ Mine(MsNext[x], h) # {} /\ Len(s) # 0
  BY DEF TakesFirst
<1>2. TargetNext(h, x)
  <2>1. AtMostOne(MsNext, h)
    BY <1>0, KeptFacts
  <2> QED BY <1>0, <1>1, <2>1 DEF AtMostOne, TargetNext
<1>3. Len(out[x]) \in 1 .. Len(out[x]) /\ out[x][Len(out[x])][1] = h
      /\ out[x][Len(out[x])][2] = c /\ c # 0
  BY <1>0 DEF LastIs
<1>4. h \in Src(x)
  BY <1>0, <1>3, LastInSrc
<1>5. Target(h, x) /\ ~Broken(h)
  BY <1>0, <1>1, <1>2, <1>4, TargetHolds
<1>6. \A d \in c + 1 .. rd'[h] : d \in V
  BY <1>0, <1>1, <1>5, FollowsAll
<1>7. 1 \in 1 .. Len(s)
  <2>1. s \in Seq(Handle \X Nat)
    BY DEF Stepping, Written
  <2> QED BY <1>1, <2>1
<1>8. w[1] \in 1 .. rd'[h] /\ w[1] \in V /\ (\A u \in Unwritten(h)' : w[1] < u)
      /\ \A m \in 1 .. Len(s) : 1 < m => w[1] < w[m]
  BY <1>7 DEF TakesFirst
<1>9. c < w[1]
  <2>1. c \in Got(out[x], h)
    BY <1>3 DEF Got
  <2>2. \A u \in V : c < u
    BY <1>0, <2>1, NothingLater
  <2> QED BY <1>8, <2>2
<1>10. c + 1 \in V
  <2>1. c + 1 \in c + 1 .. rd'[h]
    BY <1>0, <1>8, <1>9
  <2> QED BY <1>6, <2>1
<1>11. (\E i \in 1 .. Len(s) : c + 1 = w[i]) \/ c + 1 \in Unwritten(h)'
  BY <1>10 DEF TakesFirst
<1>12. CASE c + 1 \in Unwritten(h)'
  <2>1. w[1] < c + 1
    BY <1>8, <1>12
  <2> QED BY <1>0, <1>8, <1>9, <2>1
<1>13. CASE \E i \in 1 .. Len(s) : c + 1 = w[i]
  <2>1. PICK i \in 1 .. Len(s) : c + 1 = w[i]
    BY <1>13
  <2>2. i = 1 \/ 1 < i
    OBVIOUS
  <2>3. CASE 1 < i
    <3>1. w[1] < c + 1
      BY <1>8, <2>1, <2>3
    <3> QED BY <1>0, <1>8, <1>9, <3>1
  <2> QED BY <2>1, <2>2, <2>3
<1> QED BY <1>11, <1>12, <1>13

LEMMA StepInOrder ==
    ASSUME RelayInv, RelayInv', [Next]_vars, NEW h, NEW x, NEW s, NEW V, Stepping(h, x, s, V),
           Sent(h), Follows(h)
    PROVE  InOrder(s, h, lost'[h]) /\ Joins(out[x], s, h, lost'[h])
<1>0. /\ Splits(h, x, s, V) /\ x \in Handle /\ s \in Seq(Handle \X Nat)
      /\ out[x] \in Seq(Handle \X Nat)
  BY DEF Stepping, Written, RelayInv, TypeInv, WriteTypeOK
<1>1. CASE \A i \in 1 .. Len(s) : s[i][1] # h
  BY <1>1 DEF InOrder, Joins
<1>2. ASSUME NEW w, TakesFirst(h, x, s, V, w)
      PROVE  InOrder(s, h, lost'[h]) /\ Joins(out[x], s, h, lost'[h])
  <2>1. \A i \in 1 .. Len(s) : s[i][2] # 0 => s[i][2] = w[i]
    BY <1>2 DEF TakesFirst
  <2>2. InOrder(s, h, lost'[h])
    BY <1>2, <2>1 DEF TakesFirst, InOrder
  <2>3. ASSUME NEW i \in 1 .. Len(out[x]), NEW j \in 1 .. Len(s),
               out[x][i][1] = h, out[x][i][2] # 0, s[j][2] # 0
        PROVE  /\ out[x][i][2] < s[j][2]
               /\ i = Len(out[x]) /\ j = 1 /\ lost'[h] = {} => s[j][2] = out[x][i][2] + 1
    <3>1. out[x][i][2] \in Nat
      BY <1>0
    <3> DEFINE c == out[x][i][2]
    <3>2. c \in Got(out[x], h)
      BY <2>3, <3>1 DEF Got
    <3>3. w[j] \in V /\ s[j][2] = w[j]
      BY <1>2, <2>1, <2>3 DEF TakesFirst
    <3>4. \A u \in V : c < u
      <4> HIDE DEF c
      <4> QED BY <1>0, <3>2, NothingLater
    <3>5. ASSUME i = Len(out[x]), j = 1, lost'[h] = {} PROVE s[j][2] = c + 1
      <4>1. LastIs(out[x], h, c)
        BY <2>3, <3>5 DEF LastIs
      <4> HIDE DEF c
      <4>2. c \in Nat
        BY <3>1 DEF c
      <4>3. w[1] = c + 1
        BY <1>2, <3>5, <4>1, <4>2, TakesNext
      <4> QED BY <3>3, <3>5, <4>3
    <3> QED BY <3>3, <3>4, <3>5
  <2>4. Joins(out[x], s, h, lost'[h])
    BY <2>3 DEF Joins
  <2> QED BY <2>2, <2>4
<1> QED BY <1>0, <1>1, <1>2 DEF Splits

LEMMA LostGrows ==
    ASSUME RelayInv, [Next]_vars, NEW h \in Handle PROVE lost[h] \subseteq lost'[h]
<1>1. TypeInv /\ \A x \in Handle : BufOK(x)
  BY DEF RelayInv, BoundsInv
<1>2. BytesStep(h)
  BY <1>1, NextBytes
<1> QED BY <1>2 DEF BytesStep, Appended

(* What a step gives to a stream keeps the order of the bytes of h.         *)
LEMMA NextInOrder ==
    ASSUME RelayInv, RelayInv', OrderInv, [Next]_vars, NEW x \in Handle, NEW s, Pieces(x, s),
           NEW h \in Handle, h \notin miscredit'
    PROVE  InOrder(s, h, lost'[h]) /\ Joins(out[x], s, h, lost'[h])
<1>1. Written(x, s)
  BY DEF Pieces
<1>2. CASE EndedNext(h)
  <2>1. gen'[h] = 0
    <3>1. LiveWhileOpen'
      BY DEF RelayInv, TypeInv, LinkInv
    <3> QED BY <1>2, <3>1 DEF LiveWhileOpen, Live, EndedNext
  <2>2. \A i \in 1 .. Len(s) : s[i][1] = h => s[i][2] = 0
    BY <1>1, <2>1 DEF Written
  <2> QED BY <2>2 DEF InOrder, Joins
<1>3. CASE ~EndedNext(h)
  <2>1. KeptNext(h)
    BY <1>3 DEF KeptNext
  <2>2. Kept(h)
    BY <2>1, KeptFacts DEF Kept
  <2>3. Sent(h) /\ Follows(h)
    BY <2>2 DEF OrderInv
  <2>4. Piece(h, x, s)
    BY <2>1 DEF Pieces
  <2>5. PICK V : Waits(h, V) /\ Splits(h, x, s, V)
    BY <2>4, PieceSplits
  <2>6. Stepping(h, x, s, V)
    BY <1>1, <2>1, <2>5 DEF Stepping
  <2> QED BY <2>3, <2>6, StepInOrder
<1> QED BY <1>2, <1>3

LEMMA NextOrderInv == ASSUME RelayInv, RelayInv', OrderInv, [Next]_vars PROVE OrderInv'
<1>1. CASE Handle = {}
  BY <1>1 DEF OrderInv
<1>2. ASSUME NEW g \in Handle PROVE OrderInv'
  <2>1. PICK x \in Handle : \E s : Pieces(x, s)
    BY NextPieces
  <2>2. PICK s : Pieces(x, s)
    BY <2>1
  <2>3. Written(x, s)
    BY <2>2 DEF Pieces
  <2>4. ASSUME NEW h \in Handle, Kept(h)' PROVE Sent(h)' /\ Follows(h)' /\ Covered(h)'
    <3>1. KeptNext(h)
      BY <2>4 DEF Kept, KeptNext, Ended, EndedNext
    <3>2. Kept(h)
      BY <3>1, KeptFacts DEF Kept
    <3>3. Sent(h) /\ Follows(h) /\ Covered(h)
      BY <3>2 DEF OrderInv
    <3>4. Piece(h, x, s)
      BY <2>2, <3>1 DEF Pieces
    <3>5. PICK V : Waits(h, V) /\ Splits(h, x, s, V)
      BY <3>4, PieceSplits
    <3>6. Stepping(h, x, s, V)
      BY <2>3, <3>1, <3>5 DEF Stepping
    <3>7. Sent(h)'
      BY <3>3, <3>6, StepSent
    <3>8. Follows(h)'
      BY <3>3, <3>6, StepFollows
    <3>9. Covered(h)'
      BY <3>3, <3>6, StepCovered
    <3> QED BY <3>7, <3>8, <3>9
  <2>5. ASSUME NEW h \in Handle, h \notin miscredit', NEW y \in Handle
        PROVE  InOrder(out'[y], h, lost'[h])
    <3>1. MiscreditStays
      BY NextMiscredit
    <3>2. InOrder(out[y], h, lost[h])
      BY <2>5, <3>1 DEF OrderInv, MiscreditStays
    <3>3. lost[h] \subseteq lost'[h]
      BY LostGrows
    <3>4. CASE y # x
      <4>1. out'[y] = out[y]
        BY <2>3, <3>4 DEF Written
      <4> QED BY <3>2, <3>3, <4>1 DEF InOrder
    <3>5. CASE y = x
      <4>1. InOrder(s, h, lost'[h]) /\ Joins(out[x], s, h, lost'[h])
        BY <2>2, <2>5, NextInOrder
      <4>2. out'[x] = out[x] \o s /\ s \in Seq(Handle \X Nat) /\ out[x] \in Seq(Handle \X Nat)
        BY <2>3 DEF Written, RelayInv, TypeInv, WriteTypeOK
      <4>3. SUFFICES ASSUME NEW o, o = out[x], NEW k, k = lost[h], NEW l, l = lost'[h]
                     PROVE  InOrder(o \o s, h, l)
        BY <3>5, <4>2
      <4>4. /\ o \in Seq(Handle \X Nat) /\ k \subseteq l /\ InOrder(o, h, k)
            /\ InOrder(s, h, l) /\ Joins(o, s, h, l)
        BY <3>2, <3>3, <3>5, <4>1, <4>2, <4>3
      <4> QED BY <4>2, <4>4, InOrderJoin
    <3> QED BY <3>4, <3>5
  <2>6. \A h \in Handle : Kept(h)' => Sent(h)' /\ Follows(h)' /\ Covered(h)'
    BY <2>4
  <2>7. \A h \in Handle \ miscredit' : \A y \in Handle : InOrder(out'[y], h, lost'[h])
    BY <2>5
  <2> HIDE DEF InOrder
  <2> QED BY <2>6, <2>7 DEF OrderInv, InOrder
<1> QED BY <1>1, <1>2

-----------------------------------------------------------------------------

LEMMA OrderFromInv == ASSUME TypeInv, OrderInv PROVE OrderKept
<1> SUFFICES ASSUME NEW to \in Handle, NEW i \in DOMAIN out[to], NEW j \in DOMAIN out[to],
                    out[to][i][1] = out[to][j][1], out[to][i][1] \notin miscredit, i < j,
                    out[to][i][2] # 0, out[to][j][2] # 0
             PROVE  /\ out[to][i][2] < out[to][j][2]
                    /\ j = i + 1 /\ lost[out[to][i][1]] = {} => out[to][j][2] = out[to][i][2] + 1
  BY DEF OrderKept
<1>1. out[to] \in Seq(Handle \X Nat)
  BY DEF TypeInv, WriteTypeOK
<1>2. i \in 1 .. Len(out[to]) /\ j \in 1 .. Len(out[to])
  BY <1>1
<1> DEFINE h == out[to][i][1]
<1>3. h \in Handle \ miscredit
  BY <1>1, <1>2
<1>4. InOrder(out[to], h, lost[h])
  <2> HIDE DEF h
  <2> QED BY <1>3 DEF OrderInv
<1> QED BY <1>2, <1>4 DEF InOrder

LEMMA AccountedFromInv == ASSUME RelayInv, OrderInv PROVE BytesAccounted
<1> SUFFICES ASSUME NEW h \in Handle, Live(h), h \notin miscredit, ~MovedWhileQueued(h),
                    \A to \in Opposite(h) : ~brk[to]
             PROVE  /\ Delivered(h) \cup Unwritten(h) \cup lost[h] = 1 .. rd[h]
                    /\ Delivered(h) \cap Unwritten(h) = {}
                    /\ (Delivered(h) \cup Unwritten(h)) \cap lost[h] = {}
  BY DEF BytesAccounted
<1>0. /\ TypeInv /\ BoundsInv /\ WriteInv /\ LinkInv /\ rd[h] \in Nat
      /\ out \in [Handle -> Seq(Handle \X Nat)]
      /\ last[h] \in Nat /\ size[h] \in Nat /\ last[h] <= size[h]
  BY DEF RelayInv, TypeInv, WriteTypeOK, GhostTypeOK, DataTypeOK, Offsets
<1>1. ~Ended(h)
  BY <1>0 DEF LinkInv, LiveWhileOpen, Ended
<1>2. Sent(h) /\ Covered(h)
  BY <1>1 DEF OrderInv, Kept
<1>3. 0 \notin Delivered(h)
  BY DEF MovedWhileQueued
<1>4. ASSUME NEW c PROVE c \in Delivered(h) <=> \E x \in Handle : c \in Got(out[x], h)
  <2>1. Delivered(h) = SentBy(out, h)
    BY DEF Delivered, SentBy
  <2>2. c \in SentBy(out, h) <=> GotAt(out, h, c)
    BY <1>0, SentByIs
  <2>3. \A x \in Handle : \A i \in 1 .. Len(out[x]) : out[x][i][2] \in Nat
    BY <1>0
  <2>4. c \in Delivered(h) => c # 0
    BY <1>3
  <2> QED BY <2>1, <2>2, <2>3, <2>4 DEF GotAt, Got
<1>5. ASSUME NEW u \in Unwritten(h) PROVE u \in 1 .. rd[h] /\ u \notin lost[h]
  <2>1. PICK a : FrontOf(Held(h), last[h], a)
    BY <1>0, <1>1, FrontExists
  <2>2. a \in 0 .. last[h] /\ Unwritten(h) = BytesOn(mem[h], a, size[h])
    BY <1>0, <2>1, UnwrittenIs
  <2>3. PICK i \in a + 1 .. size[h] : u = mem[h][i]
    BY <1>5, <2>2 DEF BytesOn
  <2>4. i \in 1 .. size[h]
    BY <1>0, <2>2
  <2> QED BY <2>3, <2>4 DEF RelayInv, MemInv, MemOK
<1>6. ASSUME NEW c \in Delivered(h)
      PROVE  c \in 1 .. rd[h] /\ c \notin lost[h] /\ c \notin Unwritten(h)
  <2>1. PICK x \in Handle : c \in Got(out[x], h)
    BY <1>4
  <2>2. c \in Nat \ {0} /\ c <= rd[h] /\ c \notin lost[h] /\ \A u \in Unwritten(h) : c < u
    BY <1>2, <2>1 DEF Sent, Got
  <2> QED BY <1>0, <2>2
<1>7. lost[h] \subseteq 1 .. rd[h]
  BY DEF RelayInv, MemInv, MemOK
<1>8. \A c \in 1 .. rd[h] : c \in lost[h] \/ c \in Unwritten(h) \/ c \in Delivered(h)
  BY <1>2, <1>3, <1>4 DEF Covered
<1> QED BY <1>5, <1>6, <1>7, <1>8

StreamInv == RelayInv /\ OrderInv

LEMMA StreamInvAlways == Spec => []StreamInv
<1>1. Init => StreamInv
  BY InitRelayInv, InitOrderInv DEF StreamInv
<1>2. StreamInv /\ [Next]_vars => StreamInv'
  BY NextRelayInv, NextOrderInv DEF StreamInv
<1> QED BY <1>1, <1>2, PTL DEF Spec

(* The bytes a stream gets of a connection that is credited with its own    *)
(* writes only are in the order they were read, none twice, and without a   *)
(* hole while none was refused: what follows in the buffer is sent only     *)
(* after a transfer ended (proxy.c:403, 507).  Nothing is said of bytes     *)
(* that come from a buffer that was moved or freed.                         *)
THEOREM OrderSafe == Spec => []OrderKept
<1>1. StreamInv => OrderKept
  BY OrderFromInv DEF StreamInv, RelayInv
<1> QED BY <1>1, StreamInvAlways, PTL

(* Every byte read from a connection that is still there, and is credited   *)
(* with its own writes only, was written, waits to be, or was refused, and  *)
(* only one of these, while its buffer did not move under a queued write    *)
(* and no write to the other side failed (proxy.c:403, 272-285).            *)
THEOREM AccountedSafe == Spec => []BytesAccounted
<1>1. StreamInv => BytesAccounted
  BY AccountedFromInv DEF StreamInv
<1> QED BY <1>1, StreamInvAlways, PTL

-----------------------------------------------------------------------------
(* What a miscredit has to do with.                                         *)

(* Nothing is handed to an upstream before it is connected, and its client  *)
(* has something for it, or something that was refused.                     *)
ConnectOK(u) ==
    /\ hs[u] \in {"unused", "connecting"} => wq[u] = <<>> /\ wdone[u] = <<>>
    /\ hs[u] = "connecting" /\ peer[u] # None =>
         lost[peer[u]] # {} \/ last[peer[u]] < size[peer[u]]

(* The requests in S that are of nothing are of streams of which bytes were *)
(* refused.                                                                 *)
NoneEmpty(S, l) == \A r \in S : r.len = 0 => l[r.src] # {}

EmptyInv == \A x \in Handle : NoneEmpty(Range(wq[x]) \cup Range(wdone[x]), lost)

MiscreditInv ==
    /\ \A u \in Up : ConnectOK(u)
    /\ EmptyInv
    /\ \A h \in miscredit : hs[h] # "unused"
    /\ MiscreditExplained

LEMMA InitMiscreditInv == Init => MiscreditInv
<1> SUFFICES ASSUME Init PROVE MiscreditInv
  OBVIOUS
<1>1. /\ \A x \in Handle : wq[x] = <<>> /\ wdone[x] = <<>> /\ hs[x] = "unused"
      /\ miscredit = {}
  BY DEF Init, UvInit
<1>2. \A x : Range(<<>>) = {}
  BY DEF Range
<1>3. \A u \in Up : ConnectOK(u)
  BY <1>1, HandleKinds DEF ConnectOK
<1>4. EmptyInv
  BY <1>1, <1>2 DEF EmptyInv, NoneEmpty
<1> QED BY <1>1, <1>3, <1>4 DEF MiscreditInv, MiscreditExplained

(* A step that changes the queues of a stream found something in them, or   *)
(* is a transfer to it.                                                     *)
LEMMA EmptyQueues ==
    ASSUME TypeInv, TypeInv', \A x \in Handle : BufOK(x), [Next]_vars,
           NEW u \in Up, wq[u] = <<>>, wdone[u] = <<>>,
           hs'[u] \in {"unused", "connecting"}
    PROVE  wq'[u] = <<>> /\ wdone'[u] = <<>>
<1>0. /\ WriteTypeOK /\ LinkTypeOK /\ u \in Handle /\ HsStep(u)
      /\ hs[u] \in {"unused", "connecting"}
  <2>1. WriteTypeOK /\ LinkTypeOK /\ u \in Handle /\ HsStep(u)
    BY StatesStep, HandleKinds DEF TypeInv, LinkInv, StepOf
  <2> QED BY <2>1 DEF HsStep
<1>1. ASSUME NEW h \in Handle, NEW q \in Seq(WriteReq), q # <<>>, NEW done \in Seq(WriteReq),
             Wrote(h, q, done, gen', mem'), h # u
      PROVE  wq'[u] = <<>> /\ wdone'[u] = <<>>
  <2>1. PICK k \in 0 .. Head(q).len : WroteBytes(h, q, done, gen', mem', k)
    BY <1>1 DEF Wrote
  <2>2. wq'[u] = wq[u] /\ wdone'[u] = wdone[u]
    BY <1>0, <1>1, <2>1, WroteRanges
  <2> QED BY <2>2
<1>2. ASSUME NEW to \in Handle, to # u, NEW from \in Handle, gen'[from] # 0,
             NEW done \in Seq(WriteReq), Transfer(from, to, wq[to], done)
      PROVE  wq'[u] = <<>> /\ wdone'[u] = <<>>
  <2> DEFINE r == Unsent(from)
             q == wq[to]
  <2>1. q \in Seq(WriteReq)
    BY <1>0 DEF WriteTypeOK
  <2>2. /\ Append(q, r) \in Seq(WriteReq) /\ Append(q, r) # <<>>
        /\ Wrote(to, Append(q, r), done, gen', mem')
    BY <1>0, <1>2, <2>1, TransferWrote
  <2> QED BY <1>1, <1>2, <2>2
<1>3. CASE QuietStep
  BY <1>3 DEF QuietStep
<1>4. ASSUME NEW x \in Handle, CancelStep(x) PROVE wq'[u] = <<>> /\ wdone'[u] = <<>>
  <2>1. /\ hs[x] = "closing" /\ wq' = [wq EXCEPT ![x] = <<>>]
        /\ wdone' = [wdone EXCEPT ![x] = wdone[x] \o Cancelled(wq[x])]
    BY <1>4 DEF CancelStep, FinishClose
  <2> DEFINE d == wdone[x] \o Cancelled(wq[x])
  <2>2. wdone' = [wdone EXCEPT ![x] = d] /\ u # x
    BY <1>0, <2>1
  <2> HIDE DEF d
  <2> QED BY <1>0, <2>1, <2>2 DEF WriteTypeOK
<1>5. ASSUME NEW x \in Handle, FlushStep(x) PROVE wq'[u] = <<>> /\ wdone'[u] = <<>>
  <2>1. /\ wq[x] \in Seq(WriteReq) /\ wdone[x] \in Seq(WriteReq) /\ wq[x] # <<>>
        /\ Wrote(x, wq[x], wdone[x], gen', mem') /\ x # u
    BY <1>0, <1>5 DEF FlushStep, WriteTypeOK
  <2> QED BY <1>1, <2>1
<1>6. ASSUME NEW from \in Handle, NEW to \in Handle, SendStep(from, to)
      PROVE  wq'[u] = <<>> /\ wdone'[u] = <<>>
  <2>1. /\ gen'[from] # 0 /\ Transfer(from, to, wq[to], wdone[to])
        /\ (to \in Up => hs'[to] = "open") /\ wdone[to] \in Seq(WriteReq)
    BY <1>0, <1>6 DEF SendStep, WriteTypeOK
  <2>2. to # u
    BY <2>1
  <2> QED BY <1>2, <2>1, <2>2
<1>7. ASSUME NEW to \in Handle, AfterWrite(to) PROVE wq'[u] = <<>> /\ wdone'[u] = <<>>
  <2>1. /\ peer[to] \in Handle /\ Live(peer[to]) /\ wdone[to] # <<>> /\ gen' = gen
        /\ SendsMore(peer[to], to) \/ Restarts(peer[to], to)
    BY <1>7, AfterWriteCases
  <2>2. to # u /\ wdone[to] \in Seq(WriteReq)
    BY <1>0, <2>1 DEF WriteTypeOK
  <2>3. Tail(wdone[to]) \in Seq(WriteReq)
    BY <2>1, <2>2, RangeHead
  <2>4. CASE SendsMore(peer[to], to)
    <3>1. gen'[peer[to]] # 0 /\ Transfer(peer[to], to, wq[to], Tail(wdone[to]))
      BY <2>1, <2>4 DEF SendsMore, Live
    <3> QED BY <1>2, <2>1, <2>2, <2>3, <3>1
  <2>5. CASE Restarts(peer[to], to)
    BY <1>0, <2>2, <2>5 DEF Restarts, WriteTypeOK
  <2> QED BY <2>1, <2>4, <2>5
<1> QED BY <1>3, <1>4, <1>5, <1>6, <1>7, NextKind

(* An upstream begins to connect when its client has brought something.     *)
LEMMA NewConnect ==
    ASSUME TypeInv, \A x \in Handle : BufOK(x), [Next]_vars, NEW u \in Up,
           hs[u] = "unused", hs'[u] # "unused"
    PROVE  peer'[u] \in Down /\ (lost'[peer'[u]] # {} \/ last'[peer'[u]] < size'[peer'[u]])
<1>0. /\ LinkInv /\ LinkTypeOK /\ u \in Handle /\ DataTypeOK /\ Offsets
      /\ hs \in [Handle -> HandleState]
  BY HandleKinds DEF TypeInv, LinkInv, LinkTypeOK
<1>1. ASSUME NEW d \in Down, NEW v \in Up, InitUpstream(d, v)
      PROVE  peer'[u] \in Down /\ (lost'[peer'[u]] # {} \/ last'[peer'[u]] < size'[peer'[u]])
  <2>1. PICK s : hs' = [hs EXCEPT ![v] = s]
    BY <1>1 DEF InitUpstream
  <2>2. /\ u = v /\ d \in Handle /\ d # u /\ HasBuf(d) /\ BufOK(d) /\ last' = last
        /\ peer' = [peer EXCEPT ![d] = v, ![v] = d]
    BY <1>0, <1>1, <2>1, HandleKinds DEF InitUpstream, Link
  <2>3. PICK n \in Arriving(d), c \in NewCapacity :
          RtsBufAppend(d, n, [cap EXCEPT ![v] = c], [gen EXCEPT ![v] = 1])
    BY <1>1 DEF InitUpstream
  <2>4. Appended(d, n)
    BY <2>2, <2>3, AppendGrows
  <2>5. peer'[u] = d
    BY <1>0, <2>2 DEF LinkTypeOK
  <2>6. lost'[d] # {} \/ last'[d] < size'[d]
    <3>1. last[d] \in Nat /\ size[d] \in Nat /\ last[d] <= size[d]
      BY <1>0, <2>2 DEF DataTypeOK, Offsets
    <3>2. n \in Nat \ {0}
      BY <2>4 DEF Appended
    <3>3. CASE size'[d] = size[d] + n
      BY <2>2, <3>1, <3>2, <3>3
    <3>4. CASE lost'[d] = lost[d] \cup {rd[d] + i : i \in 1 .. n}
      <4>1. 1 \in 1 .. n
        BY <3>2
      <4> QED BY <3>4, <4>1
    <3> QED BY <2>4, <3>3, <3>4 DEF Appended
  <2> QED BY <2>5, <2>6
<1>2. CASE hs'[u] = hs[u]
  BY <1>2
<1>3. ASSUME NEW d \in Down, Accept(d) PROVE hs'[u] = hs[u]
  BY <1>0, <1>3, HandleKinds DEF Accept
<1>4. ASSUME NEW x \in Handle, UvClose(x), hs[x] = "open" PROVE hs'[u] = hs[u]
  BY <1>0, <1>4 DEF UvClose
<1>5. ASSUME NEW d \in Down, InitUpstreamFails(d) PROVE hs'[u] = hs[u]
  BY <1>0, <1>4, <1>5, ReadStageOpen, HandleKinds DEF InitUpstreamFails
<1>6. ASSUME NEW v \in Up, Connected(v) PROVE hs'[u] = hs[u]
  BY <1>0, <1>6 DEF Connected
<1>7. ASSUME NEW x \in Handle, ReadEnd(x) PROVE hs'[u] = hs[u]
  <2>1. hs[x] = "open"
    BY <1>0, <1>7, ReadStageOpen DEF ReadEnd
  <2> QED BY <1>4, <1>7, <2>1 DEF ReadEnd, Crash, streamVars
<1>8. ASSUME NEW x \in Handle,
             ConnectFaults(x) \/ ReadRelayed(x) \/ ReadAgain(x) \/ AfterWrite(x)
               \/ AfterWriteFaults(x) \/ ReadDataFaults(x)
      PROVE  hs'[u] = hs[u]
  BY <1>8 DEF ConnectFaults, ReadRelayed, ReadAgain, AfterWrite, AfterWriteFaults,
              ReadDataFaults, Crash, streamVars
<1>9. CASE UvNext /\ UNCHANGED <<connVars, bufVars, ghostVars>>
  BY <1>0, <1>2, <1>9, UvHsStep DEF UvHs
<1>10. CASE UNCHANGED vars
  BY <1>2, <1>10 DEF vars, uvVars
<1> QED BY <1>1, <1>2, <1>3, <1>5, <1>6, <1>7, <1>8, <1>9, <1>10, HandleKinds DEF Next, Callback

LEMMA GrownKeeps ==
    ASSUME TypeInv, NEW d \in Handle, last'[d] = last[d], Grown(d),
           lost[d] # {} \/ last[d] < size[d]
    PROVE  lost'[d] # {} \/ last'[d] < size'[d]
<1>0. last[d] \in Nat /\ size[d] \in Nat
  BY DEF TypeInv, DataTypeOK
<1>1. CASE Same(d)
  BY <1>1 DEF Same
<1>2. ASSUME NEW n, Appended(d, n) PROVE lost'[d] # {} \/ last'[d] < size'[d]
  <2>1. n \in Nat \ {0}
    BY <1>2 DEF Appended
  <2>2. CASE size'[d] = size[d] + n /\ lost'[d] = lost[d]
    BY <1>0, <2>1, <2>2
  <2>3. CASE size'[d] = size[d] /\ lost'[d] = lost[d] \cup {rd[d] + i : i \in 1 .. n}
    BY <2>3
  <2> QED BY <1>2, <2>2, <2>3 DEF Appended
<1> QED BY <1>1, <1>2 DEF Grown

LEMMA NextConnectOK ==
    ASSUME RelayInv, RelayInv', [Next]_vars, NEW u \in Up, ConnectOK(u) PROVE ConnectOK(u)'
<1>0. /\ TypeInv /\ TypeInv' /\ LinkInv /\ LinkTypeOK /\ LinkTypeOK' /\ LinksConsistent
      /\ LinksConsistent' /\ u \in Handle /\ None \notin Handle
      /\ (\A x \in Handle : BufOK(x)) /\ HsStep(u) /\ PeerStep(u) /\ DataTypeOK
  <2>1. TypeInv /\ TypeInv' /\ LinkInv /\ LinkInv' /\ \A x \in Handle : BufOK(x)
    BY DEF RelayInv, TypeInv, BoundsInv
  <2>2. u \in Handle /\ None \notin Handle
    BY HandleKinds
  <2>3. HsStep(u) /\ PeerStep(u)
    BY <2>1, <2>2, StatesStep DEF StepOf
  <2> QED BY <2>1, <2>2, <2>3 DEF LinkInv, TypeInv
<1>1. ASSUME hs'[u] \in {"unused", "connecting"} PROVE wq'[u] = <<>> /\ wdone'[u] = <<>>
  <2>1. hs[u] \in {"unused", "connecting"}
    BY <1>0, <1>1 DEF HsStep
  <2>2. wq[u] = <<>> /\ wdone[u] = <<>>
    BY <2>1 DEF ConnectOK
  <2> QED BY <1>0, <1>1, <2>2, EmptyQueues
<1>2. ASSUME hs'[u] = "connecting", peer'[u] # None
      PROVE  lost'[peer'[u]] # {} \/ last'[peer'[u]] < size'[peer'[u]]
  <2>1. CASE hs[u] = "unused"
    <3>1. hs'[u] # "unused"
      BY <1>2
    <3> QED BY <1>0, <2>1, <3>1, NewConnect
  <2>2. CASE hs[u] # "unused"
    <3>1. hs[u] = "connecting" /\ peer'[u] = peer[u]
      BY <1>0, <1>2, <2>2, HandleKinds DEF HsStep, PeerStep
    <3> SUFFICES ASSUME NEW d, d = peer[u] PROVE lost'[d] # {} \/ last'[d] < size'[d]
      BY <3>1
    <3>2. d \in Handle /\ peer[d] = u /\ d # None
      BY <1>0, <1>2, <3>1 DEF LinkTypeOK, LinksConsistent
    <3>3. ~EndedNext(d)
      <4>1. peer'[u] = d /\ peer'[d] = u
        BY <1>0, <1>2, <3>1 DEF LinksConsistent
      <4> QED BY <1>0, <3>2, <4>1 DEF LinksConsistent, Ended, EndedNext
    <3>4. wdone[u] = <<>> /\ (lost[d] # {} \/ last[d] < size[d])
      BY <1>2, <3>1 DEF ConnectOK
    <3>5. ASSUME last'[d] = last[d], Grown(d) PROVE lost'[d] # {} \/ last'[d] < size'[d]
      BY <1>0, <3>2, <3>4, <3>5, GrownKeeps
    <3>6. CASE QuietStep
      BY <3>2, <3>3, <3>5, <3>6 DEF QuietStep
    <3>7. ASSUME NEW x \in Handle, CancelStep(x) \/ FlushStep(x)
          PROVE  lost'[d] # {} \/ last'[d] < size'[d]
      BY <3>2, <3>5, <3>7 DEF CancelStep, FlushStep, Grown
    <3>8. ASSUME NEW from \in Handle, NEW to \in Handle, SendStep(from, to)
          PROVE  lost'[d] # {} \/ last'[d] < size'[d]
      <4>1. from # d
        BY <1>2, <3>2, <3>8 DEF SendStep
      <4>2. last' = [last EXCEPT ![from] = size'[from]] /\ Grown(d)
        BY <3>2, <3>8 DEF SendStep, Transfer
      <4>3. last'[d] = last[d]
        BY <1>0, <3>2, <4>1, <4>2 DEF DataTypeOK
      <4> QED BY <3>5, <4>2, <4>3
    <3>9. ASSUME NEW x \in Handle, AfterWrite(x)
          PROVE  lost'[d] # {} \/ last'[d] < size'[d]
      <4>1. /\ peer[peer[x]] = x /\ wdone[x] # <<>> /\ lost' = lost
            /\ SendsMore(peer[x], x) \/ Restarts(peer[x], x)
        BY <1>0, <3>9, AfterWriteCases
      <4>2. peer[x] # d
        BY <3>2, <3>4, <4>1
      <4>3. last'[d] = last[d] /\ size'[d] = size[d]
        BY <3>2, <4>1, <4>2 DEF SendsMore, Restarts
      <4> QED BY <3>4, <4>1, <4>3
    <3> QED BY <1>0, <3>6, <3>7, <3>8, <3>9, NextKind
  <2> QED BY <2>1, <2>2
<1> QED BY <1>1, <1>2 DEF ConnectOK

LEMMA WroteEmpty ==
    ASSUME WriteTypeOK, NEW h \in Handle, NEW q \in Seq(WriteReq), q # <<>>,
           NEW done \in Seq(WriteReq), NEW g, NEW m, Wrote(h, q, done, g, m),
           NEW l, NoneEmpty(Range(q) \cup Range(done), l)
    PROVE  /\ NoneEmpty(Range(wq'[h]) \cup Range(wdone'[h]), l)
           /\ \A x \in Handle : x # h => wq'[x] = wq[x] /\ wdone'[x] = wdone[x]
<1> DEFINE r == Head(q)
           t == Range(Tail(q))
<1>1. PICK k \in 0 .. r.len : WroteBytes(h, q, done, g, m, k)
  BY DEF Wrote
<1>2. r \in WriteReq /\ Range(q) = {r} \cup t
  BY RangeHead
<1>3. /\ \A x \in Handle : x # h => wq'[x] = wq[x] /\ wdone'[x] = wdone[x]
      /\ HeadOutcome(h, q, done, k)
  BY <1>1, WroteRanges
<1>4. \/ Range(wq'[h]) = t /\ Range(wdone'[h]) = Range(done) \cup {r}
      \/ /\ k = 0 \/ k < r.len
         /\ Range(wq'[h]) = {Part(r, k)} \cup t /\ Range(wdone'[h]) = Range(done)
      \/ Range(wq'[h]) = t /\ Range(wdone'[h]) = Range(done) \cup {Failed(r)}
  <2> HIDE DEF r, t
  <2> QED BY <1>3, Zenon DEF r, t, HeadOutcome
<1>5. /\ Part(r, k).src = r.src /\ Failed(r).src = r.src /\ Failed(r).len = r.len
      /\ Part(r, k).len = r.len - k /\ r.len \in Nat
  <2> HIDE DEF r
  <2> QED BY <1>2 DEF Part, Failed, WriteReq
<1>6. k = 0 \/ k < r.len => (Part(r, k).len = 0 => r.len = 0)
  <2>1. k \in Int
    BY <1>1
  <2> HIDE DEF r
  <2> QED BY <1>5, <2>1
<1> HIDE DEF r, t
<1>7. NoneEmpty(Range(wq'[h]) \cup Range(wdone'[h]), l)
  <2>1. /\ r.len = 0 => l[r.src] # {}
        /\ \A s \in t \cup Range(done) : s.len = 0 => l[s.src] # {}
    BY <1>2 DEF NoneEmpty
  <2>2. /\ k = 0 \/ k < r.len => (Part(r, k).len = 0 => l[Part(r, k).src] # {})
        /\ Failed(r).len = 0 => l[Failed(r).src] # {}
    BY <1>5, <1>6, <2>1
  <2> QED BY <1>4, <2>1, <2>2 DEF NoneEmpty
<1> QED BY <1>3, <1>7

LEMMA NextEmpty ==
    ASSUME RelayInv, RelayInv', EmptyInv, \A u \in Up : ConnectOK(u), [Next]_vars
    PROVE  EmptyInv'
<1> DEFINE Goal(x) == NoneEmpty(Range(wq'[x]) \cup Range(wdone'[x]), lost')
<1>0. /\ TypeInv /\ TypeInv' /\ WriteTypeOK /\ LinkTypeOK /\ LinksConsistent /\ DataTypeOK
      /\ DataTypeOK' /\ None \notin Handle /\ \A x \in Handle : BufOK(x)
  BY HandleKinds DEF RelayInv, TypeInv, LinkInv, BoundsInv
<1>1. \A x \in Handle : NoneEmpty(Range(wq[x]) \cup Range(wdone[x]), lost')
  <2> SUFFICES ASSUME NEW x \in Handle, NEW r \in Range(wq[x]) \cup Range(wdone[x]), r.len = 0
               PROVE  lost'[r.src] # {}
    BY DEF NoneEmpty
  <2>1. lost[r.src] # {}
    BY DEF EmptyInv, NoneEmpty
  <2>2. r.src \in Handle
    <3>1. wq[x] \in Seq(WriteReq) /\ wdone[x] \in Seq(WriteReq)
      BY <1>0 DEF WriteTypeOK
    <3>2. r \in WriteReq
      BY <3>1 DEF Range
    <3> QED BY <3>2 DEF WriteReq
  <2>3. lost[r.src] \subseteq lost'[r.src]
    BY <2>2, LostGrows
  <2> QED BY <2>1, <2>3
<1>2. ASSUME NEW x \in Handle, wq'[x] = wq[x], wdone'[x] = wdone[x] PROVE Goal(x)
  BY <1>1, <1>2
<1>3. ASSUME NEW h \in Handle, NEW q \in Seq(WriteReq), q # <<>>, NEW done \in Seq(WriteReq),
             Wrote(h, q, done, gen', mem'), NoneEmpty(Range(q) \cup Range(done), lost'),
             NEW x \in Handle
      PROVE  Goal(x)
  <2>1. /\ NoneEmpty(Range(wq'[h]) \cup Range(wdone'[h]), lost')
        /\ x # h => wq'[x] = wq[x] /\ wdone'[x] = wdone[x]
    BY <1>0, <1>3, WroteEmpty
  <2> QED BY <1>2, <2>1
<1> HIDE DEF Goal
<1>4. ASSUME NEW to \in Handle, NEW from \in Handle, gen'[from] # 0,
             NEW done \in Seq(WriteReq), Range(done) \subseteq Range(wdone[to]),
             Transfer(from, to, wq[to], done),
             size'[from] - pos'[from] = 0 => lost'[from] # {}, NEW x \in Handle
      PROVE  Goal(x)
  <2>1. wq[to] \in Seq(WriteReq) /\ NoneEmpty(Range(wq[to]) \cup Range(wdone[to]), lost')
    BY <1>0, <1>1 DEF WriteTypeOK
  <2> DEFINE r == Unsent(from)
             q == wq[to]
  <2>2. /\ q \in Seq(WriteReq) /\ r \in WriteReq
        /\ Append(q, r) \in Seq(WriteReq) /\ Append(q, r) # <<>>
        /\ Wrote(to, Append(q, r), done, gen', mem')
    BY <1>0, <1>4, <2>1, TransferWrote
  <2>5. r.len = 0 => lost'[r.src] # {}
    BY <1>4 DEF Unsent
  <2> HIDE DEF r
  <2>3. Range(Append(q, r)) = Range(q) \cup {r}
    BY <2>2, RangeAppend
  <2>4. NoneEmpty(Range(Append(q, r)) \cup Range(done), lost')
    BY <1>4, <2>1, <2>3, <2>5 DEF NoneEmpty
  <2> QED BY <1>3, <1>4, <2>2, <2>4
<1>5. ASSUME QuietStep, NEW x \in Handle PROVE Goal(x)
  BY <1>2, <1>5 DEF QuietStep
<1>6. ASSUME NEW h \in Handle, CancelStep(h), NEW x \in Handle PROVE Goal(x)
  <2>1. /\ wdone' = [wdone EXCEPT ![h] = wdone[h] \o Cancelled(wq[h])]
        /\ wq' = [wq EXCEPT ![h] = <<>>]
    BY <1>6 DEF CancelStep, FinishClose
  <2> DEFINE d == wdone[h] \o Cancelled(wq[h])
  <2>2. /\ wq'[h] = <<>> /\ wdone'[h] = d
        /\ x # h => wq'[x] = wq[x] /\ wdone'[x] = wdone[x]
    <3>1. wdone' = [wdone EXCEPT ![h] = d]
      BY <2>1
    <3> HIDE DEF d
    <3> QED BY <1>0, <2>1, <3>1 DEF WriteTypeOK
  <2>3. Range(d) = Range(wdone[h]) \cup {Failed(r) : r \in Range(wq[h])}
    <3>1. wq[h] \in Seq(WriteReq) /\ wdone[h] \in Seq(WriteReq)
      BY <1>0 DEF WriteTypeOK
    <3> QED BY <3>1, RangeCancelled
  <2>4. \A r \in Range(wq[h]) : Failed(r).src = r.src /\ Failed(r).len = r.len
    <3>1. wq[h] \in Seq(WriteReq)
      BY <1>0 DEF WriteTypeOK
    <3>2. \A r \in Range(wq[h]) : r \in WriteReq
      BY <3>1 DEF Range
    <3> QED BY <3>2 DEF Failed, WriteReq
  <2>5. Range(<<>>) = {}
    BY DEF Range
  <2> HIDE DEF d
  <2>6. CASE x = h
    <3>1. NoneEmpty(Range(wq[h]) \cup Range(wdone[h]), lost')
      BY <1>1
    <3>2. NoneEmpty(Range(d), lost')
      BY <2>3, <2>4, <3>1 DEF NoneEmpty
    <3> QED BY <2>2, <2>5, <2>6, <3>2 DEF Goal, NoneEmpty
  <2>7. CASE x # h
    BY <1>2, <2>2, <2>7
  <2> QED BY <2>6, <2>7
<1>7. ASSUME NEW h \in Handle, FlushStep(h), NEW x \in Handle PROVE Goal(x)
  <2>1. /\ wq[h] \in Seq(WriteReq) /\ wdone[h] \in Seq(WriteReq) /\ wq[h] # <<>>
        /\ Wrote(h, wq[h], wdone[h], gen', mem')
        /\ NoneEmpty(Range(wq[h]) \cup Range(wdone[h]), lost')
    BY <1>0, <1>1, <1>7 DEF FlushStep, WriteTypeOK
  <2> QED BY <1>3, <2>1
<1>8. ASSUME NEW from \in Handle, NEW to \in Handle, SendStep(from, to), NEW x \in Handle
      PROVE  Goal(x)
  <2>1. /\ wdone[to] \in Seq(WriteReq) /\ gen'[from] # 0 /\ Transfer(from, to, wq[to], wdone[to])
        /\ pos' = pos /\ pos[from] = last[from] /\ peer[from] = to
    BY <1>0, <1>8 DEF SendStep, WriteTypeOK
  <2>2. last[from] \in Nat /\ size[from] \in Nat /\ size'[from] \in Nat /\ last[from] <= size[from]
    BY <1>0 DEF DataTypeOK, TypeInv, Offsets
  <2>3. last[from] < size'[from] \/ lost'[from] # {}
    <3>1. ASSUME NEW n, Appended(from, n) PROVE last[from] < size'[from] \/ lost'[from] # {}
      <4>1. n \in Nat \ {0} /\ 1 \in 1 .. n
        BY <3>1 DEF Appended
      <4>2. CASE size'[from] = size[from] + n
        BY <2>2, <4>1, <4>2
      <4>3. CASE lost'[from] = lost[from] \cup {rd[from] + i : i \in 1 .. n}
        BY <4>1, <4>3
      <4> QED BY <3>1, <4>2, <4>3 DEF Appended
    <3>2. CASE from \in Down /\ hs[to] = "connecting" /\ Same(from)
      <4>1. to \in Opposite(from) /\ peer[to] = from
        BY <1>0, <2>1 DEF LinksConsistent
      <4>2. to \in Up
        BY <3>2, <4>1 DEF Opposite
      <4>3. lost[from] # {} \/ last[from] < size[from]
        BY <1>0, <3>2, <4>1, <4>2 DEF ConnectOK
      <4> QED BY <3>2, <4>3 DEF Same
    <3> QED BY <1>8, <3>1, <3>2 DEF SendStep
  <2>4. size'[from] - pos'[from] = 0 => lost'[from] # {}
    BY <2>1, <2>2, <2>3
  <2> QED BY <1>4, <2>1, <2>4
<1>9. ASSUME NEW to \in Handle, AfterWrite(to), NEW x \in Handle PROVE Goal(x)
  <2>1. /\ peer[to] \in Handle /\ Live(peer[to]) /\ wdone[to] # <<>> /\ gen' = gen
        /\ SendsMore(peer[to], to) \/ Restarts(peer[to], to)
    BY <1>0, <1>9, AfterWriteCases
  <2>2. wdone[to] \in Seq(WriteReq)
    BY <1>0 DEF WriteTypeOK
  <2>3. Tail(wdone[to]) \in Seq(WriteReq) /\ Range(Tail(wdone[to])) \subseteq Range(wdone[to])
    BY <2>1, <2>2, RangeHead
  <2>4. CASE SendsMore(peer[to], to)
    <3>1. /\ gen'[peer[to]] # 0 /\ Transfer(peer[to], to, wq[to], Tail(wdone[to]))
          /\ last[peer[to]] < size[peer[to]] /\ pos'[peer[to]] = last[peer[to]] /\ size' = size
      BY <2>1, <2>4 DEF SendsMore, Live
    <3>2. size'[peer[to]] - pos'[peer[to]] # 0
      <4>1. last[peer[to]] \in Nat /\ size[peer[to]] \in Nat
        BY <1>0, <2>1 DEF DataTypeOK
      <4> QED BY <3>1, <4>1
    <3> QED BY <1>4, <2>1, <2>3, <3>1, <3>2
  <2>5. CASE Restarts(peer[to], to)
    <3>1. wq' = wq /\ wdone' = [wdone EXCEPT ![to] = Tail(wdone[to])]
      BY <2>5 DEF Restarts
    <3>2. wdone'[to] = Tail(wdone[to]) /\ (x # to => wdone'[x] = wdone[x])
      BY <1>0, <3>1 DEF WriteTypeOK
    <3>3. CASE x = to
      <4>1. NoneEmpty(Range(wq[to]) \cup Range(wdone[to]), lost')
        BY <1>1
      <4> QED BY <2>3, <3>1, <3>2, <3>3, <4>1 DEF Goal, NoneEmpty
    <3>4. CASE x # to
      BY <1>2, <3>1, <3>2, <3>4
    <3> QED BY <3>3, <3>4
  <2> QED BY <2>1, <2>4, <2>5
<1>10. \A x \in Handle : Goal(x)
  BY <1>0, <1>5, <1>6, <1>7, <1>8, <1>9, NextKind
<1> QED BY <1>10 DEF Goal, EmptyInv

(* A stream comes into miscredit by a completion that is not of its last    *)
(* write.                                                                   *)
LEMMA NewMiscredit ==
    ASSUME [Next]_vars, NEW h, h \in miscredit', h \notin miscredit
    PROVE  \E to \in Handle :
              AfterWrite(to) /\ h = peer[to] /\ ~Completes(Head(wdone[to]), h)
<1>1. CASE UNCHANGED miscredit
  BY <1>1
<1>2. ASSUME NEW x \in Handle, AfterWrite(x)
      PROVE  h = peer[x] /\ ~Completes(Head(wdone[x]), h)
  BY <1>2 DEF AfterWrite
<1>3. ASSUME NEW d \in Down, Accept(d) \/ InitUpstreamFails(d) PROVE UNCHANGED miscredit
  BY <1>3 DEF Accept, InitUpstreamFails, ghostVars
<1>4. ASSUME NEW d \in Down, NEW u \in Up, InitUpstream(d, u) PROVE UNCHANGED miscredit
  BY <1>4 DEF InitUpstream
<1>5. ASSUME NEW u \in Up, Connected(u) \/ ConnectFaults(u) PROVE UNCHANGED miscredit
  BY <1>5 DEF Connected, ConnectFaults, ghostVars
<1>6. ASSUME NEW x \in Handle, ReadRelayed(x) \/ ReadAgain(x) \/ ReadEnd(x) \/ AfterWriteFaults(x)
                               \/ ReadDataFaults(x)
      PROVE  UNCHANGED miscredit
  BY <1>6 DEF ReadRelayed, ReadDataFaults, ReadAgain, ReadEnd, AfterWriteFaults, ghostVars
<1> QED BY <1>1, <1>2, <1>3, <1>4, <1>5, <1>6 DEF Next, Callback, vars, ghostVars

(* Why a stream is in miscredit. *)
Explained(h, l, c, E(_)) ==
    \/ l[h] # {}
    \/ h \in Up /\ \E u \in Up \ {h} : E(u) /\ c[u] = c[h]

(* The step that brings a stream into miscredit: the write was of the       *)
(* client's earlier upstream, which has ended, or of nothing.               *)
LEMMA MiscreditStep ==
    ASSUME RelayInv, EmptyInv, NEW to \in Handle, AfterWrite(to),
           peer[to] \notin miscredit, ~Completes(Head(wdone[to]), peer[to])
    PROVE  /\ hs[peer[to]] # "unused" /\ UNCHANGED <<lost, client, hs>>
           /\ Explained(peer[to], lost, client, Ended)
<1> DEFINE r == Head(wdone[to])
<1> SUFFICES ASSUME NEW h, h = peer[to]
             PROVE  hs[h] # "unused" /\ UNCHANGED <<lost, client, hs>> /\ Explained(h, lost, client, Ended)
  OBVIOUS
<1>0. /\ TypeInv /\ LinkTypeOK /\ LinksConsistent /\ LiveWhileOpen /\ WriteTypeOK /\ None \notin Handle
      /\ WriteInv /\ ApartInv /\ RequestsNear
  BY HandleKinds DEF RelayInv, TypeInv, LinkInv, CrashInv
<1>1. /\ h \in Handle /\ peer[h] = to /\ Live(h) /\ wdone[to] # <<>>
      /\ UNCHANGED <<lost, hs>>
  BY <1>0, AfterWriteCases
<1>2. UNCHANGED client
  BY DEF AfterWrite
<1>3. hs[h] # "unused" /\ ~Ended(to) /\ h \in Opposite(to)
  BY <1>0, <1>1 DEF LiveWhileOpen, LinksConsistent
<1>4. /\ wq[to] \in Seq(WriteReq) /\ wdone[to] \in Seq(WriteReq)
      /\ r \in WriteReq /\ r \in ReqOf(Near(to)) /\ r \in Range(wdone[to])
      /\ r.src \in Src(to)
  <2>1. /\ wdone[to] \in Seq(ReqOf(Near(to))) /\ wdone[to] \in Seq(WriteReq)
        /\ wq[to] \in Seq(WriteReq)
    BY <1>0 DEF RequestsNear, Within, WriteTypeOK
  <2>2. r \in WriteReq /\ r \in ReqOf(Near(to))
    BY <1>1, <2>1
  <2>3. r = wdone[to][1] /\ 1 \in DOMAIN wdone[to]
    BY <1>1, <2>1
  <2>4. r \in Range(wdone[to]) /\ r.src \in Src(to)
    BY <2>3 DEF Range, Src
  <2> QED BY <2>1, <2>2, <2>4
<1>5. /\ r.src \in Handle /\ r.len \in Nat /\ r.off \in Nat
      /\ Ended(r.src) \/ r.src = h
  BY <1>3, <1>4 DEF ReqOf, Near, WriteReq
<1>6. CASE r.src # h
  <2>1. Ended(r.src) /\ r.src \in Opposite(to)
    BY <1>0, <1>4, <1>5, <1>6 DEF ApartInv
  <2>2. CASE to \in Up
    <3>1. h \in Down /\ r.src \in Down
      BY <1>3, <2>1, <2>2, HandleKinds DEF Opposite
    <3>2. Touched(h, to) /\ Touched(r.src, to)
      BY <1>1, <1>4 DEF Touched
    <3> QED BY <1>0, <1>6, <2>2, <3>1, <3>2 DEF ApartInv
  <2>3. CASE to \in Down
    <3>1. h \in Up /\ r.src \in Up
      BY <1>3, <2>1, <2>3 DEF Opposite
    <3>2. Touched(to, h) /\ Touched(to, r.src)
      BY <1>4 DEF Touched
    <3>3. client[h] = to /\ client[r.src] = to
      BY <1>0, <2>3, <3>1, <3>2 DEF ApartInv
    <3> QED BY <1>1, <1>2, <1>3, <1>6, <2>1, <3>1, <3>3 DEF Explained
  <2> QED BY <2>2, <2>3, HandleKinds
<1>7. CASE r.src = h
  <2>1. r.off + r.len # last[h]
    BY <1>7 DEF Completes
  <2>2. Settled(Ms, h, pos[h], last[h])
    BY <1>0, <1>1 DEF WriteInv, OneWrite
  <2>3. Ms[to][1] = Sum(r) /\ Ms[to] # <<>> /\ Ms[to] \in Seq(Summary)
    BY <1>0, <1>1, <1>4, SumsTail, SumsType, MsType, SummariesOf DEF Ms, M
  <2>4. 1 \in 1 .. Len(Ms[to])
    BY <2>3
  <2> HIDE DEF r
  <2>5. ASSUME r.len # 0 PROVE FALSE
    <3>1. Sum(r).of = h /\ Sum(r).end = r.off + r.len
      BY <1>7, <2>5 DEF Sum
    <3>2. 1 \in Mine(Ms[to], h) /\ EndAt(Ms[to], 1) = r.off + r.len
      BY <2>3, <2>4, <3>1 DEF Mine, EndAt
    <3> QED BY <2>1, <2>2, <3>2 DEF Settled
  <2>6. lost[h] # {}
    BY <1>4, <1>7, <2>5 DEF EmptyInv, NoneEmpty
  <2> QED BY <1>1, <1>2, <1>3, <2>6 DEF Explained
<1> QED BY <1>6, <1>7

LEMMA NextMiscreditInv ==
    ASSUME RelayInv, RelayInv', MiscreditInv, [Next]_vars PROVE MiscreditInv'
<1>0. /\ TypeInv /\ LinkInv /\ EmptyInv /\ (\A u \in Up : ConnectOK(u))
      /\ miscredit' \subseteq Handle
  BY DEF RelayInv, TypeInv, MiscreditInv, GhostTypeOK
<1>1. \A u \in Up : ConnectOK(u)'
  BY <1>0, NextConnectOK
<1>2. EmptyInv'
  BY <1>0, NextEmpty
<1>3. ASSUME NEW h \in Handle, hs[h] # "unused", Explained(h, lost, client, Ended)
      PROVE  hs'[h] # "unused" /\ Explained(h, lost', client', EndedNext)
  <2>1. hs'[h] # "unused"
    BY <1>0, <1>3, StatesStep DEF StepOf, HsStep
  <2>2. lost[h] \subseteq lost'[h]
    BY LostGrows
  <2>3. ASSUME NEW u \in Up, hs[u] # "unused" PROVE client'[u] = client[u]
    BY <1>0, <2>3, NextClientStep DEF ClientStep
  <2>4. ASSUME h \in Up, NEW u \in Up \ {h}, Ended(u), client[u] = client[h]
        PROVE  EndedNext(u) /\ client'[u] = client'[h]
    <3>1. EndedNext(u) /\ hs[u] # "unused"
      BY <1>0, <2>4, EndedStays, HandleKinds DEF Ended
    <3> QED BY <1>3, <2>3, <2>4, <3>1
  <2> QED BY <1>3, <2>1, <2>2, <2>4 DEF Explained
<1>4. ASSUME NEW h \in miscredit' PROVE hs'[h] # "unused" /\ Explained(h, lost', client', EndedNext)
  <2>1. CASE h \in miscredit
    <3>1. hs[h] # "unused" /\ Explained(h, lost, client, Ended)
      BY <2>1 DEF MiscreditInv, MiscreditExplained, Explained
    <3> QED BY <1>0, <1>3, <1>4, <3>1
  <2>2. CASE h \notin miscredit
    <3>1. PICK to \in Handle :
            AfterWrite(to) /\ h = peer[to] /\ ~Completes(Head(wdone[to]), h)
      BY <1>4, <2>2, NewMiscredit
    <3>2. hs[h] # "unused" /\ Explained(h, lost, client, Ended)
      BY <1>0, <2>2, <3>1, MiscreditStep
    <3> QED BY <1>0, <1>3, <1>4, <3>2
  <2> QED BY <2>1, <2>2
<1>5. MiscreditExplained'
  BY <1>4 DEF MiscreditExplained, Explained, Ended, EndedNext
<1> QED BY <1>1, <1>2, <1>4, <1>5 DEF MiscreditInv

(* The streams of which nothing is said above are streams of which bytes    *)
(* were refused, and upstreams of a client that had another one, which has  *)
(* ended: a write of its bytes to the client is credited to the one that    *)
(* the client is linked to now (proxy.c:225, 376, 403, 499-507).            *)
THEOREM MiscreditsExplained == Spec => []MiscreditExplained
<1>1. Init => RelayInv /\ MiscreditInv
  BY InitRelayInv, InitMiscreditInv
<1>2. RelayInv /\ MiscreditInv /\ [Next]_vars => (RelayInv /\ MiscreditInv)'
  BY NextRelayInv, NextMiscreditInv
<1>3. MiscreditInv => MiscreditExplained
  BY DEF MiscreditInv
<1> QED BY <1>1, <1>2, <1>3, PTL DEF Spec
=============================================================================
