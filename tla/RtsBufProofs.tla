---------------------------- MODULE RtsBufProofs ----------------------------
(* What an append to a growable buffer does, for every width of int: the    *)
(* lemma that the proofs about the users of the buffer rest on.             *)
EXTENDS RtsBuf, TLAPS

(* An append to a buffer in bounds either has room for all its bytes and a  *)
(* NUL in a capacity that is an int and did not shrink, or changes nothing. *)
LEMMA AppendResultCases ==
    ASSUME NEW c \in 1 .. IntMax, NEW s \in 0 .. c - 1,
           NEW len \in 0 .. IntMax, NEW oom \in BOOLEAN
    PROVE  LET r == AppendResult(c, s, len, oom)
           IN  \/ /\ r.ret = 0 /\ r.size = s + len
                  /\ r.cap \in c .. IntMax /\ r.size < r.cap
               \/ r.ret = -3 /\ r.size = s /\ r.cap = c
<1> DEFINE n == NewCap(c, s, len)
<1>0. IntMax \in Nat \ {0}
  BY IntMaxAssumption
<1>1. CASE ~MustGrow(c, s, len)
  BY <1>0, <1>1 DEF AppendResult, MustGrow
<1>2. CASE MustGrow(c, s, len)
  <2>1. s + len + 1 > c
    BY <1>0, <1>2 DEF MustGrow
  <2>2. CASE oom \/ ~MallocCanServe(n)
    BY <1>2, <2>2 DEF AppendResult
  <2>3. CASE ~oom /\ MallocCanServe(n)
    <3>1. n \in Int /\ n > 0
      BY <1>0, <2>3 DEF NewCap, AsInt, MallocCanServe
    <3>2. n <= IntMax /\ s + len < n /\ c <= n
      <4>1. CASE s + len + 1 - c >= c
        BY <1>0, <2>1, <3>1, <4>1 DEF NewCap, AsInt
      <4>2. CASE ~(s + len + 1 - c >= c)
        BY <1>0, <2>1, <3>1, <4>2 DEF NewCap, AsInt
      <4> QED BY <4>1, <4>2
    <3>3. AppendResult(c, s, len, oom) = [ret |-> 0, cap |-> n, size |-> s + len]
      BY <1>2, <2>3 DEF AppendResult
    <3> QED BY <1>0, <3>1, <3>2, <3>3
  <2> QED BY <2>2, <2>3
<1> QED BY <1>1, <1>2
=============================================================================
