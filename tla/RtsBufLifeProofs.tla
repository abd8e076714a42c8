-------------------------- MODULE RtsBufLifeProofs --------------------------
(* What holds of the growable buffer for every width of int, every initial  *)
(* capacity and every sequence of calls.                                    *)
EXTENDS RtsBufLife, RtsBufProofs

(* The strengthening that every call preserves: bounds, types and no hole,  *)
(* and a buffer that is gone holds nothing.                                 *)
IInv == TypeOK /\ InBounds /\ NoHole

LEMMA InitIInv == Init => IInv
BY LifeAssumption, IntMaxAssumption DEF Init, IInv, TypeOK, InBounds, NoHole

LEMMA AppendStep ==
    ASSUME IInv, NEW len \in 0 .. MaxLen, NEW oom \in BOOLEAN, Append(len, oom)
    PROVE  /\ IInv'
           /\ cap' >= cap
           /\ ret' # 0 => UNCHANGED <<allocated, size, cap, written>>
<1> DEFINE r == AppendResult(cap, size, len, oom)
<1>1. /\ allocated /\ allocated'
      /\ size' = r.size /\ cap' = r.cap /\ ret' = r.ret
      /\ written' = IF r.ret = 0 THEN CopyOld(r) \cup (size .. size + len - 1)
                                  ELSE written
  BY DEF Append, IInv, TypeOK
<1>2. /\ IntMax \in Nat /\ cap \in 1 .. IntMax /\ size \in 0 .. cap - 1
      /\ len \in 0 .. IntMax 
      /\ written \subseteq (0 .. cap - 1) /\ (0 .. size - 1) \subseteq written
  BY <1>1, LifeAssumption, IntMaxAssumption DEF IInv, TypeOK, InBounds, NoHole
<1>3. \/ /\ r.ret = 0 /\ r.size = size + len
         /\ r.cap \in cap .. IntMax /\ r.size < r.cap
      \/ r.ret = -3 /\ r.size = size /\ r.cap = cap
  BY <1>2, AppendResultCases
<1> HIDE DEF r
<1>4. CASE /\ r.ret = 0 /\ r.size = size + len
           /\ r.cap \in cap .. IntMax /\ r.size < r.cap
  <2>1. /\ CopyOld(r) \subseteq (0 .. r.cap - 1)
        /\ (0 .. size - 1) \subseteq CopyOld(r)
    BY <1>2, <1>4 DEF CopyOld
  <2>2. written' \subseteq (0 .. r.cap - 1) /\ (0 .. r.size - 1) \subseteq written'
    BY <1>1, <1>2, <1>4, <2>1
  <2> QED BY <1>1, <1>2, <1>4, <2>2 DEF IInv, TypeOK, InBounds, NoHole
<1>5. CASE r.ret = -3 /\ r.size = size /\ r.cap = cap
  BY <1>1, <1>2, <1>5 DEF IInv, TypeOK, InBounds, NoHole
<1> QED BY <1>3, <1>4, <1>5

LEMMA NextIInv == IInv /\ [Next]_vars => IInv'
<1> SUFFICES ASSUME IInv, [Next]_vars PROVE IInv'
  OBVIOUS
<1>0. IntMax \in Nat \ {0}
  BY IntMaxAssumption
<1>1. ASSUME NEW len \in 0 .. MaxLen, NEW oom \in BOOLEAN, Append(len, oom) PROVE IInv'
  BY <1>1, AppendStep
<1>2. CASE Restart
  BY <1>0, <1>2 DEF Restart, IInv, TypeOK, InBounds, NoHole
<1>3. CASE Free
  <2>1. size' = 0 /\ cap' = 0 /\ written' = {} /\ ret' = 0 /\ allocated' = FALSE
    BY <1>3 DEF Free
  <2>2. TypeOK'
    <3>1. allocated' \in BOOLEAN
      BY <2>1, Zenon
    <3>2. 0 \in 0 .. IntMax
      BY <1>0
    <3>3. ret' \in {0, -3}
      BY <2>1 DEF IInv, TypeOK
    <3> QED BY <2>1, <3>1, <3>2, <3>3, Zenon DEF TypeOK
  <2>3. InBounds' /\ NoHole'
    BY <2>1 DEF InBounds, NoHole
  <2> QED BY <2>2, <2>3 DEF IInv
<1>4. CASE UNCHANGED vars
  BY <1>4 DEF vars, IInv, TypeOK, InBounds, NoHole
<1> QED BY <1>1, <1>2, <1>3, <1>4 DEF Next

(* No sequence of appends, restarts and failures of malloc writes outside   *)
(* the allocation (rts_buf.c:37-65).                                        *)
THEOREM BufferSafe == Spec => []InBounds
<1>1. IInv => InBounds
  BY DEF IInv
<1> QED BY <1>1, InitIInv, NextIInv, PTL DEF Spec

(* None exposes a byte that was never written: what an append copies into   *)
(* a new allocation covers all there was (rts_buf.c:46-62).                 *)
THEOREM NothingUndefined == Spec => []NoHole
<1>1. IInv => NoHole
  BY DEF IInv
<1> QED BY <1>1, InitIInv, NextIInv, PTL DEF Spec

(* None leaves a negative size, or a living buffer with a capacity that is  *)
(* not a positive int: what wraps is refused before it is stored            *)
(* (rts_buf.c:46-56).                                                       *)
THEOREM SizesSafe == Spec => []TypeOK
<1>1. IInv => TypeOK
  BY DEF IInv
<1> QED BY <1>1, InitIInv, NextIInv, PTL DEF Spec

(* A failed append changes neither size, capacity, allocation nor what is   *)
(* written, and the capacity of a living buffer only grows                  *)
(* (rts_buf.c:46-62).                                                       *)
THEOREM FailureSafe == Spec => FailureKeepsBuffer
<1> DEFINE A == /\ allocated' => cap' >= cap
                /\ ret' # 0 => UNCHANGED <<allocated, size, cap, written>>
<1>1. ASSUME IInv, [Next]_vars PROVE [A]_vars
  <2>1. ASSUME NEW len \in 0 .. MaxLen, NEW oom \in BOOLEAN, Append(len, oom) PROVE A
    BY <1>1, <2>1, AppendStep
  <2>2. CASE Restart
    BY <1>1, <2>2, IntMaxAssumption DEF Restart, IInv, TypeOK
  <2>3. CASE Free
    BY <2>3 DEF Free
  <2> QED BY <1>1, <2>1, <2>2, <2>3 DEF Next
<1>2. IInv /\ [Next]_vars => [A]_vars
  BY <1>1
<1> QED BY <1>2, InitIInv, NextIInv, PTL DEF Spec, FailureKeepsBuffer
=============================================================================
