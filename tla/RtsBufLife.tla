----------------------------- MODULE RtsBufLife -----------------------------
(***************************************************************************)
(* The life of one rts_buf_t: allocated by rts_buf_init, filled by          *)
(* rts_buf_append, emptied in place by the proxy when everything is sent    *)
(* (proxy.c:282), freed by rts_buf_free.  Memory is the set of the offsets  *)
(* of the current allocation that have been written.                        *)
(***************************************************************************)
EXTENDS RtsBuf

CONSTANTS InitCap,  \* the argument of rts_buf_init
          MaxLen    \* the largest content_len of one append

ASSUME LifeAssumption ==
    /\ InitCap \in 1 .. IntMax
    /\ MaxLen \in 0 .. IntMax

VARIABLES
    allocated, \* the rts_buf_t exists
    size,      \* rts_buf->size
    cap,       \* rts_buf->capacity
    written,   \* the offsets of the allocation written so far
    ret        \* what the last operation returned, 0 when it returns nothing

vars == <<allocated, size, cap, written, ret>>

TypeOK ==
    /\ allocated \in BOOLEAN
    /\ size \in 0 .. IntMax
    /\ cap \in IF allocated THEN 1 .. IntMax ELSE {0}
    /\ written \subseteq (0 .. IntMax)
    /\ ret \in {0, -3}

(* rts_buf_init *)
Init ==
    /\ allocated = TRUE
    /\ size = 0 /\ cap = InitCap /\ written = {}
    /\ ret = 0

CopyOld_Forgotten(r) == IF r.cap # cap THEN {} ELSE written

(* A new allocation starts with a copy of the `size` bytes of the old one.  *)
CopyOld(r) == IF r.cap # cap THEN written \cap (0 .. size - 1) ELSE written

(* rts_buf_append *)
Append(len, oom) ==
    LET r == AppendResult(cap, size, len, oom)
    IN  /\ allocated
        /\ size' = r.size /\ cap' = r.cap /\ ret' = r.ret
        /\ written' = IF r.ret = 0 THEN CopyOld(r) \cup (size .. size + len - 1)
                                   ELSE written
        /\ UNCHANGED allocated

(* after_upstream_write: `buf->size = 0`. *)
Restart ==
    /\ allocated
    /\ size' = 0 /\ ret' = 0
    /\ UNCHANGED <<allocated, cap, written>>

(* rts_buf_free *)
Free ==
    /\ allocated
    /\ allocated' = FALSE
    /\ size' = 0 /\ cap' = 0 /\ written' = {}
    /\ ret' = 0

Next ==
    \/ \E len \in 0 .. MaxLen, oom \in BOOLEAN : Append(len, oom)
    \/ Restart
    \/ Free

Spec == Init /\ [][Next]_vars

-----------------------------------------------------------------------------
(* Whatever is appended, in whatever order, the bytes of the buffer lie in  *)
(* its allocation with room for a NUL behind them, although the new         *)
(* capacity is a size_t sum stored in an int (rts_buf.c:46-62).             *)
InBounds == allocated => size < cap /\ written \subseteq (0 .. cap - 1)

(* No byte below `size` was never written: growing keeps what was there     *)
(* (rts_buf.c:55).                                                          *)
NoHole == (0 .. size - 1) \subseteq written

(* An append that fails leaves size, capacity, allocation and the set of    *)
(* written offsets as they were, and the capacity never shrinks while the   *)
(* buffer lives, although the new one may wrap around (rts_buf.c:46-62).    *)
FailureKeepsBuffer ==
    [][/\ allocated' => cap' >= cap
       /\ ret' # 0 => UNCHANGED <<allocated, size, cap, written>>]_vars
=============================================================================
