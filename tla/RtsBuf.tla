------------------------------- MODULE RtsBuf -------------------------------
(***************************************************************************)
(* The growable byte buffer of the proxy (demo/proxy_demo/rts_buf.c): the   *)
(* arithmetic of rts_buf_append, with the C types it is computed in.  size  *)
(* and capacity are `int`, content_len and alloc_len are `size_t`.          *)
(***************************************************************************)
EXTENDS Integers

CONSTANT IntMax  \* the largest value of a C int

ASSUME IntMaxAssumption == IntMax \in Nat \ {0}

(* The value an int holds after a result v in 0..2*IntMax+1 was stored in it. *)
AsInt(v) == IF v > IntMax THEN v - 2 * (IntMax + 1) ELSE v

MustGrow_ForgetsNul(cap, size, len) == cap - size < len

MustGrow_EarlyByOne(cap, size, len) == cap - size <= len + 1

(* `rts_buf->capacity - rts_buf->size < alloc_len`: the bytes do not fit,    *)
(* the byte for the final NUL included.                                     *)
MustGrow(cap, size, len) == cap - size < len + 1

(* The capacity asked for: doubled, or just enough when doubling would not do. *)
NewCap(cap, size, len) ==
    IF size + len + 1 - cap >= cap THEN AsInt(size + len + 1) ELSE AsInt(cap * 2)

MallocCanServe_Unsigned(newCap) == newCap # 0

(* malloc(new_cap): a negative int is converted to a huge size_t and fails. *)
MallocCanServe(newCap) == newCap > 0

AppendResult_CountsLost(cap, size, len, oom) ==
    IF ~MustGrow(cap, size, len)
    THEN [ret |-> 0, cap |-> cap, size |-> size + len]
    ELSE IF oom \/ ~MallocCanServe(NewCap(cap, size, len))
         THEN [ret |-> -3, cap |-> cap, size |-> size + len]
         ELSE [ret |-> 0, cap |-> NewCap(cap, size, len), size |-> size + len]

(* What rts_buf_append does to a buffer holding `size` of `cap` bytes when   *)
(* `len` more come in; `oom` says that malloc returns NULL.  No caller       *)
(* passes content == NULL: uv__read asserts that the buffer is there.       *)
AppendResult(cap, size, len, oom) ==
    IF ~MustGrow(cap, size, len)
    THEN [ret |-> 0, cap |-> cap, size |-> size + len]
    ELSE IF oom \/ ~MallocCanServe(NewCap(cap, size, len))
         THEN [ret |-> -3, cap |-> cap, size |-> size]
         ELSE [ret |-> 0, cap |-> NewCap(cap, size, len), size |-> size + len]
=============================================================================
