----------------------------- MODULE EchoServer -----------------------------
(***************************************************************************)
(* The callbacks of demo/echo_server/server.c in one worker: what is read   *)
(* from a connection is written back to it, from the buffer it was read     *)
(* into, which is freed before the callback returns.                        *)
(*                                                                         *)
(* gen[h] counts twice for each buffer of h: it is odd while the buffer is  *)
(* there, that is inside echo_read, and even in every state.                *)
(***************************************************************************)
EXTENDS UvStream

CONSTANT MaxBytes  \* bound of the model: bytes that arrive on a connection

ASSUME EchoAssumption == MaxBytes \in Nat

VARIABLE rd  \* history: the bytes read from a connection

vars == <<uvVars, rd>>

Init == UvInit /\ rd = [h \in Handle |-> 0]

(* on_new_connection *)
Accept(h) ==
    /\ Idle /\ phase = "poll" /\ hs[h] = "unused"
    /\ hs' = [hs EXCEPT ![h] = "open"]
    /\ served' = served \cup {h}
    /\ UNCHANGED <<phase, batch, feed, cur, todo, wq, wdone, pollout, brk, out,
                   heapVars, fate, rd>>

Reply_FirstByte(h, n) ==
    [src |-> h, gen |-> gen[h] + 1, off |-> 0, len |-> 1, err |-> FALSE]

Reply_AlreadyFreed(h, n) ==
    [src |-> h, gen |-> gen[h], off |-> 0, len |-> n, err |-> FALSE]

(* uv_buf_init(buf->base, nread), handed to uv_write. *)
Reply(h, n) ==
    [src |-> h, gen |-> gen[h] + 1, off |-> 0, len |-> n, err |-> FALSE]

(* echo_read, nread > 0: uv_write finds the buffer, nothing later does. *)
EchoRead(h) ==
    /\ InStage("read") /\ cur = h
    /\ \E n \in 1 .. ReadMax :
        /\ rd[h] + n <= MaxBytes
        /\ rd' = [rd EXCEPT ![h] = @ + n]
        /\ UvWrite(h, Reply(h, n), wq[h], wdone[h],
                   [gen EXCEPT ![h] = @ + 1],
                   [mem EXCEPT ![h] = [i \in 1 .. n |-> rd[h] + i]])
        /\ gen' = [gen EXCEPT ![h] = @ + 2]
        /\ NextStage(AfterRead(n))
    /\ UNCHANGED <<phase, batch, served, hs, mem>>

(* echo_read, nread = 0 *)
ReadAgain(h) ==
    /\ InStage("read") /\ cur = h
    /\ ~brk[h] /\ ~Contains(todo, "eof")
    /\ NextStage(Tail(todo))
    /\ UNCHANGED <<phase, batch, feed, served, streamVars, heapVars, fate, rd>>

(* echo_read, nread < 0 *)
ReadEnd(h) ==
    /\ InStage("read") \/ InStage("eof")
    /\ cur = h
    /\ UvClose(h)
    /\ UNCHANGED <<heapVars, rd>>

(* echo_write: the request is freed, whatever became of it. *)
EchoWrite(h) ==
    /\ InStage("callbacks") /\ cur = h /\ wdone[h] # <<>>
    /\ wdone' = [wdone EXCEPT ![h] = Tail(@)]
    /\ UNCHANGED <<loopVars, hs, wq, pollout, brk, out, heapVars, fate, rd>>

Next ==
    \/ \E h \in Handle :
        Accept(h) \/ EchoRead(h) \/ ReadAgain(h) \/ ReadEnd(h) \/ EchoWrite(h)
    \/ UvNext /\ UNCHANGED rd

Spec == Init /\ [][Next]_vars

(* As for the relay: the loop goes on, and the client takes what it is sent. *)
Writable(h) == PollEvent(h) /\ Contains(todo', "write") /\ UNCHANGED rd

Takes(h) == WriteStage /\ cur = h /\ wq' # wq /\ UNCHANGED rd

Fairness ==
    /\ WF_vars(cur # None /\ Next)
    /\ WF_vars(LoopTurn /\ UNCHANGED rd)
    /\ \A h \in Handle : SF_vars(Writable(h)) /\ SF_vars(Takes(h))

FairSpec == Spec /\ Fairness

-----------------------------------------------------------------------------
(* Properties.                                                              *)

(* The requests of q are for the bytes o + 1 .. n, one after the other.      *)
InPlace(q, o, n) ==
    \E ends \in [0 .. Len(q) -> 0 .. n] :
        /\ ends[0] = o /\ ends[Len(q)] = n
        /\ \A i \in 1 .. Len(q) : ends[i] = ends[i - 1] + q[i].len

(* What is queued goes on where what is sent ends, up to what came, until   *)
(* a write fails or uv_close cancels them; and the k-th byte sent on a      *)
(* connection is the k-th that was read from it, unless its buffer was      *)
(* freed before (server.c:126-134, stream.c:1365-1409).                     *)
EchoInPlace ==
    \A h \in Handle :
        /\ ~brk[h] /\ hs[h] # "closed" => InPlace(wq[h], Len(out[h]), rd[h])
        /\ \A k \in DOMAIN out[h] : out[h][k] \in {<<h, k>>, <<h, 0>>}

(* What the kernel takes inside echo_read is intact: a step that sends a    *)
(* byte of a freed buffer sends it for a request that was queued by an      *)
(* earlier step (server.c:128-134).                                         *)
LostOnlyWhenQueued ==
    [][\A h \in Handle :
        LET new == {k \in DOMAIN out'[h] : k > Len(out[h]) /\ out'[h][k] = <<h, 0>>}
        IN  new # {} => wq[h] # <<>>]_vars

(* Every byte that is read is answered by a byte, as long as the connection *)
(* stays and the process lives (server.c:128).                              *)
EveryByteAnswered ==
    \A h \in Handle : \A i \in 1 .. MaxBytes :
        rd[h] >= i ~> (Len(out[h]) >= i \/ hs[h] # "open" \/ brk[h] \/ fate # "running")

=============================================================================
