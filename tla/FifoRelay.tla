----------------------------- MODULE FifoRelay -----------------------------
(***************************************************************************)
(* What a relay promises, without buffers, writes or callbacks: streams are *)
(* linked in pairs, and what arrives on a stream waits in a FIFO channel    *)
(* until the stream it is linked to takes it.  A stream may be given up,    *)
(* alone and for good: nothing is promised of its bytes any more, and       *)
(* everything of those of the other streams.                                *)
(***************************************************************************)
EXTENDS Naturals, SequencesExt

CONSTANTS Handle,  \* the streams
          None,    \* no stream
          Lost,    \* the channel of a stream that is given up
          Burst    \* the most bytes that arrive at once

VARIABLES
    link, \* the stream a stream is linked to
    chan, \* the bytes that wait on a stream, and how many have arrived, or Lost
    out   \* the bytes each stream has taken, with the stream they came from

vars == <<link, chan, out>>

Init ==
    /\ link = [h \in Handle |-> None]
    /\ chan = [h \in Handle |-> [arrived |-> 0, bytes |-> <<>>]]
    /\ out = [h \in Handle |-> <<>>]

(* Channel c after n bytes arrived, all of them kept or none. *)
Received(c, n, kept) ==
    [arrived |-> c.arrived + n,
     bytes   |-> IF kept THEN c.bytes \o [i \in 1 .. n |-> c.arrived + i] ELSE c.bytes]

(* Channel c without its first k bytes. *)
Rest(c, k) == [c EXCEPT !.bytes = SubSeq(@, k + 1, Len(@))]

From(h, bytes) == [i \in DOMAIN bytes |-> <<h, bytes[i]>>]

(* Bytes arrive on a stream, and the one it is linked to takes some of      *)
(* those that have waited longest.                                          *)
Relay(h) ==
    /\ UNCHANGED link
    /\ chan[h] # Lost
    /\ \E n \in 0 .. Burst, kept \in BOOLEAN :
        LET c == Received(chan[h], n, kept)
        IN  \E k \in 0 .. Len(c.bytes) :
                /\ chan' = [chan EXCEPT ![h] = Rest(c, k)]
                /\ IF k = 0
                   THEN UNCHANGED out
                   ELSE /\ link[h] # None
                        /\ out' = [out EXCEPT ![link[h]] =
                                     @ \o From(h, SubSeq(c.bytes, 1, k))]

(* A stream without a counterpart is linked to one that was never linked    *)
(* and never took a byte.  The first bytes for it may come along, unless    *)
(* the stream is given up then or was before.                               *)
Pair(h, g) ==
    /\ h # g /\ link[h] = None /\ link[g] = None
    /\ out[g] = <<>> /\ chan[g] = [arrived |-> 0, bytes |-> <<>>]
    /\ link' = [link EXCEPT ![h] = g, ![g] = h]
    /\ \/ /\ chan[h] # Lost
          /\ \E n \in 0 .. Burst, kept \in BOOLEAN :
                chan' = [chan EXCEPT ![h] = Received(@, n, kept)]
       \/ chan' = [chan EXCEPT ![h] = Lost]
    /\ UNCHANGED out

(* A stream is over: its link is cut, and what waits in its channel is gone. *)
End(h) ==
    /\ link' = [x \in Handle |-> IF x \in {h, link[h]} THEN None ELSE link[x]]
    /\ chan' = [chan EXCEPT ![h] = Lost]
    /\ UNCHANGED out

(* Streams are given up, or bytes of streams given up turn up somewhere.    *)
GiveUp ==
    /\ UNCHANGED link
    /\ \A h \in Handle : chan'[h] \in {chan[h], Lost}
    /\ \A h \in Handle :
        /\ IsPrefix(out[h], out'[h])
        /\ \A i \in Len(out[h]) + 1 .. Len(out'[h]) : chan'[out'[h][i][1]] = Lost
    /\ DOMAIN chan' = Handle /\ DOMAIN out' = Handle

Next ==
    \/ \E h \in Handle : Relay(h) \/ End(h)
    \/ \E h, g \in Handle : Pair(h, g)
    \/ GiveUp

Spec == Init /\ [][Next]_vars
=============================================================================
