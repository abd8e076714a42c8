----------------------------- MODULE EchoClient -----------------------------
(***************************************************************************)
(* demo/echo_server/client.c: each connection sends a greeting, collects    *)
(* what comes back in a buffer of its own, and prints it as a C string when *)
(* a read finds nothing more or the end of the stream.                      *)
(*                                                                         *)
(* The client has its own rts_buf_append: the capacity is computed as in    *)
(* rts_buf.c (its size_t result is stored in an int there too), a failure   *)
(* is -2, and the bytes are copied with strncpy.                            *)
(***************************************************************************)
EXTENDS UvStream, RtsBuf

CONSTANTS InitCap,     \* the argument of rts_buf_init: 16
          HelloLen,    \* the length of the greeting
          Text,        \* the bytes that may arrive; 0 is NUL
          Junk,        \* what memory nobody wrote holds
          MaxBytes,    \* bound of the model: bytes that arrive on a connection
          MayOom       \* whether malloc may return NULL where the code tests it

ASSUME ClientAssumption ==
    /\ IsFiniteSet(Handle)
    /\ InitCap \in 1 .. IntMax /\ ReadMax <= IntMax
    /\ HelloLen \in Nat \ {0} /\ MaxBytes \in Nat
    /\ Text \subseteq Nat /\ Junk \notin Nat
    /\ MayOom \in BOOLEAN

VARIABLES
    buf,    \* data->buf: the bytes of the allocation
    size,   \* data->size
    rd,     \* history: how many bytes were read
    kept,   \* history: the bytes appended since the buffer was started again
    shown   \* the last text printed, and history: the bytes it was printed for

bufVars    == <<buf, size>>
clientVars == <<bufVars, rd, kept, shown>>
vars == <<uvVars, clientVars>>

Byte == Text \cup {0, Junk}

(* data->capacity *)
Cap(c) == Len(buf[c])

TypeOK ==
    /\ UvTypeOK /\ fate \in {"running", "SIGPIPE"}
    /\ buf \in [Handle -> Seq(Byte)] /\ \A c \in Handle : Cap(c) \in 1 .. IntMax
    /\ size \in [Handle -> Nat]
    /\ rd \in [Handle -> 0 .. MaxBytes]
    /\ kept \in [Handle -> Seq(Text)]
    /\ shown \in [Handle -> [line : Seq(Byte), of : Seq(Text)]]

(* malloc *)
Fresh(n) == [i \in 1 .. n |-> Junk]

(* main: uv_tcp_connect for every handle, whose result is not looked at;    *)
(* those refused at once are fed to the loop in some order.                 *)
Init ==
    /\ hs \in [Handle -> {"connecting", "refused", "stuck"}]
    /\ batch \in SetToSeqs({c \in Handle : hs[c] = "refused"})
    /\ phase = "pending" /\ feed = <<>> /\ served = {} /\ cur = None /\ todo = <<>>
    /\ wq = [c \in Handle |-> <<>>] /\ wdone = [c \in Handle |-> <<>>]
    /\ pollout = [c \in Handle |-> "off"] /\ brk = [c \in Handle |-> FALSE]
    /\ out = [c \in Handle |-> <<>>] /\ fate = "running"
    /\ mem = [c \in Handle |-> [i \in 1 .. HelloLen |-> i]]
    /\ gen = [c \in Handle |-> 1]
    /\ buf = [c \in Handle |-> Fresh(InitCap)] /\ size = [c \in Handle |-> 0]
    /\ rd = [c \in Handle |-> 0] /\ kept = [c \in Handle |-> <<>>]
    /\ shown = [c \in Handle |-> [line |-> <<>>, of |-> <<>>]]

-----------------------------------------------------------------------------
(* C strings.                                                               *)

(* Where the first NUL is, or the place behind the last byte. *)
FirstNul(s) == Min({i \in DOMAIN s : s[i] = 0} \cup {Len(s) + 1})

UpToNul(s) == SubSeq(s, 1, FirstNul(s) - 1)

(* strncpy(m + at, src, n) for n bytes that may be read: what follows a NUL *)
(* is not copied, its place is filled with NULs.                            *)
Strncpy(m, at, src, n) ==
    [i \in DOMAIN m |->
        IF i \notin at + 1 .. at + n THEN m[i]
        ELSE IF i - at < FirstNul(src) THEN src[i - at] ELSE 0]

Grown_NotCopied(c, newCap) ==
    IF newCap = Cap(c) THEN buf[c] ELSE Fresh(newCap)

(* The allocation rts_buf_append goes on with. *)
Grown(c, newCap) ==
    IF newCap = Cap(c) THEN buf[c] ELSE Strncpy(Fresh(newCap), 0, buf[c], size[c])

(* rts_buf_append *)
RtsBufAppend(c, content) ==
    \E oom \in {FALSE, MayOom} :
    LET n == Len(content)
        r == AppendResult(Cap(c), size[c], n, oom)
    IN  /\ oom => MustGrow(Cap(c), size[c], n)
        /\ size' = [size EXCEPT ![c] = r.size]
        /\ IF r.ret = 0
           THEN /\ buf' = [buf EXCEPT ![c] =
                             Strncpy(Grown(c, r.cap), size[c], content, n)]
                /\ kept' = [kept EXCEPT ![c] = @ \o content]
           ELSE UNCHANGED <<buf, kept>>

(* buf[size] = '\0' *)
Terminated(c) == [buf[c] EXCEPT ![size[c] + 1] = 0]

(* The text is terminated and printed, and the buffer started again. *)
Recv(c) ==
    /\ buf' = [buf EXCEPT ![c] = Terminated(c)]
    /\ shown' = [shown EXCEPT ![c] = [line |-> UpToNul(Terminated(c)), of |-> kept[c]]]
    /\ size' = [size EXCEPT ![c] = 0]
    /\ kept' = [kept EXCEPT ![c] = <<>>]

-----------------------------------------------------------------------------
Hello(c) == [src |-> c, gen |-> gen[c], off |-> 0, len |-> HelloLen, err |-> FALSE]

(* on_connect, status = 0 *)
Connected(c) ==
    /\ InStage("connect") /\ cur = c /\ hs[c] = "connecting"
    /\ hs' = [hs EXCEPT ![c] = "open"]
    /\ UvWrite(c, Hello(c), wq[c], wdone[c], gen, mem)
    /\ NextStage(Tail(todo))
    /\ UNCHANGED <<phase, batch, served, heapVars, clientVars>>

(* on_connect, status < 0: the handle stays, and nothing happens to it.     *)
ConnectFailed(c) ==
    /\ InStage("connect") /\ cur = c
    /\ hs' = [hs EXCEPT ![c] = "stuck"]
    /\ NextStage(Tail(todo))
    /\ UNCHANGED <<phase, batch, feed, served, wq, wdone, pollout, brk, out,
                   heapVars, fate, clientVars>>

(* after_write *)
AfterWrite(c) ==
    /\ InStage("callbacks") /\ cur = c /\ wdone[c] # <<>>
    /\ wdone' = [wdone EXCEPT ![c] = Tail(@)]
    /\ UNCHANGED <<loopVars, hs, wq, pollout, brk, out, heapVars, fate, clientVars>>

(* after_read, nread > 0: the result of rts_buf_append is only printed.     *)
ReadText(c) ==
    /\ InStage("read") /\ cur = c
    /\ \E n \in 1 .. Min({ReadMax, MaxBytes - rd[c]}) :
        /\ \E content \in [1 .. n -> Text] : RtsBufAppend(c, content)
        /\ rd' = [rd EXCEPT ![c] = @ + n]
        /\ NextStage(AfterRead(n))
    /\ UNCHANGED <<phase, batch, feed, served, streamVars, heapVars, fate, shown>>

(* after_read, nread = 0 *)
ReadNothing(c) ==
    /\ InStage("read") /\ cur = c
    /\ ~brk[c] /\ ~Contains(todo, "eof")
    /\ Recv(c)
    /\ NextStage(Tail(todo))
    /\ UNCHANGED <<phase, batch, feed, served, streamVars, heapVars, fate, rd>>

(* after_read, nread = UV_EOF *)
ReadEof(c) ==
    /\ InStage("read") \/ InStage("eof")
    /\ cur = c
    /\ Recv(c)
    /\ UvClose(c)
    /\ UNCHANGED <<heapVars, rd>>

(* after_read, another error: what the buffer holds is never printed.       *)
ReadError(c) ==
    /\ InStage("read") /\ cur = c
    /\ UvClose(c)
    /\ UNCHANGED <<heapVars, clientVars>>

Next ==
    \/ \E c \in Handle :
        \/ Connected(c) \/ ConnectFailed(c) \/ AfterWrite(c)
        \/ ReadText(c) \/ ReadNothing(c) \/ ReadEof(c) \/ ReadError(c)
    \/ UvNext /\ UNCHANGED clientVars

Spec == Init /\ [][Next]_vars

-----------------------------------------------------------------------------
(* Properties.                                                              *)

(* Where the next terminator goes is inside the allocation, whatever was    *)
(* appended before, refused, or printed (client.c:53-70, 129, 140).         *)
TerminatorInBounds == \A c \in Handle : size[c] < Cap(c)

(* A printed text is what was appended since the last one, up to its first  *)
(* NUL, although strncpy stops there both when bytes come in and when the   *)
(* buffer moves; nothing of an earlier text or of new memory shows, and an  *)
(* append that is refused is missing as a whole (client.c:63, 69, 140-142). *)
PrintedAsReceived == \A c \in Handle : shown[c].line = UpToNul(shown[c].of)

=============================================================================
