# A verification project for maybeatunnel

maybeatunnel is to become an encrypting tunnel built on libuv. What exists today is a set of
demos (`demo/`), three files of the tunnel itself that do not compile yet (`src/`), a design, and
vendored libuv 1.7.3 and OpenSSL (`third/`). The part with the hard behaviour is the relay,
`demo/proxy_demo/proxy.c`: one process, one event loop, callbacks that libuv and the kernel call in
many orders, buffers that are written while they are appended to, and pairs of connections of
which either end can go away at any moment. Next to it stands the echo server,
`demo/echo_server/server.c`, whose forked workers turn out to share one epoll, and its client. This
project models them together with the part of libuv they run on, checks them with TLC and proves what
matters most about them with TLAPS.

## Inventory

| Component | State | Operations | What makes it correct |
|---|---|---|---|
| Relay, `demo/proxy_demo/proxy.c` | per stream: `data` (buffer, `pos`, `last`) and `stream_conn` (the other stream, `ready`) | accept, read of either side, connect, completed write, cleanup | bytes arrive complete, once, in order, at the right peer; the links of a pair agree; a buffer outlives its writes; one write of a stream's data at a time |
| `rts_buf`, `demo/proxy_demo/rts_buf.c` | `buf`, `size`, `capacity` | init, append (grows), free | no write outside the allocation, no byte below `size` undefined, a failed append changes nothing |
| libuv loop and TCP streams, `third/libuv/src/unix/{core,linux-core,stream,tcp}.c` | pending queue, epoll interests, closing handles; per stream `write_queue`, `write_completed_queue`, flags | `uv_run`, `uv_write`, `uv_close`, `uv_tcp_connect`, dispatch of events | callbacks are called once, in order, and never for a closed stream except with an error |
| Echo server, `demo/echo_server/server.c` | none but the stream | accept, echo_read, echo_write | a buffer lives as long as its write |
| Worker supervision (echo server `main`, `src/main.c`; commented out in `proxy.c`) | `g_pids`, `cur_pid`; in each worker `watchers`, `watcher_queue`; the inherited epoll | fork loop, uv_close of the parent's listener, waitpid loop; accept, read and close in the workers | the parent waits for every child it has; a worker's connections are affected by nothing but their clients; a connection is accepted by somebody |
| Echo client, `demo/echo_server/client.c` | 100 streams with a growing buffer each (its own `rts_buf`) | connect, write, read, print | there is always room for the terminator; what is printed is what came, up to its first NUL |
| Configuration, `src/cmd.c` | `g_conf` | option parsing, checks | an accepted value is the one given |
| Cryption, `src/crypt.c` | none | encrypt, decrypt | the output fits its buffer; every error path frees what it took |
| `in_array.c`, OpenSSL and JSON demos | none | straight-line | - |
| Design notes (`README.md`, `reetsee_protocol_v2`, option and configuration examples) | no code | - | - |

How they interact. The relay calls libuv (`uv_read_start`, `uv_write`, `uv_close`,
`uv_tcp_connect`), libuv calls the relay's callbacks from one thread, one at a time. The callbacks
of the two streams of a pair share the two `callback_data_t` and the two `stream_conn_t`. `uv_write`
does not copy the bytes: until the callback has run, libuv reads them from the buffer of the
*other* stream, to which reads keep appending.

What is hard:

* the order in which reads, connects, completions and ends of the two sides come is up to two
  remote programs and the kernel;
* `uv_write` writes at once when it can, in part or later when it cannot, and its callback runs in
  a later iteration of the loop (`pending_queue`), or after `uv_close` with `ECANCELED`;
* a stream that ends is closed alone: its peer stays open, forgets it, and may get a new
  counterpart (a client that sends again is given a second upstream);
* malloc may fail, connects may be refused at once, later, or never end, the peer may reset while a
  write is queued; SIGPIPE is not ignored;
* `int` capacities, `size_t` lengths, and the conversions between them;
* `uv_default_loop` is called before `fork`: the workers and their parent use one epoll instance, whose
  events name descriptors, while each process has its own descriptors and its own table of watchers.

`PROJECT.json` lists these as hazards, each at the line where it bites, with the properties that
watch it.

## The modules

| Module | Models | Form |
|---|---|---|
| `UvStream` | libuv: one iteration of the loop, streams, write queues, close; and the kernel's answers | variables and actions, extended by a program |
| `RtsBuf` | the arithmetic of `rts_buf_append` | constant operators |
| `RtsBufLife` | one `rts_buf_t` over its life | state machine on `RtsBuf` |
| `Proxy` | `proxy.c`: one action per callback and outcome | state machine on `UvStream` and `RtsBuf` |
| `FifoRelay` | what a relay promises: linked streams with a FIFO channel each | abstract specification, implemented by `Proxy` |
| `EchoServer` | the callbacks of `server.c` in one worker | state machine on `UvStream` |
| `EchoClient` | the callbacks of `client.c`, its buffer and its C strings | state machine on `UvStream` and `RtsBuf` |
| `Workers` | the processes of `server.c` and the epoll they share | state machine |
| `MCProxy`, `MCRtsBufLife`, `MCWorkers` | instances for TLC (symmetry of clients, upstreams, connections; not under fairness, where symmetry is not sound) | |
| `RtsBufProofs`, `UvStreamProofs` | lemmas about appends, and about the types a step of libuv keeps | proofs, used by those below |
| `RtsBufLifeProofs`, `ProxyProofs`, `ProxyWriteProofs`, `EchoServerProofs`, `EchoClientProofs`, `WorkersProofs` | theorems | proofs |

### UvStream

`uv_run` is the cycle `phase`: `pending` (`uv__run_pending` on the queue it has split off, `batch`),
`poll` (`uv__io_poll`), `closing` (`uv__run_closing_handles`). When libuv calls a stream's handler,
`cur` is that stream and `todo` the list of things `uv__stream_io` still has to do for this event:
`connect`, `read`, `eof`, `write`, `callbacks`. The program's callbacks are enabled by `InStage`, and
run to completion, as in the single-threaded loop. So the interleavings are exactly those of the
code: callbacks of different streams interleave, a callback is never interrupted.

* `pending_queue` is `feed`; a handle is in it once (`Fed`), and `uv__io_close` takes it out
  (`Unfed`).
* `pollout` says whether POLLOUT is asked for and whether epoll has been told (interests are
  registered when the next poll begins, `PendingDone`).
* `served` are the handles that have no (further) event in this poll: epoll reports a descriptor
  at most once, and descriptors made during the poll not at all. Which events a descriptor has is
  chosen when it is dispatched, which covers every choice epoll could have made earlier.
* `Uv__Write` is `uv__write`: the kernel takes all (`WroteAll`), some or none (`WrotePart`), refuses
  (`WriteFailed`; then the stream is broken, `brk`) or raises SIGPIPE (`WriteKills`).
* `mem` and `gen` are the heap as far as the programs use it: `gen[h]` names the allocation that is
  the buffer of `h`, and a request remembers the allocation it was given. A request whose allocation
  is gone reads byte 0, of which neither the value nor the owner is known: malloc may have given the
  block to another stream (`Source` of such a byte is `None`).
* handles are never reused: the programs never free a `uv_tcp_t`. The finite set `Handle` bounds the
  number of connections of a behaviour.

Left out: what the programs never reach (timers, shutdown, blocking streams, pipes, UDP; the cap of
32 reads per event; the spurious `EINPROGRESS` of a connect). `uv_accept` cannot fail here: it is
called from the connection callback of a TCP server and the new handle is fresh
(`stream.c:571-632`), so the else-branch of `on_new_downstream_connection` has no step.

### Proxy

`peer[h]` is `data->stream_conn->stream` (`None` when `stream_conn` is NULL) and `ready[h]` its `ready`;
`pos`, `last`, `size`, `cap` are the fields of `callback_data_t` and of its `rts_buf_t`; `Live(h)` is
`data != NULL` and `HasBuf(h)` is `data->buf != NULL`; a capacity of 0 stands for the NULL that a failed `rts_buf_init`
leaves there, which `init_callback_data` only prints. The bytes of a stream are numbered in the order they are read, so a buffer holds
numbers and `out[to]` the pairs <source, number> the kernel took. `rd`, `lost`, `client` and `miscredit` are
history variables: they guard no action (`rd` bounds what arrives). `client` is the downstream an upstream was made for. `miscredit` are the streams credited with a write that was not
of all they had handed over, which is how a completion that belongs to another connection shows, and
one of a write of nothing (below). The code knows nothing of it. After a miscredit the code does send bytes twice, or
starts a buffer again while a write of it is queued and appends over it; `OneWriteAtATime`, `BytesAccounted`,
`OrderKept` and `QueuedBytesStable` therefore speak of the streams that are not in `miscredit` only, `relay_overlap` shows what
happens to one that is, and `MiscreditExplained` says which streams can be: those of which bytes were
refused, and upstreams of a client that had another one, which has ended. Nothing else - no order of reads, completions and
partial writes of one pair - leads there.

| Action | Code |
|---|---|
| `Accept` | `on_new_downstream_connection`; the connection is read from with data, with data that have no buffer, or without data |
| `InitUpstream`, `InitUpstreamFails` | `downstream_read` with bytes and no `stream_conn`: `init_upstream_connection`, then the append; its three outcomes of `uv_tcp_connect` |
| `ReadRelayed` | `downstream_read`/`upstream_read` with bytes: append, and transfer if the target is ready and nothing is outstanding |
| `ReadDataFaults` | the same, where malloc has failed before: no data, no buffer, or (when an upstream is to be made) an upstream whose malloc is tested after `init_callback_data` has written to it |
| `ReadAgain` | the same with `nread = 0` |
| `ReadEnd` | the same with `nread < 0`: unlink both sides, free the data, `uv_close` |
| `Connected`, `ConnectFaults` | `on_upstream_connect`, and the ways it dies |
| `AfterWrite`, `AfterWriteFaults` | `after_upstream_write`/`after_downstream_write`, and the ways they die |

Where the code follows a NULL or freed pointer the process dies: `fate` names the place, and nothing
happens any more. `transfer_stream_data` and `rts_buf_append` are operators used inside these actions.
A `malloc` the code tests may fail when `MayOom`: that of a larger buffer (`rts_buf.c:52`), of the first buffer
(`rts_buf.c:18`), of the `callback_data_t` (`proxy.c:132`), of the parts of an upstream (`proxy.c:304-310`; the `uv_tcp_t` of which is written to
before the test). One it does not test (`proxy.c:160`, `405`, the `rts_buf_t` at `rts_buf.c:23`)
is taken to succeed, since the next line would end the process. When `init_callback_data` fails for an accepted
stream, `data` keeps what malloc left there; following it is taken to end the process like following NULL.

One case nobody would test: when an append to an empty buffer is refused, the transfer that
follows hands over zero bytes. `pos = last` then says that nothing is outstanding, so that the next read
makes a second write, and the completion of the empty one is credited with the bytes of that.
`LastTransferFinishedFirst` is false then too, though `relay_overlap`, where no malloc fails, shows the reconnect
only; `OneWriteAtATime` does not count empty writes and leaves out the streams in `miscredit`.

### FifoRelay, and how Proxy implements it

`link` pairs the streams, `chan[h]` is what arrived on `h` and was not taken by the stream it is linked to,
`out` what each took. `Relay` lets bytes arrive (all kept or none: an append is refused as a whole) and
lets the other side take some of those that have waited longest; `Pair` links two streams, of which one is new;
`End` ends one stream and cuts its link; `GiveUp` is the abstract form of everything the code does
not promise: the bytes of a stream that is given up may be lost or turn up later, those of
every other stream may not.

`Proxy` implements it (`ImplementsFifo`) with `link` for `peer`, `Burst` for `ReadMax` and, as the channel of a stream,
`Waiting(h)`: its buffer from the first byte on that no write has finished with. The
mapping gives a stream up (`GivenUpFor`) when it has ended, was miscredited, had its buffer moved while a write
was queued, or when a failed write to the other side was counted as sent. So in every
behaviour, reconnects and failures of other streams included, a stream that is not given up
relays each byte once, in order, and only to the stream it is linked to at that time.

### RtsBuf, RtsBufLife

`RtsBuf` computes what `rts_buf_append` does to `size` and `capacity` with an `int` whose largest value
is `IntMax`: the test in `size_t`, the new capacity stored in an `int` (`AsInt`), what malloc makes of a
negative one. `RtsBufLife` is a buffer used by one owner: which cells have been written, up to where.

### EchoServer

One action per callback: `Accept` (`on_new_connection`), `EchoRead` (`alloc_buffer` and `echo_read` with
bytes), `ReadAgain`, `ReadEnd`, `EchoWrite`. A buffer lives inside one callback only: `gen[h]` is odd
there and even in every state, so that `uv_write` finds the buffer when it writes at once and a queued
request does not. The terminator `echo_read` writes behind the bytes, one past the end of a full buffer,
is not modelled: the model keeps no memory behind a buffer.

### EchoClient

| Action | Code |
|---|---|
| `Init` | `main`: the buffers, and `uv_tcp_connect` for every handle, which may be under way, refused at once, or fail with a result nobody looks at |
| `Connected`, `ConnectFailed` | `on_connect` |
| `AfterWrite` | `after_write` |
| `ReadText` | `after_read` with bytes: `rts_buf_append`, whose result is only printed |
| `ReadNothing`, `ReadEof` | `after_read` with 0 and `UV_EOF`: terminate, print, start the buffer again (and close) |
| `ReadError` | `after_read` with another error: close |

`buf[c]` is the allocation byte for byte, since what `strncpy` does with a NUL is the question: it stops
copying there and fills up with NULs, when bytes come in and when the buffer moves. Memory nobody wrote holds
`Junk`. `shown[c]` is the last text printed and, for the property, the bytes it was printed for. The
greeting is written from static memory, so that no queued write can lose its buffer; the message's formatting is left
out.

### Workers

The parent is `ppc`, `i`, `g_pids`: `Fork`, `ForkFails`, `CloseListener`, `Waitpid`. A worker is `wpc`, its
`queue` (`watcher_queue`), its `watchers` (which connection is on which descriptor) with their size
`nwatchers`, and `got`, the events `epoll_wait` returned that are not yet dispatched. The kernel is
`interest`, the one set of epoll entries, and the fate of each connection.

| Action | Code |
|---|---|
| `Poll`, `Wake` | `uv__io_poll`: registration of what is queued; `epoll_wait` returns what is ready, whoever registered it |
| `ServerIo`, `OnNewConnection`, `NothingToAccept` | `uv__server_io`, one step per round of its loop, with `on_new_connection`, `uv_accept` and `uv_read_start` (`MaybeResize` is `maybe_resize`) |
| `StreamIo` = `ReadData`, `ReadEnd`, `ReadNothing` | dispatch of an event by its descriptor in this worker's own table; `uv__read`, the POLLHUP short-circuit, `echo_read`, `uv_close` |
| `Abort` | the assertion of `uv__io_poll` fails for a descriptor beyond the table |
| `Die`, `Connect`, `Send`, `End` | the kernel and the clients |

Epoll entries are of open files and go with the last descriptor of the file; a `CTL_DEL` through a
descriptor that is no file of this process, or another one, removes nothing. Equal descriptor
numbers in two workers are normal: both take the lowest free one. What is written is left to
`EchoServer`; a read never fills the buffer of 65537 bytes; `accept` does not run out of descriptors.

## What the runs check

| Run | Instance | Question |
|---|---|---|
| `rts_buf_life` | `IntMax` = 31, first capacity 3, appends of 0..31 bytes | Does any sequence of appends, growth, wrapped and refused allocations included, leave the allocation, or a hole below `size`? No. |
| `relay_stream` | 1 client, 2 upstreams, 4 bytes of the client and 1 of each upstream, reads of at most 3, buffer of 3, malloc may fail | With every split of reads and writes, ends, reconnects, refused appends and moved buffers: is every byte accounted for, in order, with one write at a time; do requests whose buffer did not move stay in it and are their bytes left alone; do the links agree; is a `stream_conn` missing only after an end that explains it; does it implement FIFO channels? Yes, of the streams not in `miscredit`; and is a stream there only after a reconnect or refused bytes? Yes. Is a buffer moved under a queued write only when what waits does not fit in the first allocation? Yes (`MovedOnlyWhenFull`); that it is moved then, and the write sends freed memory (`rts_buf.c:57`), contradicts `stream.c:1415` in the same way as the next but one run shows of ended streams. |
| `relay_clients` | 2 clients, 2 upstreams, 1 byte | Are clients kept apart? Yes, in what is written from buffers that are still there. A late write from a freed one may carry another client's bytes: that is the next run. |
| `relay_buffer_lifetime` | 1 client, 2 upstreams, 2 bytes of each, buffer of 3, which never moves | **Violated**: does the buffer live until the callback (`stream.c:1415`)? A stream that ends frees it (`proxy.c:204`, `448`), and the next connection asks malloc for a block of that size. (`echo_read` frees its buffer right after `uv_write`, see `LostOnlyWhenQueued`.) |
| `relay_overlap` | 1 client, 2 upstreams | **Violated**: is the last transfer finished before the next (`proxy.c:399`)? After a reconnect the old upstream's completion is credited to the new one. |
| `relay_refused` | 1 client, 2 upstreams | **Violated**: does a failed connect close the client's connection (`proxy.c:363`)? The callback goes on into the freed `stream_conn` and dies. |
| `relay_progress` | 1 client, 1 upstream, 2 bytes, buffer of 4, under fairness | Does every byte that is read reach the other side in the end, unless the pair ends? Yes, outside the named divergences. |
| `echo` | 2 connections, 2 bytes each, reads of at most 2, under fairness | Has the answer the length and the order of the request, and does every byte get one? Yes; a byte can only be garbage when its write was queued. |
| `echo_client` | 1 connection, 5 bytes each 0, 1 or 2, first capacity 2, `IntMax` = 7, reads of at most 3, malloc may fail | Is there always room for the terminator, and is what is printed what was appended since the last text, up to its first NUL? Yes. |
| `workers` | 2 workers, 2 connections, any fork failing, any child dying at any time, under fairness | Does the parent wait for all children it has? Yes. What can a worker do to a connection because of events that are another's? It ends it only for a partial read that comes with the other's reset; its own events are always within its table. Is a connection accepted, and its end noticed? Yes, unless the parent's `uv_close` came last. |
| `workers_deaf` | 2 workers, 1 connection, under fairness | **Violated**: is the connection callback called (`stream.rst:113`)? Not when the parent's `uv_close` took the listener out of the epoll after all workers had registered it. |
| `workers_table` | 2 workers, 2 connections | **Violated**: is a descriptor within the table (`linux-core.c:305`)? Another worker's need not be. |

`CrashNeedsDisconnect`, `BytesAccounted`, `EveryByteRelayed`, `OneWriteAtATime`, `OrderKept`, `QueuedBytesStable`, `MovedOnlyWhenFull` and `ClientsKeptApart` say under which conditions the
relay is right. Their premises name the divergences above, each of which the runs reach. `BytesAccounted`,
for instance, is about a stream that is live, was not miscredited, whose buffer did not move while a write
of it was queued, and with no broken write on the other side.

Bounds, and why they are enough:

* the bytes arriving on each handle (`MaxBytes`, given as `DownBytes` for the clients and `UpBytes` for the upstreams):
  3 gives one byte written, one queued and one appended behind it, which is the most the three
  cursors `pos`, `last`, `size` can tell apart, and a fourth one comes after a buffer of 3 has moved or was refused;
  both directions run the same code, so one of them has 4 and the other 1. 2 or 1 where several handles multiply
  the states and the question is of links or sources.
* `ReadMax` = 2 or 3, so that one read can bring several bytes, fill the read buffer
  (libuv then reads again) or not.
* `BufCap` = 3 in `relay_stream` moves with the third byte (one is kept for a terminator), so that a request of the first
  one or two can be queued when the buffer moves or is refused, and a first append of three bytes can be refused, which makes
  the empty write; two bytes fill it exactly, which a growth test that is off by one gets wrong. 3 and 4 never grow
  with 2 bytes. 8092 in the code, 64 KB reads: both cases exist.
* two upstreams for one client are the least with which a completion can be credited to another
  connection; two clients the least with which bytes can be mixed up.
* two workers and two connections are the least with which one descriptor number means two connections;
  `TableSize` = 6 with the listener at 4 lets the table hold one connection and grow for the second, as
  6, 14, 30, ... do in the code. With two workers a fork can fail first and last; the
  theorem has the middle.
* `IntMax` = 31 makes wrapping reachable in three appends; in `Proxy` it is 1000, out of reach, because
  `RtsBufLife` answers that question and the theorems answer it for every value.
* one connection of the echo client, since its connections share nothing but the loop; 5 bytes with a first
  capacity of 2 and `IntMax` = 7 grow the buffer, wrap the capacity (which is then refused), and leave bytes behind a NUL
  when it moves; three byte values are NUL and two that can be told apart.

Deadlock is not checked (`CHECK_DEADLOCK FALSE`): the process may die, and an instance stops when its
bytes are used up and its handles closed.

Fairness is assumed in `relay_progress`, `echo`, `workers` and `workers_deaf` only. Weak
fairness of the loop's turns and of the callbacks: `uv_run` never returns while a handle is active, and a
callback runs to completion. Strong fairness of `ConnectEnds`, `Writable` and `Takes`: a connect is answered
in the end, and a client or upstream that stays takes what it is sent, again and again; strong, because
between two such answers the loop does other things. In `Workers`, weak fairness of the parent and of
each step of each worker: the scheduler runs every process, and `epoll_wait` returns while something
is ready. Nobody has to connect, send, end or die.

## What is proved

`RtsBufLifeProofs`, for every `IntMax`, initial capacity and append length:

* `BufferSafe`: `Spec => []InBounds`, `NothingUndefined`: `Spec => []NoHole` and `SizesSafe`: `Spec => []TypeOK`. None of the
  three is inductive; `IInv`, their conjunction, is: a living buffer's capacity is in `1 .. IntMax` and `size` is
  less than it, and without the byte kept for a terminator the next growth test would be off by one.
* `FailureSafe`: `Spec => FailureKeepsBuffer`, an action property: an append that fails leaves size, capacity, allocation and the set of
  written offsets alone, and the capacity of a living buffer never shrinks. By cases on the actions.

The lemma `AppendResultCases` of `RtsBufProofs` says what an append returns (fits, grows, refused) and is
where the arithmetic is done, for these and for the relay and the client.

`ProxyProofs`, for any sets of clients and upstreams and any sizes:

* `LinksSafe`: `Spec => []LinksConsistent` and `PeersPresent`: `Spec => []PeerDataPresent`. `LinksConsistent` is not inductive: that
  a new upstream is nobody's peer needs that unused handles have no data, and that an ending stream is
  not already closed needs that only open streams are read. `LinkInv` adds `LinkTypeOK` (types of the
  variables the links depend on), `LiveWhileOpen` (a handle has data only between its creation and its end, an upstream all that time, an accepted one perhaps never)
  and `ReadingOpen` (a read or eof stage is of an open stream). One step per action.
* `TypesSafe`: `Spec => [](TypeOK /\ Offsets)`. `TypeOK` is not inductive: the length of a write,
  `size - pos`, is a natural number because of `Offsets`, `pos <= last <= size` for every stream. It rests on the lemma `UvNextType` of
  `UvStreamProofs`, which does the same for the steps of libuv, and on `LinkInv`.
* `ClientsApart`: `Spec => []ClientsKeptApart`. The sources of a stream are those of its requests, queued or
  completed, and of what it has written (`Src`). `ApartInv`: two streams that are linked, or of which one has the
  other as a source (`Touched`), are of opposite kinds, no upstream is touched by two clients, and an
  unused handle by none; the client that touches an upstream is its `client`. An upstream is used for one client only because it is new when it is linked, and links are cut for good.
  The theorem is about bytes from buffers that are still there; of the others the model knows no source.
* `QueuedSafe`: `Spec => []QueuedInBounds`. `BoundsInv` adds to it what an append relies on (`BufOK`: a buffer that exists has a
  capacity in `1 .. IntMax`, `size` is below it and is the length of what was written or less), and that a
  request in either queue is of a stream that has a buffer, or has ended (`InBuf`, `LiveStays`): a stream without a buffer never hands anything over.
* `CrashesNeedEnd`: `Spec => []CrashNeedsDisconnect`. `CrashInv`: a request of `h` at a stream that is live and open is the peer's,
  or one of the two has ended (`RequestsNear`); a living upstream is linked to its `client`, or that very client
  has ended (`OrphansExplained`); a connect callback comes for a stream that is connecting or was refused (`ConnectingLive`).

`ProxyWriteProofs`, for the same constants:

* `OneWriteSafe`: `Spec => []OneWriteAtATime`. `WriteInv`: for a stream not in `miscredit`, at most
  one request, queued or completed, has bytes of it, and while the stream lives there is one exactly when `pos # last`, it ends at
  `last`, and `pos < last` (`OneWrite`); every stream has `pos = 0 \/ pos < last`; a write of nothing ends at 0
  (`NothingAtZero`), so that its completion either finds `last = 0` and credits nothing, or is a miscredit. It rests on the
  other invariants: `CrashInv` for which stream a completion credits, `BoundsInv` for what an unused stream starts from. The requests are seen through `Ms`,
  which keeps of each whose bytes it has and where they end, so that a partial write by libuv changes nothing.
* `QueuedStable`: `Spec => QueuedBytesStable`, an action property, from `WriteInv` and `BoundsInv`: an append writes behind
  `size`, a queued write ends at `last`, and the buffer of a stream that is not in `miscredit` starts again from 0 only when
  its one write is completed.
* `OrderSafe`: `Spec => []OrderKept` and `AccountedSafe`: `Spec => []BytesAccounted`, from one invariant, `StreamInv`: what was
  read of a stream, where it is now and what the other streams got of it. Neither property is inductive. `MemInv`: a buffer
  holds bytes that were read and not refused, in increasing order, and the last ones read while none was refused. `ErrInv`: only a request of a stream
  whose client reset it, or that was closed, fails. `OrderInv`, for a stream that is neither ended nor miscredited: what any stream got of it is before
  all that is not written (`Sent`); the stream that takes its bytes, if the last byte it got is of it, got the one before the first not
  written (`Follows`); and every byte read is lost, not written or got by someone, unless a write failed or an indeterminate
  byte went out (`Covered`); and for every stream not miscredited, ended ones too, `InOrder`, which is the property. The step is
  done in three parts. `NextPieces`: every step
  of the relay writes to at most one stream, and of each stream that stays what is written are bytes that follow one another in its buffer, from
  its first one not written (`Piece`). `PieceSplits`: in terms of bytes, not of
  offsets, the step takes the first ones of those that wait (`Splits`). Then one lemma for each part of `OrderInv`. That the buffer's
  first byte not written is where the one outstanding write begins (`FrontExists`) needs `WriteInv`; that a byte
  follows the last one of its *target* needs that bytes of a stream never go to two others, `ApartInv`.
* `MiscreditsExplained`: `Spec => []MiscreditExplained`, which bounds what the three above leave out. `MiscreditInv` adds to it: a write of nothing
  is of a stream of which bytes were refused (`EmptyInv`), and for that, that nothing is written to an upstream before it is connected, and
  that the client of one that is connecting has something for it (`ConnectOK`), since `on_upstream_connect` does not look. A completion
  of another stream's bytes: `RequestsNear` says that one has ended, `ApartInv` that it had the same client.

`EchoServerProofs`, for any number of connections and any sizes:

* `EchoSafe`: `Spec => []EchoInPlace`, with `IInv`: the property, the types, that every request that is queued outside the
  callback is of a buffer that `echo_read` has freed (`QueuedAreFreed`) and that only open connections are read. The lemma
  `Uv__WriteWrote` of `UvStreamProofs` says what `uv__write` does to a queue, whatever the kernel takes: whole requests from its
  head, then a part of one.
* `LostSafe`: `Spec => LostOnlyWhenQueued`, an action property, from the same invariant.

`EchoClientProofs`, for any number of connections, any text and any sizes:

* `TerminatorSafe`: `Spec => []TerminatorInBounds`, and `PrintedSafe`: `Spec => []PrintedAsReceived`, from one invariant
  `IInv`: the capacity is in `1 .. IntMax`, `size` below it and equal to the number of bytes kept, and the buffer agrees with those bytes up to
  and including their first NUL (`Agrees`). What is behind the NUL may differ, since `strncpy` does not copy it; that
  is why the invariant, and the property, stop there.
* `TypesSafe`: `Spec => []TypeOK`, from `IInv` and the types of libuv's part: whatever the `int` between two `size_t`
  wraps to, it never becomes a capacity.

`WorkersProofs`, for any number of workers and connections, any listener descriptor and table size:

* `ChildrenWaitedFor`: `Spec => []WaitsForEveryChild` and `TypesSafe`: `Spec => []TypeOK`. `IInv` adds `Forked` (a child that exists has
  its pid in `g_pids`, so a 0 or -1 stands for no child) and `Reaped` (those before `i` have been waited
  for), and `Queued` (what is queued for registration is open), which `TypeOK` needs.
* `EndedByTwin`: `Spec => EndedOnlyByTwin`, an action property, from `HupTrue`: an event that shows a reset
  stays true while it waits to be dispatched, since a reset is for good.
* `OwnEventsSafe`: `Spec => []OwnEventsInTable`, from `Covered`: the lowest free descriptor is at most one
  beyond the table, because the one below it is in use.

The assumptions are those the modules name: `IntMaxAssumption`, `NoneAssumption`, `ProxyAssumption`,
`ClientAssumption` (a finite number of connections), `WorkersAssumption` (and the one of `RtsBufLife`); TLC evaluates them in every run. That a
read brings no more than an `int` can hold (`ReadMax <= IntMax`) is one of them: libuv suggests 64 KB.

Only model-checked: `ImplementsFifo`, and the liveness properties. The refinement rests on what `StreamInv` says, and on
more: that a stream once given up stays so, which `MovedWhileQueued` and `brk` do not
say by themselves; it is the next thing to prove. Out of the prover's reach in any case: liveness under fairness, `ENABLED`, and
induction over data.

## Plan

Done:

1. `RtsBuf`, `RtsBufLife`, `UvStream`, `Proxy` with their runs; `BufferSafe`, `FailureSafe`, `LinksSafe`.
2. Liveness of the relay (`EveryByteRelayed`). `EchoServer` on `UvStream`. `Workers` with
   `ChildrenWaitedFor`, `EndedByTwin`, `OwnEventsSafe`.
3. `FifoRelay`, and `Proxy` shown to implement it.
4. The echo client and its version of `rts_buf`, with `TerminatorSafe` and `PrintedSafe`.
5. `Proxy`'s `TypeOK`, `ClientsKeptApart`, `QueuedInBounds`, `CrashNeedsDisconnect` and `OneWriteAtATime` proved.
6. The type invariants of the buffer, the echo client and the workers, `PeerDataPresent`, and the echo server's `EchoInPlace` and
   `LostOnlyWhenQueued` proved.
7. `Proxy`'s `QueuedBytesStable`, `OrderKept` and `BytesAccounted` proved.
8. The failing allocations of accepting and of the first buffer, `MovedOnlyWhenFull`, and
   `MiscreditExplained`, checked and proved.

Left: a proof of `ImplementsFifo`. Its steps, in order: a stream given up stays given up (an ended stream, a
miscredited one, one whose bytes were moved while queued, one whose bytes are no longer all delivered, waiting or lost;
the generations of the requests have to be followed through `Quiet`, `Cancel`, `Flush`, the transfer and what follows a write); a
step changes the channel of at most one stream that is not given up, by a suffix the read appends and a prefix the
kernel takes; then `RtsRead` and the writes map to `Relay`, the disconnects to `End`, `InitUpstream` to `Pair`, and
the rest to `GiveUp` or a stutter.

## Not modelled

* `src/main.c`, `src/cmd.c`, `src/crypt.c`: they are not programs yet. They include `rts_str.c`,
  `conf.h`, `define.h`, `log.h` and `worker.h`, which are not in the repository; `spawn_workers` and `init_cryption` are called and not defined; the macros `CHECK_RES`,
  `CHK_N_SET_STR_OPTION` and `CHK_N_SET_INT_OPTION` of `cmd.c` are not defined, nor are `plaintext` in `decrypt`
  and the last argument of `real_encrypt`. What the missing parts do (whether a length counts an IV, what a failed check
  returns, what a child runs) decides every property one would state, so a model would be of a guess. The hazards of
  `cmd.c` and `crypt.c` are listed; for `main.c`, what its children would do is not written.
* `in_array.c` and the OpenSSL and JSON demos: straight-line code without a state.
* OpenSSL, and libuv outside `unix/{core,linux-core,stream,tcp}.c`: nothing in the repository's programs reaches it. These two
  are all but a few thousand of the repository's lines, which is why the map covers so little
  of the whole and most of the programs.
* The designs without code (message header, process model, global accept lock, signals, options).
* What stays outside the models of the modelled parts is said with each: the memory behind a buffer of the echo
  server (`server.c:129` may write a terminator one past a full one), the growth of a buffer without bound
  (`proxy.c:455`), that a connect which fails at once is never reported (`proxy.c:336`, the outcome `stuck`), and that SIGPIPE ends the process (`proxy.c:411`); the last two are modelled as outcomes and contradict nothing the code says.
