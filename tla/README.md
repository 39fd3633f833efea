# m_net in TLA+

m_net is a single-threaded C library of non-blocking sockets. An application
opens *channs*, calls `mnet_poll()`, and takes one message after the other from
`mnet_result_next()` until it returns NULL. Around it the repository has a TLS
extension, a multi-process server and, as the event back end on Windows, the
multi-threaded wepoll. These modules model the library, its application and the
kernel under it, and each of the parts around it; TLC checks the models on small
instances, and TLAPS proves nearly all of their safety properties for every
instance.

## The system and its parts

| Part | Source | State | Operations |
| --- | --- | --- | --- |
| Channel life | `mnet_core.c` 716-914, 1513-1660 | `chann_t`: type, state, fd, `epoll_events`, `active_send_event`; lists `channs`, `del_channs` | open, close, listen, connect, disconnect, active_event |
| Event loop | `mnet_core.c` 916-1300 | epoll descriptor, the event array and `fd_index`, the list `dis_channs` | `_evt_add`, `_evt_del`, `mnet_poll`, `mnet_result_next` |
| Send buffer | `mnet_core.c` 271-344, 850-875, 1686-1722 | FIFO of blocks per chann, byte counters | send, flush, cached, destroy |
| Timers | `mnet_core.c` 346-586 | skip list `tm_clock` by expiry, cursor `tm_pos` | arm, update, kill, schedule, next |
| Datagrams | `mnet_core.c` 1724-1749 | the peer's address in `n->addr` | dgram_send, dgram_recv |
| Extension registry | `mnet_core.c` 637-713, 1826-1868 | one `mnet_ext_t` per type | register, filters, callbacks |
| Multi-process accept | `mnet_core.c` 757-766, 1478-1510, `examples/process/` | balancer callbacks, the slots of the workers, a named semaphore | accept_balancer, reset_event, fork, restart |
| TLS extension | `extension/openssl/mnet_tls.c` | `mnet_tls_ud_t` per chann: state, SSL object, listener | callbacks at open, close, listen, accept, connect, disconnect; filter; recv, send |
| Windows back end | `wepoll.c` | ports, socket states, poll groups, update and deleted queues, reference counts | epoll_create, ctl, wait, close |
| mDNS, Lua, LuaJIT, C++ | `extension/`, `mnet_wrapper.h` | on top of the API | |

The parts of the library interact by plain calls in one thread. What makes the library hard to get
right is not threads but time: between two API calls the kernel and the peers
change every socket; the event array is a snapshot that handlers make stale
while it is being read; a chann that is closed lives on until the next
`mnet_poll()`; messages of failed calls wait in the chann itself, on a list;
and the library keeps its own copy (`n->epoll_events`) of what epoll has
registered. The hazards in `PROJECT.json` list these places by line.

What makes each part correct:

- channel life: a chann never uses a descriptor that is closed or another's,
  every open descriptor has an owner, a closed chann is freed exactly once;
- event loop: registrations and `n->epoll_events` agree and ask for what the
  chann needs; no list or array points to freed memory; the result loop ends;
  events are reported for the connection they happened on; what must be
  reported eventually is;
- send buffer: bytes go out once and in order, and the buffer can be destroyed;
- timers: a timer fires once per period, never early, in order of expiry, however
  handlers change the list under the cursor;
- TLS: the chann's two states agree, ACCEPT and CONNECTED wait for the handshake,
  no socket is left with nobody to close it, handshakes end;
- multi-process accept: one worker at a time accepts, no process sees another's
  events, a dead worker is replaced, clients are served;
- wepoll: no interest in a socket is forgotten, the kernel never writes into freed
  memory, a port outlives the calls inside it, waiting and closing threads wake.

## Modules

| Module | What it is |
| --- | --- |
| `MnetCore` | channel life and event loop of the Linux/epoll build, with its application and kernel |
| `MCMnetCore` | `MnetCore` for TLC (symmetry) |
| `MnetCoreProofs` | inductive invariant and theorems about `MnetCore` |
| `MnetQueueProofs` | theorems about its queue of disconnects, descriptors and send events |
| `ByteFifo` | what the send path promises: a FIFO of bytes per connection |
| `StreamSend` | the send path of one STREAM chann, byte by byte; implements `ByteFifo` |
| `MCStreamSend` | `StreamSend` for TLC |
| `StreamSendProofs` | the refinement and the other theorems about `StreamSend` |
| `TimerService` | what the timers promise: those due at a poll are handed out in order, once |
| `TimerList` | the skip list with its cursor and the interval's width; implements `TimerService` |
| `MCTimerList` | `TimerList` for TLC (symmetry) |
| `TimerListProofs` | what is proved of the timers |
| `Tls` | the TLS extension on the library's extension interface |
| `MCTls` | `Tls` for TLC |
| `TlsProofs` | inductive invariant and theorems about `Tls` |
| `MultiAccept` | monitor, workers, semaphore and clients of the multi-process example |
| `MCMultiAccept` | `MultiAccept` for TLC |
| `MultiAcceptProofs` | inductive invariant and theorems about `MultiAccept` |
| `Wepoll` | the Windows back end with its threads and the AFD driver |
| `MCWepoll` | `Wepoll` for TLC |
| `PollGroupProofs` | lemmas about the queue of poll groups |
| `WepollProofs` | inductive invariant and theorems about `Wepoll` |

### MnetCore

State. `init channs del_channs dis_channs` are the fields of `mnet_t`, lists
as sets where no property depends on the order (`dis_channs` keeps its links:
`dis_next`). `tm_clock` is the set of channs with a timer and `tm_due` the
timers `tm_pos` has still to hand out. `evt` is the rest of the event array; a
socket has at most one entry, so a set loses only the order, which epoll does
not promise. `ctype state fd epoll_events active_send_event rwb_send` are the
fields of each `chann_t`, `rwb_send` being the number of cached blocks. A
chann's address can be reused after it is freed: the members of `Channs` are
addresses. `fd = Null` stands for the 0 of a fresh and the -1 of a
disconnected chann. `sock rx kq` are the kernel's: what each descriptor is,
whether it has unread input (or a connection to accept), what epoll has
registered for it. A descriptor that was accepted and could not be made
non-blocking stays open without a chann (`kev_accept_lost`).

Steps. Every API function is one action named after it, with an action of its
own for an outcome the kernel decides (`mnet_chann_send_fails`); calls that
change nothing the model has (a send the socket takes at once) are stutters.
`mnet_poll` is one action: destroy the closed channs, find the due timers, wait.
One turn of the `for (;;)` in `_evt_result_next()` is one step, so that the
kernel can act between two turns; while a call of `mnet_result_next()` is
looping `pc` is `"next"` and the application makes no call. Kernel steps may
happen at any time. The filter and callbacks of the internal types do nothing
and are left out.

`fault` is how a process is lost: `"hang"` in the loop of `_rwb_destroy()`,
`"uaf"` when the list of queued disconnects leads to freed memory. After that
nothing is claimed and nothing happens (`Lost`).

The application is arbitrary within `Ops`, with three assumptions:
`Disciplined` applications take results until NULL before they poll again (the
documented loop); only those whose `Ops` include `"misuse"` call send or recv
on a listening STREAM chann; and while timers are being handed out a handler
re-arms or kills only the timer it was told about, because `tm_pos` is not in
this model (`TimerList` has it).

### StreamSend

One STREAM chann that is connected, loses the connection or gives it up, and
is connected again. `rwb_send` is the FIFO of blocks; a block is the number of
its first byte, the offset `ptr` up to which it is sent, and its length. Bytes
are numbered in the order `mnet_chann_send()` accepts them (`accepted` of them
so far), so `wire`, the sequence of bytes the socket took, shows any loss,
repetition or reordering. The kernel takes any part of what it is offered, none
included. `out` is `EPOLLOUT` in `n->epoll_events`. One turn of the do-while in
`_chann_sended_rwb()` is one step (`flush_send`). `cached` is
`mnet_chann_cached()` with an int of `IntMax` values on each side: it counts
`BufSize` for every block but the head, however short the block is.
`disconnect_socket` with cached blocks is the endless loop that `v_hang` finds;
after it nothing is claimed. `ByteFifo` has only `accepted` and `wire`: bytes
are accepted, the next unsent ones are taken, a new connection starts from
nothing.

### TimerList

`link` has the list of each level of the skip list, `height` the level of each
node, chosen freely where the code throws dice. The search of
`skiplist_insert()` is `EndAt`, level by level from the top; `EndIn` is one level,
sought between the two places the level above has found, so a wrong link on one
level sends later insertions astray. `time` and `interval` are the node's fields; the interval goes
through `Int32`, the first expiry does not. `pos` is `tm_pos`: `ListHead` after the
last node, `Freed` when the node under it was freed. `_tm_next()` is three
actions: the timer is due (the cursor moves on, the node is put back), it is not
(the round ends), or the cursor is on freed memory, whose old contents end the
round if reading them does not end the process. Closed channs keep their timers
until the next poll. `wild`, `told` and `due` are history. `TimerService` is the
same without a list: a set of timers owed, the earliest next.

### Tls

One step is a call of the application or one event that `mnet_result_next()`
works on, with all the callbacks it makes and the filter the message passes. `st`
and `fd` are the library's state of a chann, `ud` its `mnet_tls_ud_t`; a listener
has none. OpenSSL is external: `SslResult` follows from what the peer has sent, a
handshake takes at least two flights, and any input may be wrong. A flight of
ours may not fit in the socket's buffer (`SSL_ERROR_WANT_WRITE`): the chann is
then in `pend` until a later step gets it out. The filter treats this like
`SSL_ERROR_WANT_READ`, so that only an event with input leads to such a step. A refused
connection shows as a hang-up event. `told` and `from` are history: what the
application knows of a chann, and which listener accepted it. Pointers to a
chann that was destroyed become `Freed`.

### MultiAccept

The monitor of `multi_process_svr.c` loops over the slots, forks where waitpid()
says -1, resets its own event queue after a fork and polls; the workers poll,
pass the listener's event through `ac_before`, `accept(2)`, `ac_after` (three
steps, so that others come between), answer their clients, and the first one
exits after `AcLimit` accepts. `reg` has the registrations of every epoll
instance with the process each belongs to; a forked child shares the monitor's
instance until it resets. `Kill` ends one worker anywhere. `ForkFails` is a
`fork()` that returns -1: the monitor exits, and the workers go on until they
end; the last process to end takes the listening socket with it (`Exit`), and
the server is started again (`Start`). `Interrupt` ends all processes and starts
the server again at once. In both cases the semaphore is as it was left, because it
is a named one. `lost` remembers that somebody died holding it. `mnet_poll()`
returns after its timeout also when nothing has happened.

### Wepoll

Threads in `epoll_ctl`, `epoll_wait` and `epoll_close` of one port. The port's
critical section is `lock`; a step that loops over a queue holds it, and
`GetQueuedCompletionStatusEx()` runs without it. `sk` has the fields of each
`sock_state_t`, `kst` and `kev` the driver's side of its poll request, `iocp` the
completions waiting in the port. The driver completes a request when a watched
condition holds or when it is cancelled (`AfdComplete`), or it fails it
(`AfdFail`). `port_delete()` frees the socket states whose requests are still
under way; these are `"stray"` from then on and complete into memory that is
freed (`AfdStray`). The model does not follow what such a write does to a later
owner of the memory: `Available` does not hand it out before. The update and deleted
queues are sets, the trees are functions; the queue of poll groups keeps its
order, which decides reuse. A request that fails leaves its socket queued. The
number of a closed socket is not handed out again.

## Runs

| Run | Instance | Checks |
| --- | --- | --- |
| `clients` | 2 STREAM channs, 2 descriptors, immediate and late connect failures, disconnects, failing recv and send, accepted descriptors that stay blocking | `SocketOwner NoUseAfterFree DisListEnds ClosedStaysSilent QueueLosesNobody` |
| `serve` | listener and accepted channs, cached data, send event, fini, misuse, undisciplined polling | `Registered NoStalePointer NoFdLeak SendEventArmed` |
| `dgram` | 2 DGRAM channs, `mnet_dgram_send` failing and blocking, timers armed, re-armed, killed, closed when due | `TypeOK` |
| `live` | clients and servers, with disconnects and reconnects | `InputReported PeerEndNoticed` under `FairSpec` |
| `stream` | one chann of `StreamSend`: 4 bytes per connection, calls of up to 3, 2 per buffer | `TypeOK Contiguous OutWhileCached SendMeansSent`, the refinement `FifoSpec`, and `EventuallySent` under `FairSpec` |
| `timer` | 3 timers, 2 levels, an interval that fits the int and one that does not | `ListShape TimerOwnerAlive CursorKept NeverEarly` and the refinement `RefinesService` |
| `tls` | 2 channs: listener and accepted one, or two clients | `StateAgrees NoStrandedSocket AcceptNamesListener DataAfterHandshake`, and `HandshakeEnds` under `FairSpec` |
| `multi` | monitor, 2 workers, 2 clients, one crash, interrupt or failed fork | `SemAccounted OwnEvents`, and `ClientServed WorkerRestarted` under `FairSpec` |
| `wepoll` | 3 threads, of which 2 wait and 2 create, change and close, 1 socket, 2 socket states, groups of 1, 4 calls, 1 failure | `Watched SleeperIsArmed PollKeepsSock SockAccounted GroupsPacked PortOutlivesCalls`, and `WaiterWakes CloseReturns` under `FairSpec` |
| `v_hang` | 1 chann, one cached block | `NoHang` is violated |
| `v_stale_event` | 2 channs, one disconnected and reconnected in a handler | `ConnectedIsConnected` is violated |
| `v_lost_disconnect` | 2 channs, timers, a recv that fails | `QueuedIsDisconnect` is violated |

Where a module's `TypeOK` is not named, it is a conjunct of the structural
invariant of its run (`ListShape`, `StateAgrees`, `OwnEvents`, `SockAccounted`).

Bounds. Two channs and two descriptors are the least that let one chann's
handler act on the other while its event waits, and let a descriptor be
recycled from one chann to the other; a third adds no new relation between
two. One cached block (`MaxCached = 1`) distinguishes "data is waiting" from
"none is"; the proofs hold for any number. Unread input is a flag, since the
code only asks whether there is some. No counter of the model is unbounded.
`dgram` has one descriptor: what it asks relates a timer to a chann, not two
sockets. In `stream`, four
bytes are enough for two blocks behind a half-sent head, and for a call that is
split between socket and cache with another call behind it; `IntMax = 16` is
above what `cached` reaches (`NoOverflow`), as 2^31 is in the program up to about
32768 blocks of 64 KB.

In `timer`, three nodes are the least in which a level can skip one, and the
cursor can be on a node with one before and one behind it; two levels are one
that skips and one that does not. The clock stops at 2, after which a timer of
interval 1 has fired and been put back behind another. A process that crashed on
freed memory takes no further step, so TLC does not look for deadlocks there. In
`tls`, two channs are a listener with
an accepted one, which may outlive it. In `multi`, a semaphore is contended by
two workers; a second client keeps them busy while the first one's listener
event is stale; one crash leads to one restart, and `AcLimit = 1` lets the first
worker also exit by itself. `MaxKills = 1` allows one loss of the semaphore, and
after it nothing more can be lost; it also counts a failed `fork()`. In `wepoll`,
four calls are a wait, an add, a change or deletion, and a close, in any order.
One of the threads that wait also makes the other calls, so that a wait overlaps a
wait or a change, and a close overlaps waits and changes; two waits, a change and
a close all at once are left to the theorems. Groups of one make every second
socket state need a new group, and are never partly filled, which the theorem
covers; a second state is needed only while the first, deleted, waits for its
completion. After the last call all
threads are idle for good, or one sleeps in a wait that nothing ends; deadlocks
are left to `WaiterWakes` and `CloseReturns`.

Fairness. `FairSpec` has weak fairness of `NextStep`: a call of
`mnet_result_next()` is a loop that always takes its next turn; and strong
fairness of `Poll`: every application of the repository calls `mnet_poll()`
for ever in its main loop, whatever it does between two calls. Nothing is
assumed of the kernel, of the peers or of any other API call.

`StreamSend`'s `FairSpec` has weak fairness of the result loop and of the flush
loop, which are the same loops, and nothing else. What is needed of the program
and of the peer is a premise of `EventuallySent` itself, `PeerReads`: the program
comes back to `mnet_poll()`, and a socket that is watched for room has some again
and again, with or without input, and takes something of what is flushed. Under
it cached data is flushed, or the process hangs, or events with input come again
and again (`[]<>("IN" \in ev)`): `EPOLLOUT` is looked at only in an event without
`EPOLLIN` (line 1281), so a peer that never stops sending keeps cached data where
it is. That is the only way in which the data stays.

`Tls`: weak fairness of the events of each chann, for an application that keeps
polling. That the peer answers is a premise of `HandshakeEnds` (`PeerAnswers`), not
of the specification. The exception the property names is `pend`: a flight of ours
that did not fit waits for an event that need not come, because the filter does
not watch `EPOLLOUT` after `SSL_ERROR_WANT_WRITE` (`mnet_tls.c` 80-82), and a peer
that waits for this flight sends nothing. `MultiAccept`: weak fairness of each process:
the operating system schedules those that run. A worker that finds the semaphore
taken goes on and polls again, so that nobody waits for it. `Wepoll`: a thread
inside the library takes its next step (weak fairness), a critical section that
is free again and again is granted in the end (strong fairness of the steps that
enter it; Windows does not promise the order of waiters, so this is an assumption
about its scheduler), and the driver completes a request that is cancelled or whose
condition holds. That it fails one is possible and not assumed: a request that is
armed for the wrong events stays where it is, and `WaiterWakes` would be violated.
Nothing is assumed of callers or of the network.

The three violation runs are disagreements of the code with its header and
comments, quoted in `PROJECT.json`. More were met while modelling; most are documented by
the settings in which the corresponding property does hold:

- when data and the peer's FIN arrive together, `EPOLLRDHUP` is looked at before
  `EPOLLIN` (line 1219): the socket is closed with the data unread, and only
  `DISCONNECT` is reported;
- a `connect(2)` that fails at once leaves `n->fd` open and nothing closes it, and
  so does an accepted descriptor that cannot be made non-blocking
  (`NoFdLeak` holds where `Ops` has neither `"connect_fails"` nor
  `"nonblock_fails"`);
- `active_send_event` survives a disconnect while `EPOLLOUT` does not, and
  switching the event on again is then a no-op (`SendEventArmed` holds for
  accepted channs, which are never reconnected);
- two failing `mnet_dgram_send()` before the results are taken make
  `n->dis_next = n`, and `mnet_result_next()` never ends (`DisListEnds` holds
  for STREAM channs);
- the timer of a closed chann that was already due is still reported, with a
  NULL opaque pointer (`ClosedStaysSilent` is about socket events;
  `TimerOwnerAlive` says that the chann is not freed yet);
- a handler that sets or kills the timer `tm_pos` is on, which is another one
  than it was told about, leaves the cursor on freed memory, and the rest of the
  round is lost (`CursorKept`, `TimerService`'s `Forgo`); an interval above
  2147 seconds is truncated from the second period on (`NeverEarly` leaves such
  timers out);
- TLS: a handshake that fails on the server side leaves a chann that the
  application was never told of and cannot close (`NoStrandedSocket` says that
  its socket is closed); the listener named in an `ACCEPT` may have been freed
  since; a handshake step that fails within `mnet_chann_connect()` is reported
  neither by its result nor by an event; a listener that is disconnected and
  then used to connect has no TLS state; connecting again does not free the old
  SSL object; a handshake whose flight did not fit in the socket's buffer can
  stall (`HandshakeEnds` excepts `pend`);
- the named semaphore of the multi-process example stays taken when a worker
  dies between `ac_before` and `ac_after`, for all later starts of the server
  too (`ClientServed` excepts that case);
- a failed `fork()` ends the monitor of the example while its workers go on, and
  from then on nobody restarts them (`WorkerRestarted` excepts that);
- an `epoll_ctl(ADD)` of wepoll that runs behind `port_close()` may need a new poll
  group and reach the assertion in `port_get_iocp_handle()`, which ends the process;
  built without assertions it goes on as `CtlAdd` says, with a completion port that
  nobody waits on;
- `epoll_close()` of wepoll frees socket states whose poll requests are under way,
  and the driver completes these into freed memory (`PollKeepsSock` excepts them).

`v_lost_disconnect` shows what comes of the one `chann_msg_t` in a chann: a timer that
comes due while the chann waits on the list of queued disconnects writes `TIMER` over
the `DISCONNECT` (line 575), and the application gets `TIMER` twice and `DISCONNECT`
never. The list itself is sound (`DisListEnds`, `QueueLosesNobody`).

## Proofs

`MnetCoreProofs` proves `TypeOK`, `SocketOwner`, `Registered` and
`NoStalePointer` invariant for all sets of channs and descriptors, all `Ops`,
disciplined or not, and any `MaxCached`. The assumptions are the ones
`MnetCore` names: NULL is no chann and no descriptor, raw types are STREAM and
DGRAM, the bound is a natural number.

The inductive invariant `Inv` is the conjunction of the four. None of them is
inductive alone: that a descriptor handed out by `socket()` is not registered
follows from every registration being its owner's (`Registered`) together with
the owner's socket being open (`SocketOwner`); that `mnet_poll()` frees no
chann with a socket follows from the delete list holding closed channs only
(`NoStalePointer`); that `kev.ptr` in the event loop is a chann at all follows
from the event array pointing to live ones. `FreeFd`, `DisconnectStep`,
`OpenStep` and `InterestStep` are the four ways the sockets change, stated once
and used by all actions; each action then has a lemma of its own and
`NextInv` puts them together.

`MnetQueueProofs` builds on it. Each theorem assumes of the application what its
property needs, and the runs listed above that check the property satisfy it:

| Theorem | Property | Assumes |
| --- | --- | --- |
| `NeverReadsFreed` | `NoUseAfterFree` | `Disciplined`: every result is taken before the next poll |
| `QueueEnds` | `DisListEnds` | only STREAM channs, no misuse of listeners |
| `NobodyIsLost` | `QueueLosesNobody` | the same, and `Disciplined` |
| `SilentOnceClosed` | `ClosedStaysSilent` | nothing |
| `LeaksNoFd` | `NoFdLeak` | no `connect(2)` that fails at once, no accepted descriptor that stays blocking |
| `SendEventComes` | `SendEventArmed` | no `mnet_chann_connect()`, no `mnet_dgram_send()` |

None of the assumptions can be dropped: TLC finds the property violated without
it (`mnet_dgram_send()` counts as a connect because it calls it). Most of these
ways are in the list above; an application that polls between results has closed
channs freed while they are queued, and a listener on which a read failed can
listen and fail again before its result is taken.

The invariant for the queue (`LiveQueue`) says that some set of channs contains the
head of `dis_channs` and is closed under `dis_next` (`Spans`); that under `Disciplined`
its members are live; and that for STREAM channs none of them is connected and a
link leads out of every part of the set (`Grounded`). A set, rather than the path of
the list, makes it provable without induction over the list: a chann that is
queued was connected, so it is new to the set, and a part that contains it has the
link it had or the new one. `DisListEnds` says of the sets that contain the head what
`Grounded` says of all: a link leads out of each, so that there is no cycle of any
length and the list comes to NULL. `Queued(n)`, which `QueueLosesNobody` is
about, is that every spanning set contains n. `NobodyIsLost`
follows because every set that spans the list after a step, together with the chann
the step has handed out, spans it before. `NoFdLeak` needs that
no call leaves a socket behind that is neither connected nor listening,
`SendEventArmed` that no chann is connecting and that an address without a chann
asks for nothing.

`StreamSendProofs` proves, for every bound, buffer size and int width, that
`StreamSend` implements `ByteFifo` (`SendIsFifo`), that `Contiguous` and
`TypeOK` are invariant, and that every step satisfies `SendMeansSent`; under
`NoOverflow` also `OutWhileCached`. Its inductive invariant adds two things to
`Contiguous`: a chann without connection has no blocks, so a new connection
starts clean (`_chann_disconnect_socket()` either finds none or never returns);
and behind block i there are at most as many blocks as bytes, without which
the number of blocks, and with it `mnet_chann_cached()`, would not be bounded.
`CacheFirst`, `CacheMore` and `Drain` say what the three operations on the
blocks do and carry the argument; the actions only cite them. The refinement
needs the first of them in every step: the byte a flush takes next is
`Len(wire) + 1`.

`MultiAcceptProofs` proves `SemAccounted` and `OwnEvents` for any sets of workers
and clients, any limits, and any number of crashes and restarts. `Inv` says where
a process can be (`PlaceInv`: only live ones are in the library), states the
semaphore's account without counting (`SemInv`: at most one holder, none when it
is free or lost), names the queue each process has (`QueueInv`: a running worker
its own, the monitor one of two, a forked child the monitor's until it resets),
and bounds the first worker's count (`LimitInv`). `ResetStep` is the heart: the
queue a process gets from `mnet_multi_reset_event()` is no running process's.
`ExitInv` covers exits, kills and the monitor's end after a failed `fork()`; `QueueInv`
says nothing of the monitor's queue once it is gone. The only assumptions are that the sets are
disjoint and the limits natural numbers.

`TlsProofs` proves `StateAgrees`, `NoStrandedSocket`, `AcceptNamesListener` and
`DataAfterHandshake` for every set of channs, from the assumption that NULL is
neither a chann nor a `mnet_tls_ud_t` and that a freed pointer is neither NULL nor a
chann. Besides the properties, `ChannOK` says that a
chann without a socket starts with a new SSL object and no input, that `tu->ln`
is the accepting listener as long as the state is `LISTENING`, and that a chann
whose messages pass the filter was announced; `MsgOK` is the truth of the last
message. The actions change one chann, or an accepted one and its listener, so
each has a lemma about that chann and the rest is a frame.

`WepollProofs` proves all safety properties of `Wepoll`, for any number of threads,
sockets and socket states, any group size, and any number of calls and failures.
The invariant has four layers, each proved from those before it. `CallsOK`: the
reflock's count and `active` are the numbers of threads they should count, whoever
holds the critical section is in it, and one thread at most closes; this gives
`PortOutlivesCalls`. `SleepOK`: when the lock is free and a thread sleeps, the
update queue is empty, or some request has failed; it needs to know the lock's
owner. `SockOK` is `Watched`, `PollKeepsSock` and the main part of
`SockAccounted` for one `sock_state_t` at a time, with the tree as a bijection
between the registered sockets and their states, and with the completions a
thread has fetched and not yet fed: without these a state that a thread is about
to process could be freed under it; a stray request belongs to no socket state that is
allocated. `GroupOK` says that the queue of groups is a
permutation of the groups made so far, that each count is exact and that full
groups are in front. `PollGroupProofs` has what `poll_group_acquire()` and
`poll_group_release()` do to such a queue.

`TimerListProofs` proves all properties of `TimerList`, for any number of timers,
levels and intervals and any choice of heights: `ListShape`, `TimerOwnerAlive`,
`CursorKept`, `NeverEarly`, and that the list with its cursor implements
`TimerService` (`TimersAreServed`). There are two inductive invariants.

`TimersOK` says that every level has a timer once or not at all, that the node
under the cursor belongs to a chann that is not freed, and that the expiry in
the node of a timer whose interval fits the int is not before the one the
application expects. None of this depends on where the search puts a node, and
the three properties of the cursor and the owner follow.

`ListOK` adds `Shape`: every level is a list in the order of the lowest, holds the
nodes whose height reaches it, and the lowest is in the order of time. It
states the levels in use as the interval `1..level`, not as a number, because
`skiplist_remove_skipnode()` counts down one level at a time: that it arrives at
the right number needs the levels to be without a gap (`NoGap`, `ShapeRemoved`).
It also keeps the cursor on a node that is on the list, and the interval of a
timer that fits the int positive, so that a timer that is put back is put
behind the cursor's time.

The search is the hard part. `EndInIs` shows that one level finds the first node
that is not earlier if the level above did: what lies between the two places
found above, and nothing else, can contain it, since a node there is here too.
From the top to the bottom this is an induction, which the provers do not have.
`EndAtIs` goes around it: the first nodes of the levels satisfy the equation of
the search; if what the search finds differed from them on some level, take
the highest such level, and the level above would have given it the right
node. With the place of a node known on every level, `InsertOrder` says what
is in front of what afterwards (`ShapeInserted`).

For the refinement, `OwedIs` says what the cursor has yet to hand out in terms of
the order alone: the node it is on and those behind it that are due. `NextBefore`
says that what is behind a node is the next node or behind that, so moving the
cursor on before the node is put back loses nothing; `OthersOwed` that a handler
that moves or removes another node neither adds to the others nor takes from
them. `TmHit` of a timer that fits the int puts it later than the poll's time, so
it is not owed again in the same round; only a `wild` one may be. The
assumptions are those of `TimerAssumption`: finitely many channs, places that are
not channs, `Null` not a number, a list of one level at least, positive
intervals.

`Without` in `Wepoll` and `Removed` in `TimerList` take an element out of a
sequence by a description of the result, not by recursion or `SelectSeq`, because
the provers can only reason about the former.

Not proved, and checked by TLC only:

- liveness (`InputReported`, `PeerEndNoticed`, `EventuallySent`, `HandshakeEnds`,
  `ClientServed`, `WorkerRestarted`, `WaiterWakes`, `CloseReturns`), which rests on
  fairness and `ENABLED`, and is out of the prover's reach.

Every invariant, action property and refinement of a passing run is a theorem,
with the hypotheses named above where it has some.

## What is not modelled

- The bytes of received data: the library hands `recv(2)` through.
- `bytes_send`, `bytes_recv`, the opaque pointer and the log: nothing in the
  library depends on them.
- The kqueue branches of the event loop: `EV_EOF` and one filter per entry instead
  of event masks; the Linux/epoll build is the one modelled, and for Windows the
  epoll that wepoll provides.
- Of wepoll: the red-black tree (a function here), the mapping of error codes,
  and the search for a base socket under layered providers.
- The peer address in `n->addr` of a DGRAM chann. A listening DGRAM chann with
  cached data reports `RECV` for `EPOLLOUT` and does not flush; what is lost is a
  datagram.
- The wall clock stepping back under the timers, and negative intervals.
- After `fork`, channs other than the listener: the example has none, but
  `mnet_multi_reset_event()` would register a connecting chann, or one with
  cached data, without `EPOLLOUT`, and a fresh chann under descriptor 0.
- Failures of `malloc`, `epoll_create` and `epoll_wait`, which the code either
  ignores or ends on.
- `mnet_resolve`, `mnet_parse_ipport`: strings around `getaddrinfo`.
- The mDNS query (one packet built, one answer parsed, no state between calls),
  and the Lua, LuaJIT and C++ layers, which hand the API through.

## Plan

Done: `MnetCore` (life, event loop, kernel), `StreamSend` and `TimerList` with their
abstract specifications, `Tls`, `MultiAccept`, `Wepoll`; the theorems about all of
them listed under Proofs. To come: the binding of `mnet-chann.lua` and the C++
dispatcher, on an abstract chann life that `MnetCore` is then shown to implement.
