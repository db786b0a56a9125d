# A TLA+ model of net-lib-wrapper

net-lib-wrapper wraps Linux TCP and UDP sockets behind a small C interface
(`ms_tcp_create`, `_connect`, `_listen`, `_send`, `_destroy`; the same for UDP)
and one callback per link. Behind it are an epoll worker thread, a thread that
closes idle links, and reference-counted link objects in a table that all
threads share. The samples put a table of clients, a packet framing, packet
codecs, two handshakes and a pool of task threads on top.

This directory models all of these: the library in detail, thread by thread, and
the samples as far as they have behaviour. It holds the specifications, the
instances TLC checks, and proofs, for every instance, of all that is state and
interleaving: the links, the library's smaller components, the server's table,
both handshakes and the task threads.

## Inventory

### TCP links: `tcp-link.cpp`, `ms-epoll-tcp.cpp`

State, per link (`MsTcpLink`): the socket `mi_socket` (-1 for none), the handle
`mh_link`, `m_link_type` (Null, Listen, Connect, Connected, Accept), the list
`m_send_buff_list` of unsent data under its own mutex, `mt_last_alive_time`
under another, `mb_need_check_alive`. State of the process: the table
`m_maplink` from handles to links, under `m_link_lock`; the flag `mb_send_flag`
("some list may be non-empty"), under nothing.

Operations: `ms_tcp_create` (socket, bind, enter the table, CREATED), `_connect`
(non-blocking connect, CONNECTED at once, epoll), `_listen` (epoll), `_send`
(write, keep the remainder, raise the flag), `_destroy` (drop the data, leave
table and epoll, shut down, CLOSED), `_get_link_addr`.

### The worker and the timeout thread: `ms-epoll.cpp`

`worker_thread` waits for edge-triggered events and handles a batch: a hang-up
(DISCONNECTED, then the link leaves the table); a connection on a listener
(`on_event_accept`: accept until EAGAIN, enter the table, ACCEPTED, epoll); the
completion of a connect; data (`on_event_read`: RECV_BEGIN, read until EAGAIN,
RECV_END; the end of the stream destroys the link). After each batch it calls
`do_send_buff`. `timeoutThreadProc` calls `check_link_timeout` every five
seconds. `end()` writes an eventfd, joins both threads, closes epoll and
destroys what is left in the table.

### How they interact

Application threads, the worker and the timeout thread all look a link up in the
table, keep a counted pointer, and then work on the link under no lock. The
callback runs on whichever thread produced the event, under no lock, and may
call the interface. The kernel is the fifth party: a full send buffer, edges
reported once, a peer that closes or resets.

Lock order: `m_link_lock` before a link's list mutex (`do_send_buff`); a sender
or destroyer takes the list mutex alone. The application's own lock in `LinkMgr`
comes before `m_link_lock`.

### UDP: `udp-link.cpp`, `udp-ms-epoll.cpp`, `ms-epoll-udp.cpp`

The same state as for TCP, without types, times and a timeout thread: a table
`m_maplink` under `m_link_lock`, and a list of unsent datagrams with
`mb_send_flag`, which nothing ever fills: `link_create` opens a blocking socket
(`udp-link.cpp:171`), so that `sendto` (243) waits where a TCP socket would
return EAGAIN, and only EAGAIN puts a datagram on the list (254-268).
`ms_udp_create` opens and binds the socket, enters the table, registers it with
epoll, without a look at the result, and then delivers CREATED; `_send_to` calls
`sendto`, under no lock, and may wait there; `_destroy` leaves epoll and table,
shuts down and delivers CLOSED. The worker reads one datagram per event
(RECEIVEDATA); `_uninit` writes an eventfd, joins the worker, closes epoll and
destroys what is left.

Correct means: a sender that waits goes home when its link is destroyed;
datagrams that wait are read; the callback hears of a link while or after it is
created, and of its end; `_uninit` leaves nothing and returns.

### The other parts

| Part | State and operations | What makes it correct |
|---|---|---|
| Receive path (`tcp-link.cpp`, `ms-epoll.cpp`) | a socket's bytes, epoll's edges, one buffer; read until EAGAIN, BEGIN/MIDDLE/END | what is sent before the end is heard, in order, in the end |
| Idle links (`is_alive`, `check_link_timeout`) | a time per link; refreshed by reads and by the flush | a link that does something is kept, a silent one dropped |
| Descriptors of links | who takes one and gives it back | calls hit their own socket; what is not used is closed |
| `MsEpoll`, `MsUdpEpoll`: `init`, `end` | descriptors, threads, a flag | every thread started is joined; `end` returns |
| Handle counter (`tcp-link.h:68`) | an `int` and a modulus | a handle finds its link |
| `CRefCountPtr` (`Guard.h`) | object and counter; copy, assign, release | freed once, after the last pointer |
| `CSingletonHandler` | instance, mutex; `Instance`, `Release` | one instance, nobody sleeps for ever |
| `LinkMgr`, `link-hdr.h` (server sample) | the clients by handle; accepted, closed, `UnInit` | the clients are the accepted links that live |
| Framing (`net-handler.h`) | one receive buffer; bytes in, packets out | every packet once, in order, for its own link |
| Codecs (`net-packet.h`, `net-memory-io-base.h`) | a cursor over memory | reading inverts writing, never beyond the end |
| Message types and structs (`comm_typedef.h`, `comm-func.h`) | switches over `msg_type`, unchecked casts | a header is cast to what was parsed |
| Client sample (`test-client.cpp`) and its counterpart | its handle; connect, negotiate, authenticate | nobody authenticated without agreement; the handle is one that lives |
| UDP sample (`udp-client-test.cpp`) | `mh_link`; the same two exchanges over datagrams | the same, whatever the network does |
| Task threads (`thread-queue.h`, `timer-queue.cpp`) | tasks, timers, exit flag, condition variable | every task runs once, timers when due, threads end |
| MD5 (`md5.cpp`) | four registers over padded blocks | the digest of RFC 1321 |

The logging library is a binary, and its calls change no state of the program.

### What is hard

Three kinds of threads may destroy one link at the same moment. The test and
reset of `mi_socket` is not atomic. The flag is cleared before the lists are
looked at. Edges come once, possibly before anybody is ready for them. Short
writes split data between `link_send` and `do_send_buff`. The exit event may
stand anywhere in a batch. `epoll_ctl` may fail and nobody looks. The timeout
thread may take a link the worker is just accepting. The flush need not come
back. A descriptor is used after it was closed elsewhere.
The mutex of the singleton is initialised by whoever comes first, and by the
second, too. The samples keep one receive buffer for all connections, tell
packets apart by magic numbers, and re-arm timers before they run.
`PROJECT.json` lists these hazards, and the sequential ones, at their lines.

## The modules

| Module | Content |
|---|---|
| `SendBuff` | the send path: senders, destroyers, the worker's flush, the kernel's buffers |
| `TcpLink` | the life cycle: table, epoll, events, timeout thread, shutdown |
| `LinkContract` | the abstract specification TcpLink implements: what a caller sees of a link |
| `UdpLink` | the UDP wrapper: life cycle, senders that wait, the worker that reads |
| `RecvPath` | the bytes of one connection, from the socket to the callback |
| `AliveTimeout` | `mt_last_alive_time`, the clock, and which links expire |
| `Descriptors` | the descriptors behind links, and what happens when they run out |
| `EpollLife` | `init` and `end` of both epoll classes, with their failures |
| `Handles` | the handle counter, with its overflow |
| `Singleton`, `RefCountPtr` | the two templates every other part uses |
| `LinkMgr` | the server's table of clients, composed with LinkContract |
| `Nego` | client and server handle: connect, negotiate, authenticate |
| `UdpClient` | the UDP sample: peers over an unreliable network |
| `TaskThread` | the pool with its tasks and timers |
| `Framing` | from chunks of bytes to packets |
| `WireKinds`, `MsgBodies`, `MsgLayouts`, `Codec` | the forms of a member on the wire; the messages as they are packed; as they are declared; packing and parsing |
| `MsgTypes` | the switches over message types |
| `Md5` | the digest |
| `Library`, `Samples` | sums of the small components and what is checked of them, see "The runs" |
| `MCSendBuff`, `MCTcpLink`, `MCUdpLink` | instances of the first modules |
| `MCLibrary`, `MCSamples`, `MCProtocol` | instances of the sums; MCProtocol adds the formats to Samples |
| `SendBuffProofs`, `TcpLinkProofs`, `UdpLinkProofs`, `LinkMgrProofs`, `TaskThreadProofs`, `FramingProofs` | theorems about one component, for every value of its constants |
| `LibraryProofs`, `SamplesProofs` | theorems about the sums, and the proofs of the components that have no module of their own |

SendBuff and TcpLink describe the same threads with different detail. SendBuff
has mutexes, bytes and the flag, and takes a link from "connected" to "gone".
TcpLink has the events, listening, accepting, the timeout thread and the
shutdown; of the sending it keeps that the worker may be in `do_send_buff`,
holding `m_link_lock`, for any time or for ever. They meet at `link_destroy` and at the
hang-up branch, which both have, step by step. `m_link_lock` is held for more than one step only in `do_send_buff`; TcpLink
therefore treats each other critical section on the table as one action, which
waits while the worker is in the flush (`TableFree`).

In all of them, an action is one access to state that another thread may touch,
with what the thread does to its own state before the next one; `pc[t]` is where
thread t stands, `arg[t]` the link it holds a pointer to. What the application
does inside a callback is a call of an application thread made while the worker
is between two steps.

A definition whose name ends in `Faulty` is its neighbour with a plausible bug
seeded (a guard or a reset left out, an index off by one). None is used by a
specification; with one put in the neighbour's place TLC finds the property that
`PROJECT.json` names with it violated.

### SendBuff

| Variable | In the code |
|---|---|
| `m_maplink`, `m_link_lock`, `mb_send_flag`, `mi_socket` | the same names |
| `m_send_buff_list`, `mo_send_buff_list_lock` | per link; a chunk `[msg, from]` is the bytes `from..MsgSize` of message `msg`, as every chunk is a suffix of a message |
| `room`, `nospace`, `wire`, `broken`, `fin`, `ready` | the kernel: free space, "the writer wants EPOLLOUT", the bytes taken, reset, end of stream, pending edges |
| `rest`, `todo`, `sent`, `batchHup`, `batchIn` | local variables: what is left to push, the iterator over the table, `i_send_size != 0`, the events of the batch |
| `log`, `overtaken` | history, for the properties only |

`SendFind`, `SendWrite`, `SendError`, `SendPush`, `SendFlag` are `ms_tcp_send`
and `link_send`; `DestroyFind`, `DelSendBuff`, `DelLink`, `DestroySocket` are
`link_destroy` and the hang-up branch; `EpollWait`, `HandleEvent`, `BatchDone`
the worker's loop; the `Flush...` actions `do_send_buff`, one per write() and
per lock taken. `FlushSpin` is the write that fails before it has sent anything
of a chunk: the code neither leaves the loop nor drops the chunk.

### TcpLink

| Variable | In the code |
|---|---|
| `m_maplink`, `mi_socket`, `m_link_type` | the same names; "new" is an object not made yet, "queued" a connection nobody has accepted |
| `listening`, `backlog`, `fin`, `registered`, `ready` | the kernel: listening sockets, connections waiting, ended connections, epoll's interest list, pending edges |
| `exitEvent`, `stop`, `ender` | the eventfd, `mb_timeout_thread_flag` negated, the thread in `ms_tcp_uninit` |
| `batchHup`, `batchIn`, `batchExit`, `listener`, `todo` | local variables of the worker, and the snapshots of `check_link_timeout` and `free_all_link_map` |
| `told`, `closes`, `raced` | history: the kinds of event the callback got about each link, how often CLOSED, and for which links two runs of `link_destroy` overlapped |
| `hasty`, `refused` | history: the links `link_destroy` was at before the application was told of them; those whose socket `epoll_ctl` did not take |

`Create`, `FindUnused` (`ms_tcp_connect`, `ms_tcp_listen`), `Connect`, `Listen`,
`TellApp`, `AttachGet` and `AttachCtl` (the socket is read, then given to
`epoll_ctl`), `Destroy`, `DestroyFound`; then `DelLink`, `DestroyCheck`,
`DestroySet`, `DestroyTell` (`link_destroy`, shared by all threads);
`EpollWait`, the `Take...` actions, `TellDisc`, `Accept`, `SetLink`,
`TellAccepted`, `AcceptDone`, `Read`, `ReadEnd`, `BatchDone`, `Flush`,
`FlushEnds` (the worker); `TimerCheck`, `TimerStop`,
`NextDestroy`, `AllDestroyed` (the timeout thread); `Uninit`, `JoinWorker`,
`JoinTimer`, `FreeAll` (`end()`).

A link that `on_event_accept` has entered into the table has no handle until
`SetLink` gives it one: `MhLink` is what `del_link` looks for, so a
`link_destroy` in between leaves the link in the table, without a socket. Any
accepted link may expire at any moment, since the time it is stamped with was
read before the accept loop (`tcp-link.cpp:403`, `418`) and the clock may be
set; AliveTimeout says when it does. `epoll_ctl` may refuse a socket wherever
one is attached, and `accept` may fail, if `Errors` is true. Links in `Calm`
carry no data, stay up and do not expire; only `link_accept` has any.

Restrictions, all of them on how the application uses the interface, and kept by
the samples: it uses handles it has been told of, connects or listens on a link
at most once, and calls `ms_tcp_uninit` once, when no other call is under way.
A socket is identified with its link: as the code closes no descriptor but one
whose connect failed, numbers are hardly ever reused.

### LinkContract

Three variables: `status[l]` (not in the table yet, live, dead), `told[l]`, the
events delivered so far, and `hasty`, the links that were destroyed before they
were announced; four actions, `Publish`, `Deliver`, `Remove` and `Hurry`. It has
no threads. A caller can rely on it: a handle is never used twice, the first
event announces it, it does not leave the table before that, CLOSED comes only
when no call can find it, and (`Farewell`) once it has gone CLOSED or
DISCONNECTED comes. `Hurry` is the way out that the code needs: about a link
that the timeout thread destroys before ACCEPTED, nothing of this is promised.
TcpLink instantiates it with `told` and `hasty` as they are and `status`
computed from `m_maplink` and `mi_socket` (`Status`). Modules for the users of
the wrapper need LinkContract only; LinkMgr is one.

### UdpLink

| Variable | In the code |
|---|---|
| `m_maplink`, `mi_socket` | the same names |
| `shut`, `queued`, `unread`, `registered`, `ready` | the kernel: sockets shut down, datagrams in the send buffer (`SndRoom`) and in the receive buffer (`RcvRoom`), interest list, pending edges |
| `exitEvent`, `ender` | the eventfd, the thread in `ms_udp_uninit` |
| `batch`, `batchExit`, `todo` | local variables: the worker's events, the links `free_all_link_map` has still to destroy |
| `told`, `refused` | history: the kinds of event the callback got about each link; the links `epoll_ctl` did not take |

`Create`, `Attach`, `TellCreated` are `ms_udp_create`, with the windows before
epoll and before CREATED; `SendFind`, `SendTo`, `SendDone`, `SendFails` are
`ms_udp_send_to`, where "sending" is the wait in `sendto`; `Destroy`, `DelLink`,
`DestroyCheck`, `DestroyShut`, `DestroySet`, `DestroyTell` `link_destroy`, with
the shutdown, which frees those who wait, a step of its own; `EpollWait`,
`TakeExit`, `TakeRead`, `Read`, `TellData`, `BatchDone` the worker; `Uninit`,
`JoinWorker`, `FreeAll`, `NextDestroy`, `Ended` the shutdown. There is no list
and no flag, and `do_send_buff` has no action: its first test is always false.
Restrictions: the application uses handles the callback has told it
of, and calls `ms_udp_uninit` once, alone; received datagrams are not empty.

### The library's smaller components

**RecvPath**: one connection and the worker. `Arrives`, `Fin`, `Reset` are the
peer's, `Establish` the completion of a connect; `Handle` is the dispatch of
`ms-epoll.cpp` (EPOLLRDHUP before EPOLLOUT before EPOLLIN), `ReadSome`,
`ReadNothing`, `ReadReset`, `ReadEnd`, `TellEnd` are `on_event_read`, one per
`read()`, with `buffer` and `i_recv_size`. `Cap` stands for the 10 MB;
`i_recv_size` is unsigned and wraps at 2^8 for 2^32.

**AliveTimeout**: `stamp[l]` is the clock minus `mt_last_alive_time`,
`silent[l]` the true age of the last data, counted from the start of the accept
loop at first; both stop at `Limit`, so time may go on for ever.
`OnEventAccept` reads the clock (`st_time`), once, before its loop; `Accept`
makes a link and enters it into the table, `UpdateLinkTime` gives it that time,
`AcceptEnds` is the end of the loop. `LinkSend` (no refresh when the data is
written at once), `OnEventRead`, `DoSendBuff` (refreshes every link as soon as
one has data waiting), `CheckLinkTimeout` and `LinkDestroy` (the timeout
thread), `Tick`, `SetClock` (once, on or back).

**Descriptors**: `mi_socket` as a number among `Fds`, the application's links
(`LinkCreate`, `BindFails`, `FindLink`, `ConnectFails` and `ResetSocket`:
`close` comes before `mi_socket = -1`) and accepted ones (`OnEventAccept`,
`Accept`, `AcceptUnnamed` when `getsockname` fails, `AcceptEnds` when `accept`
has nothing more or no descriptor), `Doom` to `Shutdown` for `link_destroy`,
`HangUp` for the hang-up branch. `struck` records that a call went to another
link's descriptor.

**EpollLife**: `Start` is `init`, with each of its calls failing or not,
`WriteExit` and `End` are `end`; `EnterWait`, `Handled`, `WorkerExits`,
`TimerStep` the threads. Once the timeout thread cannot be created, `init`
closes the epoll descriptor and the exit event under the worker it has started
and returns false; that worker waits for a descriptor that is closed, or that
the next `init` has got again. `stranded` marks it, and the properties say what
holds otherwise: without it `end` returns; with it `end` may wait for that
worker for ever.

**Handles**: a signed counter from `-Half` to `Half - 1` that wraps (2^31 in the
code), the modulus `0x3ffffffff`, which is larger than any `int` and does
nothing, and the table.

**Singleton**: the mutex is the futex word glibc makes of it, since
`pthread_mutex_init` writes 0 into it whoever holds it. With `Cold` false the
first call is `main`'s, as in all samples. With `Cold` true the first calls
race: two objects may be made, a thread may get one that is deleted or not yet
built, and three threads may lose a wake-up; what still holds then is in
`SleepersAreWoken`'s exception.

**RefCountPtr**: pointers on the stacks of threads and in the table, an
operation split wherever a counter is read, changed or deleted. Assigning null
to a pointer that holds an object leaves it with a counter it has given up, and
assigning a pointer to itself uses an object after its deletion: the wrapper
does neither, and both are excluded.

### The samples

**LinkMgr**: `status` and `told` are LinkContract's, and its steps `Publish`,
`Deliver`, `Remove` occur inside the actions of three threads, the worker
(`Accept` to `RecvData`), the timeout thread (`Expire`) and main (`TcpCreate` to
`FreeAll`), which share `link_remove` and `link_destroy` (`Destroying`).
`mo_link_map_lock` and `m_link_lock` are held by name. `hlinkvec` is the
snapshot of `link_remove_all`. The timeout thread may take a client at any
moment, before its ACCEPTED too; one whose CLOSED comes before `link_create` has
made its HANDLE is `overtaken`, and one that is destroyed before it has a handle
is `hasty` as well. The worker may be in a flush, which need not end.

**Nego**: `pc` is where the client's main thread is in `process_connect_server`;
`OnTcpRecvData`, `OnTcpClosed`, `OnTcpDisconnected` are its callback,
`Accepted`, `RecvData`, `Forget` the server's; `Cut` ends the connection at any
moment. The connection is a queue of packets for each direction. Two things of
the bytes matter to who waits for whom, and are kept: a packet may have its rest
on the sender's list (`unsent`, `DoSendBuff`), and a packet whose last read was
shorter than a header stays in the receiver's buffer (`held`, `ShortRead`;
`net-handler.h:117`) until more comes. A side that flushes over a connection
that was reset does not come back (`spins`).

**UdpClient**: peers that all run the sample's program; `Watch` (epoll has the
socket) and `OnUdpCreated` (`mh_link` is set) are apart, as in UdpLink. `net` is
a set of datagrams, of which some are lost, and each may be read again. As the
worker reads one datagram per edge, those that came with the same edge are
`left` in the socket; `ReadLeft` takes one when some other edge comes, which
nothing makes sure of. A handler that lacks its `return` (`udp-client-test.cpp:167`) is undefined
behaviour: the peer may go on or be "fallen".

**TaskThread**: a step of a pool thread is the code between two points at which
it lets go of the mutex; `Post` changes the list and `Return` signals after
unlocking. Before it waits a thread reads the clock twice, in
`do_while` (`ReadNow`) and in `get_wait_time` (`TimedWait`), and the clock may
be set in between: `back` is by how much it went back. Condition variables may
wake without a signal. Timers are records of
id, start of period and interval, in `ms_timers`'s order; with `Jumps` the clock
may be set.

**Framing**: a packet is two units of magic number, one of length, and a body; a
unit knows its connection and packet, so that the properties can tell. The
callback is taken round by round: `Copy` puts the next unit of a chunk behind
what is left (where a chunk ends is TCP's choice), `EndCopy` is the two early
returns, and `Scan` one round of the `while` loop, which passes over a byte
(`Skip`), hands a packet on (`Dispatch`), finds that `parse_packet` has no type
for it or refuses its body, and goes on a byte further (`Pass`), or ends and
keeps what is left (`Keep`). Only the worker runs it, and another link's chunk comes only between
two calls. What bytes outside the model decide (memory behind the buffer that
goes on like a magic number, a magic number inside a body, a length read from
the middle of a body, whether a packet is taken) is chosen freely.

**Codec**: `phase` goes from packing to parsing; one action per form of a member
(`PackFixed`, `PackString`, `PackGroup`, ..., `ParseMember`, `ParseGroup`,
`ParseLax`). `MsgBodies` has the members of each message in the order its
`parse_req` or `pack_resp` takes them. The other side of the two exchanges that
the samples make reads and writes with these headers too (`ExchangedBodies`);
the other side of all other messages is a program this repository does not have,
and is taken to follow the structs of `comm_typedef.h` (`MsgLayouts`). Arrays are cut down to two elements and lengths go to one more, so that
each limit is met, and passed.

**MsgTypes**: `ParsePacket`, `RecvData`, `React`, `SendPacket`, `Travel` follow
one code of a message through the switches of server, client and UDP sample.

**Md5**: `Pad`, `Step` (64 per block) and `AddOriginal`, then `conv`; a word is
a pair of halves.

## The runs

There are twelve runs, eight that pass and four that are violated. SendBuff,
TcpLink and UdpLink have runs of their own; the small components are checked in
three sums. A sum (`Library`, `Samples`, and `MCProtocol`, which extends the
latter by the formats) has a variable `part` that `Init` chooses and nothing
changes: a behaviour is one of that component, and the variables of the others
keep the values of a single initial state. The state space is therefore the
disjoint union of those of the parts, no part is restricted, and a property of
the sum is the conjunction of those of the parts, each asked of where its part
runs. The constants of the parts are
constants of the sum, which the theorems leave open and the configurations of
`MCLibrary`, `MCSamples` and `MCProtocol` give values to.
Fairness is stated for each part on its own actions, as the component states it,
so none is weaker or stronger than alone.

All instances are exhaustive. `CHECK_DEADLOCK FALSE` is right in all of them:
messages, links and time of an instance run out, and after the end of the
wrapper, the server or the pool the system stops by design. Waiting for ever is
excluded by liveness instead.

| Run | Instance | Shows |
|---|---|---|
| `send` | 1 link, 2 threads, 2 messages of 3 bytes, kernel buffer of 1, resets, traffic | `TypeOK`, `NoLostSend`, `FlushWritesOpenSocket`, `StreamIsIntact`, `FlushMovesOn` |
| `send_reset` | the same with 2 bytes | `DestroyReturns` fails |
| `send_quiet` | 1 link, 1 thread, a peer that sends nothing | `BufferedIsSent` fails |
| `link_safety` | 2 links, 2 application threads, accept() and epoll_ctl() may fail | five invariants of TcpLink, and `KeepsContract` |
| `link_live` | 2 links, 1 application thread, neither fails | `HangupIsHandled`, `FarewellComes`, `UninitReturns` |
| `link_accept` | a listener and 3 connections that carry no data, 1 application thread | `ConnectionIsAccepted` |
| `udp` | 1 link, 2 threads, kernel buffers of 1 and 2 datagrams, a network card that may stop, epoll_ctl() may fail, traffic | three invariants of UdpLink, `DestroyFreesSender`, `WorkerServes` |
| `udp_edge` | 1 thread, on a network that may fall silent | `WaitingIsRead` fails |
| `library` | RecvPath: 4 bytes, buffer of 3. AliveTimeout: 2 links, limit of 2 ticks. Descriptors: 1 own link and 2 guests, 2 descriptors. EpollLife: both classes, 3 starts. Handles: `Half` = 4, 20 links, 3 at a time. Singleton: 3 threads, warm and cold. RefCountPtr: 2 threads, 4 pointers, 2 objects | `StreamIsHeard`, `ExpiredWasSilent`, `ThreadsAreKnown`, `HandlesFind`, `ObjectsAreThere`, `DescriptorsAreOwn`, `PeersAreServed`, `CallsReturn` |
| `descr_leak` | as `library` | `EndedIsClosed` fails |
| `samples` | LinkMgr: 1 client. Nego: 3 versions. UdpClient: 2 peers on a network that delivers, and stops. TaskThread: 2 threads, 2 tasks, 1 timer. Framing: 2 packets, of 3 and 4 units | `HandshakeIsSound`, `NoTaskForgotten`, `AskedIsAnswered`, `EndReturns` |
| `protocol` | LinkMgr: 2 clients. UdpClient: loss, repetition, 2 versions. TaskThread: 2 timers, a clock that is set. Codec: all messages. Framing: 2 connections, of which one sends 3 packets of 3 to 5 units, or one sends 2 of 3 and the other 1. Md5: 14 texts. MsgTypes: all codes and 14 without a meaning | `TableIsTrue`, `AuthFollowsAgreement`, `TimersAreKept`, `RoundTrip`, `PacketsAreIntact`, `DigestIsMd5`, `CastIsSound` |

Why these sizes. In the TCP life cycle two links are needed for a listener with
a connection, and two application threads with worker and timeout thread put
four threads at one link, where every race in the code is between two. That a
connection comes while the accept loop runs, and another waits behind it, takes
a listener with three connections: that is `link_accept`, whose connections do
nothing else, as what they may do is in the other two. In the
send path and for UDP one link suffices for the accounting, which is per link;
that a flag is raised for a link the flush has already passed needs two, and is
what the theorem `FlagNeverLosesData` proves for any
number. Messages of three bytes and a buffer of one make a chunk be sent in
three parts, so that a remainder of a remainder occurs. A UDP send buffer of one
makes the second sender wait while the first datagram is not transmitted; a
receive buffer of two lets two wait at once. A receive buffer of three for four
bytes is filled and filled again; three starts of EpollLife let a worker
stranded by the second meet the third; the eight values of a handle go round
twice with 20 links; three threads are what the lost wake-up of the singleton takes; a
third descriptor is what two guests cannot have. Two clients make one be
accepted, or closed before its HANDLE is made, while `UnInit` is at the other.
Two pool threads read their deadlines from different readings of the clock, and
two timers are taken by either. Packets of three to five units end in
chunks of any length at every unit. The texts of Md5 are those of RFC 1321 and
others on either side of each limit of the padding, with the digests of an
independent implementation.

### What the properties say

TCP and UDP links:

- `NoLostSend`: data on the list of a link in the table is
  covered by the raised flag, by the sender about to raise it, or by the flush
  that has yet to come by.
- `FlushWritesOpenSocket` (and, proved only, `FlushSendsOnOpenSocket`): the
  flush holds `m_link_lock`, and `link_destroy` leaves the table before it gives
  up the socket, so the flush never writes to -1.
- `StreamIsIntact`: of each message a prefix is on the wire, its bytes in order,
  and the rest in one place; and the stream is in the order of the sends, except on links on which
  `link_send` wrote while older data was waiting, or two senders pushed their
  remainders the other way round (`overtaken`). Both do happen: the code makes
  no promise about the order of two sends once the first did not fit.
- `FlushMovesOn`: until a peer resets, `ms_tcp_destroy` returns and buffered
  data is sent, while data keeps arriving.
- `RemovedIsTold`, `OneClosedUnlessRaced`, `UninitLeavesNothing` (and, proved
  only, `AnnouncedFirst` and `ClosedMeansGone`): the contract of the callback.
  They accept DISCONNECTED as the last word, since the hang-up branch sends
  nothing else. CLOSED can come twice, when two threads are in `link_destroy` at
  once, and only then. Links that are `hasty` are excepted by name: the timeout
  thread was at them between their entering the table and ACCEPTED. For such a
  link CLOSED may come first, and one that had no handle yet stays in the table
  without a socket until `free_all_link_map`, which reports nothing of it.
- `NoDeafLink`: a link in the table that should get events is registered, or a
  thread is about to see to it, unless `epoll_ctl` refused its socket; then it
  stays, and nothing is ever heard of it.
- `KeepsContract`, `FarewellComes`: TcpLink implements LinkContract, step by
  step, and its liveness.
- `DestroyFreesSender` (its safety half, `NoSenderStranded`, is proved): a thread
  that waits in `sendto` is not left there by a `link_destroy` on another: it
  does not see `mi_socket` become -1, but the shutdown before that ends its wait,
  though no datagram ever leave the buffer.
- `EarlyOnlyWhileCreating`: UDP's callback can get RECEIVEDATA, even CLOSED,
  before CREATED, since epoll watches the socket already; but only until
  `ms_udp_create` returns.
- `HangupIsHandled`, `ConnectionIsAccepted`, `UninitReturns`, `WorkerServes`:
  what must happen; those of TcpLink as long as no flush holds the worker for ever
  (`FlushesEnd`), `WorkerServes` but for a socket that epoll refused.

The library's smaller components:

- `StreamIsHeard`: what the callback hears is a prefix of what was sent; bytes
  are lost only when the peer has ended the connection (EPOLLRDHUP comes before
  EPOLLIN), or reset it; the end is reported only for an end, a reset, or a
  buffer filled to the brim, which `read()` of size 0 takes for an end; and the
  size of a block is that of its bytes, but for a reset in mid-read, which
  counts as -1 bytes.
- `ExpiredWasSilent`: a link found expired had been silent, counted from the
  start of the loop that accepted it, unless the clock was set on.
- `ThreadsAreKnown`: the threads that run are those `end` will join; none runs
  when the table is freed; a worker waits on an open descriptor, the stranded
  one excepted.
- `HandlesFind`: a handle finds its own link as long as fewer than 2^32 links
  have been made since, as nothing looks whether a handle is in use; and
  `INVALID_HTCPLINK` is given out, as a failure that was none, once in 2^32
  links and not before.
- `ObjectsAreThere`: of the singleton there is one object, and it is there while
  it is used; counters count the pointers, an object is there while one points
  to it and goes with the last.
- `DescriptorsAreOwn`: an open descriptor is the socket of its link, or that
  link has left the table: calls that fail leave none behind. Each link in the
  table has its own, and what is done for a link hits another's socket only in
  the gap between `close` and `mi_socket = -1` of a failing connect, and never
  for an accepted link.
- `PeersAreServed`: data that arrives is read or the connection ended (bytes
  that came with the edge of a connect wait for the next); all who wait are
  accepted once epoll reports the listener, unless descriptors run out or
  `getsockname` fails, which ends the loop; a silent link is dropped if from
  some time on no data waits to be sent, since the flush refreshes every link,
  and so keeps silent ones alive.
- `CallsReturn`: `end`, and `Instance` and `Release` of the warm singleton.

The samples:

- `TableIsTrue`: a client that is served has a HANDLE; data that finds none came
  from a client that is gone (its last packet may, as CLOSED comes before the
  data); nobody stays in the table after its CLOSED; `UnInit` removes its
  snapshot, and with `ms_tcp_uninit` all. Excepted by name are the clients that
  were `overtaken`: their CLOSED came before `link_create` put them in
  (`link-mgr.h:256`), found no HANDLE, and the HANDLE made afterwards stays.
- `HandshakeIsSound`, `AuthFollowsAgreement`: an id is held only after a version
  both accept; a handle kept for a link that is gone is one stored after CLOSED
  (`set_link` follows `ms_tcp_connect`) or after a DISCONNECTED, which never
  clears it; answers to a held handle are heard. Over UDP a request costs four
  datagrams at most, if the network repeats none (`NoStorm`).
- `NoTaskForgotten`: while a thread sleeps, each waiting task has a thread on
  its way to the list or a signal still to come; none runs twice; and when all
  sleep, one wakes in time for the first timer, or later by no more than the
  clock was set back between that thread's two readings of it (`back`).
- `TimersAreKept`: that again, with two timers and a clock that is set; no timer
  fires early, none is in the set twice, and one that was killed is gone from it
  (a callback already taken still runs).
- `AskedIsAnswered`, `EndReturns`: a handshake, a task and a timer come to their
  end unless the connection or the pool does. Over TCP that has the premise that
  no packet stays for ever on its sender's list (`send_quiet`) or behind a short
  read in its reader's buffer; over UDP that no datagram stays unread for ever
  (`udp_edge`). A dead client is forgotten, unless it was overtaken;
  callbacks return, although they take `m_link_lock` inside `mo_link_map_lock`,
  and `UnInit` and `end` return, as long as the worker's flush does.
- `PacketsAreIntact`: packets are dispatched whole, once, in order, for their
  own link, until chunks of two connections meet in the one buffer (`mixed`) or
  the loop, after it has lost its place, takes for a magic number what is none
  (`astray`). A packet is passed over only if a chunk ended in its magic number,
  or if `parse_packet` has no type for it or refuses its body (`passed`), which
  costs none behind it; and one that is complete stays only if the last chunk
  was shorter than a header.
- `RoundTrip`: a message is read as it was written; refused only if a member is
  longer than its reader takes or the body too short (and a short body is
  accepted only where maps, sets or members without a length are missing);
  garbled only by an overlong member or a cruise that cannot be packed; and the
  codec has the members the struct declares, but for the seven messages in
  `Differ`, and for the two exchanges of the samples, of which both ends are
  these headers.
- `CastIsSound`: a code has one meaning, a header is cast to the struct that was
  made for it, and client and server agree.
- `DigestIsMd5`: the result is the digest, padded as in RFC 1321, and printed as
  it is.

### The disagreements

`send_reset`: when write() fails for good, or with EAGAIN, before a byte of the
chunk at the head was sent, `do_send_buff` goes round its loop again
(`tcp-link.cpp:171-215`) with `m_link_lock` and the list's mutex held. With
EAGAIN it spins until the peer reads; after a reset, for ever, and every call of
the interface then blocks. `ms-epoll-tcp.h:95-99` promises that `ms_tcp_destroy`
returns true or false.

`send_quiet`: `link_send` writes first and pushes the remainder later. If the
peer makes room in between, the EPOLLOUT edge is used up on a worker that finds
the flag down. No other event need come on a connection that only sends, and the
remainder stays in the list although `ms_tcp_send` returned true
(`ms-epoll-tcp.h:126-130`). The call that would have re-armed the edge is
commented out (`tcp-link.cpp:382`).

`udp_edge`: the UDP socket is registered edge-triggered, and `on_event_read`
calls `recvfrom` once (`udp-link.cpp:349`). Of two datagrams that arrive before
the worker looks, one waits for the next edge, and on a network that falls
silent for ever: the callback, "call back function when IO Completed"
(`ms-epoll-udp.h:41`), is not called for it. With steady traffic (`udp`) the
worker keeps reading, one datagram per event.

`descr_leak`: no connected socket is ever closed. `link_destroy` shuts it down
and sets `mi_socket` to -1 (`tcp-link.cpp:393`), the hang-up branch
(`ms-epoll.cpp:125-130`) does not even shut it down, and the destructor does
nothing. The timeout thread exists to "check handle and memory leak"
(`tcp-link.cpp:113`), and leaks one per link it finds. The same goes for UDP
links. Without descriptors `accept` fails, which consumes the edge: the
connection waits for another to arrive.

Other behaviour a reader may not expect is named as an exception in the
properties above. Besides, `send_packet` ignores what `write_packet` returns, so
that an overlong answer goes out truncated, its length in the header not set
(`net-handler.h:188-205`); a cruise command with an alias or presets cannot be
packed (`net-packet.h:1422`); seven messages (`Differ`) have a codec that adds,
drops or retypes a member of the struct of the same name, `GetPicResp` dropping
the length of the picture (`net-packet.h:1678`); after two connections have met
in the buffer a length may be read from the wrong bytes, and the buffer then
wait for ever; chunks shorter than a header make it grow; the server's
`send_packet` returns 0 when it has sent, too; a link whose connect failed can
never connect again; a link accepted with the clock set on meanwhile may be
closed before the application hears of it, and its client then stays in the
server's table; a socket that `epoll_ctl` refuses stays in the table and is never
heard of; and a comment of `net-packet.h:1308` calls the code `RIGHT_DOWN` that
the enumeration spells `RIGHT_DAWN`.

### Fairness

The liveness runs assume that each thread that can take a step takes one in the
end (weak fairness of the worker, of the timeout thread and of each application
thread inside a call): threads are scheduled, callbacks return, and the only
waits are those for the mutexes and joins the models have. In SendBuff a peer
that is not broken reads in the end, and with `Traffic` it also sends. Nobody is
obliged to call the interface, and in TcpLink the network may stay silent. In
UdpLink the network card may stop for ever, and a sender then waits for ever
unless its link is destroyed; `udp` assumes traffic, without which the worker is
not woken again (`udp_edge`). In TcpLink, LinkMgr and AliveTimeout the flush need
not end (`FlushEnds` has no fairness), and the liveness properties that depend on
it say so as a premise; each is used, since after a reset it does not end
(`send_reset`). In `link_live` and `link_accept` the waits are real: the worker
must be woken by an edge, which is what makes `HangupIsHandled` and
`ConnectionIsAccepted` depend on registration and on edges reported at
registration.

In the sums: RecvPath and Descriptors have weak fairness of the worker's steps
(and of a connect's completion) and none of the peer; Nego of main and the
callbacks of both sides, but nothing makes the connection end; AliveTimeout of
the clock and of the timeout thread; EpollLife of `end` and of the
two threads, so that `end` waits for nothing but them; Singleton of every thread
inside `Instance` or `Release`; TaskThread of threads that are awake, of timed
waits and of the clock, not of wake-ups without a signal. LinkMgr alone uses
strong fairness, of its threads' steps: whoever waits for a mutex that others
let go of again and again has it in the end. UdpClient has fairness of reading
what comes with an edge of its own and of handling it, none of reading what was
left behind, and its liveness is checked on a network that delivers. Nego has
none of flushing or of the reader's coming to a packet it has put off.

## The proofs

All theorems assume only what the modules assume (`ConstantsOK`, which TLC
evaluates on every run): threads, links and `None` are different things, sizes
are positive, and where something is counted (`IsFiniteSet`: the threads that
may call the singleton, the pointers, the pool, the guests) there are finitely
many. They hold for any number of links, threads, clients, peers, tasks, timers, packets,
descriptors and bytes. Every safety property of SendBuff, TcpLink, UdpLink,
`Library` and `Samples` that a run checks is a theorem. Of the properties the
proofs state, `AnnouncedFirst`, `ClosedMeansGone`, `FlushSendsOnOpenSocket` and
`NoSenderStranded` are in no run: TLC agreed with them when they were written, and the proofs make
a run superfluous. So it was with each inductive invariant: TLC checked it on
the run's instance before it was proved.

### SendBuffProofs

`TypeCorrect` needs, besides the types, that a thread in a call holds a link and
a sender in "push" a chunk. `FlagNeverLosesData` and `FlushIsSafe` rest on
`TableInv`: a link in the table is open, one not published holds no data, a
destroyer at its last step has taken its link out, and the links a flush has yet
to visit, and the one it is at, stay in the table because it holds the lock.
`NoLostSend` is then inductive: the flush that clears the flag owes every link a
visit, and a visit that leaves data raises the flag again.

`StreamIsKept` states `StreamIsIntact`, which says of each message how many of
its bytes are on the wire. Its invariant, `StreamInv`, counts nothing; it has
five parts:

1. `HomeInv`: a byte on the wire of a link, and a chunk on its list or in the
   hands of a sender at it, is of a message begun on that link;
2. `OneInv`: a message has one chunk at most, on the list or in someone's hands;
3. `SplitInv`: the bytes before a chunk are on the wire and its own are not, and
   the bytes of a message rise;
4. `KeptInv`: a message of a link not `Dropped` has a chunk or is all on the
   wire. With 2 and 3 this is `EveryByteOnce`: the k of that property is where
   the chunk begins, less one;
5. `OrderInv`: on a link not `overtaken`, wire, list and hands are in the order
   of the messages, and in this order. With the rising bytes of 3 this is
   `StreamInOrder`.

All steps but four leave the data where it is (`Still`, `OthersAreStill`) and a
dropped link dropped. Of the four, `SendWrite` and `FlushWrite` share
`WriteStream`: a write of the first n bytes of a chunk that is split from the
wire leaves its rest so, and every other chunk too.

### TcpLinkProofs

One inductive invariant, `IInv`, has seven parts:

1. `TypeInv`: types, and who needs a link has one;
2. `FreshInv`: a link without an object is in nobody's hands, and waits on at
   most one listener; this is why a link that enters the table has no past;
3. `KnownInv`: all links in hands, in epoll's lists and in batches are known to
   the application, hence (`FirstEventAnnounces`) its first event announced it.
   The timeout thread alone may have a link from its snapshot that is not, which
   is then `hasty`, and so excepted;
4. `GoneInv`: whoever closes a link has taken it out of the table, a socket that
   is gone was reported or is about to be, hence `ClosedIsFinal` and
   `RemovalIsReported`, again but for links that are hasty;
5. `NoDeafLink` (`LinksAreWatched`), which excepts a socket epoll refused, is
   inductive with the others;
6. `CloseInv`: among threads that did not overlap in `link_destroy`, only one is
   in it, and before its last step CLOSED was not delivered, hence `ClosedOnce`;
7. `EndInv`: `ms_tcp_uninit` runs alone and the threads end in order, hence,
   with part 4, `UninitIsComplete`.

Types, `FreshInv` and `EndInv` are proved action by action. For the others that
would be some forty times the same argument: two kinds of lemmas replace it.
The frame lemmas (`ToldFrame`, `TableFrame`, `SocketFrame`, ...) say which
actions may write a variable; `Control` says how a thread may come to its next
label: it stays where it is, moves on with its link, takes a new one, or lets
go. Each part then needs to look at the few actions that matter to it.

`ContractIsKept`, that TcpLink implements LinkContract, follows from the same
invariant: `StatusFrame` says that a link's status follows the table (this needs
part 2: the object is made in the step that publishes it), `TableStep` that one
link at a time enters it or leaves it, and that one which leaves unannounced was
in the timeout thread's hands, which the contract allows by name (`Hurry`), and
`ToldStep` that every event fits the moment (parts 2, 3 and 4) and that nothing
else happens with it.

### UdpLinkProofs

The invariant has these parts:

1. `TypeOK`, which is inductive as it stands;
2. `TableInv`: a link in the table is open, calls work on links that were
   created, a destroyer past `del_link` has taken its link out of the table
   (`CallInv`), and a link whose `mi_socket` is -1 was shut down before
   (`ShutInv`). The last is why no sender is left waiting (`SendersAreFreed`);
3. `EarlyInv`: nothing is known of a link, and epoll does not watch it, before
   it is created (`NewInv`) and until its creator has attached it, on which
   nobody else works (`AttachInv`); and until CREATED is delivered its creator
   is on the way to do so (`CreateInv`). `EarlyIsBrief` follows: what the
   callback hears earlier, it hears while the creator stands before CREATED;
4. `GoneInv`: an open link is in the table or its destroyer about to close it, a
   closed one was reported or is about to be;
5. `AloneInv` and `LastInv`: who ends is alone, the worker is gone once it was
   joined, and what is left in the table is what `free_all_link_map` has still
   to destroy, with the link it is at. `UninitIsComplete` follows from parts 4
   and 5.

Each part has a lemma that goes through the actions one by one; where a part
speaks about few places only, a lemma (`CreateKept`, `GoneKept`) says once what
an action must leave alone.

### LinkMgrProofs

The invariant `IInv` says, of one client, where it may be between the wrapper and
the server's table:

1. `TypeInv`: types, what each thread has in hand and where `link_destroy` will
   return to (`ArgInv`), and that the worker alone ever holds a mutex for more
   than one step (`LockInv`), hence `LockOrder`;
2. `FreshInv`, `CreateInv`: of a link that was not made nobody knows; a client
   the worker is creating is in nobody else's hands but the timeout thread's,
   and if that one's CLOSED finds no HANDLE it is `overtaken`. What the
   application may do is no part of this: it has no handle yet;
3. `CloseInv`: who is at the end of `link_destroy` or in `link_remove` knows that
   the link is dead or was reported gone, or is with a hasty one;
4. `RemovedInv`: a client that was announced is in the table, was reported gone,
   or is being created; and one in the table that is gone has a thread in
   `link_remove`, unless it was overtaken. `ClientIsKnown` and
   `SnapshotIsRemoved` follow;
5. `AnnounceInv`: a link that was made was announced or is about to be;
6. `NoZombie`, `UnheardIsGone` and `EndInv`, inductive with the others.

Each part has a lemma with a step for each of the actions. Two theorems relate
the server to LinkContract: `KeepsContract`, that what it sees of the wrapper is
allowed by the contract, and `ContractIsEnough`, that the contract never holds
up a step the wrapper's threads would make, so that the first is not true
because the model waits where the program goes on.

### TaskThreadProofs

`NoTaskForgotten` counts threads, signals and tasks, and is inductive with the
types: whoever takes a thread off its way takes a task off the list, whoever
adds a task brings a signal (`ForgottenStep`, on `OneMore` and `OneLess`). A task
is in the list once and not yet begun, or begun (`TaskInv`). For the timers, `TimerInv` says that a period starts a whole number of intervals after
the timer was set, which is what keeps a timer that is put back from firing
early, and `CoverInv` that among sleepers one, the last to have looked, has a deadline no
later than the end of any timer, but for what the clock was set back between
that thread's two readings of it (`InTime`). That both readings belong to one
look at the list and the timers is `HoldInv`: one thread at a time keeps the
mutex from the test of the list to the wait. `TimerIsCovered` speaks of the first timer only and is not
inductive: once that one is taken, the next is the first. That a nonempty set of
timers has a first (`FirstIsFirst`) takes no induction here: the library has it
that the finite sets are well-founded, and an interval of numbers is one.

### FramingProofs

`FramingCorrect` is for any number of connections and packets of any length, cut
into chunks anywhere. Nothing is claimed once a chunk has met what another link
left (`mixed`), or the loop has taken other bytes for a magic number (`astray`).
Until then (`Straight`) the buffer holds a piece of one link's stream, and
`After(u, v, d)` says what d places between two of its units mean, without adding
up lengths: v is d units further in u's packet, or of a later packet, and then d
takes it past the end of u's.
The invariant, `CleanInv` besides the types and what belongs to a stage of the
callback, has five parts:

1. `StreamInv`: the units in the buffer, and the next to come, are so many units
   after each other as they are places. Behind the head of a packet comes
   therefore the rest of it (`HeadLeads`), so that a head whose length fits in
   the buffer is the whole packet (`WholePacket`), and what follows is later
   (`WholeIsPast`);
2. `OutInv`: what was dispatched is whole, in order, and before all that is
   ahead of the loop or still to come, hence no packet twice;
3. `HeadInv`: a packet begun is dispatched, torn, passed over, or has its head
   ahead of the loop, so that none is lost without a cause;
4. `TornInv`: while the loop runs, a head that is the last unit is a torn one. It
   makes the one place where a head may be passed over, `memcmp` reading past
   the end, a case the property excepts;
5. `RestInv`: after a chunk that was not short, what is left begins with a head
   and is shorter than its packet.

`Copy` breaks none as long as it does not set `mixed`; `Scan` is taken apart into
its outcomes (`ScanRounds`). At a head the lemmas `AheadOfHead`, `NoMagicIsTorn`,
`MagicHasLength` and `HeadOfPacket` say that the choices left to bytes outside
the model make no difference: a head is found unless it is torn, the length read
is the packet's, and what is cut out is the packet. Whether `parse_packet` takes
it or not (`Pass`), the loop goes on behind it, so the parts stay true. A seeded
`>=` for `>` in the test of the length leaves a complete packet in the buffer,
which is where the proof of part 5 uses it.

### SamplesProofs

A step of LinkMgr, TaskThread or Framing in the sum is a step of the component in
its own module (`MgrIsLinkMgr`, `QueueBehaves`, `FramesBehaves`), so that
`TableCorrect`, `TasksCorrect`, `TimersCorrect` and `PacketsCorrect` are the
theorems above. Each property of the sum speaks of the part that runs. The
handshakes are proved here. Over TCP (`NegoInv`), one packet at a time is on its
way, whether on the sender's list, in the connection or put off by the reader,
and what the server has answered tells which (`PhaseInv`); the handle is the link's from
`set_link` on, unless the connection ended before (`HandleInv`). Over UDP that
would be false, as datagrams are lost, repeated and overtaken: `UdpInv` says of
every datagram ever sent what it was sent upon (`Lawful`): an answer that agrees
upon a request for version 1.0, an authentication and its answer upon agreement.
What is in the network or with a worker was sent, so nothing a network may do
with it matters. That the exchange does not storm (`StormInv`) is a matter of
worth: a request for a version is worth the three datagrams that may still come
of it, its answer two, a request for authentication one, and the last answer
nothing. What was sent and what may come of the datagrams in the network, in the
sockets, left unread there or not, and in the workers' hands is no more than four for each request that was started: each
handler sends less than it took (`StormAnswers`).

### LibraryProofs

Each component of `Library` has an invariant of its own:

- RecvPath, `RecvInv`: the bytes are 1, 2, 3, ... through the callback, the
  buffer and the socket (`StreamInv`); `i_recv_size` is the length of the buffer
  but for the -1 of a reset, and why the link has ended says what is left unread
  (`CountInv`); only the block in which a reset was met has a wrong size
  (`ToldInv`). The wrapping of the count is not reached as long as a buffer has
  fewer bytes than the counter values, which is assumed (10 MB and 32 bits).
- AliveTimeout, `AliveInv`: unless the clock was ever set forward, a link's stamp
  is not older than its silence (`StampIsYounger`). It is needed because
  `is_alive` sees the stamp, and `ExpiredWasSilent` speaks of the silence. A link
  that is accepted gets the time read before the loop (`tcp-link.cpp:403`), so
  its silence counts from there, and that reading is not older than the loop
  (`FreshIsBegun`). Assumed is that the limit is a positive number of ticks, and
  that no jump of the clock is longer than the limit, at which ages are capped
  anyway.
- Descriptors, `DescrInv`: who has never been in the table has no descriptor, no
  connect and no destroy under way (`MadeFirst`); a link's descriptor is its own
  until a failed connect has closed it (`SocketIsOwn`); those waiting to be
  accepted are not more than those not accepted (`GuestsWait`), so that `accept`
  always has a link to make. `StrikesAreRaced`, the action property, then needs
  a look at the four places that use `mi_socket`.
- EpollLife, `LifeInv` and, unless a worker was stranded, `WorkerInv`: there is
  one epoll descriptor at a time, the last one made, and the threads that run
  are those the object knows of. It is proved once, as the two classes differ in
  a constant only.
- Handles, `HandInv`: the number of links made and the counter differ by a whole
  number of rounds, and so do a link's number and its handle. The lemma behind
  it is arithmetic: taking `0x3ffffffff` and then the width as moduli is taking
  the width alone, also of negative values, where C's `%` is negative.
- Singleton, `OnceInv`, whoever calls first: one thread stores an object it alone
  has; a taken mutex is in a thread's hands and a sleeper has somebody to wake
  it. With a warm start `WarmInv` in addition: main makes, stores and deletes the
  object, and others call only while it is there.
- RefCountPtr, `PointerInv`: no two threads are at work on one pointer, and an
  operation that has got so far has the counters its next step uses
  (`OperationInv`); the
  counter is the number of pointers that hold the object, those half released
  or half copied taken into account (`Counted`); what was deleted is held by
  none (`GoneUnheld`), a deletion is under way in one thread only (`OneDeletes`),
  and what is held by none was deleted or is about to be (`HeldOrDeleted`). The
  split operations are what makes this more than a count: between the test for
  zero and the deletion another thread may not get hold of the object, which is
  so because all copies are made from a pointer that holds it.

The theorems about the sum are of `PartInv`, the conjunction of these, and hold of every part whether it runs or
waits in its initial state.

### What is model-checked only

- `RoundTrip`, `DigestIsMd5` and `CastIsSound`: Codec and Md5 compute over
  sequences recursively or by folds, so that what they return for every input
  takes induction over data, and Md5 uses `Bitwise`; MsgTypes is a
  finite table without constants to generalise, which TLC goes through
  completely.
- All liveness properties, which TLAPS does not handle (fairness and ENABLED):
  `FlushMovesOn`, `FarewellComes`, `HangupIsHandled`, `ConnectionIsAccepted`,
  `UninitReturns`, `DestroyFreesSender` (whose safety half is proved),
  `WorkerServes`, `PeersAreServed`, `CallsReturn`, `EndReturns`
  and `AskedIsAnswered`.

## Not modelled, and why

- The logging library: a binary, and its calls change nothing.
- `broad_cast`, `send_pkt_to_link`, `get_link_cnt` and the other readers of
  `LinkMgr`: they change nothing, the lists of packets being empty.
  `on_tcp_recv_unknown_packet` only logs.
- The samples exist in three copies with the same files; one of each is mapped.
- What nothing uses: `CSmartlPtr`, `CThreadSafePtr`, `CLockingProxy`,
  `ReferDataBuf`, `on_event_write`, UDP's `mod_epoll_read`, the overloads of the
  codec over vectors that nothing calls.
- `mod_epoll_read` after EINTR of a read: a read that does not block does not
  return it. An interrupted `epoll_wait` is in SendBuff, where its call of
  `do_send_buff` matters.
- Memory. That a counted pointer keeps its link alive is assumed by the link
  modules and shown by RefCountPtr. Leaks of memory are not followed: a chunk
  pushed after `del_send_buff` stays on the list of a dead link
  (`tcp-link.cpp:390`); `on_event_accept` leaves one unused link object at the
  end of its loop (`tcp-link.cpp:405-412`); packets deleted through
  `CRefCountPtr<MsgHeader_S>` have no virtual destructor (`Guard.h:164`).
- UDP's send list: `do_send_buff`, `del_send_buff` and the part of `link_send`
  that fills the list (`udp-link.cpp:254-268`). They run only when `sendto`
  returns EAGAIN, which it does not on a blocking socket (`udp-link.cpp:171`);
  the list stays empty.
- The memory layout of the structs in `comm_typedef.h`: none but the header is
  laid over packet bytes, the codec writes member by member.
- Threads that cannot be created, in the samples; a timer period of 0; the
  failures of `LinkMgr::Init`.
- The structs that hold only strings, pointers or counters of the program
  (`UserSecret_S`, `XmlDeviceInfo_S` and others), `ReplayPlayReq` and
  the four replay requests like it, which nothing packs or handles, and the project
  files.
- In Md5, a text with a NUL in it, a size of 0 for a text that is not empty, and
  sizes of 2^29 bytes or more.

## Plan

Every component with behaviour is modelled, and every safety property of the
passing runs is proved but the three about formats. What is left is
composing RecvPath with Framing, so that the chunks of the one are the reads
of the other.
