# Verification of lightnet

TLA+ models of lightnet, a C++20 coroutine network library (reactor, TCP and UDP
servers, HTTP, RPC, game rooms), the TLC runs that model-check them, and theorems
about them that TLAPS proves for every value of the constants. Paths are those of
the repository, under `src/`. `PROJECT.json` has for every definition the lines
it translates, for every property a mutation of the code that breaks it, and the
hazards the properties are for.

How to run, in this directory:

    tlc -workers 2 -config GameRooms.cfg MCGameRooms.tla     (any .cfg with its MC module, or
    tlc -workers 2 -config Logger.cfg Logger.tla              with the module itself where it has none)
    tlapm GameRoomsProofs.tla                                (any *Proofs module)

## 1. The system

One thread per event loop, one loop per thread. A *main loop* accepts
connections; the I/O loops of a pool serve them. A connection belongs to one
loop for life and everything that touches its state runs on that loop's thread;
other threads post tasks. The program's sessions are coroutines that suspend in
`AsyncRead`, `AsyncWrite` and `AsyncSleep` and are resumed by tasks of their loop.
Nothing is persisted.

| component | its state | operations | talks to | what is hard |
|---|---|---|---|---|
| EventLoop (`core/event_loop`) | `quit_`, `pending_tasks_`, `calling_pending_tasks_`, an eventfd | `loop`, `run_in_loop`, `queue_in_loop`, `schedule_coro`, `quit`, `wakeup` | poller, channels, timer wheel; every other thread through the task queue | posting, waking, polling and quitting interleave; a wake-up may be lost or consumed early |
| TimerWheel (`core/timer_wheel`) | heap `timers_`, id table `active_`, `next_id_` | `add_timer`, `cancel`, `tick`, `next_timeout_ms` | called by `loop`; callbacks call back into it | lazy deletion; callbacks that add and cancel during `tick`; the clock moves on |
| Channel, EpollPoller (`core/`) | event mask, added or not, index | `enable_*`, `disable_all`, `remove`, `handle_event` | kernel; connection; loop | level-triggered events in an order nobody tests; lifetime |
| Buffer (`core/buffer`) | cells, `reader_index_`, `writer_index_` | `retrieve`, `append`, `read_fd`, `ensure_writable` | connection, parsers | moving and growing with the indices anywhere |
| TcpConnection (`net/tcp_connection`) | state, two buffers, waiting coroutines | `handle_read/write/close/error`, `send`, `shutdown`, `force_close`, coroutine interface | its loop, the server's main loop, sessions, other threads | partial writes, half-close, reset, full buffers, a state checked on one thread and set on another |
| coroutines (`coro/`) | frames, continuation, exception | `Task`, `Scheduler::spawn`, `AsyncRead/Write/Sleep` | connection, loop | resumed once, by the one event that must come; exceptions |
| TcpServer, ConnectionManager, EventLoopThreadPool | accept channel, connection table and limit, round-robin counter | `start`, `new_connection`, `create`, `remove`, `get_next_loop` | main and I/O loops, connections | set-up and removal tasks on different loops; descriptors' numbers are used again; a limit checked by many threads |
| HTTP, RPC (`http/`, `rpc/`) | parser state; a session per connection | `parse`, `reset`, `decode`, `handle_connection` | connection, handlers | a request in several reads, several requests in one read |
| game rooms (`game/`) | players, address index, match clock, respawn timers | join, leave, input, fire, respawn, `tick_all`, `broadcast` | UDP datagrams, a repeating timer | late, doubled and reordered datagrams, NAT rebinding, wrap-around of ids and scores |
| UdpServer, GameServer, the game examples (`net/udp_server`, `game/game_server`, `examples/udp_game_*`) | a socket, a tick timer; in the client a few locals | `start`, `stop`, `on_datagram`, `on_tick`, `send_to`; join, input, drain, ping | rooms, codec, timer wheel, the network | loss, duplication, reordering, a drain loop against a ticking server |
| GameCodec (`game/game_codec`) | none | an encoder and a decoder per message | rooms, client | each layout is written twice; sizes cast to one and two bytes; datagrams cut by the receiver |
| Logger (`log/logger`) | `queue_`, `running_`, a mutex and a condition variable | `log`, `flush`, `set_level`, the writer thread, the destructor | every thread | the destructor against the writer's wait; what is still queued at the end |
| Metrics, socket_ops, IoUringPoller | — | — | — | see section 7 |

What makes each of them correct:

- *loop*: a task posted is run, once, in order, on the loop's thread, and promptly
  (no reliance on the 1000 ms cap of the poll); `quit` ends the loop.
- *timers*: no timer is lost, doubled, late or fired after `cancel`; `tick` ends when
  callbacks stop adding timers that have expired.
- *buffer*: a FIFO queue, whatever moves or grows.
- *connection*: bytes are neither lost, repeated nor reordered; a waiting
  coroutine is always armed or scheduled; the FIN follows the data; the
  connection closes for a reason only.
- *server*: every descriptor has exactly one owner; the table is exact and
  within its limit; every client is served or refused; what is closed is reaped.
- *HTTP, RPC*: every request is answered once, in order, with its own body.
- *rooms*: index and players agree, hp and life agree, every kill is accounted
  for, nobody respawns early, a finished match stays as it is, the clock keeps time
  but for the rounding of its floats.
- *game server, codec and client*: what is received is what was sent or is refused;
  the server takes the client for the player whose id it goes by; it ends.
- *logger*: no line lost, doubled or overtaken; the destructor returns.
- *scheduler*: a frame lives until its coroutine has returned.

## 2. The modules

| module | models | proofs |
|---|---|---|
| `TaskExecutor` | abstract: what a loop promises its users, a serial FIFO executor | |
| `EventLoop` | the loop, its task queue, eventfd and polls, and the threads that post and quit | `EventLoopProofs` |
| `TimerWheel` | the heap and the id table inside the iterations of `loop()` | `TimerWheelProofs` |
| `GameRooms` | GameRoomManager and its room, as datagrams and ticks reach them | `GameRoomsProofs` |
| `Buffer` | the buffer as a value: cells and indices | `StreamSessionProofs` |
| `HttpParser` | one iteration of `HttpParser::parse`, and `reset` | `StreamSessionProofs` |
| `StreamSession` | an HTTP or RPC session over a stream cut anywhere; composes `HttpParser` and `Buffer` | `StreamSessionProofs` |
| `EchoSession` | a TcpConnection with its channel, its session, its loop, the main loop and other threads | `EchoSessionProofs` |
| `TcpServer` | server, pool, manager and descriptors, with whole connections | `TcpServerProofs` |
| `GameCodec` | every message and the header, encoded and decoded | `GameClientProofs` |
| `GameClient` | the example client, GameServer and UdpServer, over an unreliable network with a NAT; composes `GameRooms` and `GameCodec` | `GameClientProofs` |
| `Logger` | threads that log, the writer thread, the destructor | `LoggerProofs` |
| `Scheduler` | the frames of coroutines and their owners across I/O loops | `EventLoopProofs` |

`MC*` modules give the constants their values. Modules that cannot be composed
without exploding are joined by what one promises the other: EchoSession has the
phases of EventLoop (poll, events, swap, tasks) and relies on its property that
a posted task gets its poll to return; it takes both buffers for FIFO queues, which
the buffer's theorems in `StreamSessionProofs` justify; TcpServer has of a connection only its state, its
closes and who refers to it, which are the parts of EchoSession that the server sees.

### How state and actions correspond to the code

**EventLoop.** `pc` is the place in `loop()`: start, check (of `quit_`), poll, dispatch, tick,
pending, exited. `tasks` is the batch swapped out under the lock; `wakeup_fd_` is whether the
eventfd's counter is not 0; `in_callback` says that user code runs (a channel's handler, a timer or
a task), which may post, call at once, quit, or return. The push and the write of the eventfd are
two steps of a posting thread (`tpc`). A signal handler is `quit_from_loop`. `ran` and `quit_by` are
history.

**TimerWheel.** `timers_` is a set, of which `Top` may be any node with the least
expiry (the heap breaks ties in no stated order). The real time is `now`; the
poll's timeout is fixed when it begins (`poll_until`), and `last_tick_ms_` is the time read
before `tick()`. Time advances during polls, callbacks and between steps.
`firing` holds the copy of the node whose callback runs.

**GameRooms.** One action per kind of datagram and one for the tick. A datagram carries any address
and the id of any ack ever sent (`acked`) or none: that covers delay, duplication, reordering and
rebinding. Geometry is left out: a shot hits some other living player (`CanHit`), as
`find_hit_target` guarantees. Ids wrap at `IdSpace`, scores at `ScoreSpace`. `sent` is what the last
action broadcast beyond snapshots. The match clock is a float as in `GameRoom::tick`: `dt` and every
sum are rounded to the nearest float (`Nearest`), counted in units of which `1.0f` has `One`; to
subtract `1.0f` rounds nothing, since the result is smaller and a multiple of the same last place.
`Significand` is 2^24 and a unit 2^-34 in the code, so that every value of the clock is a whole
number of units for ticks of 1 to 1000 ms, which the assumptions say. The rounding shows in the
code: with ticks of 10, 16 and 20 ms the match of 300 s takes one tick more than 300 s hold. Respawn
timers are whole milliseconds: they run for a few seconds, in which rounding adds up to far less
than a tick. `dead_ms` and `played` (the ticks of the match) are history.

**Buffer.** A record of cells and two indices; each operation is an operator from
buffer to buffer. Cells outside the readable part are `Free`: their content is
never used (that is part of what is proved). Data beyond `kMaxCapacity` is outside the model.

**StreamSession.** The unit of the stream is a line of the head, a unit of the body, or a message
header; each carries the number of its request. The client sends requests of given shapes; reads
take any number of units that `readv` can return. When `whole_reads` is set, reads end where lines,
bodies or messages do. `session` is where the coroutine is; each iteration of `parse` is a step, and
no read comes between two of them, since the session keeps its loop's thread. A Content-Length that
is not a number and a handler that throws end the coroutine as `Task` does (`Fail`). A read that
would take the input buffer past `kMaxCapacity` (64 MiB) is left out, as for Buffer. `stream` and
`ends` are history: all units sent, and where each request ends among them.

**EchoSession.** The functions of TcpConnection run to their end on the loop's
thread, one calling the other, so each is an operator from connection to
connection and the actions are those of the loop: `Poll`, `HandleEvents`,
`RunTask`. A read takes any number of units that are there. Another thread makes one call: the
check of `state_`, and later the task (`Call`, `Post`). The main loop's removal
and the peer's sending, half-closing, resetting and receiving are the other actions.
There is at least one I/O thread, so that the connection's loop is not the main
loop, and the model stops when the connection is destroyed.

**GameCodec.** A datagram is a sequence of words, each a width in bytes and a value;
a decoder gives back what it reads if the widths are those it expects, and is
`Refused` otherwise. Both directions are written out, as in the code. What narrows a
value is a cast: of the player count, of `payload_len`, of the length of a text. The sizes of the header
and of a record are computed from their fields (28 and 34 bytes).

**GameClient.** `GameRooms` is instantiated with the same variables, and each datagram that arrives
is decoded and becomes one of its actions with what `handle_packet` sends in answer
(`HandlePacket`). `net` is the set of datagrams under way; a datagram may be lost, taken in any
order, or left there when it is taken. One that is longer than UDP carries (`kMaxDatagramSize`,
65507) is never there: `sendto` fails and `send_to` only logs it. Datagrams to the other players are
not followed. The client is `main` of `udp_game_client.cpp`: `client.pc` is the call it is in,
`client.wait` the units left of its time-out. A NAT may change the address that the client's
datagrams come from, once the client has its ack, or change it back (`Rebind`; `addr`, `moves`);
what is sent to a former address may still arrive. The other players send packets of every kind,
errors included (`OtherPackets`), with any input number up to `MaxSeq`, in any order and from any of
their addresses, and put the id of their own ack, or none, in the headers. A program that puts the
id of another player there takes its binding (`room_manager.cpp:108`); no program of the repository
does, and the models leave it out. The seconds and ticks in the packets are one value (`Stamp`),
since nothing reads them.

**Logger.** A step is what happens under one hold of `mutex_`, or one access to the
atomic `running_`. The writer's `wait_for` is: look at the predicate (`Evaluate`),
block (`Block`, until then it holds the mutex), be woken by a notification, by
time or for no reason, and look again. The destructor clears `running_` and notifies without the mutex.

**Scheduler.** `thread[l]` is where a loop's thread is: polling, in `start` or
`resume`, in `final_suspend`, between `remove_if` and `erase`. Unsynchronised use of the vector is undefined
behaviour; the model has one outcome of it, a `push_back` between the two.

**TcpServer.** `Accept` is one run of the accept callback; `RunSetUp` is the task
that `new_connection` posts (create, `connect_established`, the connection
callback); `handle_close` may come again for one connection; `RunRemoval` is the
task in the main loop; `Destroy` is the destructor, some time after the last reference. A descriptor's number
is the lowest that is free, as `accept` gives it.

## 3. The runs

| run | cfg | bounds | distinct states |
|---|---|---|---|
| `eventloop` | `EventLoop.cfg` | 2 threads, 3 tasks, 1 channel | 31 112 |
| `timerwheel` | `TimerWheel.cfg` | delays 0 and 2, intervals 1 and 2, 2 timers, time up to 4, polls of at most 3 | 168 494 |
| `game` | `GameRooms.cfg` | 3 addresses, 2 usable ids, scores modulo 2, inputs 1 and 2, 2 hits kill, 2 s match, 400 ms ticks, floats of 128 significands | 250 732, up to symmetry |
| `echo` | `EchoSession.cfg` | 3 units, send buffer of 1, 1 other thread, 3 removals waiting | 58 609 |
| `stream_session` | `StreamSession.cfg` | 2 requests of 6 HTTP or 4 RPC shapes, buffer of 3 cells and 1 of headroom | 29 451 |
| `tcp_server` | `TcpServer.cfg` | 0, 1, 2 I/O threads, limit 1 and 2, 2 descriptors, 3 clients, 2 closes each | 88 062 |
| `game_client` | `GameClient.cfg` | client at two addresses that change twice, one other address, 2 usable ids, 1 input of the client and 2 of others, 2 datagrams under way, 2 duplicates or other players' datagrams, a match of 2 ticks of 3 units, time-outs of 2, 1, 1 and 1 units | 191 439 |
| `logger` | `Logger.cfg` | 2 threads, 2 levels, 3 lines | 60 864 |

and four runs, each of one property, that the code violates (section 5).

**eventloop** shows that the loop is the executor of `TaskExecutor`
(`ExecutorSpec`, a refinement: tasks start in the order of posting, each once,
`run_in_loop` ahead of the queue, none after the exit), that a pending task that
the present iteration will not take has a wake-up on its way (`NoLostWakeup`),
that a task never needs a poll to time out (`PromptExecution`), nor does `quit` on
another thread, while a signal does at worst (both in `QuitExits`).
Two threads suffice for both races (a push before, and a write after, the loop
consumes the eventfd), and three tasks for one in the batch, one posted by it and one
from outside.

**timerwheel** shows that heap and id table agree (`OneNodePerTimer`), that no poll sleeps past an
expiry (`PollNotLate`), that a cancelled timer never fires, that firings are spaced by the interval
even after a late tick, that an overdue timer is timer is served, which includes that `tick` ends
(`OverdueServed`). Since callbacks add no more than `MaxTimers`, the last says nothing of an endless
chain of timers without delay, which would keep `tick` in its loop for good. Two timers are enough
for one to cancel or outrun the other; time 4 gives each interval at least two periods and room for
a late tick.

**game** shows that the address index and the players stay inverse to each other through joins,
leaves, rebindings and stale datagrams with ids that wrap around into use (`IndexConsistent`), that
hp and life agree, that the match clock differs from the ticks by what rounding accounts for, loses
no remainder and ends the match with the tick in which it gets there (`MatchClock`), that kills and
deaths are counted in pairs with the kill announced, that nobody respawns early, and that a finished
match is frozen. Three addresses for two ids make a rebinding race with a join; a tick of 400 ms
divides neither the second nor the respawn delay of 700 ms. Five ticks are the match of two seconds,
but with 128 significands for 2^24 they add up to less, as 100 ticks of 10 ms do in the code, and
the match ends with the sixth: the rounding that the code has in hundreds of ticks happens within
six.

**echo** shows that the peer gets its bytes back in order with none lost or
repeated while other sends interleave (`EchoInOrder`, `EchoDelivered`), that
nothing waits unarmed (`Armed`), that the FIN follows the data and does go out
(`ShutdownCompletes`), and that a connection closes only for a cause (with the first, `FinAfterData`).
Three units over a send buffer of one make writes partial, with units
that arrive during them.

**stream_session** shows that however the stream is cut, answers are in order and one per request
(`AnswersInOrder`), that a dispatched request has its own body and what is left is exactly the rest
of the stream (`FramingKept`); and, where reads end where requests do, that all are answered and the
session gives the thread back (`Answered`). The small buffer makes every branch of `read_fd` and
`make_space` happen: in place, moved, grown, through `extrabuf`.

**tcp_server** shows that every open descriptor has one owner (`FdsAccounted`), that
the table keeps its limit with several loops setting up, has
what it should, and a removal never meets a dead connection (`TableExact`), that
clients are served or refused (`Served`), and
that what is closed and released is destroyed (`ClosedReaped`). Three clients over two
descriptors force a number to be used again while an old removal is under way.

**game_client** shows that decoders and encoders agree on every message, at every count and length
up to twice what a field can say, and that a datagram that the client's buffer cuts is refused,
never read as something else (`Faithful`); that the server takes the client for the player whose id
it goes by, from whatever address, and the client finds itself in every snapshot it counts, with no
input it has not sent (`OwnPlayerShown`); and that it ends whatever is lost (`ClientFinishes`),
given ticks that take longer than one drain time-out for each datagram they send: a tick of 2
time-outs is too short, since the snapshot and the match state of a tick may arrive one time-out
apart. The buffer (70 bytes, for 2048) holds a header and a snapshot of one player, so that the
second player's arrival cuts it; the player count wraps at 2; ids wrap at 3 into use. Two datagrams
under way are an ack and a snapshot, or a join and its copy, that overtake each other; what a step
sends is lost as a whole where there is no room for all of it. A copy of the join that arrives when
the client has left its address makes a second player there; the property excepts only the client
that comes back to it (section 5). With one input of the client and two of the others, an input of
theirs that was counted for the client would show. The configuration has a `VIEW`: the events of the
last step and the histories of the rooms decide nothing in this module.

**logger** shows that what is logged is what is written, being written or queued,
in this order, and that only lines that came while the writer was busy are left
behind by the destructor (`LinesKept`); that lines are written, and the destructor returns, without
relying on a notification (`LinesWritten`). Three lines from two threads fill the
queue while a batch of more than one is written.

### Bounds in guards

Where the code has no bound, the model's guard has one, and nothing else depends on it: `MaxNow`,
`MaxTimers` (no more time, no more timers), `MaxSeq`, `MaxIn`, `MaxRequests` (the client sends no
more), `MaxCloses`, `MaxLines`, `MaxExtra` (no more duplicates, no more datagrams of others),
`MaxMoves` (no more changes of the client's address), `MaxNet` (what there is no room for is lost,
which the network may do anyway), and `MaxRemovals` (the I/O loop does not poll while so many
removals wait in the main loop, which only slows an error loop down).

`CHECK_DEADLOCK FALSE` is where the system really stops: a loop that has exited, a
connection that is destroyed, a client with nothing more to send, the end of time.

## 4. Fairness

- `EventLoop!PromptSpec`: the loop's thread is scheduled, callbacks return, and a
  thread past its push writes the eventfd. A poll may block for ever. `FairSpec` adds that a poll
  times out, which `next_timeout_ms` guarantees (at most 1000 ms).
- `TimerWheel`: the loop's thread runs, user code returns, a poll whose timeout has
  passed returns. Time need not advance.
- `EchoSession`: both loops run, a call past its check posts its task, and a peer that has not reset reads what arrives.
- `StreamSession`: the loop runs, handlers return or throw, the network delivers, the client reads.
- `TcpServer`: `start` is called, loops run their tasks, released references are dropped.
- `GameClient`: the client's process runs, `select` returns at its time-out, and time
  goes on. Nothing is assumed of the server or of the network: the client has to end without them.
- `Logger`: the writer's and the destructor's threads run and time passes. That anyone
  logs or that the program ends is not assumed, nor that a notification is needed. The logger is a
  static object, destroyed when `main` has returned and its threads have ended.

Only weak fairness is used, and nothing says that a peer closes or that a session ends.

## 5. Where the code disagrees with what it says

| run | property | the disagreement |
|---|---|---|
| `echo_session_ends` | `SessionEnds` | at end of file `handle_read` does not resume the coroutine in `AsyncRead` (`tcp_connection.cpp:103`): frame, connection and descriptor stay for ever |
| `stream_partial` | `PartialWaits` | with part of a request in the buffer `AsyncRead` is always ready (`scheduler.cpp:40`): the session spins on its loop's thread and the rest is never read |
| `client_stuck` | `PingFollows` | the client's drain loop ends when 80 ms pass without a datagram (`udp_game_client.cpp:134`), and the server sends one every 33 ms: after its first input the client does nothing but receive |
| `scheduler_race` | `FrameKept` | `alive_tasks` is shared by all I/O threads without a lock (`scheduler.cpp:24`): a task pushed during another thread's prune is erased and its frame destroyed. With one loop the property holds (`OneLoopKeepsFrames`) |

Noticed in reading, with no run: `loop()` clears `quit_` when it starts, so an earlier `quit()` is
forgotten (`event_loop.cpp:60`); a Respawn event is broadcast whether or not anybody respawned
(`room_manager.cpp:207`); `handle_close` may run twice for one reset and decrements the gauge of
active connections each time (`tcp_connection.cpp:144`); a connection's channel is never removed
from the poller, against the assertion of `channel.cpp:21`; the header of a game packet is 28 bytes
while `kHeaderSize` and the document say 24 (`game_packet.h:35`); the client takes a late snapshot
in place of the pong and prints "pong timeout"; players never leave, since `leave_by_peer` has no
caller; where a NAT gives the client another address and then the first one again, a late copy of
its join may have got a second player there, for which the server takes it from then on (TLC shows
it when `OwnPlayerShown` has no exception); a match may last a tick longer than its seconds, with
ticks of 1 ms three (section 2); lines are formatted with `std::localtime`, whose result all threads
share; the `desired_room_id` of a join is ignored; a player's speed is 4.0 in the document and 6.0
in the code; the loops of the pool are neither quit nor joined, so a server with I/O threads ends in
`std::terminate` (`event_loop_thread_pool.cpp:13`); `quit_` and the thread id of a loop are plain
fields read by other threads; `IoUringPoller` overwrites the data of its completions; `EpollPoller`
fills `channels_` only when it polls, so `remove_channel` skips a descriptor that was never
reported; the destructor of TcpServer posts a task that uses the server.

## 6. What is proved

Every theorem is of a specification without fairness, for every value of the
constants that satisfies the module's assumption.

| module | assumption | theorems |
|---|---|---|
| `EventLoopProofs` | the eventfd is no channel | `TypeCorrect`, `WakeupsSuffice` (`NoLostWakeup`), `LoopImplementsExecutor` (`ExecutorSpec`); of Scheduler, where at most one loop runs coroutines: `OneLoopKeepsFrames` (`FrameKept`) |
| `TimerWheelProofs` | delays and intervals are natural numbers, polls have a positive cap | `TypeCorrect`, `HeapMatchesIds`, `PollsAreNotLate`, `CancelIsFinal`, `FiringsAreSpaced` |
| `GameRoomsProofs` | positive sizes, hp, damage and delay; a tick of 1 to 1000 ms; a float's unit is fine enough for the last place of a tick's length, and its range covers what the clock adds up | `TypeCorrect`, `IndexStaysConsistent`, `HpStaysConsistent`, `RespawnIsDelayed`, `ClockKeepsTime` (`MatchClock`), `KillsAreAccounted` (`KillsAccounted`), `FinishedMatchIsFrozen` (`MatchFrozen`) |
| `EchoSessionProofs` | at least one unit, room for one in the send buffer, one removal; threads are no numbers | `TypeCorrect`, `EchoKeepsOrder` (`EchoInOrder`), `NothingWaitsUnarmed` (`Armed`), `FinComesLast` (`FinAfterData`) |
| `StreamSessionProofs` | the body of an HTTP request is absent, of any length or of a length that is no number; an RPC message has any length; sizes of the buffer are natural numbers | of the buffer: `NewBufferEmpty`, `RetrieveTakesFirst`, `AppendIsLast`, `ReadFdIsLast`; of the session: `TypeCorrect`, `AnswersKeepOrder` (`AnswersInOrder`), `FramingIsKept` (`FramingKept`) |
| `TcpServerProofs` | thread counts, limits and descriptors are natural numbers; finitely many counts and descriptors | `TypeCorrect`, `DescriptorsAreAccounted` (`FdsAccounted`), `TableIsExact` (`TableExact`) |
| `LoggerProofs` | levels are natural numbers | `TypeCorrect`, `LinesAreKept` (`LinesKept`) |
| `GameClientProofs` | the rooms' assumption; positive times, in units that divide the tick; at least one input of the client; the client's buffer is smaller than a snapshot whose count wraps (2048 < 24 + 256 * 34); UDP carries a snapshot of one player and less than `payload_len` can say (65507 < 65536) | `MessagesAreKept`, `TypeCorrect`, `DatagramsAreFaithful` (`Faithful`), `OwnPlayerIsShown` (`OwnPlayerShown`), `RoomsAreImplemented` |

*EventLoop.* `TypeOK` is inductive: it ties the batch, the undispatched events and
`calling_pending_tasks_` to the phase. `NoLostWakeup` is inductive with it: the
only steps that consume the eventfd are in dispatch, where the coming swap takes
every pending task, and the steps that add a task outside that window write the eventfd or leave a
thread about to. For the refinement, `tasks \o pending_tasks_` is the executor's
queue: the swap happens only when the batch is empty, so it is a stutter, and `RunTask`
takes the head.

*Scheduler.* With two loops `FrameKept` fails (section 5). With one, `FramesInv` holds: a coroutine
that has not returned is in `alive_tasks` and in what a prune under way has kept, and one that is
`done()` but still in `final_suspend` is where the one thread is, so that no prune is then
(`Alive`).

*TimerWheel.* `OneNodePerTimer` alone is inductive over types, but the action
properties need history: `IInv` adds that a cancelled id is not active, and that a
node still in the heap that has fired before is a repeating one that expires no earlier than its last
firing plus its interval (`HeapRemembersFiring`). `PollNotLate` holds since the
timeout is computed from the heap's top and no user code runs during the poll.

*GameRooms.* `IInv` is types, `IndexConsistent`, `HpConsistent` and `DelayOK` (the respawn timer and
the tick time since the death add up to the delay at least). Consistency of the index needs care in
one place, a rebinding: the former address is dropped and the new one was not bound, so the map
stays one to one. The clock has an argument of its own: what `Nearest` returns is at most half of a
last place away (`AccumulatedBounds`, `DtBounds`), so each tick adds no more than its share to
`Drift` (`TickDrift`). The clock has less than a second before a tick of a match that goes on, so a
match that ends has at most a tick left over. `KillsAccounted` comes down to one step, `Fire`, the
only one that changes scores: the victim and the shooter are different players, and the one kill
that is announced names them. For `MatchFrozen` every other handler that touches players is shown to
leave bodies and scores alone when the match is over; that the time left is 0 is `MatchClock`.

*EchoSession.* `IInv` has a part for each thing that the callbacks share. `Coroutine`: a suspended
coroutine waits for its event or is scheduled, by one resume task, in the queue or in the batch, and
a pending flag belongs to the await it is suspended in. `Arms`: a connected connection has no FIN
out, no removal and its place in the table; on an open one the write event is enabled exactly when
there is output. `Caused`, with `EventsCaused` for what the poll has returned and not yet been
handled, and `ForceCloses` for a `force_close` that is on its way. `Fresh`: before it is established
the connection has one task, after it none like it. `Echoes`: the stream (received, in the send
buffer, in the output buffer) has the units 1 to n in this order, other threads' units apart, and
while the connection is connected the rest is n+1, n+2, ..., in the input buffer past what the write
under way will consume, and in the socket. Each C++ function has a lemma on what it keeps
(`SendKeeps`, `HandleReadKeeps`, `AwaitWriteKeeps`, ...), stated of any connection, and the actions
follow by composing them as the calls do. The order of the echo rests on one fact about the code:
the coroutine sends the whole input buffer and consumes as much, once, before it sends again.

*StreamSession.* `IInv` has three parts beyond types and the property on answers. `Laid`: what
follows the d-th request in the stream is the units of the next one and then what follows that.
`Place`: while the session is alive it is at some request d, and the readable part of the buffer and
the wire together are what the parser has still to take of d (`HttpLeft`) and what follows d; every
request before d may be answered, and those that are to be answered have been. The parser and what
is left go together (`Follows`): lemmas on a start line, a line of the head, the empty line, a body
and an RPC message show that an iteration takes exactly what the client sent as one, wherever the
reads cut it (`StartParsed`, `HeadersParsed`, `BodyParsed`, `Decoded`). Reads and retrievals keep
the concatenation of buffer and wire by the theorems of the buffer. `FramingKept` is `Place` where
the session answers.

*TcpServer.* `IInv` is the three properties with `Idle` (nothing is posted before the start) and
`RemovalsOfClosed`. A descriptor belongs to one entry of one loop's queue or to one connection that
is not destroyed; `accept` takes a number that is free, and only the destructor and a refusal free
one. The limit of the table holds since the check and the insertion are under one lock. A removal
finds its connection alive since its task holds a reference.

*Logger.* `LinesKept` needs two facts beyond types. The writer's batch is empty when it takes the
queue, so the swap keeps `output \o batch \o queue_` as it is. And once `running_` is clear nobody logs
(`Shutdown`), so a writer that was found in its wait leaves it with everything there is and finds the
queue empty when it ends.

*GameClient.* First the data. The sizes of datagrams are sums (`Ends`, a recursive function): its
equations come from the definition by induction on sets of numbers, which needs no operator as
parameter (`LeastElement`, `Induction`). Every message has a lemma that its decoder undoes its
encoder (`AckKept`, `InputKept`, ..., for every number of players and every length of text);
`MessagesAreKept` collects them. A prefix of a datagram decodes to what was sent or to nothing,
since `payload_len` is compared with what is there (`DecodeCut`); that `payload_len` itself is true
needs UDP's limit: without it a room of thousands of players would send a snapshot whose length
wraps, which is then read as a short one. A snapshot whose *count* wraps decodes at the client to
too few players; it never gets that far, since it does not fit the client's 2048 bytes, and both
limits are named in the assumption.

`IInv` is the rooms' invariant, used as `GameRoomsProofs` proves it; `NetOK`, on what is under way:
an ack on its way to a client that waits for one carries the id of the player at its address, a
snapshot has the client's player with no input beyond those sent, and what the client has sent comes
from one of its addresses and bears its own id; `ClientOK`, the same of the client's locals;
`RoomOpen`, an address is bound only in a room that exists; and `HeardBy`: the client's player stays
in the room, at an address of the client, with no input that the client has not sent, and at an
address of the client other than that of its join there is no other player. A datagram rebinds a
player only by the id in its header, which is the sender's own: others move only themselves
(`OtherIds`), and the client, from wherever the NAT lets it send, moves only its own player. A
second player can come about only by a join, and joins come from the address that the client had at
its start, which is where the exception of `OwnPlayerShown` is. Each action is a lemma, the server's
by one lemma on what an arriving datagram may do (`HandledWell`). The same lemma gives
`RoomsAreImplemented`: each step of server, network and client is a step of `GameRooms` or leaves
the rooms alone, so all that is proved of the rooms holds of the server.

*Buffer.* Cell by cell, from lemmas on windows and concatenations of sequences. The
hypothesis `writer_index_ + len <= kMaxCapacity` is the one under which
`make_space` gives the room it was asked for; beyond it the code writes past the end it has
reserved, and the model says nothing.

Only model-checked is liveness under fairness (`PromptExecution`, `QuitExits`, `OverdueServed`,
`EchoDelivered`, `ShutdownCompletes`, `Answered`, `Served`, `ClosedReaped`, `LinesWritten`,
`ClientFinishes`, ...), which the provers cannot do. Their induction theorems take an operator as
parameter and cannot be used either; where a proof needs induction over numbers it goes by sets, as
above.

## 7. What is not modelled

- *EventLoop*: the destructor, a second `loop()`, the lag metric.
- *TimerWheel*: a repeating timer of interval 0, with which `tick()` never ends
  (nobody passes it); `add_timer` on another thread, which has no lock (nobody calls it there).
- *TcpConnection*: the `message_callback` mode and `write_some`, which no server of
  the repository uses; what the loop does with a pointer to a channel that is gone.
- *Channel, EpollPoller*: the registration protocol (`index`, `channels_`).
- *coroutines*: `AsyncSleep`, which nobody uses, and outcomes of the race on `alive_tasks` other than the one above.
- *TcpServer*: the destructor; thread pool threads are never joined.
- *UdpServer*: the destructor, and other errors of the socket, which are only logged.
- *Metrics*: totals that nothing reads, and their text; the gauge is wrong as section 5 says.
- *HTTP, RPC*: routing, the text of answers, header values that are not looked at, and messages with a wrong magic number.
- *GameCodec*: the bits of numbers. The layout of RPC messages.
- *Game examples*: the arguments of the programs and what they print.
- *Logger*: the text of a line, and what a program loses that is killed.
- *IoUringPoller*: compiled only on demand, and its completions carry overwritten data, so that a model would be one of the kernel on garbage.
- *socket_ops*: one system call per function.

## 8. Plan

Done, in order of importance: the loop and its abstraction; timers; rooms; the connection; sessions
and parsers; the server; the buffer; proofs of all of these; the codec, the game server and its
client over the network; the logger and its proof; the scheduler's frames; the proofs of the
client's view over the network and of frames with one loop.

To come:

1. `Poller`: Channel and EpollPoller registration (`index`, `channels_`, `events_`)
   with descriptors that are closed and used again, against an abstract set of
   registrations.
2. A FIFO channel as the abstract specification of a connection (what goes in comes
   out, in order, up to a cut), and Buffer shown to implement a queue as a state machine.
