# A TLA+ project for cpp-playground

The repository is a collection of small C and C++ programs about sockets,
InfiniBand verbs, libfabric and event loops. It has no library they share: each
program is a system of its own, and most of them print something and exit. This
project models the programs in which something can go wrong that a run on two
machines would hardly show: processes that are ordered only by messages,
connections that break, datagrams that are lost, calls that fail half-way.

## Inventory

| Component | State | Operations | What is hard | What makes it correct |
|---|---|---|---|---|
| `RDMA/rdma1.cpp`, two processes | `resources` (socket, QP, CQ, MR, `buf`), `remote_props`, `rc` | `sock_connect`, `sock_sync_data`, `connect_qp`, `post_send`, `post_receive`, `poll_completion`, `main` | two programs ordered only by one-byte exchanges over TCP; one-sided access to the other's memory; every call may fail | the printed texts are right; nobody touches a buffer out of turn; a side only hangs when the other failed |
| `RDMA/rdma1.cpp`, objects of one process | handles in `resources`, the listening socket | `resources_init`, `resources_create`, `resources_destroy` | failure in the middle, failing releases | everything released once, in order, and failures reported |
| `RDMA/udp1`: `ConnectionServer` and `main` of `app.cpp` | `neighbor_map`, `pending_hello`, `cycles`, `sent` | `send_hello`, `server_receive_event`, `add_neighbor`, `check_sending_hello`, `get_app_dest` | lost, duplicated, reordered datagrams; restarts; two nodes dialling each other | the exchange ends; acquaintance is mutual; a neighbour is known in time |
| `RDMA/udp1`: `RdmaHandler` | QP, MR, SGE pool, receive requests | `setup_memory`, `poll_complition`, `create_send_request` | a pool that is never refilled; offsets at the end of the region | buffers inside the region, no deaf node |
| `Libfabric/test2.c`, client and server | endpoint, event and completion queue, `run`, a `ctx` (mutex, condition, `ready`) per reader | `server_init`, `client_init`, `cq_thread`, `client_thread` | threads and condition variables, shutdown, connection events of several clients | no lost wake-up, everything closed after its last use |
| `LibEvent/try1_server.cpp` (rot13) | `fd_state` of a connection: a buffer, three indices, two events | `do_accept`, `do_read`, `do_write` | callbacks of one connection in any order, partial writes, indices that are never initialised | what a client reads is what it typed, translated, and complete lines are answered |
| `RDMA/test3.cpp` (epoll) | epoll set, client sockets, a batch of events | `start_server`, `use_conn_fd`, `start_client` | edge-triggered events, several clients, clients that vanish | no client is forgotten, none takes the server down |
| `RDMA/examples/{rc,uc,ud}_pingpong.c`, two processes | `pending`, `routs`, `scnt`, `rcnt`, the queue pair, one completion queue for both directions, a completion channel | `pp_init_ctx`, `pp_{server,client}_exch_dest`, `pp_connect_ctx`, `pp_post_recv`, `pp_post_send`, `parse_single_wc`, `main` | completions in any order, events armed before the poll, messages that must find a receive, transports that lose them, no timeout | queues never overrun, every message is an answer, only a loss or a failure keeps a side waiting |
| `RDMA/examples/srq_pingpong.c` | the same for `num_qp` queue pairs with one receive queue; counters over all of them | as above, `find_qp` | totals say nothing of one queue pair | one receive for each message; who ends has got everything |
| `RDMA/examples/xsrq_pingpong.c`, a server and `num_clients` clients | `rem_dest[].pp_cnt`, `cnt`, receive and send completion queues | `pp_client_connect`, `pp_server_connect`, `connect_qps`, `pp_post_send`, `pp_client_termination`, `pp_server_termination` | messages to one client pass through the queue pair of another; the status of a send is not read | nobody closes too early; `success` speaks for all |
| `pp_init_ctx` and `pp_close_ctx` of the five | `struct pingpong_context` | the calls, the `clean_` labels, the releases | five ladders of labels, each call may fail | released once, in order, nothing left |
| `Socket/try1`, `Socket/smc` | one socket | blocking echo | nothing concurrent | -- |
| `tutorial`, `ORT`, `MPI`, `Netlink`, `RDMA/test1,2,4,_rc,_uc`, `Libfabric/test1`, `get_fi_info`, `devinfo`, ... | local variables | calls into libraries, printing | -- | -- |

The components do not interact with each other. Inside a component, processes
interact by TCP and RDMA (`rdma1`, the ping-pong programs), by TCP (`test3`, `try1_server`), by UDP (`udp1`) or by shared memory
and completion queues (`test2.c`).

## Modules

| Module | Models | Checked by | Proved about it in |
|---|---|---|---|
| `RcTransfer` | abstract: what `rdma1` promises to who reads its output | as property `ImplementsTransfer` | `RcPairProofs` |
| `RcPair` | `rdma1.cpp`: two processes, TCP, two adapters | `rc_faults`, `rc_remote` | `RcPairProofs` |
| `RcResources` | `resources_create`, `resources_destroy`, object by object | `ownership` | `PingpongProofs` |
| `PpContext` | `pp_init_ctx`, `pp_close_ctx` of the five ping-pong programs | `ownership` | `PingpongProofs` |
| `Ownership` | the two together: one of six programs sets up and releases its objects | `ownership` | `PingpongProofs` |
| `HelloExchange` | `ConnectionServer`, `app.cpp`, UDP | `hello_orderly`, `hello_faults` | `HelloExchangeProofs` |
| `ReadCount` | abstract: sequential reads, counted when their data have arrived | as property `ImplementsReadCount` | `FabricReadersProofs` |
| `FabricServer` | `server_init` and `client_init` of `test2.c`, several clients | `server` | `FabricServerProofs` |
| `FabricReaders` | `client()` of `test2.c`: readers, completion thread, main | `readers_faults` | `FabricReadersProofs` |
| `Rally` | abstract: the match a user of the ping-pong programs sees | as property `ImplementsRally` | `PingpongProofs` |
| `PpLink` | two processes, TCP, two adapters with one queue pair each | through `Pingpong`, `SrqPingpong` | `PingpongProofs`, `SrqPingpongProofs` |
| `PpProgram` | the program `rc_`, `uc_` and `ud_pingpong.c` have in common | through `Pingpong` | `PingpongProofs` |
| `RcPingpong`, `UcPingpong`, `UdPingpong` | what each of them adds or changes | through `Pingpong` | `PingpongProofs` |
| `Pingpong` | composition: a server and a client of one of the three | `pingpong`, `rc_events_ts` | `PingpongProofs` |
| `SrqPingpong` | `srq_pingpong.c` | `srq` | `SrqPingpongProofs` |
| `XsrqPingpong` | `xsrq_pingpong.c`: a server and its clients | `xsrq` | `XsrqPingpongProofs` |
| `Sockets` | the clients of the two event-loop servers, and TCP as these see it | through `EventServers` | `EventServersProofs` |
| `EpollServer` | `start_server` and `use_conn_fd` of `test3.cpp` | through `EventServers` | `EventServersProofs` |
| `Rot13Server` | the handlers of `try1_server.cpp` | through `EventServers` | `EventServersProofs` |
| `EventServers` | composition: one of the two servers with its clients | `servers` | `EventServersProofs` |

### RcPair

`pc[p]` names the call process `p` is about to make; the operators `ConnectQp`
and `Main` are the control flow of `connect_qp` and `main` after a call that
succeeded. The server is the process without a `<host>` argument. The remaining
variables are:

* the program: `rc`, `total` (`total_read_bytes`), `remote` (`tmp_con_data`, which
  becomes `remote_props`), `out` (the buffer contents printed so far);
* TCP: `sock`, `chan[p]` (bytes on their way to `p`), `peerEnd[p]` (what the kernel
  of `p` knows of the other end: open, closed in order, reset);
* the adapters: `qp`, `rq`, `sq` (requests posted and not yet executed), `pend`
  (completions on their way), `cq`;
* `buf`: the registered memory.

A call of `sock_sync_data` is a write step and one step for each `read()`. A read
at the end of the stream returns 0, `rc` stays 0 and the loop goes on: the model
has this as the step `SyncSpin`, which changes nothing. `cm_con_data_t` is a sequence
of `ConLen` pieces, the units in which TCP may cut it: the first holds address and
key, the last the queue-pair number. With `ConLen = 2` a write may be short
(`rc > 0`, the read is skipped, and `connect_qp` tests for `< 0` only), and a read may
return half of the structure (the next read overwrites it). `SyncRead` and
`ShortWrite` do precisely this.

The adapters are outside the repository. They are modelled as the reliable
connected service the program asks for: a request is executed on the responder
if the addresses fit and the responder is ready; a SEND consumes a receive
request; `rnr_retry = 0`; without an acknowledgement the requester gets an error
completion after `retry_cnt` attempts and its queue pair fails.

`Faults` names what may go wrong: TCP takes or delivers a part of the connection data, the client is refused,
`resources_create` fails, any later `ibv_` call fails, a poll times out, requests are lost. A run of the
programs meets none of it, or all (`faults`).

### RcResources

`at` goes through `Calls` and then through `DestroyOrder` (or `CleanupOrder`).
`live` has the objects that exist, `handle` those the program still has a pointer
to, so that a release of an object that is gone, or an object nothing refers
to, can be seen. `Needs` says what the adapter (and the memory) must keep: it makes
a release in the wrong order fail. `ReleaseFails` are objects whose release may
fail for reasons of the system.

### PpContext, Ownership

The five programs are five sets of tables: `RcCalls`, `UcCalls`, ... are the calls of `pp_init_ctx` with the
label each jumps to, `RcClean`, ... the labels in their order, `RcClose`, ... the releases of `pp_close_ctx`. The
actions go through them. A ladder tests nothing but the options, so the label has to be the right one for
what exists; `pp_close_ctx` stops at the first release that fails. `xsrq_pingpong` has no labels and returns with what
it has. The objects `qp1` and `qp2` stand for the array of queue pairs of `srq_pingpong`.
`Ownership` lets one of these programs or `rdma1` run, so that one run asks the same two questions of all six.

### HelloExchange

One action is one turn of the loop of `app.cpp`: `Receive` when `epoll_wait`
reports the socket, `Idle` when it times out. `known[n][x]` is the process whose address `n` has in
`neighbor_map` under `x`; a restarted process has a new queue pair, hence the number `starts`.
`pending` are the sets `pending_hello` of all nodes, `net` the datagrams under way, of which any may be
received next. `Cycle` is the end of the loop body, with `neighbor_map.begin()`
on a map that may be empty. `count` is a history variable.

Left out: the sizes of some allocations (`malloc(sizeof rem_dest)` is the size of a pointer;
the allocator rounds it up to hold all but the last field), `lastHello` (written only), and the address
handle, which only the commented-out `ibv_post_send` would use.

### FabricReaders

`rpc[t]` is the place of reader `t` in `client_thread`, `cpc` that of `cq_thread`, `main` that of
`client()`. `owner[t]` is the mutex of `ctx[t]`, `ready[t]` its flag; a reader on its condition has
`rpc[t] = "wait"`, and `pthread_cond_signal` moves it, if it is there, to where it takes the lock
again. `pthread_cond_wait` releases and waits in one step (`Sleep`), and may return
without a signal (`SpuriousWake`). Test, set and reset of `ready`, and each test of `run`, are
steps of their own, so that the lock has to do its work. `run` is a plain `int` that two threads
use without a lock; between two tests there is always a call into libfabric, so the compiler
reloads it and a read sees the value before or after the write.

The fabric: `flight[t]`, `cq[t]` and `err[t]` count the reads of `t` that are in the transmit queue, have a
completion in the queue, or an error entry. Errors stay there, as nothing calls `fi_cq_readerr`.
`Create` takes the readers in any order and `JoinReaders` waits for all of them, which is what
the two loops over the array amount to. Left out: the contents of `buff` (all readers read the same bytes into the same
place), and what `main` returns (`client()` and `client_thread` end without a `return`).

### FabricServer

`at` is the call the server is about to make, `eq` its event queue, `ep` and `entry` the two variables of
`server_init` (`entry` keeps only whose event it was: the code reads no more of it than `entry.info`, for `fi_endpoint`).
`ReadEvent` is an `fi_eq_sread` with the test that follows; anything unexpected ends the server
(`Gone`). A client goes through `client_init` (`cpc[c]`), then reads, then calls
`fi_shutdown`; "reading" stands for all of `FabricReaders`, and `ReadsFail` for what that module shows when the peer disappears.
`link[c]` and `told[c]` are the connection as the fabric knows it: `FI_CONNECTED` may reach either side first,
and the keys may be sent before the client has read its event. `disturbed` is a
history variable. The attributes of the endpoints and the contents of the keys are left out.

### PpLink, PpProgram, RcPingpong, UcPingpong, UdPingpong, Pingpong

The three programs are copies of one another that have grown apart. `PpLink` has the variables: those of the
processes (`pending`, `routs`, `scnt`, `rcnt`, `wc`), the sockets and what is under way on them, and for each adapter the
queue pair, the number of posted receives (`rq`), the one slot for a send (`sq`), the completion queue (`cq`), whether it is armed, the
events in the channel; `net` counts datagrams under way. The calls of libibverbs are operators there.
`PpProgram` has one action for each call or step the programs share: `Prepare` up to the exchange (nobody can reach the queue pair
before), a step for each message of the exchange, `Connect`, `Serve`, and in the loop `GetCqEvent`, `ReqNotify`, `PollCq`,
and `ParseSingleWc` for each completion taken. `RcPingpong` adds the poll with time stamps
(`StartPoll`, `NextPoll`) and the reliable transport; `UdPingpong` the address handle; `UcPingpong` nothing: its transport is
the datagram one (`Transmit`, `Arrive`, `Lose` of `PpLink`). `Pingpong` composes them by `INSTANCE`: `transport` says which of the three runs, `mode[p]` which options
a process has, `faults` whether anything may fail.

A slot for a send is free again when its completion has been *polled* (`SlotFree`), as the adapter demands. Over RC a
message that finds no receive is repeated without end (`rnr_retry = 7`), one that finds no queue pair is given up
(`RetryExceeded`). Over UC and UD a message is complete when it has left. `Faults`: a call of libibverbs fails (`verbs`), TCP breaks or is cut
(`tcp`), packets of a reliable connection are lost until it gives up (`link`), the last acknowledgement does not get through (`ack`), a datagram is
lost (`loss`).

Left out: the contents of the buffer (and options `-c`, `-o`, `-O`, `-P`, `-j`, `-N`, which do not change the order of the calls; the device
memory of `-j` is in `PpContext`), the statistics of `-t`, and `num_cq_events`, which
only counts what `ibv_ack_cq_events` acknowledges at the end.

### SrqPingpong, XsrqPingpong

`SrqPingpong` uses the variables and the calls of `PpLink`, with `pending[p][i]` and `sq[p][i]` for queue pair `i`; the program takes all
completions there are in one poll and posts receives when `NumQp` are left. `GoesOn` is the `goto out` after a failed read of an
address, which returns `rem_dest` as if it were filled in: `known` says who really has it.

`XsrqPingpong` has any number of clients. `out[x][j]` are the messages on the queue pair of `x` for partner `j`: message `k` of the server to
client `i` goes over queue pair `(i + k) % N`, waits until that client is connected, and lands in the receive queue of client `i`. `GiveUp` completes
with errors what is posted on a queue pair whose target is gone, or not there in time (`retry`); `Drain` counts
these completions like any other. The termination over TCP is `ClientTermination` and `ServerTermination`.

### Sockets, EpollServer, Rot13Server, EventServers

`Sockets` has what the two servers have in common. `toServer[c]` and `toClient[c]` are the bytes under way, `end[c]` what the server's kernel knows of the other
end: up, closed (`fin`), reset (`rst`), closed and then reset (`finrst`), reset and reported (`shut`). On Linux the first read or write on a reset
connection returns -1, every later write raises SIGPIPE (`Fatal`), for which neither program installs a handler. A descriptor is never closed by either server
(`conn[c]` stays `open`), so that the table of descriptors is full after `limit` clients, and `accept` ends the process.

`EpollServer`: `batch` is the part of `events[]` the `for` loop has still to serve, `ready` the edges not yet reported. The client is `start_client`: one text, one read, `close`.
`Rot13Server`: an action is one call of a handler. `Put` says what the loop of `do_read` over the characters of one `recv` leaves in the buffer and the indices. `state[c]` is the `fd_state`; a connection whose structure has been freed leaves its memory, with its contents, to a later one
(`new fd_state` initialises nothing: fresh memory of the process is zero). `start[c]` is a history variable with what a connection began with. The rot13 client is not in the repository: it types
letters and ends of lines, reads one character at a time or not at all, and leaves as it likes. TCP with nothing under way to a client takes a whole buffer; else it may take a part.

Left out: clients of `test3` that send more than one text, and the setting up of the listening sockets.

## Runs

| Run | Instance | Shows |
|---|---|---|
| `rc_faults` | no fault; or every fault at every call, with connection data that TCP cuts in two | without faults both programs end with `test result is 0` (`TestSucceeds`); all safety properties, refinement of `RcTransfer`, and `EndsOrHangs` |
| `rc_remote` | connection data in two pieces | finding: `remote_props` may hold something else than the peer's attributes |
| `ownership` | six programs, every option that owns an object, releases of QP, MR and socket may fail | every partial failure of creation and of destruction |
| `hello_orderly` | three nodes, one start each, one duplicate, a node is greeted only when it runs and answers within the waiting time | the handshake makes the target known before `get_app_dest` needs it |
| `hello_faults` | two nodes, two starts each, one loss, one duplicate, nodes dial nodes that are down, each other or themselves | the balance holds and the network gets quiet |
| `readers_faults` | two readers, two reads each, a transmit queue of one, every fault | wake-ups, shutdown, refinement of `ReadCount`, and the one way not to end |
| `server` | three clients at any time, failing calls, interrupted clients | events are those of the connection served, the server ends for a reason, serves who does not overlap, and nobody waits for ever in `client_init` |
| `pingpong` | RC, UC and UD; three rounds, two receives; every mix of options of the two sides; no fault, or every fault | no queue overflows, messages land, sleepers are woken, refinement of `Rally`, who ends and who need not |
| `rc_events_ts` | RC with `-e -t` on both sides, no fault | finding: a side takes an event that announces nothing new for an error |
| `srq` | two queue pairs, two receives, two rounds, polling and events; no fault, or failing calls and a broken exchange | one receive for each message; a side that ends has got everything; both end |
| `xsrq` | a server and two clients, two messages each, sleeping on events; no fault, or failing calls and retries that run out | one receive for each message, nothing is lost by closing, `success` speaks for all, all succeed without a fault |
| `servers` | two clients, two descriptors or one; letters and lines, four characters for a buffer of two; clients close in order, or are killed or half-close | no client is forgotten; texts come back in order, also through memory an earlier connection has left; no client that just closes ends a server |

Bounds. `RcPair` needs none: the programs are straight lines and the state
space is finite; two processes are what the program is for, and two pieces of connection data are enough for every
way a short write or a split read can mix old and new contents. In `HelloExchange`
`CyclesBeforeSend` is 2 or 1 instead of 11: the value only says how long an
initiator waits, and no property depends on it being more than one turn;
`MaxStarts`, `MaxLost`, `MaxDups` bound restarts, losses and duplicates. With one duplicate and one
loss each entry of `pending_hello` can be toggled an odd and an even number of times;
two starts give one restart, and three nodes a third party in every exchange. The theorems do not depend on these bounds.
Two readers in `FabricReaders` compete for the transmit queue and the completion thread, and the second read of each
meets what the first has left behind. In `FabricServer` a third client meets a server that has forgotten the first.
In `pingpong` three rounds with two receives make the refill happen in the middle of the match and at its end, and give a first, a middle
and a last answer; more rounds repeat the middle one. In `srq` two queue pairs share two receives: every message under way needs one, and
with two rounds over two queue pairs the totals are reached while a message is under way. In `xsrq` two clients and two messages are the least
for which every queue pair of the server carries messages to both clients.
In `servers` two clients share a batch of events, and the second may get the memory of the first. A buffer of two characters is full after one line; four
characters, divided between the clients in every way, reset it, overflow it, and leave a part of a line, or a line not yet sent, in the memory.

Fairness. `RcPair`: both programs are scheduled (`WF` of `Program(p)`), the adapters
work on what is posted, and `connect`/`accept` complete; no failure is fair. `HelloExchange`: `epoll_wait`
does not overlook a datagram (`WF` of `Receive(n)`), and a datagram to a node that is
down does not stay in the network; nothing makes a node start, stop or time out.
`FabricReaders`: main, the completion thread, each reader and the fabric
go on (`WF`), which includes the 1000 ms after which `fi_cq_sread` returns; the completion
thread gets a mutex that is free again and again (`SF` of `CqLock`), or else a reader that is woken
spuriously without end could keep it out. `FabricServer`: the processes that run go on, the fabric reports and delivers;
nobody has to start or to interrupt a client. No spurious wake-up and no error is fair.
The ping-pong programs: each process goes on when it can (`WF` of `Program(p)`), the adapter delivers and acknowledges what can be delivered, and
gives up on a queue pair that is gone: `retry_cnt` is finite. No failing call and no loss is fair.
`EventServers`: the loop goes on while there is an event (`WF` of `ServerStep`; both libraries report every pending event in each turn), and a client that can go on does; nobody
has to dial, to type, or to leave.

## Findings

* `rdma1.cpp:718` saves "the remote side attributes". When TCP cuts the
  44-byte structure, or takes only a part of it, they may be others
  (`rc_remote`): `connect_qp` treats a short write as success. Messages are then
  lost and the test fails, but no wrong text is printed (`ImplementsTransfer` in `rc_faults`).
* `rc_pingpong.c:1106`: with `-e` and `-t` together a match may fail without any fault (`rc_events_ts`). A completion that arrives after
  `ibv_req_notify_cq` and is taken by the poll that follows leaves its event behind; the next round is woken by it, finds the queue empty, and takes `ENOENT` for an
  error. Without `-t` an empty queue is none.

Observed while modelling, where no comment claims otherwise:

* `rdma1.cpp:479` sizes the completion queue because "each side will send only one WR". The client posts two (:976, :995). The conclusion is right all the
  same (`QueuesFit`, proved): each is polled before the next is posted.
* a side that waits in `sock_sync_data` for a peer that has gone spins for ever
  (`EndsOrHangs` says that it is one of two ways not to end);
* `udp1`: a node that restarts and greets again may get no answer, because the other one still
  waits for it and takes the greeting for the answer; and the old address of a restarted
  neighbour is kept. `TargetGetsKnown` holds only in the orderly world of `hello_orderly`.
* `test2.c`: after an error of the completion queue `cq_thread` ends, and the readers that wait are never
  woken (`EndsOrDeaf`); with more readers than the transmit queue has entries, a reader ends at -FI_EAGAIN.
* `test2.c`: a second client that dials while another is served ends the server ("invalid event"), and with it the reads
  of the first, whose readers then wait for ever (`EndsForAReason`).
* `rdma1.cpp`: if `ibv_dereg_mr` fails, the buffer is freed while it is registered (`ReleasedInOrder` excludes failed releases for this reason).
* `srq_pingpong.c:208` and `:304`: a failed read of an address goes to `out` with `rem_dest` allocated, so that `if (!rem_dest)` (:875) does not see it and
  the program goes on with addresses that were never read (`GoesOn`); the usage text counts exchanges "per QP" (:635) where the loop counts totals (:914), so that with
  several queue pairs a side may leave while a message to it is under way, whose sender then sees a failed completion although nothing failed (`EndedGotAll`).
* `xsrq_pingpong.c:984`: the first sends, and `:1014` all later ones, are not tested; a queue pair whose client connects too late breaks, its completions are counted all the same (:1020),
  and the process then waits for a message, or a termination, that never comes. It never reports success (`SuccessIsShared`).
* `test3.cpp:103`: a client that is killed after its answer has come and before it has read it resets the connection; the read that follows returns -1, which `use_conn_fd` takes for data,
  and the answer to it ends the server with SIGPIPE (`ClosingIsSafe` holds for clients that are not killed). `:192` takes a client out of the epoll set and never closes its descriptor, so that the server ends at `:176` when it has served
  as many clients as it may have descriptors.
* `try1_server.cpp:102`: a client that sends a line and ends its input in one go (`shutdown`) gets no answer, and no end of file either: `do_read` frees the connection with the write event pending and the descriptor open (`NobodyForgotten` is about clients
  that keep their input open). `:48`: if it leaves such a line behind, the next connection that gets its memory reads it first (`Leftover` in `TextInOrder`).
* The reads of addresses in `srq_pingpong.c` and `xsrq_pingpong.c` repeat a read that returns 0 for ever: a partner that ends in the exchange keeps the other one spinning.

## What is proved

`RcPairProofs`, for `ConLen` 1 or 2 and every set of `Faults`:

* `TypeCorrect`: `Spec => []TypeOK`.
* `QueuesFitAlways` and `CompletionsMatch`. Neither is inductive. The invariant
  `CreditInv` counts, for each side, the requests and completions that exist
  (`Load`), and compares them with what its `pc` can have left behind
  (`Window`, `Awaited`): a request exists only between its post and its poll, and is
  the one the poll waits for. The receive request of the client is the other half: it becomes
  the completion `poll_recv` waits for. Every action but the posts and the polls leaves the sum alone.

* `RequestsLandAlways`, `BufferSafeAlways`, `GivingUpIsNoticed` and `RdmaIsATransfer`, from `SyncInv` and `TextInv`.

The one-byte exchanges order the two programs only as long as every byte is
taken for what it is, and a short write or a structure read in pieces shifts them: a program may take a piece of connection data for its Q.
What saves the programs is that a side which has read the structure in pieces does not have the peer's queue-pair number
(`Knows`), so that its requests reach nobody and it gets no further than its first poll. The proof has three parts.

* Bytes. `PlaceInv` says where each program counter may be and what it says of the queue pair and of the buffer; `StreamInv`
  counts: where a side has not lost count (`Straight`), what it has taken and finds in its socket (`Has`) is no more than what the other can have sent (`Sent`)
  at its place, and no less where the other has read the first side's data whole (`Whole`).
* Order. `SyncInv` reads it off the counts: more than the connection data means that the peer's queue pair is ready (`First`), a W means
  that its last request is done (`Third`); a receive is there before the SEND (`Ready`); nobody gets past a poll of a request of its own unless both know each other
  (`Agreed`); the client works on the buffer while the server waits in between (`Lent`); whoever ends early has written too few bytes to be taken
  for one that went on (`ServerGone`, `ClientGone`); who has written to a closed socket never gets to another write (`Cut`); and
  `rc = 0` means that all was sent (`Passed`). None of these is inductive without others.
  `RequestsLandAlways`, `BufferSafeAlways` and `GivingUpIsNoticed` follow from it.
* Texts. `TextInv` adds which text lies in which buffer at each place (`ServerText`, `ClientText`) and what has been printed (`OutOK`). Only `Execute` moves a
  text, and `SyncInv` says where the other program is at that moment. `RdmaIsATransfer`: every step of `RcPair` prints the next text of `RcTransfer`, ends a
  program with the result the abstract one allows, or is not seen by who reads the output.

`HelloExchangeProofs`, for every finite set of nodes, every bound and every behaviour of UDP and of the users:

* `TypeCorrect`.
* `BalanceHolds`: `Spec => []HelloBalance`. The invariant adds that a node that does not run waits
  for nobody; without it a start might find its entry in `pending_hello` already there.

`FabricReadersProofs`, for any finite set of threads, any `Count`, `TxDepth` and `Faults`, from one inductive invariant,
`ReadersInv`. Its core is `OneRead`: a read that is waited for is in exactly one place (the fabric, the queue, the
hands of `cq_thread`, the flag, the errors). It needs to know who holds the lock (`LockHeld`), that `cq_thread` has a
completion only between `fi_cq_sread` and unlock (`OneCompletion`), and that a reader about to sleep has found `ready` clear.

* `TypeCorrect`, `OneReadEachHolds`, `WakeupsArrive`, `QuietWhenStopped` follow from it.
* `RefinesReadCount`: with `Accounted`, every `Post`, `Complete` and `Unlock` is an `Ask`, `Arrive` and
  `Tally` of `ReadCount`, and every other step leaves its variables alone.

`FabricServerProofs`, for any finite set of clients and any faults, from one inductive invariant, `ServerInv`. The code never
compares the connection of an event with `ep`; that the event is the right one has to follow from what the queue can hold where it is read. `Stage`, `Keys`
and `Current` say for each kind of event whose it can be, `Endpoint` relates the place of the server to its endpoint, and
`Undisturbed` gives the whole content of the queue as long as no clients have overlapped.

* `TypeCorrect`, `OneConnectionHolds`, `EndsForAReasonHolds`; and `ServedAloneHolds`, which no run states: the only open
  endpoint is that of the client the server has accepted.

`PingpongProofs`, for any `Iters` and `RxDepth`, any mix of options and faults, on all three transports, from
`MatchInv`. It is bookkeeping: `Busy` and `Queues` express the counters and `pending` of a process by what it has sent and got and what is still in its queues;
`Messages` bounds what has arrived and is under way by what was sent. Added up over both sides this leaves room for one ball only, and an overrun
or a message without a receive would need two. `Addresses` and `Role` follow the exchange of addresses (the server is ready before the client knows where to send),
`Awake` the arming of the completion queue.

* `TypeCorrect`, `QueuesFitHolds`, `MessageLandsHolds`, `HandleBeforeSendHolds`, `NeverDeafHolds`.
* `OneBallHolds`: the messages under way, received or being answered are never more than one.
* `PingpongIsARally`: every step is a step of `Rally`, or leaves its variables alone.

The second part of `PingpongProofs` is about `Ownership`, for any set `ReleaseFails` of objects whose release may fail and either process of `rdma1`. Its
invariant `OwnInv` has a case for each kind of program. For `rdma1`, `Rdma1Inv` says which calls lie behind `resources_create` at every step (`Creating`), that a
loop of releases has dealt with every object behind it and still finds every object before it that `res` refers to (`Releasing`), and (`ObjectsInv`) that what exists
is in `res`, or is a failed release or the listening socket. The properties alone are not inductive: nothing in them keeps the second loop, after the cleanup of a failed creation,
from objects the first has released. For the examples, `ContextInv` says that while `pp_init_ctx` runs the objects are exactly those its calls
obtained (`Taken`; the file of the XRC domain may miss), that a ladder or `pp_close_ctx` knows every one of them and still finds those it has not reached (`Remaining`),
and that behind it is only what is `Stuck`. The steps are proved once for all
programs; what they use of the tables of each program are lemmas: an order of release puts everything before what it is built on (`Ladder`), the label a failed call
jumps to releases just what the calls before it obtained (`Label`), and both know every object (`CloseOwn`, `CleanOwn`).

* `ReleasedInOrderHolds`, `NothingLeftHolds`.

`EventServersProofs`, for any set of clients and any `limit`, any buffer size and any faults. Its first part are lemmas about
`Put` and `Wrote` (what one call of `do_read` and `do_write` does to indices, buffer and what is `Kept` of the text), about sequences with a part left out, and
the invariant `Base`: types, and `Memory` of every `fd_state`, used or freed. Two further invariants stand on it.

* `TypeCorrect`, `IndicesHold` (`n_written <= write_upto <= buffer_used`, whatever the memory held before).
* `ClosingIsSafeHolds` from `ClosingInv`. For `test3` it needs the whole visit of a client (`Stage`: where it is, what is under way, and whether its event
  is in `ready` or in `batch`); for the rot13 server `Link` and `Safe`: whoever is still served has not had its error reported, and one that
  left in two steps has no write event pending.
* `AnsweredOnceHolds`, also from `ClosingInv`: one answer per client, and a client taken out of the epoll set is in no batch.
* `TextInOrderHolds` from `TextInv`, which follows every character: what a client has read, what is on its way to it and what its buffer keeps (`Chain`) is,
  in this order, a part of what the memory held at the start followed by what has been consumed of its text, translated (`Taken`); and as long as
  nothing can have been dropped it is exactly that.

`XsrqPingpongProofs`, for any number of clients, any `NumTests`, with and without events and for any faults, from five
invariants, each proved with the ones before it. `Base` has the types. `BallInv` says that server and client pass one ball to and fro, whichever queue pair it goes
by: `pp_cnt` at both ends says who has it (`Coming`, `Arrived`, `InHand`), or that it is lost; the receives of a process are one for each ball it can still get (`Credit`).
`Track` says what `cnt` counts in the loop and in the drain that follows it, `LossInv` that a ball whose queue pair is broken is lost for good.
`EndInv` closes the circle: no process looks at the status of a send, so that success is known only from the receives; a client that has drained its
queue has had its last answer, and tells the server over TCP; the server tells the clients when all have told it.

* `TypeCorrect`, `OneForEachHolds` (from `BallInv`), `NothingLostHolds` and `SuccessIsSharedHolds` (from `EndInv`).

`SrqPingpongProofs`, for any `NumQp <= RxDepth`, any `Iters`, any options and any faults, from two invariants.
`BallInv` gives every queue pair a ball of its own, which is under way to a side (`Coming`), among the completions this side has not looked at
(`Arrived`), or in its hands (`Held`): never in two places, and nowhere once a send has failed. The totals `scnt` and `rcnt` say nothing of one queue pair; what
makes up for them is `pending`, which the invariant ties to the slot and to the completions (`Sends`). The receives a process counts (`routs`) are those in the shared queue and
those whose completions wait (`Receives`); the refill keeps them at `NumQp` or more, and balls on their way and arrived are of different queue pairs, so that
there is always one left. `EndInv` is about runs without a failing call. `Shaken` follows the exchange of addresses message by message: who sends has a partner that is connected
and whose address it knows, as long as that partner has not ended. `Counted`: as long as both sides run, what a side has got is `rcnt` and the completions still to be seen, and what
the other one has got is `scnt` and the messages delivered and not yet counted. `Ending` closes the induction: a failed completion means that the other side has ended, and who
has ended had counted everything, or learned it in this way.

* `SrqTypeCorrect`, `ReceiveForEachHolds` (from `BallInv`), `EndedGotAllHolds` (from `EndInv`).

The only assumptions are those of the modules: `RcAssumption`, `HelloAssumption`, `FabricAssumption`, `ServerAssumption`, `LinkAssumption`,
`SrqAssumption`, `XsrqAssumption`,
`SocketsAssumption`, `Rot13Assumption` and `EpollAssumption` (the listening socket is no client). TLC evaluates them, and `OwnershipAssumption`, which the proofs do not need.

Model-checked only: the liveness properties (`TestSucceeds`, `EndsOrHangs`,
`TargetGetsKnown`, `GoesQuiet`, `EndsOrDeaf`, `EveryoneServed`, `NobodyWaits`, `BothEnd`, `HearsOfFailure`, `EndsUnlessLost`,
`AllSucceed`, `NobodyForgotten`), which tlapm cannot do under fairness. Every invariant and action property of the passing runs is proved.

## Plan

Done: all modules above, and a theorem for every invariant they are checked for. What remains is liveness, which needs a prover that knows fairness.

## Not modelled

Command lines, printed texts other than the buffer contents, device
enumeration and attributes of ports, GIDs and MTUs; the exercises and the information
programs of the last rows of the inventory, which keep no state between steps.

The pools of `RdmaHandler` are laid out wrongly (`rdma_handler.cpp:140`), but the call that would
use them is commented out in `app.cpp`.
