# TLA+ models of OPA Fast Fabric (opa-ff)

This directory holds TLA+ models of parts of opa-ff, the TLC configurations that check them on small
instances, and proofs that the TLA+ proof system checks. Every definition is translated from the C source;
`PROJECT.json` maps each one to the lines it stands for. `Dsap/...`, `opasadb/...`, `opamgt/...`,
`IbAccess/...` and `Esm/...` below are paths under `src`.

Run a model with `tlc -config PathTables_one.cfg MCPathTables.tla`, a proof with `tlapm PathTablesProofs.tla`.

## The system

opa-ff is a collection of libraries and tools around an Omni-Path fabric. Most of its 440,000 lines format,
parse, print or install. State that several threads or processes share is in the following parts.

| Component | State | Operations | Interacts with | What is hard |
|---|---|---|---|---|
| **opasadb path tables** (`opasadb/lib/path`) | a shared-memory table with the names and update counts of four others (port, subnet, vfab, path); per reader the mappings and cached counts | create, initialize, fill, publish, close (writer); create, re-open, query, close (readers) | the dsap scanner writes, MPI and other clients read | no lock at all between processes; crash and restart of the writer; names that recur; failures in the middle of a publication |
| **dsap scanner** (`Dsap/src/dsap_scan_fabric.c`) | ring of port events, rescan flag, event with time-out, topology, timer | take an event, sweep, retry when the SM is busy, publish, delay, clean up | notices and provider post events; SA queries; opasadb writer | ring overflow, wake-ups, events against sweeps, partial failure of a sweep, shutdown |
| **dsap notifications** (`dsap_notifications.c`) | notice thread of each port, re-initialization mutex | register, re-register, report a notice, re-initialize, terminate | opamgt notices, scanner | cancelling a thread that waits; registration after the SM has gone |
| **dsap provider** (`dsap_prov.c`) | ports, endpoints, destinations, handle of the path library | open and close devices, ports, endpoints; resolve; port events | ibacm calls it; scanner | a port that closes under a sweep |
| **dsap topology and queries** (`dsap_topology.c`, `dsap_query.c`) | lists of subnets, source and destination ports, vfabs, paths | add, remove, find; SA queries | scanner | duplicates on a retry, busy and empty answers |
| **opamgt ports and notices** (`opamgt/src`) | port lock with a time-out, pending and outstanding messages, registrations, socket pair between threads | register and unregister a trap, receive, retry, time out, poll for a notice, close | dsap, tools | lock time-outs that are ignored, late answers, unregistering while an answer is on its way |
| **opamgt out-of-band network** (`omgt_oob_net*.c`) | connections with partly read and written buffers | connect, send, receive, time out | PA and FE clients | framing, partial transfers |
| **IbAccess communication manager** (`IbAccess/Common/Ibt/Cm`) | end point objects (CEPs) with state, partner, queue pairs, retries and timer; maps by ID and by end point; the pending list of a listener | connect, listen, accept, reject, cancel, disconnect, destroy; a handler per message (REQ, MRA, REP, RTU, REJ, DREQ, DREP, LAP, APR, SIDR); timers | IbAccess users by call-backs; the CM of other nodes by messages | lost, late and repeated messages; time-outs and cancels that race them; queue pairs used again while the partner still knows the last call |
| **IbAccess GSA RMPP** (`IbAccess/Common/Ibt/Gsa/gsasar2.c`) | a SAR context per message under way, with state, window, segments, reference count, lock and timer; the list of contexts | receive a packet, acknowledge, hand up a message, time out, reap, destroy all | the GSA event thread, timer callbacks, the reaper, unloading; remote senders by packets | lost, repeated, reordered segments; callbacks that race the stopping and starting of their timer; references counted by hand; contexts destroyed while others find them |
| **retransmission contexts** (`Esm/ib/src/cs/cs_context.c`) | a pool of contexts for requests in flight: hash lists, free list, count of waiters and their semaphore, queue of completed ones | get, wait, send, find and release, age, queue, reuse, retire | users and their call-backs, a poller, an ageing thread, the network | late and repeated answers, call-backs that use the pool from within it, ageing while others insert, wake-ups of waiters |
| **cs/vs run-time** (`Esm/ib/src/cs`, `ibaccess`) | locks, events, queues, pools, hash tables | the usual | opamgt and tools | queue limits |
| **IbAccess Public** (`IbAccess/Common/Public`) | command and event threads, reaper, request and resource managers, containers | queue, process, cancel, destroy | older tools | destroy against callbacks |
| **Topology**, **IbaTools**, **Xml**, **IbPrint** | a snapshot of the fabric in memory | batch analysis, reports | opamgt | sequential; the credit-loop search of `route.c` is an algorithm worth a model |

What makes each correct:

* *path tables*: a mapped table never changes; a reader never reads through a mapping it does not have; an
  answer matches the query; a published set is complete and of one sweep; a query ends.
* *scanner*: no event is slept on; what is published is the fabric once nothing is under way; whatever was
  lost is made up for; unloading ends it.
* *notifications, opamgt notices*: each registration ends in an answer or in a time-out that the caller hears
  of; nothing is delivered to a registration that is gone; the port lock excludes.
* *communication manager*: a call is answered once; connected end points name each other and no third; an end
  point is used by one call at a time; nothing waits for ever and what is destroyed goes.
* *RMPP*: what is handed up is one message, whole; a reference is given back once, and nothing that somebody
  refers to is freed; every context has something that will end it; a sender is never stuck or misled by a window.
* *opamgt network*: what is received is what was sent, in order, whole.
* *contexts*: a request completes once, with its own answer or with a time-out; no context is lost or used by two;
  nobody waits for a context that is free.

## Modules

| Module | Models | Kind |
|---|---|---|
| `TableStore` | four registers, replaced as a whole, that readers copy | abstract specification |
| `PathTables` | writer and readers of the shared tables | component |
| `MCPathTables` | views of the fabric for TLC; refinement mapping to `TableStore` | model checking |
| `PathTablesProofs` | theorems about `PathTables` | proofs |
| `PathTablesStoreProofs` | answers of `PathTables`, with its refinement of `TableStore` | proofs |
| `DsapScanner` | event ring, scanner thread, provider, notices, SA answers | component |
| `MCDsapScanner` | destinations for TLC | model checking |
| `DsapScannerProofs` | theorems about `DsapScanner` | proofs |
| `CmRendezvous` | calls that meet answers, with no messages, timers or retries | abstract specification |
| `CmConnection` | clients and a listener of the communication manager, and the network between them | component |
| `MCCmConnection` | symmetry, bound on the messages in flight | model checking |
| `CmConnectionProofs` | theorems about `CmConnection`, with its refinement of `CmRendezvous` | proofs |
| `OmgtNotice` | user, reader, port thread, queue pair, SA and SM of an opamgt port | component |
| `MCOmgtNotice` | bound on requests and answers on their way | model checking |
| `OmgtNoticeProofs` | theorems about `OmgtNotice` | proofs |
| `RmppReceiver` | the receiver of segmented messages, its timers and its destruction | component |
| `MCRmppReceiver` | shapes of messages | model checking |
| `RmppReceiverProofs` | theorems about the life of the contexts of `RmppReceiver` | proofs |
| `RmppDeliveryProofs` | theorems about the messages that `RmppReceiver` delivers, the account of its datagrams, the progress of its contexts | proofs |
| `CsContext` | the pool of retransmission contexts, its users, poller and ageing pass | component |
| `MCCsContext` | requests, users and buckets for TLC | model checking |
| `CsContextProofs` | theorems about `CsContext` | proofs |

### PathTables

`name`, `count` and `exists` are the shared table (`op_ppath_shared_table_t`). A shared-memory object has the
name "base + number", so `dir[k][n]` says which incarnation of the writer created the object now called *n* of
table *k*, and `mem[k][<<i, n>>]` is what is in it: an object lives on after its name is unlinked, as long as it
is mapped. Contents are abstracted to the *view* (port up, pkeys, vfabs in order, paths in order) that the
publication was given; the records are written together by `FillTables`, before anybody can map the object in
an undisturbed run. The writer is the straight-line program of `dsap_publish_paths` and `op_ppath_publish`, one
step (`wpc`) for each object opened, unlinked, name stored and count stored, in the order of the code; it may
die between any two and start again. A reader is `op_ppath_create_reader`, `op_ppath_find_path` and
`op_ppath_close_reader`: opening is two steps because `open_ppath_table` opens by name first and reads the
count afterwards, and every look at a table in a query is a step that first compares counts.

Abstracted: one local port; each vfab has one service ID and one pkey; queries by source and destination GID
with a service ID or with a pkey (LID queries follow the same steps through other chains); no collisions in the
hash tables, whose chains therefore hold one vfab and destination; a name that is half copied is one that opens
nothing; memory is sequentially consistent. An `add` that fails (table full) is not modelled: the tables are
sized from the same counts.

### DsapScanner

`ring`, `rescan`, `signaled` are the globals of the scanner. A post is two steps, the insertion under the lock
and the trigger after it, and each of the two posting threads has at most one post in progress. The scanner
thread takes one event at a time and may be overtaken at each query and each access to shared state. `topo` is
the topology for one subnet and one source port; the paths of a destination (one query for each vfab and
service ID) are found or missed as one. The SA answers `ok`, `busy`, `empty` (no records) or `fail`; with the
port closed every query fails. The SA may recover once (`healthy`), after the last change, and then answers `ok`. `fabric`
and `notices` are the environment: the SM's view and the notices on their way. `recent` stands for the minimum delay between sweeps and `timed` for the presence of a time-out;
time is not counted otherwise, so a time-out may end a wait at any moment.

Abstracted: other subnets and ports, switches in the list of destinations, failure to allocate a pkey, spurious
wake-ups of the condition variable, the SIGTERM handler, a writer that cannot be created (the scanner thread
then ends at once).

### CmConnection

Every message handler, timer call-back and API call of the CM runs under `gCM->ListLock` of its node, so each is
one action. Calls go from a node of clients to one listener on another. A CEP is modelled once per attempt: a
member of `Calls` is one `iba_cm_connect`, a member of `Answers` one CEP the listener creates for a REQ; the same
member stands for the local communication ID, which the code takes from a counter and does not use again.
`state`, `peer`, `qp`, `remote`, `retries`, `timer` and `doomed` are fields of the CEP; `qp` and `remote` are
also its entries in the two maps of end points, which `ClearEndPoint` removes. `net` is the set of messages on
their way: each may arrive at any time, in any order, or never, and a retry that sends what is still on its way
adds nothing. `met` is a history variable of the calls accepted. `Receive` has one action per message type, and
each of these has one disjunct for each group of states its `switch` treats alike, discarding included.

`CmRendezvous` is what a user is promised: a call is placed, may ring at several answers, is met by its client with
one of them at most, and only that one is confirmed to the server; what is closed stays closed. It has no
messages. `ImplementsRendezvous` maps the states of the CEPs to its phases.

Abstracted: which timer runs and for how long (a timer that runs may fire at any time, so that an MRA, which
only makes it longer, starts the wait anew); the reason codes of a REJ other than `RC_STALE_CONN`; private data,
paths and queue pair attributes; the call-backs and event flags by which a handler tells its user. Left out:
peer-to-peer connects, SIDR, alternate paths, removal of a device.

### OmgtNotice

Three threads: the user's, which registers, unregisters and closes (`upc`), the user's reader (`GetReport`), and
the port thread (`tpc`). The user's thread and the port thread share `port->lock` (`sem`, a semaphore) and the
socket pair (`in`, `out`). The sockets are datagram sockets (`opamgt.c:384`): a writer waits while its
socket is full, also under the lock. What is done under the lock up to such a write is one step, and the holder
of the lock appears between steps only when it may be waiting to write. `omgt_lock_sem` gives up after five
seconds, which happens only if the holder is stuck on a full socket (`UserStuck`, `ThreadStuck`);
most callers do not look at the result and release the lock they do not have (`Section`), so that `sem` may come
to 2 and exclude nobody. A message's transaction ID, new at each send, is the pair of the message and its
retries left (`Tid`). `pending` is `pending_reg_msg_head`, `sending` the messages with `in_q` set, `sent` those of
them with a completion waiting, `cnt` is `outstanding_sends_cnt`, `timer` is a `poll_timeout_ms` that is not -1.

A call to `ibv_post_send` may fail. The SA takes the requests in any order or never, and its answers arrive in
any order or never; `SmChanges` is a new SM that has forgotten the subscriptions. `told` and `subs` are what the
environment knows: registrations whose user was sent a time-out, traps the SA has a subscription for.

Abstracted: failures to allocate; the out-of-band path; the registration looked up for a report; the
re-initialization with which dsap answers a time-out; the cache of port data; the poll of the port thread and the
lock after it are one step. Registrations and messages are each allocated once, in a fixed order.

### RmppReceiver

`sar[c]` is a `GSA_SAR_CONTEXT` with its timer. `mem` is whether the memory is free, in use, or queued for the
reaper; `timer` what the system's timer does (`fired`: expired, so that the callback has run or will); `due` how far
the callback of the present timer has come (to enter `RmppTimerCallback`, waiting for the lock, about to take the
context off the list, about to give its reference back); `lateEnter` and `lateWait` count callbacks of timers that
were stopped when it was too late. `lost` is a history variable: references that the code never gives back. The
timer's own behaviour is that documented in `Public/itimer.h`.

Four actors use the contexts: the one GSA event thread (`rx`), callbacks, the reaper, and `DestroySARContexts`
(`unload`). What is done under the lock of a context is one step; finding a context under the lock of the list and
locking it afterwards are two, and so are destroying it and taking it off the list. The unloader holds the lock of
the list from its look at the first context until that one's timer has been stopped, during which `Unlist` waits.
`Process` has one action for each way through `ProcessSARRecvCompletion` and `RmppReceiverProcessRecv`; every
`TimerStart` in it may fail. Any packet of a message may arrive at any time and any number of times, which covers
every sender and every loss, repetition and reordering. `reply` is the last answer sent; `out` counts the
datagrams out of their pool.

Abstracted: an ABORT and a STOP are treated alike everywhere; what `RmppMadCheck` and the check of the common header
find is one bad packet; class, transaction and address are a key; payload lengths are numbers of segments. Left out:
the sender of segmented messages, of which the code has only a frame of empty functions (so that `SARSendList` is empty and
no context is double sided); the older `gsasar1.c`, which is not compiled.

### CsContext

`entry` is the pool (`cntxt_entry_t`): the message, whether the entry is on a hash list, `errored send`
(`sendFailed`), retries and the ticks since it was stamped (`age`). `free_list`, `numWaiters`, `sema` and `resp_queue` are
the fields of `generic_cntxt_t`. No code in this repository uses the pool, so its users are what `cs_context.h` allows: threads
that get a context, waiting if need be, and send; a thread that hands answers and errors in (`FindRelease`,
`FindReleaseError`); a thread that ages the pool; and a poller that sends, reads the queue, and retires or reuses what it read.
Call-backs run under the lock; one may issue the next request (`CallbackReuses`, `CallbackGets`), send the same message again
(`CallbackResends`) or return. `Release` is `cntxt_release` with all of these, and is part of whatever released the entry.

What is done under the lock is one step, but for `cs_cntxt_age`: it reads the clock once, goes from bucket to bucket
(`pass`, `todo`), and time goes on meanwhile (`lag`), so that an entry stamped by a call-back in a later bucket is younger than
the pass, and the unsigned difference makes it look old. While a pass runs nobody else has the lock. `sent` is what the
network may answer: at any time, any number of times, in any order, or never. `outcome` is a history variable.

Abstracted: a request stands for its lid and tid (both are compared); the order of the free list and of the entries of a
bucket is left open; `releasing`, `alloced` and the counts of the statistics; setting a call-back and sending is one step,
as callers do under the lock. Left out: retries in steps
(`MinRespTimeout`, `totalTimeout`, which `cs_entxt_reuse_nolock` sets to zero), and the freeing of a pool.

Between a get and the send a user is without the lock, and time may pass for as long as it likes. What that does to the
entry depends on how it was got (`Gotten`). Got with `mad = NULL`, it is on no hash list before `cs_cntxt_send_mad`. Got with
a mad (`Early`), it is hashed and stamped at once, so that passes, answers and errors see it while it is held, and may send
and release it. `Send` is then what the code does with the entry it was given, without a look at whose it is now: the message
it finds there is sent, and the entry is on a hash list. That it may be linked into the free list as well, whose
links the insertion overwrites, is past what the model represents; `OneOwner` is false before that happens.

## Runs

Deadlock checking is off in all of them: environments end (the bound on changes, publications or incarnations
is reached), the scanner exits, a closed or blocked port stops, all calls are over, all requests have been completed, and a process without a call
in progress is a state where the system may stop.

| Run | Checks | Bounds |
|---|---|---|
| `PathTables_one` | `TypeOK`, `NoNullRead`, `AnswerMatchesQuery`, `FrozenTables`, `ImplementsStore` | one reader, two vfabs, two views, two publications (counts to 2), one retry, creation of a table may fail, one incarnation that may die |
| `PathTables_restart` | `PublishedCoherent`, `QueryReturns` | two incarnations, one publication each, one reader, one retry |
| `DsapScanner_safe` | `NoLostWakeup`, `SettledIsCurrent` | two destinations, four changes, ring that does not run over, SA that answers, unloading at any time |
| `DsapScanner_live` | `TypeOK`, `CatchesUp`, `CleanupReturns` | one destination, ring of two slots, three changes, every answer of the SA until it recovers, unloading at any time |
| `CmConnection_safe` | `TypeOK`, `TimersRun`, `PendingIsRinging`, `EndPointsUnique`, `PartnersAgree`, `ImplementsRendezvous` | two calls, two answers, two client queue pairs and one of the server, backlog of one, one retry, at most two messages in flight (`FewInFlight`); symmetric |
| `CmConnection_live` | `WaitsEnd`, `DestroyedGoes` | one call, one answer, one retry, any number in flight |
| `CmConnection_left` | `NotLeftConnected` is violated | as `CmConnection_live` |
| `OmgtNotice_safe` | `TypeOK`, `RegMsgLive`, `SubscribedOrTold` | one trap, two registrations, three messages, two retries, one send buffer, socket to the port thread that never fills (five), socket to the user of one, one notice or change of SM, at most two requests and answers on their way |
| `OmgtNotice_live` | `RegistrationEnds`, `CloseReturns` | one trap, one registration, three messages, one retry, both sockets of one datagram, one notice or change of SM |
| `OmgtNotice_owner` | `OwnersLive` is violated | as `OmgtNotice_safe` without the bound on what is on its way |
| `RmppReceiver_run` | `TypeOK`, `RefsCounted`, `HeldLives`, `TimerRuns`, `DeliveredWhole`, `AckedIsDelivered`, `OnePerKey`, `DatagramsKept`, `ContextsGo`, `UnloadReturns` | one message of five shapes (three segments not announced, two announced, one less and one more than announced, a request), window of two, two contexts, one packet more than the message has |
| `CsContext_run` | `TypeOK`, `OneOwner`, `WaitersServed`, `CompletesOnce`, `EveryRequestEnds` | two entries, two buckets, three requests with call-backs and one that is polled for, one user, two attempts, time-out of one tick, a pass that takes one tick at most; no request is hashed by the get (`Early = {}`) |

Why the bounds suffice. Readers do not write anything another process reads, so one reader shows what any
reader can see. Two publications put a reader before, inside and after one that replaces another; counts are
compared for equality only, and a third publication repeats the second. One retry takes a query round its loop.
Two incarnations are one restart, and one publication each is enough to make names and counts recur. In the
scanner, four changes are an opened port and three more steps, enough for a change before, during and after a
sweep; three slots give the ring an empty, a partly filled and a full state, and two slots make almost every
burst run over.

In the CM, two calls are enough for a call to meet what another one left: a queue pair used again (two client
queue pairs allow both cases), a full pending list (backlog of one), a second answer to a repeated REQ. Two
messages in flight let one overtake the other; a message that arrives much later is covered by the theorems,
which bound nothing, and for one call by `CmConnection_live` and `CmConnection_left`, which leave the flight
unbounded. The names of calls, answers and queue pairs are not ordered by anything in the code that is modelled,
so the symmetry is sound; it is used only with safety properties.

In `OmgtNotice`, a trap is registered, unregistered and registered again with two registrations, and three
messages are a registration, a renewed one and a cancellation. Two retries are one that is sent and one that only
counts down, which is where `post_send_sa_msg` treats them differently. One send buffer makes the queue pair
full as soon as it is used. `OmgtNotice_live` makes both sockets full as soon as they are used; a room of five in
`OmgtNotice_safe` is more than the run can fill, because a lock that times out makes `SubscribedOrTold` false (see
below).

In `RmppReceiver`, the window of two is opened, filled and cut at an announced end by messages of two and three
segments. Two contexts are one that is being destroyed and its successor for the same message (any number of them, and of
messages, is covered by the theorems). One extra packet (`MaxExtra`) is a repetition, a control packet or a bad one, at
any point: before, between, after the segments, or after the context has gone. Because packets are the only way to
restart a timer, it also bounds how often a callback can be late.

In `CsContext_run`, two entries are fewer than the requests, so that the pool runs empty and call-backs find it so; three
requests let one call-back issue a request whose own call-back issues the third; the requests lie in both buckets, so that a
pass meets entries inserted in front of it and behind it. A pass that takes a tick is as long as the time-out. `Early` is
empty because with a single request in it `OneOwner` is false (see Disagreements found). That all requests are built in place is a
restriction on the users, which the header allows ("To avoid copying a mad", `cs_context.h:176`) and does not ask for. The
properties that are theorems hold for any of the other constants.

`PathTables_one`: with a single incarnation the lock-free scheme is safe for readers. `NoNullRead` rests on the
order of the steps in `open_ppath_table` (the count is cached only after a successful open): a re-open that
fails leaves a count that still differs. `FrozenTables` rests on numbers that grow. `ImplementsStore` says that
all the names, counts and unlinks come to registers with private copies.

`DsapScanner_safe`: the order ring, rescan flag, publication, wait, with an event that remembers a trigger, loses
nothing, as long as the ring has room and nothing but the main wait uses the trigger. `DsapScanner_live` shows
that the periodic sweep, which every completed sweep arms, repairs an overflow, and whatever a busy, empty or failing SA
spoilt before it recovered; and that the trigger of `dsap_scanner_cleanup` reaches the scanner in any state, because each
wait is followed by a look at `dsap_scanner_end`.

`CmConnection_safe`: two nodes never come to disagree on a connection for good by anything but a lost REJ or DREQ;
repeated and late REQs and REPs are recognized by the maps of end points, and no two live CEPs share an entry.
`CmConnection_live` shows that every wait is covered by a timer that ends it, also when the user who should answer
has destroyed the CEP. `OmgtNotice_safe`: in an unblocked port, retries, late answers, renewals and unregistering
never free a message twice, and a registration is always known to the SA, being renewed, or reported as timed
out. `OmgtNotice_live`: with sockets that fill at once and a lock that times out, every message is still answered
or given up and a close returns, unless the port thread waits for room that nobody makes (`Blocked`).

`RmppReceiver_run`: the references taken for the list, the threads, the timers and the callbacks are all counted
once, so that no context is reaped under somebody, except that a timer that cannot be started and a callback that meets
a context in destruction never give theirs back. Messages are delivered whole whatever happens to their segments.
`OnePerKey` holds because `QListInsertHead` puts a new context before one of the same message that is being destroyed:
`FindSarContext` stops at the first match, and would otherwise not find the new one. `UnloadReturns` holds because the
timer is stopped without the lock of its context and the list is let go before it is taken again.

`CsContext_run`: an entry is never lost and never in two places, although call-backs get, reuse and send from within a release;
answers that are late, repeated or cross an error find no entry; wake-ups match the waiters one to one; and every request
is completed, because each attempt is counted also when it fails, and each entry that a thread or a pass leaves is on a hash
list, in the queue, or free. An entry that a pass takes for old only costs an attempt. All this is for messages built in place.
The mutant of `OneOwner`, `GottenHashed`, is the race of a get with a mad: an entry hashed at the get is aged, given up and free
while its user still has it.

### Disagreements found

* `CmConnection_left`: a server that gives up waiting for the RTU sends a REJ. If it finds the client with a REP
  that its user has not accepted yet, `ProcessRejReq` discards it (`cm_gsa.c:2405`); the user accepts, and the client
  is connected to nobody. The comment at `cm_gsa.c:2387` says that such a REJ is to be treated as a DREQ.
* `OmgtNotice_owner`: `reregister_traps` gives a second message to a registration whose first one is outstanding
  (`ib_notice.c:818`). Unregistering then frees one message and the registration, and the other message keeps its
  pointer to it. `ib_notice.c:379` relies on the pointer being NULL when "the registration has been freed".

Other behaviours of the code that the models show when a constant is changed or another property is stated. In
the path tables:

* `PublishedCoherent` with `ShmMayFail = TRUE`: `dsap_publish_paths` publishes after a failure, so that names
  without an object replace good tables.
* `FrozenTables` with `MaxStarts = 2`: a restarted writer clears the shared table, starts from count zero, and reuses
  the names of the objects left behind, which readers may have mapped, where the comments say that tables "will never
  change" (`.h:107`) and that new ones "will have an update count greater" (`.c:565`).
* `NoNullRead` with `MaxStarts = 2`: after a restart the counts recur, and a failed re-open is forgotten.
* The name is read before the count (`open_ppath_table`). A publication between the two gives a reader the old table
  with the new count, and it has nothing to notice until the next publication.
* A query uses an index from one table in another; each count was right when it was looked at, and no count is
  looked at again, so that the answer may belong to no publication.
* `op_ppath_create_reader` has `do ... while (0)` where its comment (`.c:583`) speaks of `MAX_RETRIES` tries;
  `CreateFails` is that.

In the scanner:

* `NoLostWakeup` with `busy` among the answers: the wait of the retry loop uses up the trigger of an event that
  stays in the ring.
* `SettledIsCurrent` with `empty` among the answers: a busy answer without records is `FNOT_FOUND`
  (`dsap_query.c:68`) before anybody looks at the MAD status, and is taken for "no paths".
* `SettledIsCurrent` with a ring of two slots: the end of a sweep clears a request for a scan that a full ring made
  during the sweep.
* The retry after a busy answer finds its own destinations as duplicates and ends the sweep.
* When a sweep drops the event of a closed port, it finds no subnet, and nothing is published.
* A port rescan that meets a busy SM is queued and taken again without a pause.

In the CM (all but the first were read, not modelled):

* A server that cancels a call it has accepted sends no REJ and does not pass through TIMEWAIT
  (`cm_passive.c:1181`): the client is told only when its RTU or DREQ finds nobody.
* `ShutdownA`, when a device goes, takes a CEP that its user has destroyed from DREQ_SENT to IDLE without destroying
  it (`cm_active.c:1848`).
* An APR that comes after its LAP has timed out answers the next LAP (`cm_gsa.c:3084`).
* `CmDeviceDestroy` saves the next CEP of the list before it cancels one, which may destroy the next
  (`cm_api.c:599`).
* Two error paths return with the lock held (`cm_api.c:2171`, `:2272`).

In the notices:

* `outstanding_sends_cnt` is decremented for the completion of an answer to a report, which nobody counted: `cnt` goes
  below zero, and the queue pair takes more messages than it has buffers for.
* `SubscribedOrTold` with `RoomIn = 2`: when the lock cannot be had, `reregister_traps` returns and the change of the SM
  is forgotten.
* `reregister_traps` writes one datagram per registration to the socket that only its own thread reads: with more
  registrations than the socket holds (ten, by default of the kernel) the port thread waits for itself under the
  lock (`Blocked`).
* When the reader has been cancelled and the socket to it is full, the port thread waits for ever, and so does
  `omgt_close_port` (`Blocked`).
* Unregistering and registering the same trap again: if the SA takes the requests in the other order, the
  subscription is lost (the last disjunct of `SubscribedOrTold`).
* A registration that has timed out stays on the list, so that registering the trap again succeeds without sending
  anything.

In the RMPP receiver:

* A reference is taken for a timer before it is started and is not given back if it cannot be
  (`StartSarContextTimer`): the context leaves the list and is never freed (`lost`). `RmppTimerCallback` returns with its reference
  when it meets a context in destruction (`gsasar2.c:1253`); only unloading, which frees the context without looking at
  the count, can bring that about.
* `RmppReceiverSendAckIfNeeded` acknowledges early when the window is still *at least* `RmppWindowLowWater` open
  (`:1704`), where the comment (`:68`) says that it does when the window comes down to it; with the two equal it
  acknowledges only when the window is used up.
* The assertion on the window in debug builds does not allow for a message whose length was not announced and which ends
  at the end of the window: the expected segment is then beyond it, in TIMEWAIT_RECV.
* A bad ABORT or STOP is answered with an ABORT (`:1444`), and so is one that finds no context (`:773`), where the comment
  at `:1204` says that the caller should not.
* `RmppReceiverTerminate` returns the segments to their pool and then, if the timer does not start, builds a STOP from one of
  them (`:1777`).
* A request of more than one segment never finds its context again, because a packet without the R bit is looked for in
  the list of senders: each repetition of the first segment makes another context.
* A new context is on the list before it is locked and before the thread has its reference (`:1335` to `:1345`); this
  relies on there being one GSA event thread.

In the contexts:

* `OneOwner` with `Early` not empty: `cs_cntxt_get` with a mad hashes and stamps the entry (`cs_context.c:646`, where a comment
  says "we could wait until send_mad"), lets the lock go (`:673`), and `cs_cntxt_send_mad` takes it again (`:439`). Nothing bounds
  the time between. A pass that finds the entry due sends it, or completes and retires it, without its user: four steps (get, a
  tick, the start of a pass, the entry taken for due and its send failing), and the entry is free while it is held. The send that follows
  works on a context that is not allocated, or that another has got since, against `DEBUG_ASSERT(a_cntxt->alloced)` (`:111`). With
  `mad = NULL` it cannot happen.
* A call-back that sends the same message again, as `cs_context.h:205` lets it, loses its request: `cntxt_release`
  retires the entry all the same (`CallbackResends`). If the last attempt had been made, `retries` is `maxRetries + 1` (`:330`) until
  the retire clears it: the limit is on what one context counts between two calls, not on how often a message is sent.
* A wake-up is for one entry and one waiter, but another thread may take the entry first; the waiter then counts itself
  and waits again.
* An entry that is stamped while a pass runs and lies in a bucket yet to come is aged at once (`Expired`).
* The header declares `cs_cntxt_reuse_nolock`; the code defines `cs_entxt_reuse_nolock`.

## Fairness

* `PathTables`: weak fairness of the steps of a call in progress (`ReaderStep`), because a call is run by a
  thread of its own that waits for nothing. The writer has none: it may stop anywhere.
* `DsapScanner`: weak fairness of the scanner thread, of the second half of a post, of the clean-up, of the
  delivery of notices, of the end of a port close, and of time. What happens in the fabric, opening and closing
  the port, and the decision to unload have none. Weak fairness of `ScannerStep` as a whole does not oblige the
  SA to ever give a particular answer.

* `CmConnection`: weak fairness of the timers, one condition per CEP: the CM's timers run on the system's, and a timer
  that is neither stopped nor started anew fires. Users owe nothing, and every message may be lost.
* `OmgtNotice`: weak fairness of the port thread, of the rest of a call that has begun, of the reader, and of each
  transmission (the adapter completes what it was given). Starting calls, the SA, the SM and the delivery of
  answers have none.
* `RmppReceiver`: weak fairness of the event thread, of the unloading once begun, of each timer that runs and of each
  context's callbacks: threads that wait for nothing but a lock that is let go, and the system's timers. The reaper
  has none, because `ReaperQueue` wakes it only when twenty items are queued, nor has the network.
* `CsContext`: weak fairness of ageing and of time, strong fairness of each user who has begun and of the poller, because
  the lock they need is taken and let go again and again. Answers have none, and starting a request has none.

## Proofs

`PathTablesProofs` proves, for every number of readers, views, retries and publications,

* `TypeCorrect`: `Spec => []TypeOK`, for any number of incarnations. `TypeOK` is not inductive: that the counts
  stay at most `MaxCount` needs `Room` (while tables are being initialized those not yet reached have room), that
  `rtry` stays at most `MaxRetries + 1` needs `Tries` (at the top of the loop it is at most `MaxRetries`), and
  that object numbers are at least 1 needs `Born`. The invariant is `TypeInv`.
* `ReadsAreMapped`: if `MaxStarts = 1`, `Spec => []NoNullRead`.
* `PublishedTablesNeverChange`: if `MaxStarts = 1`, `Spec => FrozenTables`.

The last two share `SafeInv`. `Counts`: published counts and names never exceed the unpublished ones; `Building`:
the objects being built are strictly newer than the published names; `Mapped`: what a reader has mapped or
cached is not newer than what is published; `Unborn`: nothing is mapped before the first incarnation; `Stale`: a
table that an open reader lacks has a cached count strictly below the published one; `Relied`: what the next
step relies on is mapped. `Building` and `Mapped` give `FrozenTables` (the writer writes only to objects newer
than any that is mapped); `Stale` gives `NoNullRead` (a table that is missing is always seen as changed). Both
arguments need counts that only grow, hence `MaxStarts = 1`; with a second incarnation the properties are false.

* `PublishedIsOneView`: if no object of shared memory fails to be created (`ShmMayFail = FALSE`), `Spec =>
  []PublishedCoherent`, for any number of incarnations. Its invariant, `CoherentInv`, follows a publication: by how much
  the names and counts of the new tables are ahead of the published ones at each step (`Numbers`), that each new table is
  mapped under the name it will have (`Built`), and that from the fill on all four hold the view of the publication
  (`Filled`). It needs none of `SafeInv`, so that crashes and restarts are covered.

`PathTablesStoreProofs` proves from `SafeInv`, if `MaxStarts = 1`,

* `AnswersMatch`: `Spec => []AnswerMatchesQuery`. `AnswerInv` says that the path record a reader is about to copy is in a
  table it has mapped and matches its query; that it still does when it is copied is `FrozenTables`.
* `TablesImplementStore`: `Spec => ImplementsStore`. Each step is a step of `TableStore` or leaves its variables alone.

`DsapScannerProofs` proves, for every set of destinations and every ring size,

* `TypeCorrect`: `Spec => []TypeOK`, which includes that the ring never fills its last slot.
* `NoWakeupIsLost`: if the SM is never busy, `Spec => []NoLostWakeup`. The strengthening, `Seen`, says of every
  step of the loop from which the scanner does not come back to the ring before it waits that an event in the
  ring has its trigger set or still to come.
* `WhatSettlesIsCurrent`: with an SA that answers (`Answers = {"ok"}`), `Spec /\ []SweepHasRoom => []SettledIsCurrent`. The
  hypothesis is that the ring does not run over in the middle of a sweep. Elsewhere it may: a full ring sets
  `dsap_scanner_rescan`, which announces another sweep, and only the end of a sweep clears it. In `DsapScanner_safe` the
  ring never runs over; under Disagreements found are the behaviours that each hypothesis excludes. The invariant `SettledInv` is
  `Pipeline` (a change of the fabric of which nothing is left in the ring and among the notices has reached the scanner),
  `Shape` (what a sweep has of the topology at each step) and `Tracked`: with the port open and no other sweep to come, the
  topology the scanner has is that of the fabric, but for what the present step is about and for what is pending.
* `SleepIsNotForEver`: `Spec => []SweepArmed`, with nothing assumed of the SA and the ring. A scanner that waits for a port
  with endpoints has its time-out set, or a trigger reaches it. It is not inductive: `Asked` says that until the first
  sweep has set the time-out the port that was opened is in the ring or a full scan is asked for, and `Heard` that past
  the decision on a sweep an event or a request is from a thread that triggers or has triggered. The repair of lost
  events by the periodic sweep (`CatchesUp`) rests on it.

`CmConnectionProofs` proves, for every number of calls, answers, queue pairs and retries, every backlog, and any
number of messages in flight,

* `TypeCorrect`, `TimersAlwaysRun`, `PendingAlwaysRings`, `PartnersAlwaysAgree`: `Spec => []` of `TypeOK`, `TimersRun`,
  `PendingIsRinging` and `PartnersAgree`, from one inductive invariant `Inv`. `PartnersAgree` is not inductive: what a
  handler writes comes from a message, so `NetOK` says of each message in flight what it stands for (a REQ is
  of a call that was placed, a REP of an answer whose partner it is for, an RTU, DREQ or DREP of a call that was
  accepted); `PeerOK` says when a CEP has a partner and of whom, and `MetOK` that a call that was accepted does not
  go back to waiting, so that its partner is settled.
* `EndPointsAlwaysUnique`: from `TypeOK` and the guards of `Connect`, `AcceptP` and `TakeReq`, in a proof of its own.
* `Refinement`: `Spec => ImplementsRendezvous`, by step simulation from `Inv`: each action is a step of `CmRendezvous`
  or leaves its variables alone.
* `NothingReopens`: `Spec => [][OneWay]_vars`, what the rendezvous comes to in the states of the CEPs themselves. An established or
  closed side never goes back to calling or ringing, a client meets an answer only while its call waits and only one
  made for it, and a server is established only once its own caller has accepted. It follows from the step simulation
  and from `PartnersAgree` before and after the step.

`OmgtNoticeProofs` proves, for every set of traps, registrations and messages, any number of retries and buffers and
any room in the sockets,

* `TypeCorrect`: `Spec => []TypeOK`, with the bounds on the counter of outstanding sends and on retries. The bound is on the counter
  alone: what is outstanding may be more (see `BuffersInUse`).
* `NoMessageFreedTwice`: `Spec => []RegMsgLive`. The strengthening is `Allocated` (what is listed, being made, walked
  along or on its way has been allocated, so that a fresh message is none of these) and `AllLinked` (the message of
  a listed registration, and of the one being made, is pending and points back). Neither uses that the lock
  excludes: they hold also after it has been released twice.
* `RegistrationsKnown`: `Spec /\ []~UserStuck => []SubscribedOrTold`. The hypothesis, that the user's thread never waits for
  room in the socket while it holds the lock, is the one that the code relies on without saying so:
  `reregister_traps` forgets a change of the SM when it does not get the lock in five seconds. The strengthening is
  `LockKept` (under the hypothesis the lock is never released twice, so that it excludes), `Asks` (a message asks
  what its registration asks, and answers are to messages that were sent) and `AllKnown`, in which the message on
  its way is one that the SA has yet to answer.
* `LockExcludes`: `Spec /\ []~UserStuck => []LockKept`, from the same hypothesis alone. In `OmgtNotice_safe` the hypothesis holds,
  because a socket of five never fills there. The code does not ensure it: it sets no size for its sockets, and a port that
  makes enough messages while its thread is held up fills any.
* `BuffersInUse`: `Spec => [](NoBuffers => Cardinality(sending) >= SendBufs)`. Answers to reports are counted down without having been
  counted up, so that `outstanding_sends_cnt` may fall below what is outstanding, but a registration is never refused while a buffer
  is free.

`RmppReceiverProofs` proves, for every number of contexts and messages, every shape of message, every window and any number
of packets,

* `TypeCorrect`, `CountsAreRight`, `NoUseAfterFree`, `EveryWaitEnds`: `Spec => []` of `TypeOK`, `RefsCounted`, `HeldLives` and
  `TimerRuns`. None of them is inductive. The strengthening `Inv` says of each context (`Sound`) what its state means for
  whether it is on the list, what the event thread and the unloader do with it, and how far its timer and callback are
  (`Staged`): one in a state with a timer is on the list, no unloader holds it and its timer waits; one in destruction is
  on the list exactly as long as one of a callback, the event thread and the unloader is on its way to take it off, which
  is why nobody takes it off twice. `Counted` relates the reference count to this, and `NoTwice`, `RxKnows` and `UnloadKnows` say
  what the list, the event thread and the unloader know.

`RmppDeliveryProofs` proves, with the same generality,

* `DeliveryIsWhole`, `WindowsAreOpen`, `AcksAreTrue`, `OneContextPerKey`: `Spec => []` of `DeliveredWhole`, `WindowOpen`,
  `AckedIsDelivered` and `OnePerKey`, from `DeliveryInv`. It adds to `Inv` what each context has of its message (`Filled`: an
  active one the segments before the expected one, a window that contains the expected one; one in TIMEWAIT_RECV has been
  delivered, so that acknowledging again is right) and the two facts that make `OnePerKey` inductive: of the contexts of one
  response only the first on the list may be in use (`NewestFirst`), and when the event thread is about to create a context
  or lock the one it found there is no other (`Latest`).
* `DatagramsAreKept`: `Spec => []DatagramsKept`. The number of datagrams out of the pool is the size of a set, `Kept`, of what
  lies in the lists and what the event thread has, so that no sum over the contexts is needed: each step adds to it, takes
  from it, or moves a list. The strengthening `DatagramInv` is that the set is finite, and that the thread has no list except
  with a completed message.
* `ContextsGoForward`: `Spec => [][AllForward]_vars`, from `DeliveryInv`. The expected segment goes up one at a time and the window
  never back; a context that has delivered its message or given it up never collects again and keeps its segment and
  window, and one in destruction stays there until it is freed.

`CsContextProofs` proves, for every number of entries, requests, users, buckets and retries,

* `TypeCorrect`, `EntriesOwned`: `Spec /\ []InTime => []` of `TypeOK` and `OneOwner`, from the inductive invariant `IInv`. The
  hypothesis, that an entry hashed by a get is not due while its user holds it, is one on the users: nothing in
  `cs_context.c` ensures it, and without it `OneOwner` is false. With it, that no release
  touches what a user holds needs `HoldInv` (what is held was got before the pass took the time, so that the difference does not wrap) and
  `UserInv` (a request that was not sent is not answered); that no two entries are found for one answer needs `HashInv`.
* `RequestsCompleteOnce`: `Spec /\ []InTime => CompletesOnce`. Each step moves a request from new to asked or from asked to done
  (`Progress`), and by `HashInv` no entry is left that an answer to a request that is done would find.
* `WaitersAreServed`: `Spec /\ []InTime => []WaitersServed`, from five kinds of steps of the pool, by counting.
* `NoneHashedEarly`: if `Early = {}`, all four with nothing assumed of the behaviour (`UnhashedIsInTime`: by `HoldInv` what is held
  and hashed was given to the get as a mad, so that `InTime` holds). `CsContext_run` is an instance.

Assumptions: the named `ASSUME`s on the constants, which TLC evaluates in every run.

Only model-checked: liveness, which is out of the prover's reach: `QueryReturns`, `CatchesUp`, `CleanupReturns`, `WaitsEnd`,
`DestroyedGoes`, `RegistrationEnds`, `CloseReturns`, `ContextsGo`, `UnloadReturns`, `EveryRequestEnds`. What the runs check of safety
is proved as well. Only proved, and not part of a run: `SweepArmed`, `OneWay`, `LockKept`,
`NoBuffers => Cardinality(sending) >= SendBufs`, `WindowOpen`, `AllForward`.

## Plan

Done: the path tables and the scanner, on which every path query of the system depends; the connections of the
communication manager; the notices of an opamgt port, which feed the scanner; the receiver of RMPP messages, through which
answers of the SA come; the pool of contexts of requests in flight. Next, in order:

1. `CmPeer`: peer-to-peer connects (crossing REQs) and the exchange of alternate paths (LAP, APR) of the CM.
2. The re-initialization of `dsap_notifications.c` over `OmgtNotice` (a cancelled wait keeps a mutex).
3. `OobNet`: framing and partial transfers of the out-of-band connections.
4. `CmdThread` and `ReqMgr`: queueing against destroying in IbAccess Public.
5. Pure algorithms as recursive functions: the credit-loop search of `Topology/route.c`, `cs_bitset.c`.
6. A composition of scanner and path tables: `Publish` of the one as the whole program of the other.

Theorems to come: what readers of the path tables are still promised after a second incarnation of the writer, and the
safety cores of the other liveness properties (what must be set or on its way in a state that waits), as `SweepArmed` is
that of `CatchesUp`.

## Not modelled

* Formatting, parsing, printing, configuration, XML, command-line tools, installers, MPI benchmarks: no state
  between calls, or pure I/O.
* opamgt queries and MAD conversion: data.
* The sender of RMPP messages: not implemented in this code.
* Memory ordering weaker than sequential consistency, and wrap-around of 32-bit update counts: counts are bounded
  by `MaxCount` far below; `BUMP_COUNT` skips zero, and a reader would have to sleep through 2^32 - 1
  publications to be misled.
* Signal handling in the scanner (SIGTERM runs the clean-up in whatever thread it hits, `dsap_scan_fabric.c:893`), a
  rescan that cannot post itself (`:772`), the registration for traps after the SM has gone (`dsap_notifications.c:350`).
* In the CM: the removal of a device, call-backs to users, peer-to-peer connects, alternate paths.
* The parts of modelled components that their sections above name as left out, and the parts that the plan lists
  as next.
