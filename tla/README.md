# A TLA+ verification project for lttng-tools

lttng-tools is the control side of the LTTng tracers: a *session daemon* that
holds the tracing configuration, *consumer daemons* that take packets out of
the tracers' ring buffers and write them to disk or to the network, a *relay
daemon* that stores what consumers send over the network and serves live
viewers, a command line and a control library. The interesting part of it is
concurrent: packets and their indexes travel over two connections, rotations
move a session to a new trace chunk while packets are in flight, daemons die,
clients poll for the end of all this.

The modules here model those protocols. They are translated from the C
sources (every definition is mapped to its lines in `PROJECT.json`), checked by
TLC on small instances and, for the results that matter most, proved with TLAPS
for every value of the constants.

## 1. The system and its parts

| part | state | operations | what is hard |
|---|---|---|---|
| relayd streams (`stream.c`, `index.c`, `tracefile-array.c`) | data and index file, position, pending indexes, ring of trace files, ongoing rotation | packet header, payload, index, beacon, rotation, close | the data and the index of a packet arrive on two connections in any order; rotations of trace files and of trace chunks overlap with packets |
| relayd connections and worker (`main.c`, `connection.c`) | protocol state of each connection, session of a connection | one handler per command, reception in pieces, end of a connection | either connection may end first, orderly or not |
| relayd sessions and trace chunks (`session.c`, `sessiond-trace-chunks.c`, `ctf-trace.c`) | current and pending-closure chunk, registry shared by sessions | create, close, query a chunk; close and abort a session | reference counts from several connections |
| relayd live viewers (`live.c`, `viewer-stream.c`, `viewer-session.c`) | read position in the ring, viewer chunk | attach, get new streams, next index, get packet, detach | a viewer slower than the ring, chunk rotations under it |
| consumerd (`consumer.c`, `consumer-stream.c`, `consumer-timer.c`, `relayd.c`) | buffer positions, next_net_seq_num, rotation position, relayd sockets | read sub-buffer, send index, rotate, data pending, live timer, close | positions sampled before packets are overwritten; replies lost with a connection |
| consumerd metadata and back ends (`ust-consumer.c`, `consumer-metadata-cache.c`, `metadata-bucket.c`, `kernel-consumer.c`) | metadata cache, metadata stream, channels, snapshots | push, wait for the flush, read, rotate, close; snapshot, set-up | three threads push while one reads; locks are dropped in the middle |
| sessiond sessions (`session.c`, `cmd.c`, `rotate.c`, `clear.c`, `snapshot.c`) | active, rotation state, current and archived chunk | start, stop, rotate, clear, destroy | a rotation completes long after its command |
| sessiond rotation thread and timers (`rotation-thread.c`, `timer.c`) | job queue, timers of a session | enqueue, check pending, scheduled rotation | a timer signal racing its cancellation |
| sessiond notification thread (`notification-thread*.c`, `action-executor.c`) | triggers, clients, client queues, channel states | register, unregister, sample, send, drop | a trigger registered between two samples; a full client queue |
| sessiond application management (`register.c`, `dispatch.c`, `manage-apps.c`, `notify-apps.c`, `ust-app.c`) | wait queue, applications by pid and by socket | register, notify socket, unregister | the two sockets of an application come in any order or not at all |
| sessiond registries (`ust-registry.c`, `buffer-registry.c`) | channels, events, metadata | add, reply, push metadata | registry lock dropped in the middle of an operation |
| sessiond threads (`thread.c`, `main.c`, `client.c`, `manage-consumer.c`) | thread list, consumer state | create, shut down, join | shutdown order |
| common (`waiter.c`, `futex.c`, `index-allocator.c`, `trace-chunk.c`, `fd-tracker.c`, `health.c`, `runas.c`) | small shared structures | wait, wake, allocate, suspend, restore, poll | two or more threads on each of them |
| filters, conditions, actions, event rules, serialisation, command line, `lttng-ctl`, `lttng-crash`, save/load | sequential data | encode, decode, format | none that interleaving brings out |

`PROJECT.json` lists the same parts with their status, and under `hazards` what
can go wrong in them at which line.

## 2. Modules and how they correspond to the code

Definitions have the name of the C function they model where there is one;
`PROJECT.json` (`map`) gives the lines of each.

### The relay daemon's stream

* **`TracefileArray`** - `tracefile-array.c`: one operator per function, on the
  record `struct tracefile_array`. `Unset` stands for `-1ULL`.
* **`TracefileRing`** - the calls `stream.c` makes on the array for one stream:
  header of a packet (with or without a change of file), flush of an index, end
  of a chunk rotation. It is the contract live viewers rely on: what lies
  between the tail and the last index is in exactly one file.
* **`RelayIndex`** - `index.c`: the table of the indexes that wait for their
  other half. Reference counts are reduced to the one reference an index holds.
* **`RelayStream`** - `stream.c`: operators that take and return the stream, a
  record. Data files are sequences of cells that hold the number of their
  packet, index files are sequences of entries, so that *which bytes an entry
  points at* can be asked. `s.crashed` records an assertion, a NULL pointer or
  a division by zero, `s.error` an error return.
* **`RelaySockets`** - the control and the data connection, with their ends.
* **`RelayDaemon`** - `main.c`: the worker thread. One action per command, three
  for the reception of a packet (header, part of the payload, end), the orderly
  or broken end of each connection, the trace chunks of the session.

### The consumer daemon and the composition

* **`ConsumerDaemon`** - `consumer.c`, `consumer-stream.c`, `consumer-timer.c`,
  `relayd.c`, and of the session daemon the order of the commands of a rotation
  (`cmd.c`, `consumer.c`, `rotation-thread.c`). Three threads: data, commands,
  live timer. Locks appear as the conditions they impose. The tracer's ring
  buffer is external: a count of packets produced, some of which may be
  overwritten.
* **`ConsumerRelay`** - both daemons and the connections, with crashes of the
  consumer and breaks of the data connection. The end-to-end properties are
  stated here, and `RingSpec` says that the composition implements
  `TracefileRing` under a refinement mapping.

### Synchronisation primitives

* **`WaitQueue`**, **`Waiter`** - what a wait queue promises, and `waiter.c` at
  the grain of one access to shared memory: push, test, sleep, wake, teardown.
  Spurious returns of the futex and the reuse of a waiter on the stack included.
* **`FutexQueue`** - the n-to-1 scheme of `futex.c` as dispatchers use it:
  prepare, test of the exit flag, dequeue, wait; producers that enqueue and wake;
  threads that set the exit flag and wake.

### Applications of the session daemon

* **`AppRegistration`** (`MCAppRegistration` adds the symmetry of processes and
  descriptors) - `register.c`, `dispatch.c`, `notify-apps.c`, `manage-apps.c`, the
  life of an application in `ust-app.c` and the count of `fd-limit.c`. Five
  threads and the call_rcu thread. The kernel gives out any descriptor that is
  not open, so the reuse of a closed one is everywhere possible. RCU is kept: a
  callback runs when the read-side sections that were open at `call_rcu` are
  over.

### Sessions and rotations of the session daemon

* **`SessionCommands`** - `cmd.c`, `clear.c`, `session.c`: start, stop, rotate,
  clear, destroy and the two rotation schedules, as operators from a session to
  the set of its outcomes. A command runs under the session list and session
  locks, so it is a function. `Faults` says which exchanges with the consumer
  daemons may fail.
* **`SessionRotation`** - the client thread that runs these commands, `timer.c`
  (timers, their signals, the timer thread, the wait for its quiescent state),
  `rotation-thread.c` (the job queue and its pipe, scheduled rotations, the check
  for the end of one) and the size notifications. Stopping a timer takes several
  steps, as it waits for the timer thread.

### Live viewers of the relay daemon

* **`LiveStream`** - what a viewer sees of one data stream of the relay daemon
  (`stream.c`, `main.c`, `session.c`). It EXTENDS `TracefileRing` with the data and
  index files, the trace chunk, rotations, clears, beacons and the end of the
  stream. `ConsumerRelay` shows that the relay daemon implements that ring.
* **`LiveViewer`** - `live.c`, `viewer-stream.c`, `viewer-session.c`: a viewer of that
  stream. A request is one step: the live worker holds the session and the stream
  lock.

### Metadata of user space sessions

* **`MetadataCache`** - from the registry of the session daemon (`ust-metadata.c`,
  `ust-app.c`, the regeneration in `cmd.c`) to the metadata files of the trace
  chunks. In the consumer daemon: the cache (`consumer-metadata-cache.c`), the
  wait until it is flushed, the metadata thread (`consumer.c`,
  `ust-consumer.c`), the bucket of live sessions (`metadata-bucket.c`), the switch
  timer (`consumer-timer.c`), the rendez-vous of the data thread
  (`consumer-stream.c`), rotation, data pending, close, and the clean-up of a
  relay daemon that fails. `push` has what the three threads that bring metadata
  are doing; a thread gives up control wherever the code releases a lock or
  waits. `mode` is the kind of session; it is chosen by `Init` and never changes.

## 3. What the runs check

| run | instance | shows |
|---|---|---|
| `consumer_relay` | 3 packets that may be overwritten, 2 rotations, 2 files of one packet; the consumer may die, the data connection may break | no crash of the relay daemon; every index entry points at the bytes of its packet; packets are in the chunk they were produced in; the rotation position is a lower bound of the next chunk; completion, data pending and close mean what they say; no stream outlives its connections; the ring is used as `TracefileRing` says |
| `consumer_relay_liveness` | 3 packets, 1 rotation | rotations complete, packets are stored with their index, streams close |
| `waiter` | 3 threads | no access to a freed waiter, no lost wake-up, refinement of `WaitQueue` |
| `futex_queue` | 3 threads, queue of 3 | no lost wake-up; requests are dispatched, the exit is obeyed |
| `app_registration` | 2 processes, 2 registrations each, 3 descriptors | assertions hold, no use of a freed application, tables lead to their application, exact count of descriptors |
| `app_registration_liveness` | 2 processes, 1 registration each, a limit of 6 descriptors, failing pipes and polls | sockets have one holder; applications that hang up are freed |
| `session_rotation` | 1 session, 2 chunks, both schedules; rotations and checks that may fail | references to the session are exact, assertions hold, a completed rotation stands, rotations end, a destroyed session is released |
| `live_viewer` | 2 files, 4 packets, 2 chunks, one viewer, both seeks | each index sent is the next one, its packet is the one it describes, requests are answered, only lost indexes are skipped, a viewer that asks catches up; the ring keeps its contract |
| `metadata_cache` | 2 units of metadata in packets of one, 1 rotation, 1 regeneration, 2 data packets, 9 kinds of session | the metadata of a chunk is a prefix of the session's; metadata a live packet needs is stored before its index is sent; "not pending" means stored; every push ends; metadata is stored in the end |

The three other runs are expected to violate their property; each is a
disagreement between the code and what the repository says of it:

* `consumer_relay_session_ids`: `relay_trace_chunk_exists` looks a chunk up under
  the relay daemon's session id, chunks are published under the session daemon's;
  rotations are taken for completed too early. The passing runs give both ids
  the same value.
* `session_clear`: a clear received during a rotation leaves its notifier in the
  session and is then refused; the end of that rotation answers it with success,
  although nothing was deleted.
* `live_viewer_chunk`: a stream closed by the exit of its application has no
  chunk, and a viewer that has not asked since the last rotation is taken to be
  in the last one. The properties of `live_viewer` except this state by the
  name `InOldChunk`.

### Divergences without a run

Properties name their exceptions where the code does not do what one would
expect of it; these, and what changing the constants of a configuration or
reading shows, are listed here.

Relay daemon, shown by changing constants or dropping an exception:

* `count = 0`, a trace file size without a count, which the manual allows
  (`lttng-enable-channel.1.txt:279`): `stream_init_packet` divides by zero
  (`stream.c:1013`).
* A data connection that breaks before the reading of its first payload has
  begun has no session (`main.c:3714`), so the abort meant for this case
  (`main.c:4149`) does nothing and the stream stays open; `NoStreamLeftOpen`
  excepts it, by what the closed connection keeps of `has_session`.
* `count = 1`: the tail is read from the file that is being overwritten
  (`tracefile-array.c:101`), hence the assumption `count # 1` of the theorems; the
  single file is truncated in place instead of being unlinked first
  (`stream.c:1015`); and the viewer does not reopen its index file.
* The size test of a trace file leaves the padding out, so that a file may
  exceed its size by the padding of a packet (`stream.c:1009`).
* In overwrite mode packets may arrive when the stream has no chunk; the liveness
  run has `Overwrite = FALSE`.

Live viewers. TLC shows those whose exception is named; the others were found by
reading:

* A viewer that attaches to the end of a stream that was rotated and has
  received nothing since is one index ahead (`viewer.ahead`).
* `count = 3`: a viewer stream that follows the relay stream to no chunk, as it
  ends, keeps its count but is placed in the file of the tail. If its next index
  is two files on, `viewer_stream_rotate` moves it back to the tail although nothing
  was overwritten ("This can only be reached on overwrite", `viewer-stream.c:354`).
  It has no file to read from there; `OnlyLostIndexesAreSkipped` excepts it by
  `viewer'.stream.trace_chunk # NoChunk`.
* A connection that ends in the middle of a rotation leaves the viewer retrying
  for ever (`RotationCut`, excepted in `ViewerCatchesUp`).
* A stream closed by the exit of its application can be hung up with packets the
  viewer has not read; when its last packet arrives after the hang up, a request
  for new streams creates the viewer stream again from the beginning.
* `error_put` of `viewer_get_packet` sends no reply; a packet is sent
  without a test for new metadata.

Session daemon:

* `sanitize_wait_queue` stops at the first node that is not the one it looks for
  (`dispatch.c:157`): nodes of applications that hung up stay.
* `FdCountIsExact` with `PipeMayFail = TRUE`: two descriptors stay accounted for
  when the pipe cannot be opened (`ust-app.c:3977`). `NeverAborts` with
  `PollMayFail = TRUE`: a notify socket that cannot be polled is closed while its
  application is in the table (`notify-apps.c:127`).
* A size notification handled after its schedule was removed is compared with a
  trigger that is NULL (`rotation-thread.c:712`); `AssertionsHold` excepts it
  (`comparison`), for a session that has no size schedule.
* A size rotation that fails leaves the size set and the trigger removed, and
  ends the rotation thread. Unsetting the schedule (`cmd.c:6011`) or destroying the
  session (`cmd.c:3432`) then fails `assert(session->rotate_trigger)`
  (`rotate.c:149`); `AssertionsHold` excepts it (`unsubscribe`), once the thread is
  dead.
* A rotation that cannot be launched sets the state to *error* and hides the last
  completed one, although `session.c:1381` speaks of no rotation;
  `CompletedRotationsStand` allows it. If it was a size rotation, the rotation
  thread exits (`Down`).
* By reading: a timer that cannot be started leaks a reference to the session
  (`timer.c:208`); a size schedule set for a size already consumed never fires.

Metadata. TLC shows these when an exception or the choice of `Modes` is dropped,
unless they are said to be found by reading:

* Regeneration: the cache lock is released before the consumed position is reset
  (`ust-consumer.c:1312`), so a packet of the new version can be stored twice. The
  file is truncated and written again after "not pending" was answered. Hence
  `registry.version = 0` in two invariants. With a switch timer, a request
  answered with the old version can reach the cache after the push of the new
  one, on another socket: the cache goes back to the old version, and the push
  waits until the timer brings more; the push in flight counts the old length as
  sent (`ust-app.c:753`), so that the beginning of the new version may not be sent
  again. `Modes` has no such session.
* Regeneration of a stream whose relay daemon failed: the stream can be deleted
  (`consumer.c:2182`) between the write of the new version to the cache and the
  reset of the consumed position, which then fails `assert(!channel->monitor)`
  (`ust-consumer.c:1340`). The consumer daemon dies (`Running`), so does the push;
  `PushesEnd` excepts it (`StreamGoneBeforeReset`).
* Switch timer: the close of the metadata, and the deletion of a stream whose
  relay daemon failed, wait for the timer thread while they hold a lock it needs
  to see its flush (`StopWaitsForTimer`). The comment at `consumer-timer.c:76` warns
  of this: "metadata_switch_timer() should *never* take a mutex also held while
  consumer_timer_switch_stop() is called".
* Live sessions: a metadata stream that fails or is deleted does not signal the
  rendez-vous, and the data thread waits there (`RendezvousIsOver`); metadata it
  brings to a deleted stream is not stored. A live session is rotated only by a
  clear; then a packet committed between the test and the rotation is stored in
  the new chunk, so `Modes` has no live session with a rotation.
* By reading: the rendez-vous waits on its condition without a predicate, so a
  spurious return ends it early; metadata written locally after a rotation to no
  chunk meets the assertion at `consumer.c:1641`; a second rotation before the
  dump leaves the middle chunk without metadata.

### Bounds

A packet has two bytes of data and one of padding, so a packet can be received
in part and the padding tells sizes apart. Two trace files of one packet wrap
around with the third packet; two rotations let the second be asked for while
the packets of the first are in flight (four packets, a wrap before, between and
after the rotations, were checked too: 7,320,960 states). Three
threads are a waiter, a waker and one that interferes. Two processes with two
registrations share three descriptors, so each one is reused.
`app_registration` lets all the descriptors be taken (two pipes and three sockets
are seven), `app_registration_liveness` allows six, so that applications and
sockets are refused.

Two chunks in `session_rotation` are a rotation of the active session and another
once it is stopped, each of which may be refused or fail (all five faults at
once were checked as well: 802,661 states); a pipe of two bytes is full before the jobs are drained. In `live_viewer`, four
packets can overwrite both files with a viewer anywhere in between; one viewer
is enough, as viewers never change the relay side. In `metadata_cache`, two units
of metadata are a push and one that overlaps it, and the ring buffer never holds
more than one packet. Each kind of session has two or three features; every two
meet that a session can have together, but for those listed under "Divergences
without a run". One expiry of the timer is enough for it to be anywhere when
another thread stops it (two expiries, and three units, were checked as well).

`CHECK_DEADLOCK FALSE` is used where the system may stop: when every packet
allowed was produced and the connections are closed, or every application is
gone; likewise when a destroyed session is released, or a stream is closed and
its viewer gone.

### Fairness

* `ConsumerRelay`: the relay daemon's worker polls and serves both connections
  (weak, per connection: a peer waiting for a reply has no other command in
  flight, so control commands cannot keep data from being read); the consumer's
  data thread runs (weak); a command that waits for the control socket gets it
  between two beacons of the live timer (strong). Nothing makes the tracer
  produce, the session daemon send commands, or anything break.
* `Waiter`, `FutexQueue`: a thread inside a call of the library goes on (weak).
  Nothing makes a thread join, enqueue, stop or return spuriously.
* `AppRegistration`: the daemon's threads run (weak) and the call_rcu thread gets
  the session list lock that commands take again and again (strong).

* `SessionRotation`: timers that are armed expire, the timer thread handles
  signals, the rotation thread runs its jobs, a command that has begun ends (weak;
  strong where a thread needs the list lock, or a signal, that commands can take
  again and again); a consumer daemon releases a chunk in the end. Nothing makes
  the client send a command.
* `LiveViewer`: the relay daemon completes what it has begun, which
  `consumer_relay_liveness` shows of it, and an attached viewer keeps asking
  (weak).
* `MetadataCache`: each thread goes on when it can (weak, per thread). No event
  (new metadata, a timer, a command, a failure) has to happen.

## 4. What is proved

For every value of the constants, from the assumptions named in the modules
(`count` and the bounds are natural numbers; threads, descriptors and processes
are finitely many; `None` is none of them):

* **`TracefileRingProofs`**: `TypeOK` for every `count`; for every `count # 1`,
  `RetainedExactlyOnce`, `TailIsOldestRetained`, `RingOrder` and
  `TailOnlyMovesForward`. None of the first two is inductive: a rotation moves
  the tail to the range of the *next* file, so something must be known of it.
  `RingOrder` says that the files from the tail to the head hold increasing
  ranges, none empty but perhaps the head, and that those beyond the tail are
  empty. `IInv` is `TypeOK` with these three. The lemmas `RotateWriteEffect`,
  `CommitEffect`, `RotateReadEffect` and `ResetEffect` describe each operator of
  the array file by file; one lemma per kind of step uses them. The last part is
  for `LiveViewer`: `ArrayOK` relates the bounds of the array to the number of
  indexes received, `Tracked` says where a viewer finds its next index.
* **`FutexProofs`**, for any set of threads. Of `Waiter`: `TypeOK`, `NoUseAfterFree`,
  `WakesOnlyWaiting` and the refinement `IsWaitQueue`. The invariant is ownership: a
  waiter that waits is in the queue, in the list of exactly one waker, or being
  woken by one, and its flags say how far that waker is; it can return only when
  none of these holds. Of `FutexQueue`, which it instantiates: `TypeOK` and
  `NoLostWakeup`. The invariant says of each reason to be awake (a request, the
  exit flag) that a sleeper's futex was reset or that a thread which has yet to
  read it is on its way.
* **`LiveStreamProofs`**, **`LiveFilesProofs`**, **`LiveViewerProofs`**: the stream of
  `LiveViewer` implements `TracefileRing` (`LiveImplementsRing`); for `count # 1`,
  `RetainedExactlyOnce`, `IndexIsTheNextOne`, `PacketIsIndexed`,
  `RequestsAreAnswered`, with it the assertion of `check_index_status`, and the
  action property `OnlyLostIndexesAreSkipped`. They speak of the last reply only; the
  invariant `LiveInv` says why the next one will be right.
  * `LiveStreamProofs` has what the files of the stream hold (`RelayInv`).
    `FilesOK`: the packets of a data file are consecutive, and its index file has
    their offsets. `ChunksOK`, `CurrentOK`: the chunks of the files increase, the
    last file is the one written. `RingFiles`: what the array announces for a
    file of the ring is what the latest file of that name holds.
  * `LiveFilesProofs` has what a viewer relies on (`ViewerOK`). `View`: the viewer
    stream holds a pair of files of its name, its position is that of its next
    index, and if these files have been overwritten then so has that index. No step of
    the relay daemon disturbs it, whatever the viewer (`RelayStepViewer`).
  * `LiveViewerProofs` follows a request: one lemma for each of its operations
    (`MovedView`, `CheckProgress`, `OpenProgress`, `ReadOutcome`) carries `View` from
    one to the next, up to the reply.
* **`SessionRotationProofs`**: `ReferencesAreExact`, `AssertionsHold` and the action
  property `CompletedRotationsStand`, for any number of sessions, chunks and jobs,
  with every failure allowed. The invariant `IInv` says who holds each reference
  (the list, a command, a job, a timer) and that what the timer thread or a queued
  job may still reach belongs to a timer that is enabled or being stopped.
  `TriggersInv` adds that a session with a size schedule has a trigger as long as
  the rotation thread lives, which leaves `AssertionsHold` with its two exceptions.
  `ChunksInv` adds the order of a session's chunks: the one being archived and the
  last archived are older than the current one, and a rotation is ongoing exactly
  while a chunk is being archived. So a rotation that begins never takes the
  identifier of the one a client was told is completed (`Advances`), and only
  `CheckEnd` completes one; that it finds its session still referenced, and the
  chunk still there, is `IInv`.
* **`AppRegistrationInvariant`**, **`AppRegistrationProofs`**:
  `SocketsHaveOneHolder` and `AppsInUseExist` whatever fails; `NeverAborts` and
  `TablesLeadToTheirApp` unless `lttng_poll_add` fails; `FdCountIsExact` unless
  `lttng_pipe_open` fails: these are the cases the runs except too. None is
  inductive: a step that moves a socket or drops a reference preserves them only
  if it was the one holder or the last user. `IInv` says for each socket where it
  is, for each application whether it waits, is used or is about to be freed,
  counts its references, and orders the registrations of a process in the
  queues, so that a notify socket never meets the application of another
  registration. `WatchInv` and `CountInv` add what the results with a condition need.

`TypeOK` of these modules, `TailIsOldestRetained`, `RingOrder`,
`TailOnlyMovesForward` and `WakesOnlyWaiting` are proved and have no run of
their own. TLC found each of the invariants true on small instances before it was
proved.

Only model-checked: every liveness property (fairness is out of the prover's
reach); the end-to-end properties of `ConsumerRelay` with the refinement
`RingSpec`, and those of `MetadataCache`, whose invariants span the messages in
flight between three processes and have not been worked out.

## 5. What is not modelled

`PROJECT.json` lists the reason for each part. In the modelled parts: the metadata
streams of the relay daemon and the metadata requests of viewers, kernel
metadata and snapshots, several streams of a session and several sessions, local
output of data, older protocol versions, allocation failures, the set-up of
sessions and channels, the messages on a notify socket, and the shutdown of the
session daemon's threads.

Sequential parts (command line, control library, filter compiler, serialisation,
XML) have no state that steps of others could disturb, and are left to tests.

## 6. Plan

In order; each module comes with its run, and its invariant is proved where it is
in reach.

1. `TraceChunkRegistry` (`trace-chunk.c`, `sessiond-trace-chunks.c`, `session.c`):
   references, close commands and publication from several sessions.
2. `NotificationQueues` (`notification-thread-events.c`, `action-executor.c`): client
   queues and drops, work items whose session is gone.
3. `FdTracker`, `Health`, `IndexAllocator`: small shared structures, and the time
   arithmetic of `health.c` against a reference definition.
4. Proofs: `NotPendingMeansStored` and the index table of `RelayStream`, the cache
   of `MetadataCache`.
