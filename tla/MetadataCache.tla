--------------------------- MODULE MetadataCache ---------------------------
(***************************************************************************)
(* The metadata of a user space session on its way from the session        *)
(* daemon's registry to the metadata file of a trace chunk.                *)
(*                                                                         *)
(* The session daemon pushes what its registry has gained (ust-app.c), by  *)
(* itself or because a consumer thread asked for it, to the metadata cache *)
(* of the consumer daemon (consumer-metadata-cache.c).  The metadata       *)
(* thread takes the cache packet by packet through the ring buffer of the  *)
(* metadata stream and writes it out (consumer.c, ust-consumer.c).  A push *)
(* is answered when it has reached the ring buffer.  In a live session     *)
(* the data thread synchronises with the metadata thread before it sends   *)
(* the index of a packet (consumer-stream.c).                              *)
(*                                                                         *)
(* A unit of metadata is a version and a position.  Locks appear as the    *)
(* conditions they impose; only the metadata thread and a thread that      *)
(* stops the timer hold one over several steps.                            *)
(***************************************************************************)
EXTENDS Naturals, Sequences, SequencesExt

CONSTANTS
    Modes,        \* the kinds of session: sets of features, see Features
    MaxLen,       \* units of metadata of a session
    MaxVersion,   \* regenerations of the metadata
    MaxPackets,   \* packets of the data stream
    MaxRotations, \* rotations to a new trace chunk
    MaxExpiries,  \* expiries of the switch timer
    PacketSize,   \* units that fit in a packet of metadata
    RingSize,     \* packets of the metadata ring buffer
    PipeSize      \* bytes the poll pipe of the metadata stream holds

\* What a session may have or meet: a live timer, a switch timer on its
\* metadata channel, a relay daemon that may fail, a rotation, the
\* regeneration of its metadata, its destruction.
Features == {"live", "timer", "relay", "rotate", "regenerate", "close"}

ASSUME ModesAreFeatures == Modes \subseteq SUBSET Features
ASSUME BoundsAreNat ==
    /\ {MaxLen, MaxVersion, MaxPackets, MaxRotations, MaxExpiries} \subseteq Nat
    /\ {PacketSize, RingSize, PipeSize} \subseteq Nat \ {0}

VARIABLES
    mode,     \* the features of this session
    registry, \* the session daemon's registry of the session
    push,     \* what each thread that brings metadata is doing
    cache,    \* channel->metadata_cache
    stream,   \* channel->metadata_stream
    ring,     \* packets of metadata committed and not consumed
    pipe,     \* the poll pipe of the metadata stream
    waiters,  \* metadata_pushed_wait_queue
    meta,     \* the metadata thread
    chunk,    \* trace chunk of the channel and of the relay daemon's stream
    file,     \* the metadata file of each trace chunk
    used      \* how many of the bounded events have happened

vars == <<mode, registry, push, cache, stream, ring, pipe, waiters, meta,
          chunk, file, used>>

\* The session daemon's command thread, with the consumer daemon's that
\* serves it; the consumer daemon's timer thread and data thread, with the
\* session daemon's that answers their requests.
Pushers == {"cmd", "timer", "data"}

Chunks == 1 .. MaxRotations + 1

\* What the extension of a buffer is filled with.
Zero == <<0, 0>>

\* The first n units of a version of the metadata.
MetadataOf(version, n) == [i \in 1 .. n |-> <<version, i>>]

live == "live" \in mode

\* A live session, and one whose relay daemon may fail, have one.
network == live \/ "relay" \in mode

Init ==
    /\ mode \in Modes
    /\ registry = [len |-> 1, sent |-> 0, version |-> 0, closed |-> FALSE]
    /\ push = [p \in Pushers |->
                 [pc |-> "idle", offset |-> 0, len |-> 0, version |-> 0, left |-> {}]]
    /\ cache = [version |-> 0, contents |-> <<>>]
    /\ stream = [pushed |-> 0, version |-> 0, reset |-> FALSE, active |-> TRUE,
                 ready |-> FALSE, chunk |-> 1, bucket |-> <<>>,
                 timer |-> "timer" \in mode, hangup |-> FALSE, deleted |-> FALSE]
    /\ ring = <<>>
    /\ pipe = [bytes |-> 0, open |-> TRUE]
    /\ waiters = [queue |-> {}, woken |-> {}]
    /\ meta = [pc |-> "idle", coherent |-> FALSE]
    /\ chunk = [channel |-> 1, relay |-> 1]
    /\ file = [c \in Chunks |-> <<>>]
    /\ used = [packets |-> 0, rotations |-> 0, expiries |-> 0]

-----------------------------------------------------------------------------
(* Locks *)

\* stream->lock, with metadata_rdv_lock.
StreamFree == meta.pc \notin {"get", "consume", "stop"}

\* channel->lock: a thread that closes the channel holds it as it stops the
\* timer.
ChannelFree == StreamFree /\ push["cmd"].pc # "stop"

\* channel->metadata_cache->lock.
CacheFree == meta.pc # "stop"

\* the_consumer_data.lock, besides the holders of the channel lock.
DataLockFree == push["cmd"].pc \notin {"pending", "done"} /\ meta.pc # "stop"

\* metadata_socket_lock.
SocketFree ==
    \A p \in {"timer", "data"} :
        push[p].pc \in {"idle", "lock", "request", "commit", "rdv", "index"}

-----------------------------------------------------------------------------
(* Wait queue, poll pipe, rendez-vous *)

lttng_wait_queue_wake_all ==
    waiters' = [queue |-> {}, woken |-> waiters.woken \cup waiters.queue]

\* One byte more, unless the pipe is full.
consumer_metadata_wakeup_pipe ==
    [pipe EXCEPT !.bytes = IF @ < PipeSize THEN @ + 1 ELSE @]

\* Mutant: the synchronisation does not begin again after the rendez-vous.
SignalOnce(ps) ==
    IF live /\ ps["data"].pc = "rdv" THEN [ps EXCEPT !["data"].pc = "index"] ELSE ps

\* on_sleep: the metadata thread of a live session signals the rendez-vous.
signal_metadata(ps) ==
    IF live /\ ps["data"].pc = "rdv" THEN [ps EXCEPT !["data"].pc = "lock"] ELSE ps

-----------------------------------------------------------------------------
(* The session daemon *)

\* An application registers an event: its description joins the metadata.
lttng_metadata_printf ==
    /\ registry.len < MaxLen
    /\ ~registry.closed
    /\ registry' = [registry EXCEPT !.len = @ + 1]
    /\ UNCHANGED <<mode, push, cache, stream, ring, pipe, waiters, meta, chunk, file, used>>

\* The metadata of a live session cannot be regenerated.
check_regenerate_metadata_support == "regenerate" \in mode /\ ~live

\* Everything known is described again, under a new version.
ust_regenerate_metadata ==
    /\ check_regenerate_metadata_support
    /\ registry.version < MaxVersion
    /\ ~registry.closed
    /\ registry' = [registry EXCEPT !.sent = 0, !.version = @ + 1]
    /\ UNCHANGED <<mode, push, cache, stream, ring, pipe, waiters, meta, chunk, file, used>>

\* What the registry has and has not sent, to be handled at pc.
Unsent(p, pc) ==
    [push[p] EXCEPT !.pc = pc, !.offset = registry.sent,
                    !.len = registry.len - registry.sent,
                    !.version = registry.version]

\* The session daemon pushes on its own.
push_metadata ==
    /\ push["cmd"].pc = "idle"
    /\ ~registry.closed
    /\ registry.len > registry.sent
    /\ push' = [push EXCEPT !["cmd"] = Unsent("cmd", "find")]
    /\ UNCHANGED <<mode, registry, cache, stream, ring, pipe, waiters, meta, chunk, file, used>>

\* LTTNG_CONSUMER_PUSH_METADATA: a channel that is gone fails the command,
\* and nothing counts as sent.
FindChannel ==
    /\ push["cmd"].pc = "find"
    /\ push' = [push EXCEPT !["cmd"].pc = IF stream.deleted THEN "idle" ELSE "write"]
    /\ UNCHANGED <<mode, registry, cache, stream, ring, pipe, waiters, meta, chunk, file, used>>

\* The switch timer of the metadata channel expires.
metadata_switch_timer ==
    /\ stream.timer
    /\ push["timer"].pc = "idle"
    /\ used.expiries < MaxExpiries
    /\ used' = [used EXCEPT !.expiries = @ + 1]
    /\ push' = [push EXCEPT !["timer"].pc = "request"]
    /\ UNCHANGED <<mode, registry, cache, stream, ring, pipe, waiters, meta, chunk, file>>

\* Where a thread goes on once its request is served.
AfterRequest(p) == IF p = "data" THEN "commit" ELSE "idle"

\* The session daemon answers with what it has not sent, with nothing, or
\* that it knows the session no more.
lttng_ustconsumer_request_metadata(p) ==
    /\ push[p].pc = "request"
    /\ SocketFree
    /\ \/ push' = [push EXCEPT ![p] =
                     Unsent(p, IF registry.len > registry.sent
                               THEN "write" ELSE AfterRequest(p))]
       \/ /\ registry.closed
          /\ push' = [push EXCEPT ![p].pc = AfterRequest(p)]
    /\ UNCHANGED <<mode, registry, cache, stream, ring, pipe, waiters, meta, chunk, file, used>>

\* The push is answered.  The largest end of concurrent pushes is kept.
ust_app_push_metadata(p) ==
    /\ push[p].pc \in {"reply", "error"}
    /\ registry' = IF push[p].pc = "reply" /\ push[p].offset + push[p].len > registry.sent
                   THEN [registry EXCEPT !.sent = push[p].offset + push[p].len]
                   ELSE registry
    /\ push' = [push EXCEPT ![p].pc = AfterRequest(p)]
    /\ UNCHANGED <<mode, cache, stream, ring, pipe, waiters, meta, chunk, file, used>>

-----------------------------------------------------------------------------
(* lttng_ustconsumer_recv_metadata *)

\* Only the data thread does not wait for the flush.
AfterWrite(p) == IF p = "data" THEN "reply" ELSE "check"

consumer_metadata_cache_write(p) ==
    LET r == push[p]
        end == r.offset + r.len
        invalidated == cache.version # r.version
        old == IF invalidated THEN <<>> ELSE cache.contents
        size == IF end > Len(old) THEN end ELSE Len(old)
        new == [i \in 1 .. size |->
                  IF i \in r.offset + 1 .. end THEN <<r.version, i>>
                  ELSE IF i <= Len(old) THEN old[i] ELSE Zero]
    IN  /\ r.pc = "write"
        /\ CacheFree
        /\ cache' = [version |-> r.version, contents |-> new]
        /\ push' = [push EXCEPT ![p].pc =
                      IF invalidated THEN "reset"
                      ELSE IF size > Len(cache.contents) THEN "wake"
                      ELSE AfterWrite(p)]
        /\ UNCHANGED <<mode, registry, stream, ring, pipe, waiters, meta, chunk, file, used>>

\* The cache was invalidated: everything is to be consumed again.  The cache
\* lock was released in between, and channel->metadata_stream is read without
\* the channel lock: a stream that is gone by then fails the assertion that
\* the channel is one of snapshots or, found gone once its lock is taken, is
\* a null pointer.
metadata_stream_reset_cache_consumed_position(p) ==
    /\ push[p].pc = "reset"
    /\ StreamFree
    /\ \/ /\ ~stream.deleted
          /\ stream' = [stream EXCEPT !.pushed = 0]
          /\ push' = [push EXCEPT ![p].pc = "wake"]
       \/ /\ stream.deleted
          /\ stream' = stream
          /\ push' = [push EXCEPT ![p].pc = "abort"]
    /\ UNCHANGED <<mode, registry, cache, ring, pipe, waiters, meta, chunk, file, used>>

\* The poll pipe may have been closed, which fails the command; there is
\* nothing to wake when the stream is gone.
WakeMetadataThread(p) ==
    /\ push[p].pc = "wake"
    /\ \/ /\ stream.deleted \/ pipe.open
          /\ pipe' = IF stream.deleted THEN pipe ELSE consumer_metadata_wakeup_pipe
          /\ push' = [push EXCEPT ![p].pc = AfterWrite(p)]
       \/ /\ ~stream.deleted /\ ~pipe.open
          /\ pipe' = pipe
          /\ push' = [push EXCEPT ![p].pc = "error"]
    /\ UNCHANGED <<mode, registry, cache, stream, ring, waiters, meta, chunk, file, used>>

\* The locks of the test: the timer thread does not take the channel's.
FlushedLocks(p) ==
    IF p = "timer" THEN StreamFree /\ CacheFree ELSE ChannelFree

consumer_metadata_cache_is_flushed(p) ==
    \/ stream.deleted
    \/ stream.pushed >= push[p].offset + push[p].len
    \/ ~stream.active

\* consumer_wait_metadata_cache_flushed, first test.
CheckFlushed(p) ==
    /\ push[p].pc = "check"
    /\ FlushedLocks(p)
    /\ push' = [push EXCEPT ![p].pc =
                  IF consumer_metadata_cache_is_flushed(p) THEN "reply" ELSE "add"]
    /\ UNCHANGED <<mode, registry, cache, stream, ring, pipe, waiters, meta, chunk, file, used>>

\* Mutant: the thread sleeps without a second test.
AddWaiterAndSleep(p) ==
    /\ push[p].pc = "add"
    /\ waiters' = [waiters EXCEPT !.queue = @ \cup {p}]
    /\ push' = [push EXCEPT ![p].pc = "sleep"]
    /\ UNCHANGED <<mode, registry, cache, stream, ring, pipe, meta, chunk, file, used>>

\* The waiter joins the queue.
AddWaiter(p) ==
    /\ push[p].pc = "add"
    /\ waiters' = [waiters EXCEPT !.queue = @ \cup {p}]
    /\ push' = [push EXCEPT ![p].pc = "recheck"]
    /\ UNCHANGED <<mode, registry, cache, stream, ring, pipe, meta, chunk, file, used>>

\* Second test: the thread that finds the cache flushed wakes all waiters,
\* itself included, and is done.
RecheckFlushed(p) ==
    /\ push[p].pc = "recheck"
    /\ FlushedLocks(p)
    /\ \/ /\ consumer_metadata_cache_is_flushed(p)
          /\ waiters' = [queue |-> {},
                         woken |-> (waiters.woken \cup waiters.queue) \ {p}]
          /\ push' = [push EXCEPT ![p].pc = "reply"]
       \/ /\ ~consumer_metadata_cache_is_flushed(p)
          /\ waiters' = waiters
          /\ push' = [push EXCEPT ![p].pc = "sleep"]
    /\ UNCHANGED <<mode, registry, cache, stream, ring, pipe, meta, chunk, file, used>>

\* Woken, the thread joins the queue again and tests again.
WaiterWoken(p) ==
    /\ push[p].pc = "sleep"
    /\ p \in waiters.woken
    /\ waiters' = [waiters EXCEPT !.woken = @ \ {p}]
    /\ push' = [push EXCEPT ![p].pc = "add"]
    /\ UNCHANGED <<mode, registry, cache, stream, ring, pipe, meta, chunk, file, used>>

-----------------------------------------------------------------------------
(* From the cache to the ring buffer *)

\* Nothing, or up to one packet.  A version that changed without a change of
\* size is noticed here, and everything is taken again.
commit_one_metadata_packet ==
    LET size == Len(cache.contents)
        done == size = stream.pushed
        changed == done /\ stream.version # cache.version
        s == IF changed
             THEN [stream EXCEPT !.pushed = 0, !.version = cache.version,
                                 !.reset = TRUE, !.bucket = <<>>]
             ELSE stream
        end == IF size - s.pushed > PacketSize THEN s.pushed + PacketSize ELSE size
    IN  IF done /\ ~changed THEN [ret |-> "empty", stream |-> stream, ring |-> ring]
        ELSE IF Len(ring) = RingSize THEN [ret |-> "full", stream |-> s, ring |-> ring]
        ELSE [ret |-> "new", stream |-> [s EXCEPT !.pushed = end],
              ring |-> Append(ring, SubSeq(cache.contents, s.pushed + 1, end))]

-----------------------------------------------------------------------------
(* Rotation of the stream *)

\* Mutant: the metadata is not dumped to the new chunk.
RotatedWithoutDump == [stream EXCEPT !.chunk = chunk.channel, !.ready = FALSE]

\* The stream as lttng_consumer_rotate_stream leaves it: in the chunk of its
\* channel, to be dumped from the start of the cache.
Rotated ==
    [stream EXCEPT !.chunk = chunk.channel, !.pushed = 0, !.ready = FALSE]

\* consumer_metadata_stream_dump wakes the metadata thread up, which fails
\* once the pipe is closed; the stream stays marked as ready.
lttng_consumer_rotate_stream ==
    IF pipe.open
    THEN [stream |-> Rotated, pipe |-> consumer_metadata_wakeup_pipe, ok |-> TRUE]
    ELSE [stream |-> [Rotated EXCEPT !.ready = TRUE], pipe |-> pipe, ok |-> FALSE]

-----------------------------------------------------------------------------
(* The metadata thread *)

\* Input is handled before a hang-up.
PollInput ==
    /\ meta.pc = "idle"
    /\ ~stream.deleted
    /\ pipe.bytes > 0
    /\ meta' = [meta EXCEPT !.pc = "read"]
    /\ UNCHANGED <<mode, registry, push, cache, stream, ring, pipe, waiters, chunk, file, used>>

\* Mutant: a hang-up is handled before input, and deletes the stream.
HangupDeletes ==
    /\ meta.pc = "idle"
    /\ ~stream.deleted
    /\ ~pipe.open
    /\ meta' = [meta EXCEPT !.pc = "delete"]
    /\ UNCHANGED <<mode, registry, push, cache, stream, ring, pipe, waiters, chunk, file, used>>

\* The write side of the pipe was closed and nothing is left to read in it.
lttng_ustconsumer_on_stream_hangup ==
    /\ meta.pc = "idle"
    /\ ~stream.deleted
    /\ pipe.bytes = 0
    /\ ~pipe.open
    /\ StreamFree
    /\ stream' = [stream EXCEPT !.hangup = TRUE]
    /\ meta' = [meta EXCEPT !.pc = "read"]
    /\ UNCHANGED <<mode, registry, push, cache, ring, pipe, waiters, chunk, file, used>>

\* The streams of a relay daemon that was lost are deleted.
validate_endpoint_status_metadata_stream ==
    /\ meta.pc = "idle"
    /\ ~stream.deleted
    /\ ~stream.active
    /\ meta' = [meta EXCEPT !.pc = "delete"]
    /\ UNCHANGED <<mode, registry, push, cache, stream, ring, pipe, waiters, chunk, file, used>>

\* lttng_consumer_read_subbuffer takes its locks, one byte of the pipe, and
\* rotates the stream if it is ready.
ReadBegin ==
    LET taken == IF pipe.bytes > 0 /\ ~stream.hangup
                 THEN [pipe EXCEPT !.bytes = @ - 1] ELSE pipe
    IN  /\ meta.pc = "read"
        /\ ChannelFree
        /\ \/ /\ ~stream.ready
              /\ stream' = stream
              /\ pipe' = taken
              /\ meta' = [meta EXCEPT !.pc = "get"]
           \/ /\ stream.ready
              /\ stream' = lttng_consumer_rotate_stream.stream
              /\ pipe' = IF lttng_consumer_rotate_stream.ok
                         THEN [taken EXCEPT !.bytes = @ + 1] ELSE taken
              /\ meta' = [meta EXCEPT !.pc =
                            IF lttng_consumer_rotate_stream.ok THEN "get" ELSE "delete"]
        /\ UNCHANGED <<mode, registry, push, cache, ring, waiters, chunk, file, used>>

\* get_next_subbuffer_metadata without a packet: take one from the cache, or
\* sleep.  After a hang-up the stream is deleted instead.
GetFromCache ==
    LET c == commit_one_metadata_packet
    IN  /\ meta.pc = "get"
        /\ ring = <<>>
        /\ \/ /\ c.ret = "new"
              /\ stream' = c.stream
              /\ ring' = c.ring
              /\ lttng_wait_queue_wake_all
              /\ UNCHANGED <<push, meta>>
           \/ /\ c.ret = "empty"
              /\ push' = signal_metadata(push)
              /\ meta' = [meta EXCEPT !.pc = IF stream.hangup THEN "delete" ELSE "idle"]
              /\ UNCHANGED <<stream, ring, waiters>>
        /\ UNCHANGED <<mode, registry, cache, pipe, chunk, file, used>>

\* get_next_subbuffer_metadata with a packet: the metadata is coherent when
\* nothing else is known to follow.
GetFromRing ==
    /\ meta.pc = "get"
    /\ ring # <<>>
    /\ meta' = [pc |-> "consume",
                coherent |-> /\ Len(cache.contents) = stream.pushed
                             /\ Len(ring) = 1]
    /\ UNCHANGED <<mode, registry, push, cache, stream, ring, pipe, waiters, chunk, file, used>>

\* The chunk where what is written now ends up.
OutputChunk == IF network THEN chunk.relay ELSE stream.chunk

\* Without a bucket every packet is written; with one, in a live session,
\* only once the metadata is coherent.
metadata_bucket_fill ==
    LET content == stream.bucket \o Head(ring)
        flush == ~live \/ meta.coherent
        old == IF stream.reset THEN <<>> ELSE file[OutputChunk]
    IN  IF ~flush
        THEN [ok |-> TRUE, stream |-> [stream EXCEPT !.bucket = content], file |-> file]
        ELSE IF network /\ ~stream.active
        THEN [ok |-> FALSE, stream |-> [stream EXCEPT !.bucket = <<>>], file |-> file]
        ELSE [ok |-> TRUE,
              stream |-> [stream EXCEPT !.bucket = <<>>, !.reset = FALSE],
              file |-> [file EXCEPT ![OutputChunk] = old \o content]]

\* The packet is consumed and released.  On error the stream is deleted, and
\* nobody is signalled.
ConsumePacket ==
    LET c == metadata_bucket_fill
    IN  /\ meta.pc = "consume"
        /\ stream' = c.stream
        /\ file' = c.file
        /\ ring' = Tail(ring)
        /\ push' = IF c.ok THEN signal_metadata(push) ELSE push
        /\ meta' = [pc |-> IF c.ok THEN "read" ELSE "delete", coherent |-> FALSE]
        /\ UNCHANGED <<mode, registry, cache, pipe, waiters, chunk, used>>

\* consumer_del_metadata_stream takes its locks and stops the timer.
DeleteBegin ==
    /\ meta.pc = "delete"
    /\ DataLockFree
    /\ ChannelFree
    /\ meta' = [meta EXCEPT !.pc = "stop"]
    /\ UNCHANGED <<mode, registry, push, cache, stream, ring, pipe, waiters, chunk, file, used>>

\* The timer thread is past its handler, if there is a timer.
TimerStopped == stream.timer => push["timer"].pc = "idle"

consumer_del_metadata_stream ==
    /\ meta.pc = "stop"
    /\ TimerStopped
    /\ stream' = [stream EXCEPT !.deleted = TRUE, !.timer = FALSE]
    /\ pipe' = [bytes |-> 0, open |-> FALSE]
    /\ lttng_wait_queue_wake_all
    /\ meta' = [meta EXCEPT !.pc = "idle"]
    /\ UNCHANGED <<mode, registry, push, cache, ring, chunk, file, used>>

-----------------------------------------------------------------------------
(* The data thread of a live session *)

\* A packet of the data stream was written: before its index is sent, the
\* metadata is synchronised.  The thread holds the data stream's lock.
consumer_stream_sync_metadata_index ==
    /\ live
    /\ push["data"].pc = "idle"
    /\ used.packets < MaxPackets
    /\ used' = [used EXCEPT !.packets = @ + 1]
    /\ push' = [push EXCEPT !["data"].pc = "lock"]
    /\ UNCHANGED <<mode, registry, cache, stream, ring, pipe, waiters, meta, chunk, file>>

\* do_sync_metadata locks the metadata stream: one that is gone needs no
\* synchronisation.  The lock is released for the request.
SyncBegin ==
    /\ push["data"].pc = "lock"
    /\ StreamFree
    /\ push' = [push EXCEPT !["data"].pc = IF stream.deleted THEN "index" ELSE "request"]
    /\ UNCHANGED <<mode, registry, cache, stream, ring, pipe, waiters, meta, chunk, file, used>>

\* After the request: commit a packet and wait for the rendez-vous, until
\* there is nothing left to commit.  A full ring buffer ends the
\* synchronisation with an error: the index is not sent.
lttng_ustconsumer_sync_metadata ==
    LET c == commit_one_metadata_packet
        next == [new |-> "rdv", empty |-> "index", full |-> "idle"]
    IN  /\ push["data"].pc = "commit"
        /\ StreamFree
        /\ \/ /\ stream.deleted
              /\ push' = [push EXCEPT !["data"].pc = "index"]
              /\ UNCHANGED <<stream, ring, waiters>>
           \/ /\ ~stream.deleted
              /\ push' = [push EXCEPT !["data"].pc = next[c.ret]]
              /\ stream' = c.stream
              /\ ring' = c.ring
              /\ IF c.ret = "new" THEN lttng_wait_queue_wake_all ELSE waiters' = waiters
        /\ UNCHANGED <<mode, registry, cache, pipe, meta, chunk, file, used>>

\* consumer_stream_send_index.
SendIndex ==
    /\ push["data"].pc = "index"
    /\ push' = [push EXCEPT !["data"].pc = "idle"]
    /\ UNCHANGED <<mode, registry, cache, stream, ring, pipe, waiters, meta, chunk, file, used>>

-----------------------------------------------------------------------------
(* Other commands, and the loss of the relay daemon *)

\* The channel gets the trace chunk that follows.
lttng_consumer_channel_set_trace_chunk ==
    /\ "rotate" \in mode
    /\ push["cmd"].pc = "idle"
    /\ used.rotations < MaxRotations
    /\ ~registry.closed
    /\ ~stream.deleted
    /\ ChannelFree
    /\ chunk' = [chunk EXCEPT !.channel = @ + 1]
    /\ used' = [used EXCEPT !.rotations = @ + 1]
    /\ push' = [push EXCEPT !["cmd"].pc = "rotate"]
    /\ UNCHANGED <<mode, registry, cache, stream, ring, pipe, waiters, meta, file>>

\* The relay daemon is sent the rotation of its stream, and rotates it at once:
\* a metadata stream has no position to wait for.
relayd_rotate_streams ==
    IF network /\ stream.active /\ ~stream.deleted
    THEN [chunk EXCEPT !.relay = chunk.channel]
    ELSE chunk

\* A stream with nothing to consume is ready.
lttng_consumer_rotate_channel ==
    /\ push["cmd"].pc = "rotate"
    /\ ChannelFree
    /\ stream' = IF ~stream.deleted /\ ring = <<>>
                 THEN [stream EXCEPT !.ready = TRUE] ELSE stream
    /\ chunk' = relayd_rotate_streams
    /\ push' = [push EXCEPT !["cmd"].pc = IF stream.deleted THEN "idle" ELSE "ready"]
    /\ UNCHANGED <<mode, registry, cache, ring, pipe, waiters, meta, file, used>>

lttng_consumer_rotate_ready_streams ==
    /\ push["cmd"].pc = "ready"
    /\ ChannelFree
    /\ \/ /\ stream.ready /\ ~stream.deleted
          /\ stream' = lttng_consumer_rotate_stream.stream
          /\ pipe' = lttng_consumer_rotate_stream.pipe
       \/ /\ ~stream.ready \/ stream.deleted
          /\ UNCHANGED <<stream, pipe>>
    /\ push' = [push EXCEPT !["cmd"].pc = "idle"]
    /\ UNCHANGED <<mode, registry, cache, ring, waiters, meta, chunk, file, used>>

\* The session daemon asks whether data is pending: the consumer daemon
\* looks at the streams one by one.  offset keeps what had been sent then.
consumer_data_pending ==
    /\ push["cmd"].pc = "idle"
    /\ DataLockFree
    /\ ~registry.closed
    /\ push' = [push EXCEPT !["cmd"].pc = "pending", !["cmd"].offset = registry.sent,
                            !["cmd"].left = {"metadata"} \cup (IF live THEN {"data"} ELSE {})]
    /\ UNCHANGED <<mode, registry, cache, stream, ring, pipe, waiters, meta, chunk, file, used>>

\* The stream's own answer.  Metadata is pending until the cache is in the
\* ring buffer, data until all packets of the stopped session are read;
\* nothing of an endpoint that was lost is pending.
lttng_ustconsumer_data_pending(s) ==
    /\ stream.active
    /\ IF s = "data" THEN used.packets < MaxPackets
       ELSE /\ ~stream.deleted
            /\ Len(cache.contents) # stream.pushed \/ cache.contents = <<>>

\* Mutant: the answer is read without the lock of the metadata stream.
DataPendingWithoutLock(s) ==
    /\ push["cmd"].pc = "pending"
    /\ s \in push["cmd"].left
    /\ s = "data" => push["data"].pc = "idle"
    /\ push' = [push EXCEPT
                  !["cmd"].pc = IF lttng_ustconsumer_data_pending(s) THEN "idle"
                                ELSE IF push["cmd"].left = {s} THEN "done" ELSE @,
                  !["cmd"].left = IF lttng_ustconsumer_data_pending(s) THEN {} ELSE @ \ {s}]
    /\ UNCHANGED <<mode, registry, cache, stream, ring, pipe, waiters, meta, chunk, file, used>>

\* The data thread holds the lock of its stream as it synchronises.
DataPendingStream(s) ==
    /\ push["cmd"].pc = "pending"
    /\ s \in push["cmd"].left
    /\ IF s = "metadata" THEN StreamFree /\ CacheFree ELSE push["data"].pc = "idle"
    /\ push' = [push EXCEPT
                  !["cmd"].pc = IF lttng_ustconsumer_data_pending(s) THEN "idle"
                                ELSE IF push["cmd"].left = {s} THEN "done" ELSE @,
                  !["cmd"].left = IF lttng_ustconsumer_data_pending(s) THEN {} ELSE @ \ {s}]
    /\ UNCHANGED <<mode, registry, cache, stream, ring, pipe, waiters, meta, chunk, file, used>>

\* "Not pending" is answered.
DataNotPending ==
    /\ push["cmd"].pc = "done"
    /\ push' = [push EXCEPT !["cmd"].pc = "idle"]
    /\ UNCHANGED <<mode, registry, cache, stream, ring, pipe, waiters, meta, chunk, file, used>>

\* The session is destroyed: the registry is closed, the channel is next.
close_metadata ==
    /\ "close" \in mode
    /\ push["cmd"].pc = "idle"
    /\ ~registry.closed
    /\ registry' = [registry EXCEPT !.closed = TRUE]
    /\ push' = [push EXCEPT !["cmd"].pc = "close"]
    /\ UNCHANGED <<mode, cache, stream, ring, pipe, waiters, meta, chunk, file, used>>

\* LTTNG_CONSUMER_CLOSE_METADATA: the channel lock is held as the timer is
\* stopped.  The channel may be gone.
CloseBegin ==
    /\ push["cmd"].pc = "close"
    /\ stream.deleted \/ (DataLockFree /\ ChannelFree)
    /\ push' = [push EXCEPT !["cmd"].pc = IF stream.deleted THEN "idle" ELSE "stop"]
    /\ UNCHANGED <<mode, registry, cache, stream, ring, pipe, waiters, meta, chunk, file, used>>

\* The timer is stopped, and the write side of the poll pipe closed.
lttng_ustconsumer_close_metadata ==
    /\ push["cmd"].pc = "stop"
    /\ TimerStopped
    /\ stream' = [stream EXCEPT !.timer = FALSE]
    /\ pipe' = [pipe EXCEPT !.open = FALSE]
    /\ push' = [push EXCEPT !["cmd"].pc = "idle"]
    /\ UNCHANGED <<mode, registry, cache, ring, waiters, meta, chunk, file, used>>

\* A thread finds the relay daemon gone: its streams' endpoints are inactive
\* and who waits for a flush is woken.
lttng_consumer_cleanup_relayd ==
    /\ "relay" \in mode
    /\ stream.active
    /\ ~stream.deleted
    /\ stream' = [stream EXCEPT !.active = FALSE]
    /\ lttng_wait_queue_wake_all
    /\ UNCHANGED <<mode, registry, push, cache, ring, pipe, meta, chunk, file, used>>

-----------------------------------------------------------------------------

\* A push on its way through the consumer daemon.
PushStep(p) ==
    \/ consumer_metadata_cache_write(p)
    \/ metadata_stream_reset_cache_consumed_position(p)
    \/ WakeMetadataThread(p)
    \/ CheckFlushed(p)
    \/ AddWaiter(p)
    \/ RecheckFlushed(p)
    \/ WaiterWoken(p)
    \/ ust_app_push_metadata(p)

CommandStep ==
    \/ FindChannel
    \/ PushStep("cmd")
    \/ lttng_consumer_rotate_channel
    \/ lttng_consumer_rotate_ready_streams
    \/ \E s \in {"metadata", "data"} : DataPendingStream(s)
    \/ DataNotPending
    \/ CloseBegin
    \/ lttng_ustconsumer_close_metadata

TimerStep == lttng_ustconsumer_request_metadata("timer") \/ PushStep("timer")

DataStep ==
    \/ SyncBegin
    \/ lttng_ustconsumer_request_metadata("data")
    \/ PushStep("data")
    \/ lttng_ustconsumer_sync_metadata
    \/ SendIndex

MetadataStep ==
    \/ PollInput
    \/ lttng_ustconsumer_on_stream_hangup
    \/ validate_endpoint_status_metadata_stream
    \/ ReadBegin
    \/ GetFromCache
    \/ GetFromRing
    \/ ConsumePacket
    \/ DeleteBegin
    \/ consumer_del_metadata_stream

\* What starts on its own.
Events ==
    \/ lttng_metadata_printf
    \/ ust_regenerate_metadata
    \/ push_metadata
    \/ metadata_switch_timer
    \/ consumer_stream_sync_metadata_index
    \/ lttng_consumer_channel_set_trace_chunk
    \/ consumer_data_pending
    \/ close_metadata
    \/ lttng_consumer_cleanup_relayd

\* Nothing happens once an assertion has ended the consumer daemon.
Running == \A p \in Pushers : push[p].pc # "abort"

Next ==
    /\ Running
    /\ CommandStep \/ TimerStep \/ DataStep \/ MetadataStep \/ Events

\* Each thread goes on when it can; nothing obliges an event to happen.
Spec ==
    /\ Init
    /\ [][Next]_vars
    /\ WF_vars(Running /\ CommandStep)
    /\ WF_vars(Running /\ TimerStep)
    /\ WF_vars(Running /\ DataStep)
    /\ WF_vars(Running /\ MetadataStep)

-----------------------------------------------------------------------------
(* Properties *)

\* The timer thread waits for a flush, and the thread that waits for it to
\* end its handler holds a lock the flush, or the test for it, needs.
StopWaitsForTimer ==
    /\ push["timer"].pc # "idle"
    /\ push["cmd"].pc = "stop" \/ meta.pc = "stop"

\* The data thread waits at the rendez-vous for a metadata thread that is
\* past its last signal.
RendezvousIsOver ==
    /\ push["data"].pc = "rdv"
    /\ stream.deleted \/ ~stream.active

\* A push of regenerated metadata finds its stream deleted with a relay daemon
\* that was lost, which ends the consumer daemon (ust-consumer.c:1340).
StreamGoneBeforeReset == ~Running /\ stream.deleted /\ ~stream.active

\* The metadata file of every trace chunk is the beginning of the metadata,
\* as long as it was not regenerated: packets that cross a rotation and
\* pushes that overlap leave no gap, no repetition and no zeros.
ChunkMetadataIsPrefix ==
    registry.version = 0 =>
        \A c \in Chunks : IsPrefix(file[c], MetadataOf(0, MaxLen))

\* When the index of a packet is sent, all the metadata the session daemon
\* had when the data thread last asked for it is stored (unless the stream
\* or its relay daemon is gone): a viewer can decode the packet.
SyncedMeansStored ==
    push["data"].pc = "index" =>
        \/ stream.deleted
        \/ ~stream.active
        \/ Len(file[OutputChunk]) >= push["data"].offset + push["data"].len

\* "No data pending" is answered only when all the metadata acknowledged
\* before the question is stored (unless the relay daemon is gone), although
\* acknowledged metadata is only known to have reached the ring buffer.  A
\* regeneration truncates what is stored.
NotPendingMeansMetadataStored ==
    push["cmd"].pc = "done" /\ registry.version = 0 =>
        ~stream.active \/ Len(file[OutputChunk]) >= push["cmd"].offset

\* Every push, request, synchronisation and command ends, whatever happens to
\* the stream it waits for, but for the two waits and the abort named above:
\* in particular, that abort takes the loss of a relay daemon.
PushesEnd ==
    \A p \in Pushers :
        push[p].pc # "idle" ~>
            \/ push[p].pc = "idle"
            \/ StopWaitsForTimer
            \/ RendezvousIsOver
            \/ StreamGoneBeforeReset

\* What is in the cache ends up in the file of the current chunk, the bucket
\* included, and the deletion of the stream loses none of it, unless the
\* relay daemon is lost, the stream waits forever, or a data thread brings
\* metadata to a stream that is deleted.
MetadataIsStored ==
    <>[](\/ ~stream.active
         \/ StopWaitsForTimer
         \/ live /\ stream.deleted
         \/ ToSet(cache.contents) \subseteq ToSet(file[OutputChunk]))

=============================================================================
