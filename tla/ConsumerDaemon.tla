--------------------------- MODULE ConsumerDaemon ---------------------------
(***************************************************************************)
(* The consumer daemon's side of a data stream that is sent to a relay     *)
(* daemon: the data thread reads the packets of the ring buffer and sends  *)
(* each one's data, then its index, and closes the stream at its end; the  *)
(* thread of the session daemon's commands rotates the stream from a trace *)
(* chunk to the next and asks whether data is pending; the live timer      *)
(* sends beacons.                                                          *)
(*                                                                         *)
(* The session daemon is the sender of the commands: c.command is the      *)
(* command being carried out, and cmd_rotate_session is the sequence of    *)
(* them that a rotation is (create the next chunk, rotate the stream,      *)
(* close the old chunk), followed by checks of its completion.             *)
(*                                                                         *)
(* Locks are kept as the conditions they impose.  The data thread holds    *)
(* the channel and the stream lock from the read of a packet to the reply  *)
(* to its index (c.reading # Idle); a rotation holds the channel lock up   *)
(* to its reply (c.command = "rotate"); every command holds                *)
(* ctrl_sock_mutex up to its reply (CtrlIdle).                             *)
(*                                                                         *)
(* The ring buffer is external: it is the count of the packets produced,   *)
(* numbered from 0 by packet_seq_num; with Overwrite, the tracer may       *)
(* overwrite packets that were not read.                                   *)
(***************************************************************************)
EXTENDS RelaySockets

CONSTANTS
    Overwrite,          \* TRUE for a channel in overwrite mode
    MaxPackets,         \* bound: packets the tracer produces
    MaxRotations,       \* bound: rotations of the session
    Resets,             \* TRUE if the data connection may break
    PacketBytes,        \* data bytes of a packet (DataSize of the receiver)
    InitialChunk        \* the session's trace chunk at its start

ASSUME ConsumerAssumption ==
    /\ Overwrite \in BOOLEAN
    /\ Resets \in BOOLEAN
    /\ MaxPackets \in Nat
    /\ MaxRotations \in Nat
    /\ PacketBytes \in Nat \ {0}

VARIABLE c

Idle == [state |-> "idle", net |-> -1, packet_seq_num |-> -1]

NullChunk == 0

ConsumerInit ==
    c = [produced |-> 0, consumed |-> 0,        \* positions, in packets
         active |-> TRUE, starting |-> FALSE,   \* the session's state
         session_chunk |-> InitialChunk, chunk_being_archived |-> NullChunk,
         rotation_state |-> "none", started |-> 0,
         last_sequence_number |-> -1, next_net_seq_num |-> 0,
         rotate_position |-> -1, rotate_ready |-> FALSE,
         trace_chunk |-> InitialChunk, channel_chunk |-> InitialChunk,
         first_of_chunk |-> 0,
         reading |-> Idle, command |-> "none", verdict |-> "none",
         timer |-> "idle",
         stream |-> TRUE, closed |-> FALSE, alive |-> TRUE,
         rotations |-> <<>>]

ChannelLockFree == c.reading = Idle /\ c.command # "rotate"

Running == c.alive /\ ~c.closed

\* The stream is there and is not being closed.
StreamOpen == Running /\ c.stream /\ c.reading.state # "closing"

-----------------------------------------------------------------------------
\* The tracer (external): a packet is complete, tracing stops (the buffer is
\* flushed, whether or not a packet was begun) or starts.

Produce ==
    /\ StreamOpen /\ c.active /\ ~c.starting
    /\ c.produced < MaxPackets
    /\ c' = [c EXCEPT !.produced = @ + 1]
    /\ UNCHANGED sockets

StopTracing ==
    /\ Running /\ c.active /\ c.command = "none"
    /\ \E flushed \in IF StreamOpen THEN {0, 1} ELSE {0} :
         /\ c.produced + flushed <= MaxPackets
         /\ c' = [c EXCEPT !.active = FALSE, !.produced = @ + flushed]
    /\ UNCHANGED sockets

\* The tracer overwrites the oldest packet that was not read.
OverwritePacket ==
    /\ Overwrite
    /\ StreamOpen /\ c.active /\ ~c.starting /\ c.reading = Idle
    /\ c.consumed < c.produced
    /\ c' = [c EXCEPT !.consumed = @ + 1]
    /\ UNCHANGED sockets

-----------------------------------------------------------------------------
\* lttng_consumer_rotate_stream: the stream takes its channel's chunk.
lttng_consumer_rotate_stream(t) ==
    [t EXCEPT !.trace_chunk = IF t.channel_chunk = t.trace_chunk
                              THEN NullChunk ELSE t.channel_chunk,
              !.rotate_position = -1,
              !.rotate_ready = FALSE]

lttng_consumer_stream_is_rotate_ready(t) ==
    \/ t.rotate_ready
    \/ /\ t.rotate_position # -1
       /\ t.last_sequence_number # -1
       /\ t.last_sequence_number >= t.rotate_position - 1

\* lttng_consumer_read_subbuffer up to the sending of the data.
lttng_consumer_read_subbuffer ==
    /\ StreamOpen /\ ChannelLockFree
    /\ data_end = "open"
    /\ c.consumed < c.produced
    /\ c' = LET t == IF c.rotate_ready
                     THEN lttng_consumer_rotate_stream(c) ELSE c
            IN  [t EXCEPT !.consumed = @ + 1,
                          !.last_sequence_number = c.consumed,
                          !.next_net_seq_num = @ + 1,
                          !.reading = [state |-> "index",
                                       net |-> c.next_net_seq_num,
                                       packet_seq_num |-> c.consumed]]
    /\ data' = data \o [i \in 1 .. PacketBytes + 1 |->
                          <<c.next_net_seq_num, i - 1>>]
    /\ UNCHANGED <<ctrl, ctrl_end, data_end>>

\* consumer_stream_write_index: the index of the packet just sent.
consumer_stream_write_index ==
    /\ Running /\ c.reading.state = "index"
    /\ CtrlIdle
    /\ ctrl' = [type |-> "index", net |-> c.reading.net,
                packet_seq_num |-> c.reading.packet_seq_num]
    /\ c' = [c EXCEPT !.reading.state = "reply"]
    /\ UNCHANGED <<data, ctrl_end, data_end>>

\* lttng_consumer_cleanup_relayd: both connections are closed.
CleanupRelayd ==
    /\ ctrl' = IF IsReply THEN NoMessage ELSE ctrl
    /\ ctrl_end' = "eof"
    /\ data_end' = IF data_end = "open" THEN "eof" ELSE data_end
    /\ c' = [c EXCEPT !.alive = FALSE, !.reading = Idle, !.command = "none",
                      !.timer = "idle"]
    /\ UNCHANGED data

\* The data of a packet cannot be sent.
ReadSubbufferFails ==
    /\ StreamOpen /\ ChannelLockFree
    /\ data_end # "open"
    /\ c.consumed < c.produced
    /\ CleanupRelayd

\* The end of lttng_consumer_read_subbuffer, locks released.
IndexReply ==
    /\ Running /\ c.reading.state = "reply" /\ IsReply
    /\ IF ctrl.ret_code = "error" THEN CleanupRelayd
       ELSE /\ ctrl' = NoMessage
            /\ c' = LET t == [c EXCEPT !.reading = Idle]
                    IN  IF lttng_consumer_stream_is_rotate_ready(t)
                        THEN lttng_consumer_rotate_stream(t) ELSE t
            /\ UNCHANGED <<data, ctrl_end, data_end>>

\* consumer_stream_relayd_close: at the end of its buffers the stream is
\* deleted, by the data thread.  It takes the consumer data lock, which a
\* check for pending data holds.
consumer_stream_relayd_close ==
    /\ StreamOpen /\ ChannelLockFree /\ CtrlIdle
    /\ c.produced = c.consumed
    /\ c.command \notin {"ask_pending", "data_pending"}
    /\ ctrl' = [type |-> "close", last_net_seq_num |-> c.next_net_seq_num - 1]
    /\ c' = [c EXCEPT !.reading.state = "closing"]
    /\ UNCHANGED <<data, ctrl_end, data_end>>

\* The stream and its channel drop their chunks.
CloseReply ==
    /\ Running /\ c.reading.state = "closing" /\ IsReply
    /\ IF ctrl.ret_code = "error" THEN CleanupRelayd
       ELSE /\ ctrl' = NoMessage
            /\ c' = [c EXCEPT !.reading = Idle, !.stream = FALSE,
                              !.trace_chunk = NullChunk,
                              !.channel_chunk = NullChunk]
            /\ UNCHANGED <<data, ctrl_end, data_end>>

-----------------------------------------------------------------------------
\* Commands of the session daemon.  Sends(type) is the step that sends the
\* message of the command in c.command, Gets the one that gets its reply.

Sends(command) == Running /\ c.command = command /\ CtrlIdle

Gets(command) == Running /\ c.command = command /\ IsReply

\* What is left of t once the reply was read, unless it is an error.
Acknowledged(t) ==
    IF ctrl.ret_code = "error" THEN CleanupRelayd
    ELSE ctrl' = NoMessage /\ c' = t /\ UNCHANGED <<data, ctrl_end, data_end>>

\* cmd_rotate_session: the session t leaves its chunk, for a new one when it is
\* active, for none when it is stopped.
cmd_rotate_session(t) ==
    [t EXCEPT !.started = @ + 1,
              !.chunk_being_archived = t.session_chunk,
              !.session_chunk = IF t.active THEN InitialChunk + t.started + 1
                                ELSE NullChunk,
              !.command = IF t.active THEN "create_chunk" ELSE "rotate_channel"]

MayRotate ==
    /\ Running /\ c.command = "none"
    /\ c.rotation_state # "ongoing"
    /\ c.started < MaxRotations

\* A stopped session is rotated once (rotated_after_last_stop).
RotateSession ==
    /\ MayRotate
    /\ c.session_chunk # NullChunk
    /\ c' = cmd_rotate_session(c)
    /\ UNCHANGED sockets

\* cmd_start_trace: a session without a chunk is rotated to a new one first.
StartTracing ==
    /\ Running /\ ~c.active /\ c.command = "none"
    /\ LET t == [c EXCEPT !.active = TRUE, !.verdict = "none"]
       IN  IF c.session_chunk # NullChunk THEN c' = t
           ELSE /\ MayRotate
                /\ c' = cmd_rotate_session([t EXCEPT !.starting = TRUE])
    /\ UNCHANGED sockets

\* The chunk is published in the consumer daemon, given to the channel, then
\* created on the relay daemon.
lttng_consumer_create_trace_chunk ==
    /\ Sends("create_chunk") /\ ChannelLockFree
    /\ ctrl' = [type |-> "create_chunk", chunk |-> c.session_chunk]
    /\ c' = [c EXCEPT !.command = "creating",
                      !.channel_chunk = IF c.stream THEN c.session_chunk ELSE @]
    /\ UNCHANGED <<data, ctrl_end, data_end>>

CreateChunkReply ==
    /\ Gets("creating")
    /\ Acknowledged([c EXCEPT !.command = "rotate_channel"])

\* lttng_consumer_rotate_channel, up to the sending of ROTATE_STREAMS.  The
\* packet being filled is flushed; an empty one is if the chunk has none.
\* When the stream has no chunk there is nothing to flush.
lttng_consumer_rotate_channel ==
    /\ Sends("rotate_channel") /\ ChannelLockFree /\ c.stream
    /\ \E flushed \in {0, 1} :
         LET produced == c.produced + flushed
             position == c.last_sequence_number + 1 + (produced - c.consumed)
             next_trace_chunk == IF c.trace_chunk = c.channel_chunk
                                 THEN NullChunk ELSE c.channel_chunk
         IN  /\ produced <= MaxPackets
             /\ IF c.trace_chunk = NullChunk THEN flushed = 0
                ELSE produced > c.first_of_chunk
             /\ c' = [c EXCEPT
                        !.produced = produced, !.verdict = "none",
                        !.rotate_position = position,
                        !.rotate_ready = (produced = c.consumed),
                        !.first_of_chunk = produced,
                        !.command = "rotate",
                        !.rotations = Append(@, [position |-> position,
                                                 chunk |-> next_trace_chunk])]
             /\ ctrl' = [type |-> "rotate",
                         next_trace_chunk |-> next_trace_chunk,
                         packet_seq_num |-> position]
    /\ UNCHANGED <<data, ctrl_end, data_end>>

RotateReply ==
    /\ Gets("rotate")
    /\ Acknowledged([c EXCEPT !.command = "rotate_ready"])

\* The rest of a rotation: the old chunk, if there is one, is closed.
StreamRotated(t) ==
    [t EXCEPT !.starting = FALSE,
              !.command = IF t.chunk_being_archived = NullChunk
                          THEN "none" ELSE "close_chunk"]

\* LTTNG_CONSUMER_ROTATE_CHANNEL of a channel that is gone.
ChannelNotFound ==
    /\ Running /\ c.command = "rotate_channel" /\ ~c.stream
    /\ c' = StreamRotated(c)
    /\ UNCHANGED sockets

\* The end of the same command, once the session daemon was answered.
lttng_consumer_rotate_ready_streams ==
    /\ Running /\ c.command = "rotate_ready" /\ c.reading = Idle
    /\ c' = StreamRotated(IF c.rotate_ready /\ c.stream
                          THEN lttng_consumer_rotate_stream(c) ELSE c)
    /\ UNCHANGED sockets

\* The channel's chunk is set to NULL if it is the one being closed.
lttng_consumer_close_trace_chunk ==
    /\ Sends("close_chunk") /\ ChannelLockFree
    /\ ctrl' = [type |-> "close_chunk", chunk |-> c.chunk_being_archived]
    /\ c' = [c EXCEPT !.command = "closing", !.rotation_state = "ongoing",
                      !.channel_chunk = IF @ = c.chunk_being_archived
                                        THEN NullChunk ELSE @]
    /\ UNCHANGED <<data, ctrl_end, data_end>>

CloseChunkReply ==
    /\ Gets("closing")
    /\ Acknowledged([c EXCEPT !.command = "none"])

\* check_session_rotation_pending: the old chunk is looked for in the consumer
\* daemon, then on the relay daemon.
lttng_consumer_trace_chunk_exists ==
    /\ Sends("none") /\ c.rotation_state = "ongoing"
    /\ c.chunk_being_archived \notin {c.trace_chunk, c.channel_chunk}
    /\ ctrl' = [type |-> "chunk_exists", chunk |-> c.chunk_being_archived]
    /\ c' = [c EXCEPT !.command = "chunk_exists"]
    /\ UNCHANGED <<data, ctrl_end, data_end>>

ChunkExistsReply ==
    /\ Gets("chunk_exists")
    /\ Acknowledged([c EXCEPT !.command = "none",
                              !.rotation_state = IF ctrl.ret_code = "exists"
                                                 THEN @ ELSE "completed"])

\* consumer_data_pending, asked once tracing is stopped.  The buffers are
\* looked at under the stream lock; the relay daemon is then asked without it,
\* about the stream, or if it is gone about the streams that were not checked.
consumer_data_pending ==
    /\ Running /\ c.command = "none" /\ ~c.active /\ c.reading = Idle
    /\ c' = IF c.produced = c.consumed
            THEN [c EXCEPT !.command = "ask_pending", !.verdict = "none"]
            ELSE [c EXCEPT !.verdict = "pending"]
    /\ UNCHANGED sockets

relayd_data_pending ==
    /\ Sends("ask_pending")
    /\ ctrl' = IF c.stream
               THEN [type |-> "data_pending",
                     last_net_seq_num |-> c.next_net_seq_num - 1]
               ELSE [type |-> "end_data_pending"]
    /\ c' = [c EXCEPT !.command = "data_pending"]
    /\ UNCHANGED <<data, ctrl_end, data_end>>

DataPendingReply ==
    /\ Gets("data_pending")
    /\ Acknowledged([c EXCEPT !.command = "none", !.verdict = ctrl.ret_code])

\* consumer_destroy_relayd: the connections are closed.
consumer_destroy_relayd ==
    /\ Running /\ ~c.stream /\ c.command = "none" /\ c.timer = "idle"
    /\ c' = [c EXCEPT !.closed = TRUE, !.active = FALSE]
    /\ ctrl_end' = "eof"
    /\ data_end' = IF data_end = "open" THEN "eof" ELSE data_end
    /\ UNCHANGED <<ctrl, data>>

-----------------------------------------------------------------------------
\* The live timer found nothing to flush: an empty index.
LiveBeacon ==
    /\ StreamOpen /\ ChannelLockFree /\ CtrlIdle
    /\ c.produced = c.consumed
    /\ ctrl' = [type |-> "beacon"]
    /\ c' = [c EXCEPT !.timer = "beacon"]
    /\ UNCHANGED <<data, ctrl_end, data_end>>

BeaconReply ==
    /\ Running /\ c.timer = "beacon" /\ IsReply
    /\ Acknowledged([c EXCEPT !.timer = "idle"])

\* The daemon dies: the kernel closes both connections.  Of a packet that was
\* being written, any part may have been sent.
Crash ==
    /\ Running
    /\ c' = [c EXCEPT !.alive = FALSE]
    /\ \E n \in 0 .. Len(data) :
         /\ \A i \in n + 1 .. Len(data) :
               c.reading.state = "index" /\ data[i][1] = c.reading.net
         /\ data' = SubSeq(data, 1, n)
    /\ ctrl_end' = "eof"
    /\ data_end' = IF data_end = "open" THEN "eof" ELSE data_end
    /\ UNCHANGED ctrl

\* The data connection breaks: what was not delivered may be lost.
DataConnectionReset ==
    /\ Resets
    /\ data_end # "reset"
    /\ data_end' = "reset"
    /\ \E n \in 0 .. Len(data) : data' = SubSeq(data, 1, n)
    /\ UNCHANGED <<c, ctrl, ctrl_end>>
=============================================================================
