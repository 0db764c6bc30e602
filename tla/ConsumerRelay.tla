--------------------------- MODULE ConsumerRelay ---------------------------
(***************************************************************************)
(* A stream from end to end: the consumer daemon, the two connections and  *)
(* the relay daemon.                                                       *)
(***************************************************************************)
EXTENDS ConsumerDaemon, RelayDaemon

vars == <<c, sockets, daemon>>

Init == SocketsInit /\ ConsumerInit /\ DaemonInit

\* The threads of the consumer daemon.
DataThread ==
    \/ lttng_consumer_read_subbuffer
    \/ ReadSubbufferFails
    \/ consumer_stream_write_index
    \/ IndexReply
    \/ CloseReply

\* The steps of a command that was begun, and of the checks that follow a
\* rotation.
CommandProgress ==
    \/ lttng_consumer_create_trace_chunk \/ CreateChunkReply
    \/ lttng_consumer_rotate_channel \/ RotateReply \/ ChannelNotFound
    \/ lttng_consumer_rotate_ready_streams
    \/ lttng_consumer_close_trace_chunk \/ CloseChunkReply
    \/ lttng_consumer_trace_chunk_exists \/ ChunkExistsReply
    \/ relayd_data_pending \/ DataPendingReply

CommandThread ==
    \/ CommandProgress
    \/ RotateSession \/ StartTracing \/ StopTracing
    \/ consumer_data_pending
    \/ consumer_destroy_relayd

TimerThread == LiveBeacon \/ BeaconReply

Tracer == Produce \/ OverwritePacket

Environment == Crash \/ DataConnectionReset

Next ==
    \/ (DataThread \/ consumer_stream_relayd_close \/ CommandThread
         \/ TimerThread \/ Tracer \/ Environment)
         /\ UNCHANGED daemon
    \/ DaemonNext /\ UNCHANGED c

Spec == Init /\ [][Next]_vars

ASSUME SameStream == PacketBytes = DataSize /\ InitialChunk = FirstChunk

\* Scheduling: the worker of the relay daemon polls and serves both connections
\* for ever.  It goes back to poll after a control command, and a peer that waits
\* for its reply has not sent another one by then, so that the data connection
\* is served too.  The threads of the consumer daemon never wait for ever on a
\* reply or on a lock (the replies are the relay daemon's, the locks are released
\* with them).  The live timer fires once a period, which leaves the control
\* socket to a command that waits for it: the fairness of commands is strong.
\* Nothing makes the tracer produce, the session daemon send commands or the
\* connections break.
\*
\* Fairness has its ENABLED written out: the Ready predicates
\* say when each of them has a step to take.
ControlReady ==
    /\ ctrl_conn /\ ~s.crashed
    /\ ctrl.type \notin {"none", "reply"} \/ ctrl_end # "open"

DataReady ==
    /\ data_conn.open /\ ~s.crashed
    /\ data # <<>> \/ data_end # "open"

DataThreadReady ==
    /\ Running
    /\ \/ ChannelLockFree /\ c.stream /\ c.consumed < c.produced
       \/ c.reading.state = "index" /\ CtrlIdle
       \/ c.reading.state \in {"reply", "closing"} /\ IsReply

CommandReady ==
    /\ Running
    /\ \/ /\ IsReply
          /\ c.command \in {"creating", "rotate", "closing", "chunk_exists",
                            "data_pending"}
       \/ CtrlIdle /\ c.command = "ask_pending"
       \/ /\ CtrlIdle /\ ChannelLockFree
          /\ c.command \in {"create_chunk", "rotate_channel", "close_chunk"}
       \/ /\ CtrlIdle /\ c.command = "none" /\ c.rotation_state = "ongoing"
          /\ c.chunk_being_archived \notin {c.trace_chunk, c.channel_chunk}
       \/ c.command = "rotate_ready" /\ c.reading = Idle

TimerReady == Running /\ c.timer = "beacon" /\ IsReply

Fairness ==
    /\ []<>~ControlReady \/ []<><<relay_process_control /\ UNCHANGED c>>_vars
    /\ []<>~DataReady \/ []<><<relay_process_data /\ UNCHANGED c>>_vars
    /\ []<>~DataThreadReady \/ []<><<DataThread /\ UNCHANGED daemon>>_vars
    /\ <>[]~CommandReady \/ []<><<CommandProgress /\ UNCHANGED daemon>>_vars
    /\ []<>~TimerReady \/ []<><<BeaconReply /\ UNCHANGED daemon>>_vars

FairSpec == Spec /\ Fairness

-----------------------------------------------------------------------------
(***************************************************************************)
(* The relay daemon survives every command and packet of this consumer: no *)
(* assertion of stream.c fails, no NULL file is referenced and no division *)
(* by zero happens (stream.c:231, 233, 1012; index.c:367).                 *)
(***************************************************************************)
NeverCrashes == ~s.crashed

\* The files on disk: of those with a name, the last created.
OnDisk(files) ==
    {k \in DOMAIN files : \A j \in DOMAIN files :
        files[j].chunk = files[k].chunk /\ files[j].index = files[k].index
           => j <= k}

\* A trace file was begun over an older one of its name and its index file is
\* not there yet (it is created at the end of the packet).
BeingReplaced(f) ==
    /\ data_conn.protocol.rotate_index
    /\ \E k \in OnDisk(s.dfiles) :
          /\ s.dfiles[k].chunk = f.chunk /\ s.dfiles[k].index = f.index
          /\ \A j \in DOMAIN s.dfiles : j <= k

(***************************************************************************)
(* Every index on disk points at its packet: in the data file of the same  *)
(* trace chunk and number, the cells at its offset are those of its        *)
(* packet, all of them.  This is what stream_update_index's data_offset    *)
(* and the files chosen by the two rotations must achieve together.        *)
(***************************************************************************)
IndexPointsAtPacket ==
    \A i \in OnDisk(s.ifiles), k \in OnDisk(s.dfiles) :
        LET ifile == s.ifiles[i]
            dfile == s.dfiles[k]
        IN  /\ ifile.chunk = dfile.chunk /\ ifile.index = dfile.index
            /\ ~BeingReplaced(ifile)
            => \A e \in DOMAIN ifile.entries :
                  LET entry == ifile.entries[e]
                  IN  /\ entry.offset + PacketSize <= Len(dfile.cells)
                      /\ \A p \in 1 .. PacketSize :
                            dfile.cells[entry.offset + p] = entry.net

\* The data connection never broke, and the tracer overwrote no packet.
NothingLost == data_end # "reset" /\ c.consumed = c.next_net_seq_num

\* The chunk the n-th rotation leads to, FirstChunk before the first.
ChunkAfter(n) == IF n = 0 THEN FirstChunk ELSE c.rotations[n].chunk

\* The rotations that a packet comes after.
RotationsBefore(packet_seq_num) ==
    {n \in DOMAIN c.rotations : c.rotations[n].position <= packet_seq_num}

Largest(S) == CHOOSE n \in S \cup {0} : \A m \in S : m <= n

(***************************************************************************)
(* A packet is stored in the trace chunk that was current when it was      *)
(* produced: a packet from the rotation position on is in the new chunk,   *)
(* one before it is in the old chunk, however late the data arrives        *)
(* (try_rotate_stream_index and try_rotate_stream_data, stream.c:343-536), *)
(* if no earlier packet was overwritten by the tracer.                     *)
(***************************************************************************)
PacketsInTheirChunk ==
    \A i \in DOMAIN s.ifiles : \A e \in DOMAIN s.ifiles[i].entries :
        s.ifiles[i].entries[e].packet_seq_num = s.ifiles[i].entries[e].net =>
        s.ifiles[i].chunk =
            ChunkAfter(Largest(RotationsBefore(
                s.ifiles[i].entries[e].packet_seq_num)))

(***************************************************************************)
(* When the session daemon takes a rotation for completed, the stream has  *)
(* left the archived trace chunk in both daemons, so that the next         *)
(* rotation cannot "overlap with the ongoing rotation, which is not        *)
(* supported" (sessiond/cmd.c:2739; check_session_rotation_pending,        *)
(* rotation-thread.c:494-513).  And the rotation from no chunk to a new    *)
(* one that starts a stopped and rotated session, whose completion nobody  *)
(* waits for, is over when the command is: "it will happen immediately     *)
(* [...] on reception of the command" (sessiond/cmd.c:2798-2801).          *)
(***************************************************************************)
CompletedRotationsAreOver ==
    c.alive /\ NothingLost =>
        /\ c.rotation_state = "completed" /\ c.command = "none" =>
              /\ s.chunk # c.chunk_being_archived \/ s.chunk = NoChunk
              /\ s.closed \/ ~s.ongoing_rotation.is_set
        /\ c.starting /\ c.command = "rotate_ready" /\ ~s.closed =>
              ~s.ongoing_rotation.is_set /\ s.chunk = c.session_chunk

(***************************************************************************)
(* The rotation position "is a lower bound (inclusive) at which the next   *)
(* trace chunk starts" (consumer.c:4171-4175): also when the tracer        *)
(* overwrites packets, none from before the position is in a later chunk.  *)
(***************************************************************************)
PositionIsLowerBound ==
    \A i \in DOMAIN s.ifiles : \A e \in DOMAIN s.ifiles[i].entries :
        \A n \in DOMAIN c.rotations :
            s.ifiles[i].entries[e].packet_seq_num < c.rotations[n].position
              => s.ifiles[i].chunk < FirstChunk + n

(***************************************************************************)
(* Once the relay daemon has told the consumer that no data is pending,    *)
(* every packet sent is on disk with its index (relay_data_pending,        *)
(* main.c:2081: "Ensure that both the index and stream data have been      *)
(* flushed up to the requested point"), if none was lost on the way.       *)
(***************************************************************************)
NotPendingMeansStored ==
    c.verdict = "not_pending" /\ NothingLost =>
        /\ s.index_received_seqcount = c.next_net_seq_num
        /\ s.prev_data_seq = c.next_net_seq_num - 1

(***************************************************************************)
(* A stream closed by its consumer is closed on the relay daemon only when *)
(* all its packets and indexes were stored (try_stream_close,              *)
(* stream.c:930: "Don't close since we still have data pending"), unless   *)
(* the session was aborted by a broken connection.                         *)
(***************************************************************************)
CloseLosesNothing ==
    s.closed /\ c.closed /\ ~aborted =>
        s.index_received_seqcount = c.next_net_seq_num

(***************************************************************************)
(* "This prevents situations in which streams can be left opened because   *)
(* an index was received, the control connection is closed, and the data   *)
(* connection is closed (uncleanly) before the packet's data provided"     *)
(* (main.c:4034, 4131): no stream outlives its connections.  The exception *)
(* is a data connection that breaks before the reading of its first        *)
(* payload has begun: it has no session to abort (main.c:3714), and does   *)
(* leave the stream open.  One that breaks later does not.                 *)
(***************************************************************************)
NoStreamLeftOpen ==
    ~ctrl_conn /\ ~data_conn.open =>
        s.closed \/ (data_end = "reset" /\ ~data_conn.has_session)

(***************************************************************************)
(* The stream uses its tracefile array as module TracefileRing says.       *)
(***************************************************************************)
PacketOpen ==
    \/ data_conn.protocol.state = "payload"
    \/ \E n \in DOMAIN s.indexes : s.indexes[n].index_file # NoFile

Ring == INSTANCE TracefileRing WITH
            tfa <- s.tfa,
            received <- s.index_received_seqcount,
            open <- PacketOpen,
            MaxIndexes <- MaxPackets

RingSpec == Ring!Spec

-----------------------------------------------------------------------------
(***************************************************************************)
(* A rotation completes: once the relay daemon has accepted it, the stream *)
(* moves to the next trace chunk, if its consumer and its connections      *)
(* live; the packets that the position waits for have been produced.       *)
(***************************************************************************)
RotationCompletes ==
    s.ongoing_rotation.is_set ~>
        (~s.ongoing_rotation.is_set \/ s.closed \/ ~c.alive)

(***************************************************************************)
(* Every packet sent is stored with its index, whichever of the data and   *)
(* the index comes first, unless the consumer dies: no index stays in      *)
(* indexes_ht for want of its other half (index.c:262-289).                *)
(***************************************************************************)
PacketsAreStored ==
    \A n \in 0 .. MaxPackets - 1 :
        c.next_net_seq_num > n ~> (s.index_received_seqcount > n \/ ~c.alive)

(***************************************************************************)
(* A stream that its consumer closed, or whose consumer died, is closed by *)
(* the relay daemon (main.c:1744-1751 lists what triggers it).             *)
(***************************************************************************)
StreamCloses ==
    (c.reading.state = "closing" \/ ~c.alive) ~> s.closed
=============================================================================
