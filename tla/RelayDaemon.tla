---------------------------- MODULE RelayDaemon ----------------------------
(***************************************************************************)
(* The relay daemon's worker thread (main.c) serving the control and the   *)
(* data connection of a session of one data stream: one action per command *)
(* and per step of the reception of a packet, and the closing of the       *)
(* connections.                                                            *)
(*                                                                         *)
(* The worker polls both connections and may find either readable; that it *)
(* prefers the control connection when both are is not used.               *)
(***************************************************************************)
EXTENDS RelayStream, RelaySockets

CONSTANTS
    FirstChunk,         \* the session's trace chunk when the stream is added
    RelaySessionId,     \* session->id, given by the relay daemon
    SessiondSessionId   \* session->id_sessiond, given by the session daemon

ASSUME FirstChunkAssumption == FirstChunk \in Nat \ {NoChunk}

VARIABLES
    s,                  \* the stream
    session,            \* the session: its trace chunks and rotation state
    aborted,            \* session->aborted
    ctrl_conn,          \* the control connection is served
    data_conn           \* the data connection: its protocol state

daemon == <<s, session, aborted, ctrl_conn, data_conn>>

ReceiveHeader == [state |-> "header", net |-> Unset, received |-> 0,
                  rotate_index |-> FALSE]

DaemonInit ==
    /\ s = stream_create(FirstChunk)
    /\ session = [current_trace_chunk |-> FirstChunk,
                  pending_closure_trace_chunk |-> NoChunk,
                  ongoing_rotation |-> FALSE,
                  connection_closed |-> FALSE]
    /\ aborted = FALSE
    /\ ctrl_conn = TRUE
    /\ data_conn = [open |-> TRUE, has_session |-> FALSE,
                    protocol |-> ReceiveHeader]

\* stream_get_by_id finds the stream.
StreamFound == s.published

\* Mutant: a chunk leaves the registry with the session's references to it.
ChunkOfSession(chunk) ==
    chunk \in {session.current_trace_chunk,
               session.pending_closure_trace_chunk}

\* A trace chunk is in the registry while something refers to it.
ChunkInRegistry(chunk) ==
    \/ chunk \in {session.current_trace_chunk,
                  session.pending_closure_trace_chunk, s.chunk}
    \/ s.ongoing_rotation.is_set /\ chunk = s.ongoing_rotation.next_trace_chunk

-----------------------------------------------------------------------------
\* Closing a connection: connection_release, session_close, try_stream_close
\* of the session's streams.  An error aborts the session first.

\* Mutant: an error on the data connection does not abort the session.
CloseDataWithoutAbort(t, has_session, on_error) ==
    /\ data_conn' = [data_conn EXCEPT !.open = FALSE,
                                      !.has_session = has_session]
    /\ session' = [session EXCEPT !.connection_closed = @ \/ has_session]
    /\ s' = IF has_session THEN try_stream_close(t, aborted) ELSE t
    /\ data' = <<>>
    /\ UNCHANGED aborted

\* A data connection belongs to a session once the reading of a payload has
\* begun.  A closed one keeps whether it did.
CloseDataConnection(t, has_session, on_error) ==
    /\ data_conn' = [data_conn EXCEPT !.open = FALSE,
                                      !.has_session = has_session]
    /\ aborted' = (aborted \/ (on_error /\ has_session))
    /\ session' = [session EXCEPT !.connection_closed = @ \/ has_session]
    /\ s' = IF has_session THEN try_stream_close(t, aborted') ELSE t
    /\ data' = <<>>

CloseControlConnection(r, t, on_error) ==
    /\ ctrl_conn' = FALSE
    /\ session' = [r EXCEPT !.connection_closed = TRUE]
    /\ aborted' = (aborted \/ on_error)
    /\ s' = try_stream_close(t, aborted')

\* The stream a failed handler leaves.
Cleared(t) == [t EXCEPT !.error = FALSE]

\* The end of a control command, which leaves the session r and the stream t:
\* the reply; an error also closes the connection.
Conclude(r, t, ret_code) ==
    /\ ctrl' = Reply(IF t.error THEN "error" ELSE ret_code)
    /\ IF t.error THEN CloseControlConnection(r, Cleared(t), TRUE)
       ELSE session' = r /\ s' = t /\ UNCHANGED <<ctrl_conn, aborted>>
    /\ UNCHANGED <<data_conn, data, ctrl_end, data_end>>

Answer(t, ret_code) == Conclude(session, t, ret_code)

NotFound == [s EXCEPT !.error = TRUE]

-----------------------------------------------------------------------------
\* The control connection.

Received(type) == ctrl_conn /\ ~s.crashed /\ ctrl.type = type

relay_recv_index ==
    /\ Received("index")
    /\ Answer(IF StreamFound
              THEN stream_add_index(s, ctrl.net, ctrl.packet_seq_num)
              ELSE NotFound, "ok")

relay_recv_beacon ==
    /\ Received("beacon")
    /\ Answer(IF StreamFound THEN stream_add_beacon(s) ELSE NotFound, "ok")

\* The next chunk, if there is one, is looked up first.
relay_rotate_session_streams ==
    /\ Received("rotate")
    /\ Answer(IF /\ StreamFound
                 /\ \/ ctrl.next_trace_chunk = NoChunk
                    \/ ChunkInRegistry(ctrl.next_trace_chunk)
              THEN stream_set_pending_rotation(s, ctrl.next_trace_chunk,
                                               ctrl.packet_seq_num)
              ELSE NotFound, "ok")

\* The directory renames are left out; a chunk already waiting to be closed is
\* an error found after ongoing_rotation was set.
relay_create_trace_chunk ==
    /\ Received("create_chunk")
    /\ IF session.pending_closure_trace_chunk # NoChunk
       THEN Conclude([session EXCEPT !.ongoing_rotation = TRUE], NotFound, "ok")
       ELSE Conclude([session EXCEPT
                        !.ongoing_rotation = (session.current_trace_chunk # NoChunk),
                        !.pending_closure_trace_chunk =
                            session.current_trace_chunk,
                        !.current_trace_chunk = ctrl.chunk], s, "ok")

relay_close_trace_chunk ==
    /\ Received("close_chunk")
    /\ LET pending == session.pending_closure_trace_chunk
           current == session.current_trace_chunk
       IN  IF \/ ~ChunkInRegistry(ctrl.chunk)
              \/ pending \notin {NoChunk, ctrl.chunk}
           THEN Answer(NotFound, "ok")
           ELSE Conclude([session EXCEPT
                            !.ongoing_rotation =
                                @ /\ current \in {NoChunk, ctrl.chunk},
                            !.current_trace_chunk =
                                IF @ = ctrl.chunk THEN NoChunk ELSE @,
                            !.pending_closure_trace_chunk = NoChunk], s, "ok")

\* The chunk is looked up by the relay daemon's session id; the other commands
\* use the session daemon's, under which chunks are published.
relay_trace_chunk_exists ==
    /\ Received("chunk_exists")
    /\ Answer(s, IF /\ RelaySessionId = SessiondSessionId
                    /\ ChunkInRegistry(ctrl.chunk)
                 THEN "exists" ELSE "unknown")

RecvCloseStream ==
    /\ Received("close")
    /\ Answer(IF StreamFound
              THEN relay_close_stream(s, ctrl.last_net_seq_num, aborted)
              ELSE NotFound, "ok")

RecvDataPending ==
    /\ Received("data_pending")
    /\ Answer(IF StreamFound THEN s ELSE NotFound,
              IF relay_data_pending(s, ctrl.last_net_seq_num)
              THEN "pending" ELSE "not_pending")

\* The streams that the peer did not check are those it has deleted.
relay_end_data_pending ==
    /\ Received("end_data_pending")
    /\ Answer(s, IF StreamFound THEN "pending" ELSE "not_pending")

CtrlEnd ==
    /\ ctrl_conn /\ ~s.crashed
    /\ ctrl = NoMessage \/ IsReply
    /\ ctrl_end # "open"
    /\ CloseControlConnection(session, s, ctrl_end = "reset")
    /\ UNCHANGED <<data_conn, sockets>>

-----------------------------------------------------------------------------
\* The data connection.

DataReadable(state) ==
    data_conn.open /\ ~s.crashed /\ data_conn.protocol.state = state

relay_process_data_receive_header ==
    /\ DataReadable("header")
    /\ data # <<>>
    /\ LET net == Head(data)[1]
           t == IF StreamFound THEN stream_init_packet(s) ELSE NotFound
       IN  IF t.error
           THEN CloseDataConnection(Cleared(t), data_conn.has_session, TRUE)
           ELSE /\ s' = t
                /\ data_conn' = [data_conn EXCEPT !.protocol =
                     [state |-> "payload", net |-> net, received |-> 0,
                      rotate_index |-> PacketRotatesFile(s)]]
                /\ data' = Tail(data)
                /\ UNCHANGED <<aborted, session>>
    /\ UNCHANGED <<ctrl_conn, ctrl, ctrl_end, data_end>>

\* The end of a payload: padding, index, rotation, and the close that waited
\* for this packet.
CompletePacket(t, net, rotate_index) ==
    LET padded == stream_write(t, net, PaddingSize)
        indexed == stream_update_index(padded, net, rotate_index)
        flushed == indexed.index_received_seqcount > t.index_received_seqcount
        done == stream_complete_packet(indexed, net, flushed)
    IN  CASE padded.error -> padded
          [] ~padded.error /\ indexed.error -> indexed
          [] OTHER -> IF done.close_requested /\ ~done.crashed
                      THEN try_stream_close(done, aborted) ELSE done

\* Part of a payload, up to its end.
relay_process_data_receive_payload ==
    /\ DataReadable("payload")
    /\ \E n \in 1 .. DataSize - data_conn.protocol.received :
         /\ n <= Len(data)
         /\ LET p == data_conn.protocol
                part == IF StreamFound THEN stream_write(s, p.net, n)
                        ELSE NotFound
                last == p.received + n = DataSize
                t == IF ~part.error /\ last
                     THEN CompletePacket(part, p.net, p.rotate_index)
                     ELSE part
            IN  IF t.error
                THEN CloseDataConnection(Cleared(t),
                       data_conn.has_session \/ StreamFound, TRUE)
                ELSE /\ s' = t
                     /\ data_conn' = [data_conn EXCEPT
                          !.has_session = TRUE,
                          !.protocol = IF last THEN ReceiveHeader
                                       ELSE [p EXCEPT !.received = @ + n]]
                     /\ data' = SubSeq(data, n + 1, Len(data))
                     /\ UNCHANGED <<aborted, session>>
    /\ UNCHANGED <<ctrl_conn, ctrl, ctrl_end, data_end>>

\* End of file or error.  In the middle of a payload the connection is given
\* the stream's session before the read fails.
DataEnd ==
    /\ data_conn.open /\ ~s.crashed
    /\ data = <<>>
    /\ data_end # "open"
    /\ LET in_payload == data_conn.protocol.state = "payload"
       IN  CloseDataConnection(s,
             data_conn.has_session \/ (in_payload /\ StreamFound),
             data_end = "reset" \/ (in_payload /\ ~StreamFound))
    /\ UNCHANGED <<ctrl_conn, ctrl, ctrl_end, data_end>>

relay_process_control ==
    \/ relay_recv_index \/ relay_recv_beacon \/ relay_rotate_session_streams
    \/ relay_create_trace_chunk \/ relay_close_trace_chunk
    \/ relay_trace_chunk_exists
    \/ RecvCloseStream \/ RecvDataPending \/ relay_end_data_pending
    \/ CtrlEnd

relay_process_data ==
    \/ relay_process_data_receive_header \/ relay_process_data_receive_payload
    \/ DataEnd

DaemonNext == relay_process_control \/ relay_process_data
=============================================================================
