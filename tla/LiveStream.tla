---------------------------- MODULE LiveStream ------------------------------
(***************************************************************************)
(* A data stream of the relay daemon as a live viewer sees it (stream.c,   *)
(* session.c and main.c of lttng-relayd): module TracefileRing, which the  *)
(* relay daemon is shown to implement (ConsumerRelay), with the files of   *)
(* the stream, its trace chunk, rotations, clears and its end.  A packet   *)
(* is named by its index sequence count, and appears in its data file when *)
(* its index is written.                                                   *)
(***************************************************************************)
EXTENDS TracefileRing, Sequences

CONSTANT MaxChunks      \* bound: trace chunks of the session

ASSUME LiveStreamAssumption == MaxChunks \in Nat \ {0}

VARIABLES stream,       \* the relay_stream, but for its tfa
          session       \* the relay_session

relay == <<tfa, received, open, stream, session>>

NoChunk == 0
NoFile == 0

File(chunk, index) == [chunk |-> chunk, index |-> index, packets |-> <<>>]

StreamInit ==
    /\ Init
    /\ stream = [trace_chunk |-> 1, dfiles |-> <<File(1, 0)>>, file |-> 1,
                 ifiles |-> <<>>, index_file |-> NoFile,
                 rotate_index |-> FALSE,        \* of the packet being received
                 is_rotating |-> FALSE, next_trace_chunk |-> NoChunk,
                 completed_rotation_count |-> 0, beacon |-> FALSE,
                 close_requested |-> FALSE, closed |-> FALSE]
    /\ session = [current_trace_chunk |-> 1, pending_closure |-> NoChunk,
                  ongoing_rotation |-> FALSE, connection_closed |-> FALSE,
                  cleared |-> {}, chunks |-> 1, viewers |-> 0]

-----------------------------------------------------------------------------
\* The relay side.

FileHead == IF count = 0 THEN 0 ELSE tfa.file_head_write

\* stream_init_packet; a new file is given the next number of the ring.
InitPacketOf(rotated) ==
    /\ stream.file # NoFile /\ stream.trace_chunk # NoChunk /\ ~stream.closed
    /\ received < MaxIndexes
    /\ stream' =
        IF rotated
        THEN [stream EXCEPT
                !.rotate_index = TRUE,
                !.dfiles = Append(@, File(stream.trace_chunk, NextFile(FileHead))),
                !.file = Len(stream.dfiles) + 1]
        ELSE stream
    /\ UNCHANGED session

StartPacket ==
    \/ InitPacket /\ InitPacketOf(FALSE)
    \/ count > 0 /\ InitPacketRotate /\ InitPacketOf(TRUE)

\* stream_update_index or stream_add_index: the index is written, to a new file
\* if the data file is new.
Written(st) ==
    LET k == IF st.rotate_index \/ st.index_file = NoFile
             THEN Len(st.ifiles) + 1 ELSE st.index_file
        files == IF k > Len(st.ifiles)
                 THEN Append(st.ifiles, File(st.trace_chunk, FileHead))
                 ELSE st.ifiles
    IN  [st EXCEPT
            !.ifiles = [files EXCEPT ![k].packets =
                Append(@, [seq |-> received,
                           offset |-> Len(st.dfiles[st.file].packets) + 1])],
            !.index_file = k,
            !.dfiles[st.file].packets = Append(@, received),
            !.rotate_index = FALSE,
            !.beacon = FALSE]

\* try_stream_close, nothing more is expected.
Closed(st) ==
    [st EXCEPT !.closed = TRUE, !.close_requested = TRUE,
               !.file = NoFile, !.index_file = NoFile,
               !.trace_chunk = NoChunk]

\* stream_rotate_data_file, try_rotate_stream_index, stream_complete_rotation.
Rotated(st, next) ==
    [st EXCEPT
        !.dfiles = IF next = NoChunk THEN @ ELSE Append(@, File(next, 0)),
        !.file = IF next = NoChunk THEN NoFile ELSE Len(st.dfiles) + 1,
        !.index_file = NoFile,
        !.trace_chunk = next,
        !.is_rotating = FALSE,
        !.completed_rotation_count = @ + 1]

\* The end of a packet closes the stream if it was the last one expected.
MayClose(st) ==
    {t \in {st} : st.close_requested => received + 1 < MaxIndexes}
    \cup {t \in {Closed(st)} : st.close_requested}

\* The packet that a rotation waits for comes before the last one, unless the
\* connection has ended.
EndPacket ==
    /\ \/ /\ stream.is_rotating => received + 1 < MaxIndexes
          /\ FlushIndex
          /\ stream' \in IF stream.is_rotating /\ ~session.connection_closed
                        THEN {Written(stream)} ELSE MayClose(Written(stream))
       \/ /\ stream.is_rotating
          /\ IF stream.next_trace_chunk = NoChunk THEN FlushIndex
             ELSE FlushCompletesRotation
          /\ stream' \in MayClose(Rotated(Written(stream), stream.next_trace_chunk))
    /\ UNCHANGED session

\* relay_create_trace_chunk, for a rotation to a new chunk.
CreateTraceChunk ==
    /\ session.chunks < MaxChunks
    /\ session.pending_closure = NoChunk
    /\ ~session.connection_closed
    /\ \/ stream.closed
       \/ /\ session.current_trace_chunk = stream.trace_chunk
          /\ ~stream.is_rotating /\ ~stream.close_requested
    /\ session' = [session EXCEPT
            !.ongoing_rotation = session.current_trace_chunk # NoChunk,
            !.pending_closure = session.current_trace_chunk,
            !.current_trace_chunk = session.chunks + 1,
            !.chunks = @ + 1]
    /\ UNCHANGED <<tfa, received, open, stream>>

\* The chunks the stream has been in.
StreamChunks == {stream.dfiles[k].chunk : k \in DOMAIN stream.dfiles}

\* relay_rotate_session_streams.  The rotation is completed by the command if
\* the stream has reached its position, by a later packet if not; a stream
\* without a chunk has reached it.
RotateStream(next) ==
    /\ ~stream.is_rotating /\ ~stream.closed
    /\ IF next = NoChunk THEN session.current_trace_chunk = stream.trace_chunk
       ELSE next = session.current_trace_chunk /\ next \notin StreamChunks
    /\ next # stream.trace_chunk
    /\ ~session.connection_closed /\ ~stream.close_requested
    /\ \/ /\ IF next = NoChunk THEN ~open /\ UNCHANGED <<tfa, received, open>>
             ELSE CompleteRotation
          /\ stream' = Rotated(stream, next)
       \/ /\ stream.trace_chunk # NoChunk
          /\ received < MaxIndexes
          /\ stream' = [stream EXCEPT !.is_rotating = TRUE, !.next_trace_chunk = next]
          /\ UNCHANGED <<tfa, received, open>>
    /\ UNCHANGED session

\* relay_close_trace_chunk, after the rotation of the stream was asked for: the
\* chunk is deleted by a clear, kept by the end of the session.
CloseTraceChunk(delete) ==
    LET chunk == IF session.pending_closure # NoChunk THEN session.pending_closure
                 ELSE session.current_trace_chunk
    IN  /\ chunk \in StreamChunks \/ (stream.closed /\ chunk # NoChunk)
        /\ ~session.connection_closed
        /\ \/ stream.trace_chunk # chunk
           \/ stream.is_rotating
        /\ session' = [session EXCEPT
                !.ongoing_rotation =
                    @ /\ session.current_trace_chunk \in {NoChunk, chunk},
                !.current_trace_chunk = IF @ = chunk THEN NoChunk ELSE @,
                !.pending_closure = NoChunk,
                !.cleared = IF delete THEN @ \cup {chunk} ELSE @]
        /\ UNCHANGED <<tfa, received, open, stream>>

\* Only flag a stream inactive when it has received data; the index of the
\* open packet may not be there yet.
AddBeacon ==
    /\ received > 0
    /\ ~stream.closed /\ ~stream.beacon /\ ~session.connection_closed
    /\ stream' = [stream EXCEPT !.beacon = TRUE]
    /\ UNCHANGED <<tfa, received, open, session>>

\* try_stream_close, for the command (closing = FALSE) or for the end of a
\* connection.  The open packet is waited for, or lost with its connection.
CloseStream(closing) ==
    /\ ~stream.close_requested
    /\ ~session.connection_closed
    /\ session' = [session EXCEPT !.connection_closed = closing]
    /\ \/ /\ open \/ stream.is_rotating
          /\ stream' = [stream EXCEPT !.close_requested = TRUE]
          /\ UNCHANGED <<tfa, received, open>>
       \/ /\ closing
          /\ AbandonPacket
          /\ stream' = Closed(stream)
       \/ /\ ~open /\ (stream.is_rotating => closing)
          /\ stream' = Closed(stream)
          /\ UNCHANGED <<tfa, received, open>>

\* The connection of a session whose streams are closed.
CloseConnection ==
    /\ stream.close_requested /\ ~session.connection_closed
    /\ session' = [session EXCEPT !.connection_closed = TRUE]
    /\ UNCHANGED <<tfa, received, open, stream>>

-----------------------------------------------------------------------------
\* What a viewer reads of the stream.

UMax(a, b) == IF a > b THEN a ELSE b

Tail0 == UMax(tfa.seq_tail, 0)

\* Opening files of a trace chunk.  Those of a cleared chunk are deleted when
\* the last user of the chunk, viewers not counted, has released it.

Deleted(chunk) ==
    /\ chunk \in session.cleared
    /\ chunk \notin {session.current_trace_chunk, session.pending_closure,
                    stream.trace_chunk}

\* The file of that name: the last one created.  NoFile: there is none.
OpenFile(files, chunk, index) ==
    LET Named(k) == files[k].chunk = chunk /\ files[k].index = index
        last == {k \in DOMAIN files :
                   Named(k) /\ \A j \in DOMAIN files : Named(j) => j <= k}
    IN  IF last = {} \/ Deleted(chunk) THEN NoFile ELSE CHOOSE k \in last : TRUE

-----------------------------------------------------------------------------
RelayNext ==
    \/ StartPacket \/ EndPacket
    \/ CreateTraceChunk
    \/ \E next \in {NoChunk, session.current_trace_chunk} : RotateStream(next)
    \/ \E delete \in BOOLEAN : CloseTraceChunk(delete)
    \/ AddBeacon
    \/ \E closing \in BOOLEAN : CloseStream(closing)
    \/ CloseConnection
=============================================================================
