----------------------------- MODULE LiveViewer -----------------------------
(***************************************************************************)
(* A live viewer reading a data stream of the relay daemon while it is     *)
(* being recorded (live.c, viewer-stream.c, viewer-session.c).  The relay  *)
(* side is module LiveStream.                                              *)
(*                                                                         *)
(* The live worker holds the session and the stream lock while it handles  *)
(* a request about a stream, so a request is one step.  A session has one  *)
(* viewer at a time.                                                       *)
(***************************************************************************)
EXTENDS LiveStream

CONSTANTS
    MaxViewers,         \* bound: viewers that attach
    Seeks               \* the seek types they use

ASSUME LiveViewerAssumption ==
    /\ MaxViewers \in Nat
    /\ Seeks \subseteq {"beginning", "last"}

VARIABLE viewer         \* the connection, its viewer session and stream

allvars == <<relay, viewer>>

NoStream == [exists |-> FALSE, sent_flag |-> FALSE, current_tracefile_id |-> 0,
             index_sent_seqcount |-> 0, trace_chunk |-> NoChunk,
             index_file |-> NoFile, pos |-> 0, handle |-> NoFile,
             last_seen_rotation_count |-> 0]

NoViewer == [attached |-> FALSE, chunk |-> NoChunk, stream |-> NoStream,
             reply |-> "none", index |-> [seq |-> Unset, offset |-> 0],
             packet |-> Unset, ahead |-> FALSE]

LiveInit == StreamInit /\ viewer = NoViewer

-----------------------------------------------------------------------------
\* Viewer streams.

\* The viewer stream of a published relay stream, for the trace chunk "chunk".
viewer_stream_create(chunk, seek) ==
    LET id == IF seek = "last" THEN tfa.file_head_read ELSE tfa.file_tail
        ifile == IF stream.index_file = NoFile \/ chunk = NoChunk THEN NoFile
                 ELSE OpenFile(stream.ifiles, chunk, id)
    IN  [exists |-> TRUE, sent_flag |-> FALSE,
         current_tracefile_id |-> id,
         index_sent_seqcount |-> IF seek = "last" THEN tfa.seq_head + 1 ELSE Tail0,
         trace_chunk |-> chunk,
         index_file |-> ifile,
         pos |-> IF seek = "last" /\ ifile # NoFile
                 THEN Len(stream.ifiles[ifile].packets) ELSE 0,
         handle |-> IF stream.file = NoFile \/ chunk = NoChunk THEN NoFile
                    ELSE OpenFile(stream.dfiles, chunk, id),
         last_seen_rotation_count |-> stream.completed_rotation_count]

\* The data file cannot be opened.
CreateFails(vs) ==
    stream.file # NoFile /\ vs.trace_chunk # NoChunk /\ vs.handle = NoFile

\* Mutant: the index file stays open.
close_data_only(vs) == [vs EXCEPT !.handle = NoFile]

\* Mutant: the data file stays open.
close_index_only(vs) == [vs EXCEPT !.index_file = NoFile, !.pos = 0]

viewer_stream_close_files(vs) ==
    [vs EXCEPT !.index_file = NoFile, !.pos = 0, !.handle = NoFile]

viewer_stream_sync_tracefile_array_tail(vs) ==
    [vs EXCEPT !.current_tracefile_id = tfa.file_tail,
               !.index_sent_seqcount = UMax(Tail0, @)]

viewer_stream_rotate_to_trace_chunk(vs, chunk) ==
    viewer_stream_close_files(
        viewer_stream_sync_tracefile_array_tail([vs EXCEPT !.trace_chunk = chunk]))

\* Mutant: the next file is not tried before the tail.
rotate_to_tail(vs) ==
    viewer_stream_close_files([vs EXCEPT !.current_tracefile_id = tfa.file_tail,
                                         !.index_sent_seqcount = tfa.seq_tail])

\* Mutant: a viewer that lags behind the tail is not resynchronised.
rotate_to_next(vs) ==
    viewer_stream_close_files([vs EXCEPT !.current_tracefile_id = NextFile(@)])

\* viewer_stream_rotate, not at the end of the stream.
viewer_stream_rotate(vs) ==
    LET new_id == NextFile(vs.current_tracefile_id)
    IN  IF count = 0 THEN vs
        ELSE viewer_stream_close_files(
            IF tracefile_array_seq_in_file(tfa, new_id, vs.index_sent_seqcount)
            THEN [vs EXCEPT !.current_tracefile_id = new_id]
            ELSE [vs EXCEPT !.current_tracefile_id = tfa.file_tail,
                            !.index_sent_seqcount = tfa.seq_tail])

-----------------------------------------------------------------------------
\* Requests of the viewer.

\* make_viewer_streams for viewer v: unpublished streams are skipped, and a
\* stream that has a viewer stream keeps it.
make_viewer_streams(v, seek) ==
    IF stream.closed \/ v.stream.exists THEN v
    ELSE LET vs == viewer_stream_create(stream.trace_chunk, seek)
         IN  IF CreateFails(vs) THEN [NoViewer EXCEPT !.reply = "closed"]
             ELSE [v EXCEPT
                    !.stream = vs,
                    !.chunk = IF stream.is_rotating /\ stream.trace_chunk # NoChunk
                              THEN @ ELSE stream.trace_chunk,
                    !.ahead = vs.index_sent_seqcount > received]

\* The session has been closed: the streams are made, and not sent.
viewer_attach_session(seek) ==
    LET v == [NoViewer EXCEPT !.attached = TRUE,
                              !.chunk = session.current_trace_chunk]
        made == make_viewer_streams(v, seek)
    IN  /\ ~viewer.attached
        /\ session.viewers < MaxViewers
        /\ session' = [session EXCEPT !.viewers = @ + 1]
        /\ viewer' =
            IF session.ongoing_rotation THEN v
            ELSE [made EXCEPT !.stream.sent_flag =
                    made.stream.exists /\ ~session.connection_closed]
        /\ UNCHANGED <<tfa, received, open, stream>>

viewer_get_new_streams ==
    LET made == make_viewer_streams(viewer, "beginning")
    IN  /\ viewer.attached /\ viewer.reply # "ok"
        /\ ~session.ongoing_rotation
        /\ ~viewer.stream.sent_flag
        /\ viewer' = IF session.connection_closed /\ stream.closed
                     THEN [made EXCEPT !.reply = "hup"]
                     ELSE [made EXCEPT !.stream.sent_flag = made.stream.exists]
        /\ viewer' # viewer
        /\ UNCHANGED relay

\* viewer_detach_session, or the end of the viewer's connection.
viewer_session_close_one_session ==
    /\ viewer.attached
    /\ viewer' = NoViewer
    /\ UNCHANGED relay

\* Mutant: the viewer stream stays behind whatever chunk the stream went to.
StaysOneRotation(v) ==
    LET vs == v.stream
        last == stream.completed_rotation_count = vs.last_seen_rotation_count + 1
    IN  [v EXCEPT
            !.chunk = stream.trace_chunk,
            !.stream =
                IF vs.trace_chunk = stream.trace_chunk \/ last THEN vs
                ELSE [viewer_stream_rotate_to_trace_chunk(vs, stream.trace_chunk)
                        EXCEPT !.last_seen_rotation_count =
                                    stream.completed_rotation_count]]

\* viewer_get_next_index, up to check_index_status.  The viewer stream stays in
\* the last chunk of a stream that has just been rotated to no chunk.
ToNewestChunk(v) ==
    LET vs == v.stream
        last == /\ stream.trace_chunk = NoChunk
                /\ stream.completed_rotation_count = vs.last_seen_rotation_count + 1
    IN  [v EXCEPT
            !.chunk = stream.trace_chunk,
            !.stream =
                IF vs.trace_chunk = stream.trace_chunk \/ last THEN vs
                ELSE [viewer_stream_rotate_to_trace_chunk(vs, stream.trace_chunk)
                        EXCEPT !.last_seen_rotation_count =
                                    stream.completed_rotation_count]]

Reply(v, status) ==
    [v EXCEPT !.reply = status, !.index = NoViewer.index, !.packet = Unset]

\* The viewer stream is put, and released.
Hup(v) == [Reply(v, "hup") EXCEPT !.stream = NoStream]

InFile(vs) == tracefile_array_seq_in_file(tfa, vs.current_tracefile_id,
                                          vs.index_sent_seqcount)

\* The reply "proceed" stands for the value 0: the index can be read.
check_index_status(v) ==
    LET vs == v.stream
        sent == vs.index_sent_seqcount
        rotated == IF InFile(vs) THEN vs ELSE viewer_stream_rotate(vs)
    IN  IF (session.connection_closed \/ stream.closed) /\ received = sent
        THEN Hup(v)
        ELSE IF received = 0 \/ (sent # 0 /\ received <= sent)
        THEN Reply(v, IF stream.beacon THEN "inactive" ELSE "retry")
        ELSE Reply([v EXCEPT !.stream = rotated],
                   IF InFile(rotated) THEN "proceed"
                   ELSE IF count = 1 THEN "retry" ELSE "abort")

\* The files are opened; "lost" is the error path that sends no reply.
OpenFiles(v) ==
    LET vs == v.stream
        ifile == IF vs.index_file # NoFile \/ vs.trace_chunk = NoChunk
                 THEN vs.index_file
                 ELSE OpenFile(stream.ifiles, vs.trace_chunk, vs.current_tracefile_id)
        handle == IF vs.handle # NoFile THEN vs.handle
                  ELSE OpenFile(stream.dfiles, vs.trace_chunk, vs.current_tracefile_id)
        missing == IF stream.closed THEN "hup" ELSE "retry"
    IN  IF ifile = NoFile THEN Reply(v, missing)
        ELSE IF handle = NoFile
        THEN [v EXCEPT !.stream.index_file = ifile,
                       !.reply = IF stream.closed THEN "hup" ELSE "lost"]
        ELSE [v EXCEPT !.stream.index_file = ifile, !.stream.handle = handle]

lttng_index_file_read(v) ==
    LET vs == v.stream
        entries == stream.ifiles[vs.index_file].packets
    IN  IF vs.pos >= Len(entries) THEN Reply(v, "err")
        ELSE [v EXCEPT !.stream.pos = @ + 1,
                       !.stream.index_sent_seqcount = @ + 1,
                       !.index = entries[vs.pos + 1],
                       !.reply = "ok"]

\* The viewer asks for the packet of an index before the next index.
viewer_get_next_index ==
    /\ viewer.stream.sent_flag
    /\ viewer.reply \notin {"ok", "abort", "lost", "closed"}
    /\ UNCHANGED relay
    /\ \/ /\ stream.is_rotating \/ session.ongoing_rotation
          /\ viewer' = Reply(viewer, "retry")
       \/ /\ ~stream.is_rotating /\ ~session.ongoing_rotation
          /\ \E v \in {ToNewestChunk(viewer)} :
             \E checked \in {check_index_status(v)} :
             \E opened \in {OpenFiles(checked)} :
                viewer' = IF checked.reply # "proceed" THEN checked
                          ELSE IF opened.reply # "proceed" THEN opened
                          ELSE lttng_index_file_read(opened)

viewer_get_packet ==
    LET vs == viewer.stream
        data == stream.dfiles[vs.handle].packets
    IN  /\ viewer.reply = "ok"
        /\ viewer' = IF viewer.index.offset > Len(data) THEN Reply(viewer, "err")
                     ELSE [viewer EXCEPT !.packet = data[viewer.index.offset],
                                         !.reply = "packet"]
        /\ UNCHANGED relay

-----------------------------------------------------------------------------
ViewerNext ==
    \/ \E seek \in Seeks : viewer_attach_session(seek)
    \/ viewer_get_new_streams
    \/ viewer_get_next_index
    \/ viewer_get_packet
    \/ viewer_session_close_one_session

LiveNext ==
    \/ RelayNext /\ UNCHANGED viewer
    \/ ViewerNext

LiveSpec == LiveInit /\ [][LiveNext]_allvars

\* The relay daemon completes what it has begun to receive (RotationCompletes
\* and PacketsAreStored of ConsumerRelay), and an attached viewer keeps asking.
FairLiveSpec ==
    /\ LiveSpec
    /\ WF_allvars(/\ StartPacket /\ (stream.is_rotating \/ stream.close_requested)
                  /\ UNCHANGED viewer)
    /\ WF_allvars(EndPacket /\ UNCHANGED viewer)
    /\ WF_allvars(/\ session.ongoing_rotation
                  /\ \E next \in {NoChunk, session.current_trace_chunk} :
                        RotateStream(next)
                  /\ UNCHANGED viewer)
    /\ WF_allvars(/\ \E delete \in BOOLEAN : CloseTraceChunk(delete)
                  /\ UNCHANGED viewer)
    /\ WF_allvars(viewer_get_next_index)
    /\ WF_allvars(viewer_get_packet)

-----------------------------------------------------------------------------
\* The relay stream has no chunk, and the viewer's is not the last it had.
InOldChunk ==
    /\ stream.trace_chunk = NoChunk
    /\ viewer.stream.trace_chunk # NoChunk
    /\ \E c \in StreamChunks : c > viewer.stream.trace_chunk

(***************************************************************************)
(* The index sent is the one index_sent_seqcount counts: whatever          *)
(* overwrites, rotations and clears happened between two requests, the     *)
(* position in the index file that viewer_get_next_index reads (live.c:    *)
(* 1764) and the count it increments designate the same packet.  Not so    *)
(* for a viewer that attached to the end of a stream whose array announces *)
(* an index it has not received ("ahead"), nor for one left in an old      *)
(* chunk (see LeavesOldChunks).                                            *)
(***************************************************************************)
IndexIsTheNextOne ==
    viewer.reply = "ok" /\ ~viewer.ahead /\ ~InOldChunk =>
        viewer.index.seq = viewer.stream.index_sent_seqcount - 1

(***************************************************************************)
(* viewer_get_packet (live.c:1918) reads, at the offset of the last index  *)
(* sent, the packet of that index: the data file the viewer stream holds   *)
(* is that of its index file, even if both have since been overwritten     *)
(* (live.c:1726) or belong to a chunk that was left.                       *)
(***************************************************************************)
PacketIsIndexed ==
    viewer.reply = "packet" => viewer.packet = viewer.index.seq

(***************************************************************************)
(* A request for the next index never goes back over indexes already sent, *)
(* and passes over an index only if it was overwritten or belongs to a     *)
(* chunk the relay stream has left: "we need to resync because we lag      *)
(* behind tail" (viewer-stream.c:362).  A viewer stream that has lost its  *)
(* chunk with the end of the relay stream is moved back to the tail, and   *)
(* has no file to read from there.                                         *)
(***************************************************************************)
OnlyLostIndexesAreSkipped ==
    [][viewer.stream.exists /\ viewer'.stream.exists
       /\ viewer'.stream.trace_chunk # NoChunk =>
        LET sent == viewer.stream.index_sent_seqcount
            upto == viewer'.stream.index_sent_seqcount
        IN  /\ sent <= upto
            /\ ~viewer.ahead /\ ~InOldChunk' =>
                \A n \in sent .. upto - 1 :
                    \/ n < tfa.seq_tail
                    \/ viewer'.reply = "ok" /\ viewer'.index.seq = n]_allvars

\* The assertion of check_index_status does not fail.
AssertionHolds == viewer.reply # "abort"

(***************************************************************************)
(* Every request is answered, and not with an error: the assertion of      *)
(* check_index_status ("the updated index_sent_seqcount needs to point to  *)
(* a readable index entry now", live.c:1531) holds, a file that is opened  *)
(* is there, and it holds the index and the packet read.                   *)
(***************************************************************************)
RequestsAreAnswered ==
    /\ AssertionHolds
    /\ viewer.reply \notin {"lost", "closed"}
    /\ viewer.reply = "err" => InOldChunk

\* The connection ended in the middle of a rotation, which never completes.
RotationCut ==
    session.connection_closed /\ (stream.is_rotating \/ session.ongoing_rotation)

(***************************************************************************)
(* An attached viewer that keeps asking is sent, or is moved past, every   *)
(* index received, unless its viewer stream ends or the files are taken    *)
(* from it: neither the overwriting of files, nor rotations, nor the       *)
(* retries they are answered with leave it behind forever.                 *)
(***************************************************************************)
ViewerCatchesUp ==
    viewer.stream.sent_flag ~>
        \/ ~viewer.stream.exists
        \/ viewer.stream.index_sent_seqcount >= received
        \/ viewer.stream.trace_chunk = NoChunk /\ stream.trace_chunk = NoChunk
        \/ Deleted(viewer.stream.trace_chunk)
        \/ RotationCut \/ InOldChunk

(***************************************************************************)
(* "Note that the stream must _not_ rotate in one precise condition: the   *)
(* relay stream has rotated to a NULL trace chunk and the viewer stream is *)
(* consuming the trace chunk that was active just before that rotation to  *)
(* NULL" (live.c:1683): a viewer stream that is left in a chunk when the   *)
(* relay stream has none is in the last chunk of that stream.              *)
(***************************************************************************)
LeavesOldChunks ==
    [][viewer_get_next_index /\ viewer'.reply # "retry" => ~InOldChunk']_allvars
=============================================================================
