---------------------------- MODULE RelayStream ----------------------------
(***************************************************************************)
(* A data stream of the relay daemon (stream.c): how the packets of the    *)
(* data connection and the indexes and commands of the control connection  *)
(* become trace files, index files and trace chunks.                       *)
(*                                                                         *)
(* Every operator takes the stream s, a record, and returns it as the C    *)
(* function of the same name leaves it.  The handlers run with the stream  *)
(* lock held and the daemon's worker is one thread, so a handler is one    *)
(* step; the reception of a packet is several (header, parts, end).        *)
(*                                                                         *)
(* A data file is a sequence of cells, each holding the net_seq_num of the *)
(* packet it belongs to; PacketSize cells make a packet.  s.error records  *)
(* that a handler failed, s.crashed that the daemon died in one: on an     *)
(* assertion, a NULL pointer or a division by zero.                        *)
(***************************************************************************)
EXTENDS RelayIndex

CONSTANTS
    DataSize,           \* cells of a packet's data (header.data_size)
    PaddingSize,        \* cells of its padding (header.padding_size)
    TracefileSize       \* stream->tracefile_size; 0 for no limit

ASSUME SizeAssumption ==
    /\ DataSize \in Nat \ {0}
    /\ PaddingSize \in Nat
    /\ TracefileSize \in Nat

PacketSize == DataSize + PaddingSize

NoChunk == 0            \* a NULL trace chunk; the others are 1, 2, ...

NoRotation == [is_set |-> FALSE, next_trace_chunk |-> NoChunk,
               packet_seq_num |-> 0, prev_data_net_seq |-> Unset,
               data_rotated |-> FALSE, index_rotated |-> FALSE]

-----------------------------------------------------------------------------
\* The data files named like the stream's current one in a chunk: those with
\* the same tracefile_current_index.  The last one created is on disk.
Named(s, chunk) ==
    {k \in DOMAIN s.dfiles : /\ s.dfiles[k].chunk = chunk
                             /\ s.dfiles[k].index = s.current_index}

Newest(K) == CHOOSE k \in K : \A j \in K : j <= k

\* The file is unlinked first if the ring wrapped around; if not, O_TRUNC
\* empties a file of that name in place.
stream_create_data_output_file(s, chunk) ==
    IF s.wrapped_around \/ Named(s, chunk) = {}
    THEN [s EXCEPT !.dfiles = Append(@, [chunk |-> chunk,
                                         index |-> s.current_index,
                                         cells |-> <<>>]),
                   !.file = Len(s.dfiles) + 1]
    ELSE LET k == Newest(Named(s, chunk))
         IN  [s EXCEPT !.dfiles[k].cells = <<>>, !.file = k]

\* create_index_file: the old one is put, the new one replaces (unlinks) a
\* file of its name.
create_index_file(s) ==
    [s EXCEPT !.ifiles = Append(@, [chunk |-> s.chunk,
                                    index |-> s.current_index,
                                    entries |-> <<>>]),
              !.index_file = Len(s.ifiles) + 1]

\* stream_create and stream_set_trace_chunk on the session's current chunk.
stream_create(chunk) ==
    stream_create_data_output_file(
      [prev_data_seq |-> Unset, prev_index_seq |-> Unset,
       last_net_seq_num |-> Unset,
       chunk |-> chunk, file |-> NoFile, index_file |-> NoFile,
       dfiles |-> <<>>, ifiles |-> <<>>,
       indexes |-> [n \in {} |-> relay_index_create],
       size_current |-> 0, current_index |-> 0, wrapped_around |-> FALSE,
       pos_after_last_complete |-> 0,
       tfa |-> tracefile_array_create, index_received_seqcount |-> 0,
       received_packet_seq_num |-> Unset,
       ongoing_rotation |-> NoRotation, completed_rotation_count |-> 0,
       beacon |-> FALSE,
       close_requested |-> FALSE, closed |-> FALSE, published |-> TRUE,
       error |-> FALSE, crashed |-> FALSE],
      chunk)

-----------------------------------------------------------------------------
\* Trace chunk rotation.

\* Mutant: the reset array does not announce the next index.
complete_rotation_unannounced(s) ==
    [s EXCEPT !.tfa = IF s.ongoing_rotation.next_trace_chunk = NoChunk THEN @
                      ELSE tracefile_array_reset(@),
              !.chunk = s.ongoing_rotation.next_trace_chunk,
              !.ongoing_rotation = NoRotation,
              !.completed_rotation_count = @ + 1]

stream_complete_rotation(s) ==
    LET next == s.ongoing_rotation.next_trace_chunk
    IN  [s EXCEPT
           !.tfa = IF next = NoChunk THEN @
                   ELSE tracefile_array_commit_seq(tracefile_array_reset(@),
                                                   s.index_received_seqcount),
           !.chunk = next,
           !.ongoing_rotation = NoRotation,
           !.completed_rotation_count = @ + 1]

stream_rotate_data_file(s) ==
    LET next == s.ongoing_rotation.next_trace_chunk
        closed == [s EXCEPT !.file = NoFile, !.wrapped_around = FALSE,
                            !.current_index = 0]
        opened == IF next = NoChunk THEN closed
                  ELSE stream_create_data_output_file(closed, next)
        rotated == [opened EXCEPT !.size_current = 0,
                                  !.pos_after_last_complete = 0,
                                  !.ongoing_rotation.data_rotated = TRUE]
    IN  IF rotated.ongoing_rotation.index_rotated
        THEN stream_complete_rotation(rotated) ELSE rotated

\* More data was received than the old chunk holds: the excess is moved to the
\* new chunk's file.
rotate_truncate_stream(s) ==
    LET origin == s.pos_after_last_complete
        old == s.file
        excess == SubSeq(s.dfiles[old].cells, origin + 1, s.size_current)
        rotated == stream_rotate_data_file([s EXCEPT !.file = NoFile])
        moved == [rotated EXCEPT
                    !.dfiles[rotated.file].cells = @ \o excess,
                    !.dfiles[old].cells = SubSeq(@, 1, origin)]
    IN  CASE s.ongoing_rotation.next_trace_chunk = NoChunk ->
               [s EXCEPT !.error = TRUE]
          [] /\ s.ongoing_rotation.next_trace_chunk # NoChunk
             /\ s.file = NoFile \/ s.size_current <= origin ->
               [s EXCEPT !.crashed = TRUE]          \* assertions
          [] OTHER ->
               [relay_index_switch_all_files(moved) EXCEPT
                  !.size_current = s.size_current - origin,
                  !.pos_after_last_complete = 0]

\* Mutant: data up to the pivot, exactly, is taken for too much data.
try_rotate_data_truncates(s) ==
    LET rotation == s.ongoing_rotation
        pivot == rotation.prev_data_net_seq
    IN  IF \/ ~rotation.is_set \/ rotation.data_rotated
           \/ s.prev_data_seq = Unset \/ pivot = Unset
           \/ s.prev_data_seq < pivot
        THEN s ELSE rotate_truncate_stream(s)

try_rotate_stream_data(s) ==
    LET rotation == s.ongoing_rotation
        pivot == rotation.prev_data_net_seq
    IN  IF \/ ~rotation.is_set
           \/ rotation.data_rotated
           \/ s.prev_data_seq = Unset
           \/ pivot = Unset
           \/ s.prev_data_seq < pivot
        THEN s
        ELSE IF s.prev_data_seq > pivot
             THEN rotate_truncate_stream(s)
             ELSE stream_rotate_data_file(s)

\* Mutant: the index file is rotated one packet too early.
try_rotate_index_early(s) ==
    LET rotation == s.ongoing_rotation
        rotated == [s EXCEPT
                      !.index_file = NoFile,
                      !.ongoing_rotation.index_rotated = TRUE,
                      !.ongoing_rotation.prev_data_net_seq = s.prev_index_seq]
    IN  IF \/ ~rotation.is_set \/ rotation.index_rotated
           \/ s.received_packet_seq_num = Unset
           \/ s.received_packet_seq_num + 2 < rotation.packet_seq_num
        THEN s
        ELSE IF rotation.data_rotated
             THEN stream_complete_rotation(rotated) ELSE rotated

try_rotate_stream_index(s) ==
    LET rotation == s.ongoing_rotation
        rotated == [s EXCEPT
                      !.index_file = NoFile,
                      !.ongoing_rotation.index_rotated = TRUE,
                      !.ongoing_rotation.prev_data_net_seq = s.prev_index_seq]
    IN  IF \/ ~rotation.is_set
           \/ rotation.index_rotated
           \/ s.received_packet_seq_num = Unset
           \/ s.received_packet_seq_num + 1 < rotation.packet_seq_num
        THEN s
        ELSE IF rotation.data_rotated
             THEN stream_complete_rotation(rotated) ELSE rotated

\* Mutant: the rotation waits for the next packet or index.
set_pending_rotation_waits(s, next_trace_chunk, packet_seq_num) ==
    IF s.ongoing_rotation.is_set
    THEN [s EXCEPT !.error = TRUE]
    ELSE [s EXCEPT !.ongoing_rotation =
            [NoRotation EXCEPT !.is_set = TRUE,
                               !.next_trace_chunk = next_trace_chunk,
                               !.packet_seq_num = packet_seq_num]]

\* A data stream; a metadata stream has no index and rotates at once.
stream_set_pending_rotation(s, next_trace_chunk, packet_seq_num) ==
    IF s.ongoing_rotation.is_set
    THEN [s EXCEPT !.error = TRUE]
    ELSE try_rotate_stream_data(try_rotate_stream_index(
           [s EXCEPT !.ongoing_rotation =
              [NoRotation EXCEPT !.is_set = TRUE,
                                 !.next_trace_chunk = next_trace_chunk,
                                 !.packet_seq_num = packet_seq_num]]))

-----------------------------------------------------------------------------
\* Reception of a packet on the data connection.

\* Header received.  The size test does not count the padding; the file count
\* is a divisor.
stream_init_packet(s) ==
    LET new_file_index == (s.current_index + 1) % count
        wrapped == s.wrapped_around \/ new_file_index < s.current_index
    IN  CASE s.file = NoFile \/ s.chunk = NoChunk ->
               [s EXCEPT !.error = TRUE]
          [] /\ s.file # NoFile /\ s.chunk # NoChunk
             /\ TracefileSize = 0 \/ s.size_current + DataSize <= TracefileSize ->
               s
          [] OTHER ->
               IF count = 0 THEN [s EXCEPT !.crashed = TRUE]
               ELSE [stream_create_data_output_file(
                       [s EXCEPT !.wrapped_around = wrapped,
                                 !.tfa = tracefile_array_rotate_write(@),
                                 !.current_index = new_file_index],
                       s.chunk) EXCEPT !.size_current = 0]

\* stream_init_packet's *file_rotated.
PacketRotatesFile(s) ==
    TracefileSize # 0 /\ s.size_current + DataSize > TracefileSize

\* n cells of packet net, or of its padding, appended to the data file.
stream_write(s, net, n) ==
    IF s.file = NoFile \/ s.chunk = NoChunk
    THEN [s EXCEPT !.error = TRUE]
    ELSE [s EXCEPT !.dfiles[s.file].cells = @ \o [i \in 1 .. n |-> net]]

\* What stream_update_index and stream_add_index do once an index is flushed.
IndexFlushed(s, net) ==
    LET flushed == relay_index_try_flush(s, net)
    IN  [flushed EXCEPT
           !.tfa = tracefile_array_commit_seq(tracefile_array_rotate_read(@),
                                              s.index_received_seqcount),
           !.index_received_seqcount = @ + 1,
           !.received_packet_seq_num = s.indexes[net].packet_seq_num]

\* The end of a packet: its place is set in its index, which is flushed if the
\* control connection already brought its data.
stream_update_index(s, net, rotate_index) ==
    LET known == relay_index_get_by_id_or_create(s, net)
        ready == IF rotate_index \/ known.index_file = NoFile
                 THEN create_index_file(known) ELSE known
        placed == relay_index_set_file(ready, net, s.size_current)
    IN  IF placed.error THEN placed
        ELSE IF ReadyToFlush(placed, net)
             THEN IndexFlushed(placed, net)
             ELSE [placed EXCEPT !.indexes[net].total_size = PacketSize]

\* Mutant: the padding is not counted in the size of the file.
complete_packet_unpadded(s, net, index_flushed) ==
    LET grown == [s EXCEPT !.size_current = @ + DataSize]
        indexed == IF index_flushed
                   THEN try_rotate_stream_index(
                          [grown EXCEPT
                             !.pos_after_last_complete = grown.size_current,
                             !.prev_index_seq = net])
                   ELSE grown
    IN  try_rotate_stream_data([indexed EXCEPT !.prev_data_seq = net])

stream_complete_packet(s, net, index_flushed) ==
    LET grown == [s EXCEPT !.size_current = @ + PacketSize]
        indexed == IF index_flushed
                   THEN try_rotate_stream_index(
                          [grown EXCEPT
                             !.pos_after_last_complete = grown.size_current,
                             !.prev_index_seq = net])
                   ELSE grown
    IN  try_rotate_stream_data([indexed EXCEPT !.prev_data_seq = net])

-----------------------------------------------------------------------------
\* Commands of the control connection.

\* Mutant: an index that comes after its data is not flushed.
add_index_unflushed(s, net, packet_seq_num) ==
    relay_index_set_control_data(
      relay_index_get_by_id_or_create([s EXCEPT !.beacon = FALSE], net),
      net, packet_seq_num)

\* relay_recv_index: an index, or a live beacon (packet_size = 0).
stream_add_index(s, net, packet_seq_num) ==
    LET known == relay_index_get_by_id_or_create([s EXCEPT !.beacon = FALSE],
                                                 net)
        filled == relay_index_set_control_data(known, net, packet_seq_num)
        flushed == IndexFlushed(filled, net)
    IN  IF filled.error \/ ~ReadyToFlush(filled, net) THEN filled
        ELSE try_rotate_stream_data(try_rotate_stream_index(
               [flushed EXCEPT
                  !.pos_after_last_complete = @ + filled.indexes[net].total_size,
                  !.prev_index_seq = net]))

stream_add_beacon(s) ==
    IF s.index_received_seqcount > 0 /\ DOMAIN s.indexes = {}
    THEN [s EXCEPT !.beacon = TRUE] ELSE s

\* Mutant: the data and indexes still expected are not waited for.
try_stream_close_now(s, aborted) ==
    IF s.closed THEN s
    ELSE [relay_index_close_all(s) EXCEPT
            !.close_requested = TRUE,
            !.published = FALSE, !.closed = TRUE,
            !.file = NoFile, !.index_file = NoFile, !.chunk = NoChunk]

\* Mutant: a packet after the last one is waited for.
try_stream_close_late(s, aborted) ==
    LET requested == [s EXCEPT !.close_requested = TRUE]
        bounded == IF s.last_net_seq_num # Unset THEN requested
                   ELSE LET kept == relay_index_close_partial_fd(requested)
                        IN  [kept EXCEPT !.last_net_seq_num =
                                           relay_index_find_last(kept)]
    IN  IF s.closed THEN s
        ELSE IF /\ bounded.last_net_seq_num # Unset
                /\ bounded.prev_data_seq <= bounded.last_net_seq_num
                /\ ~aborted
             THEN bounded
             ELSE [relay_index_close_all(bounded) EXCEPT
                     !.published = FALSE, !.closed = TRUE,
                     !.file = NoFile, !.index_file = NoFile,
                     !.chunk = NoChunk]

\* try_stream_close; aborted is session->aborted.
try_stream_close(s, aborted) ==
    LET requested == [s EXCEPT !.close_requested = TRUE]
        bounded == IF s.last_net_seq_num # Unset THEN requested
                   ELSE LET kept == relay_index_close_partial_fd(requested)
                        IN  [kept EXCEPT !.last_net_seq_num =
                                           relay_index_find_last(kept)]
    IN  IF s.closed THEN s
        ELSE IF /\ bounded.last_net_seq_num # Unset
                /\ bounded.prev_data_seq < bounded.last_net_seq_num
                /\ ~aborted
             THEN bounded
             ELSE [relay_index_close_all(bounded) EXCEPT
                     !.published = FALSE, !.closed = TRUE,
                     !.file = NoFile, !.index_file = NoFile,
                     !.chunk = NoChunk]

\* relay_close_stream
relay_close_stream(s, last_net_seq_num, aborted) ==
    try_stream_close([s EXCEPT !.last_net_seq_num = last_net_seq_num], aborted)

\* Mutant: the last packet asked for is not counted.
data_pending_but_last(s, last_net_seq_num) ==
    LET stream_seq == IF ULeq(s.prev_data_seq, s.prev_index_seq)
                      THEN s.prev_data_seq ELSE s.prev_index_seq
    IN  stream_seq + 1 < last_net_seq_num

\* relay_data_pending: TRUE if it answers that data is pending.  The smaller of
\* the two sequence numbers is an unsigned minimum, the comparison with the
\* requested one is signed.
relay_data_pending(s, last_net_seq_num) ==
    LET stream_seq == IF ULeq(s.prev_data_seq, s.prev_index_seq)
                      THEN s.prev_data_seq ELSE s.prev_index_seq
    IN  stream_seq < last_net_seq_num

=============================================================================
