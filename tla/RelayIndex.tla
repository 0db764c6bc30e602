----------------------------- MODULE RelayIndex -----------------------------
(***************************************************************************)
(* The indexes of a relayd stream that are waiting for their other half    *)
(* (index.c): the control connection brings the index data of a packet,    *)
(* the data connection its place in the trace file, in either order.  An   *)
(* index is written to its index file when both are there.                 *)
(*                                                                         *)
(* A stream is a record s (module RelayStream); of it the operators below  *)
(* use s.indexes, the table indexes_ht as a function from the pending      *)
(* net_seq_nums, s.ifiles, every index file created so far, and s.index_file,*)
(* the one the stream writes to (its position in s.ifiles, 0 for NULL).    *)
(* Reference counts are not modelled: an index holds one reference, on     *)
(* itself, which the flush or the close drops; its memory outlives the     *)
(* handler that drops it (call_rcu), so fields read after the flush are    *)
(* those the flush saw.                                                    *)
(***************************************************************************)
EXTENDS Integers, Sequences, TracefileArray

NoFile == 0

\* An index just allocated: zmalloc and the reference on itself.
relay_index_create ==
    [has_index_data |-> FALSE, index_file |-> NoFile,
     offset |-> 0, packet_seq_num |-> 0, total_size |-> 0]

relay_index_get_by_id_or_create(s, net) ==
    IF net \in DOMAIN s.indexes THEN s
    ELSE [s EXCEPT !.indexes = [n \in DOMAIN @ \cup {net} |->
                                  IF n = net THEN relay_index_create
                                             ELSE @[n]]]

\* relay_index_put of the last reference: index_release.
relay_index_put(s, nets) ==
    [s EXCEPT !.indexes = [n \in DOMAIN @ \ nets |-> @[n]]]

\* relay_index_set_file, with its error case (the file is already set).
relay_index_set_file(s, net, offset) ==
    IF s.indexes[net].index_file # NoFile
    THEN [relay_index_put(s, {net}) EXCEPT !.error = TRUE]
    ELSE [s EXCEPT !.indexes[net].index_file = s.index_file,
                   !.indexes[net].offset = offset]

\* relay_index_set_control_data, with its error case (data already set).
\* packet_seq_num is stored before has_index_data is tested.
relay_index_set_control_data(s, net, packet_seq_num) ==
    IF s.indexes[net].has_index_data
    THEN [relay_index_put(s, {net}) EXCEPT !.error = TRUE]
    ELSE [s EXCEPT !.indexes[net].has_index_data = TRUE,
                   !.indexes[net].packet_seq_num = packet_seq_num]

ReadyToFlush(s, net) ==
    /\ net \in DOMAIN s.indexes
    /\ s.indexes[net].has_index_data
    /\ s.indexes[net].index_file # NoFile

\* relay_index_try_flush once the index is ready: written, then released.
relay_index_try_flush(s, net) ==
    LET index == s.indexes[net]
    IN  relay_index_put(
          [s EXCEPT !.ifiles[index.index_file].entries =
              Append(@, [net |-> net, offset |-> index.offset,
                         packet_seq_num |-> index.packet_seq_num])],
          {net})

relay_index_close_all(s) == relay_index_put(s, DOMAIN s.indexes)

\* The indexes of which only the data connection's half came.
relay_index_close_partial_fd(s) ==
    relay_index_put(s, {n \in DOMAIN s.indexes :
                          s.indexes[n].index_file # NoFile})

relay_index_find_last(s) ==
    IF DOMAIN s.indexes = {} THEN Unset
    ELSE CHOOSE n \in DOMAIN s.indexes : \A m \in DOMAIN s.indexes : m <= n

\* relay_index_switch_all_files: every pending index that has a file goes to
\* the stream's index file, its offset moved back.  lttng_index_file_get takes
\* its argument's reference count: with a NULL file the daemon dies.
relay_index_switch_all_files(s) ==
    LET placed == {n \in DOMAIN s.indexes : s.indexes[n].index_file # NoFile}
    IN  IF placed # {} /\ s.index_file = NoFile
        THEN [s EXCEPT !.crashed = TRUE]
        ELSE [s EXCEPT !.indexes =
                [n \in DOMAIN @ |->
                   IF n \in placed
                   THEN [@[n] EXCEPT !.index_file = s.index_file,
                                     !.offset = @ - s.pos_after_last_complete]
                   ELSE @[n]]]
=============================================================================
