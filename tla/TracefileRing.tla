---------------------------- MODULE TracefileRing ----------------------------
(***************************************************************************)
(* The tracefile array under the calls stream.c makes on it for one stream *)
(* whose packets are completed one at a time: a packet's index is flushed  *)
(* before the header of the next packet is read, which is what the         *)
(* consumer daemon's send order gives (module ConsumerRelay, whose         *)
(* composition with the relay daemon implements this specification).       *)
(*                                                                         *)
(* It is the contract the live viewer relies on: what lies between the     *)
(* tail and the last received index is in exactly one file of the ring.    *)
(***************************************************************************)
EXTENDS TracefileArray

CONSTANT MaxIndexes     \* bound: indexes received during the stream's life

ASSUME MaxIndexesAssumption == MaxIndexes \in Nat

VARIABLES tfa,          \* stream->tfa
          received,     \* stream->index_received_seqcount
          open          \* a packet header was read, its index is not flushed

vars == <<tfa, received, open>>

Init ==
    /\ tfa = tracefile_array_create
    /\ received = 0
    /\ open = FALSE

\* stream_init_packet, the packet fits in the current trace file.
InitPacket ==
    /\ ~open
    /\ open' = TRUE
    /\ UNCHANGED <<tfa, received>>

\* The file being written holds the last packet received.
HeadFileUsed ==
    /\ received > 0
    /\ count > 0 => tfa.tf[tfa.file_head_write].seq_head = received - 1

\* stream_init_packet, the packet would exceed tracefile_size.
InitPacketRotate ==
    /\ ~open
    /\ HeadFileUsed
    /\ tfa' = tracefile_array_rotate_write(tfa)
    /\ open' = TRUE
    /\ UNCHANGED received

\* stream_update_index or stream_add_index, relay_index_try_flush succeeded.
FlushIndex ==
    /\ open
    /\ received < MaxIndexes
    /\ tfa' = tracefile_array_commit_seq(tracefile_array_rotate_read(tfa),
                                         received)
    /\ received' = received + 1
    /\ open' = FALSE

\* stream_complete_rotation towards a trace chunk.
CompleteRotation ==
    /\ ~open
    /\ tfa' = tracefile_array_commit_seq(tracefile_array_reset(tfa), received)
    /\ UNCHANGED <<received, open>>

\* The index flushed is the last one of its trace chunk: the flush and the
\* rotation it completes are one step of the stream.
FlushCompletesRotation ==
    /\ open
    /\ received < MaxIndexes
    /\ tfa' = tracefile_array_commit_seq(tracefile_array_reset(tfa),
                                         received + 1)
    /\ received' = received + 1
    /\ open' = FALSE

\* try_stream_close: the index of the packet will not come.
AbandonPacket ==
    /\ open
    /\ open' = FALSE
    /\ UNCHANGED <<tfa, received>>

Next ==
    \/ InitPacket \/ InitPacketRotate \/ FlushIndex
    \/ CompleteRotation \/ FlushCompletesRotation \/ AbandonPacket

Spec == Init /\ [][Next]_vars

-----------------------------------------------------------------------------
TypeOK ==
    /\ tfa \in TracefileArrayType
    /\ count > 0 => /\ tfa.file_head_read \in Files
                    /\ tfa.file_head_write \in Files
                    /\ tfa.file_tail \in Files
    /\ received \in Nat
    /\ open \in BOOLEAN

HasSeq(f, s) == tracefile_array_seq_in_file(tfa, f, s)

(***************************************************************************)
(* Every index between the overall tail and the last one received is in    *)
(* exactly one file of the ring, so a viewer that follows                  *)
(* tracefile_array_seq_in_file neither misses nor repeats an index.        *)
(***************************************************************************)
RetainedExactlyOnce ==
    count > 0 /\ tfa.seq_tail # Unset =>
        \A s \in tfa.seq_tail .. received - 1 :
            /\ \E f \in Files : HasSeq(f, s)
            /\ \A f, g \in Files : HasSeq(f, s) /\ HasSeq(g, s) => f = g

(***************************************************************************)
(* "If we overwrite a file with content, we need to push the tail to the   *)
(* position following the content we are overwriting"                      *)
(* (tracefile-array.c:97): the tail is never left on an overwritten index, *)
(* it is the oldest index of the oldest file.                              *)
(***************************************************************************)
TailIsOldestRetained ==
    count > 0 /\ tfa.seq_tail # Unset =>
        tfa.tf[tfa.file_tail].seq_tail = tfa.seq_tail

(***************************************************************************)
(* No step moves the tail backwards or unsets it: a viewer that was        *)
(* resynchronised on the tail is never sent back over indexes it was       *)
(* already sent (viewer_stream_rotate, viewer-stream.c:366).               *)
(***************************************************************************)
TailOnlyMovesForward ==
    [][tfa.seq_tail <= tfa'.seq_tail]_vars

-----------------------------------------------------------------------------
\* How many rotations ago file f became the one written.
Age(f) == IF f <= tfa.file_head_write THEN tfa.file_head_write - f
          ELSE tfa.file_head_write - f + count

Empty(f) == tfa.tf[f] = EmptyFile

\* A file's range lies between 0 and the next index.
RangesValid ==
    \A f \in Files :
        \/ Empty(f)
        \/ /\ 0 <= tfa.tf[f].seq_tail
           /\ tfa.tf[f].seq_tail <= tfa.tf[f].seq_head
           /\ tfa.tf[f].seq_head <= received

BeyondTailEmpty ==
    \A f \in Files : Age(f) > Age(tfa.file_tail) => Empty(f)

UpToTailUsed ==
    \A f \in Files \ {tfa.file_head_write} :
        Age(f) <= Age(tfa.file_tail) => ~Empty(f)

OlderIsSmaller ==
    \A f, g \in Files :
        Age(f) < Age(g) /\ ~Empty(f) /\ ~Empty(g)
          => tfa.tf[g].seq_head < tfa.tf[f].seq_tail

\* Only the head file may announce the index that comes next.
HeadAnnounces ==
    \A f \in Files : tfa.tf[f].seq_head = received =>
        f = tfa.file_head_write /\ tfa.tf[f].seq_tail = received

(***************************************************************************)
(* What makes the properties above inductive: the files from the tail to   *)
(* the head hold increasing ranges, none of them is empty but the head,    *)
(* those beyond the tail are, and only the head file may announce the      *)
(* index that comes next (tracefile_array_commit_seq in                    *)
(* stream_complete_rotation).                                              *)
(***************************************************************************)
RingOrder ==
    /\ tfa.seq_tail >= Unset /\ tfa.seq_tail <= received
    /\ count > 0 =>
         /\ RangesValid /\ BeyondTailEmpty /\ UpToTailUsed
         /\ OlderIsSmaller /\ HeadAnnounces
         /\ tfa.seq_tail = Unset => \A f \in Files : Empty(f)
=============================================================================
