-------------------------- MODULE LiveViewerProofs --------------------------
(***************************************************************************)
(* The safety of module LiveViewer, for every number of trace files other  *)
(* than one, of packets, of trace chunks and of viewers.  The requests of  *)
(* a viewer are followed operation by operation: Progress says where the   *)
(* viewer stream is between two of them, Outcome how the request ends.     *)
(***************************************************************************)
EXTENDS LiveViewer, LiveFilesProofs

ViewInv == ViewerOK(tfa, received, stream, viewer)

Moved(x) ==
    [viewer_stream_rotate_to_trace_chunk(x, stream.trace_chunk)
        EXCEPT !.last_seen_rotation_count = stream.completed_rotation_count]

LEMMA MovedFields ==
    ASSUME NEW x \in ViewerStream, Tail0 \in Nat, tfa.file_tail \in Nat,
           stream.trace_chunk \in Nat, stream.completed_rotation_count \in Nat
    PROVE  LET y == Moved(x)
           IN  /\ y \in ViewerStream /\ y.exists = x.exists
               /\ y.sent_flag = x.sent_flag
               /\ y.current_tracefile_id = tfa.file_tail
               /\ y.index_sent_seqcount = UMax(Tail0, x.index_sent_seqcount)
               /\ y.trace_chunk = stream.trace_chunk
               /\ y.index_file = NoFile /\ y.pos = 0 /\ y.handle = NoFile
               /\ y.last_seen_rotation_count = stream.completed_rotation_count
<1> DEFINE m == UMax(Tail0, x.index_sent_seqcount)
           c == stream.trace_chunk
           r == [x EXCEPT !.trace_chunk = c]
           s == [r EXCEPT !.current_tracefile_id = tfa.file_tail,
                          !.index_sent_seqcount = m]
           e == [s EXCEPT !.index_file = NoFile, !.pos = 0, !.handle = NoFile]
<1>1. m \in Nat /\ NoFile \in Nat
  BY DEF UMax, ViewerStream, NoFile
<1>2. /\ r \in ViewerStream /\ r.exists = x.exists /\ r.sent_flag = x.sent_flag
      /\ r.trace_chunk = c /\ r.index_sent_seqcount = x.index_sent_seqcount
  BY DEF ViewerStream
<1>3. viewer_stream_sync_tracefile_array_tail(r) = s
  <2> HIDE DEF r
  <2> QED
    BY <1>2 DEF viewer_stream_sync_tracefile_array_tail, ViewerStream
<1> HIDE DEF r, m
<1>4. /\ s \in ViewerStream /\ s.exists = x.exists /\ s.sent_flag = x.sent_flag
      /\ s.trace_chunk = c /\ s.index_sent_seqcount = m
      /\ s.current_tracefile_id = tfa.file_tail
  BY <1>1, <1>2 DEF ViewerStream
<1> HIDE DEF s
<1>5. /\ e \in ViewerStream /\ e.exists = x.exists /\ e.sent_flag = x.sent_flag
      /\ e.trace_chunk = c /\ e.index_sent_seqcount = m
      /\ e.current_tracefile_id = tfa.file_tail
      /\ e.index_file = NoFile /\ e.pos = 0 /\ e.handle = NoFile
  BY <1>1, <1>4 DEF ViewerStream
<1>6. viewer_stream_rotate_to_trace_chunk(x, c) = e
  BY <1>3 DEF viewer_stream_rotate_to_trace_chunk, viewer_stream_close_files, r
<1>7. Moved(x) = [e EXCEPT !.last_seen_rotation_count = stream.completed_rotation_count]
  BY <1>6 DEF Moved
<1> HIDE DEF e
<1> QED
  BY <1>5, <1>7 DEF ViewerStream, m

LEMMA MovedView ==
    ASSUME RelayState, NEW x, NEW lag \in 0 .. 1, Viewing(x, lag),
           x.trace_chunk # stream.trace_chunk
    PROVE  /\ Viewing(Moved(x), lag) /\ Settled(Moved(x))
           /\ Skipped(x.index_sent_seqcount, Moved(x).index_sent_seqcount)
<1> DEFINE y == Moved(x)
           sent == x.index_sent_seqcount
           upto == y.index_sent_seqcount
           t == tfa.file_tail
<1>1. /\ stream \in RelayStream /\ stream.trace_chunk \in Nat
      /\ stream.completed_rotation_count \in Nat
      /\ CurrentOK(tfa, received, open, stream) /\ ChunksOK(stream, session)
      /\ x \in ViewerStream /\ sent \in Nat
  BY DEF RelayState, RelayInv, Relay, RelayStream, Viewing, ViewerStream
<1>2. /\ t \in RingIds /\ tfa.seq_tail \in Int /\ received \in Nat
      /\ Tail0 \in Nat /\ Tail0 <= received /\ tfa.seq_tail <= Tail0
      /\ tfa.seq_tail # Unset => Tail0 = tfa.seq_tail
      /\ tfa.seq_tail = Unset => Tail0 = 0
      /\ Tracked(tfa, received, t, Tail0)
      /\ Tracked(tfa, received, t, tfa.seq_tail + 1)
      /\ tfa.seq_tail = received => t = 0
  BY RingEnds DEF RelayState
<1>3. t \in Nat
  BY DEF RelayState, IInv, TypeOK, TracefileArrayType
<1>4. /\ y \in ViewerStream
      /\ y.current_tracefile_id = t
      /\ upto = UMax(Tail0, sent)
      /\ y.trace_chunk = stream.trace_chunk
      /\ y.index_file = NoFile /\ y.pos = 0 /\ y.handle = NoFile
      /\ y.last_seen_rotation_count = stream.completed_rotation_count
  BY <1>1, <1>2, <1>3, MovedFields
<1> HIDE DEF y
<1>5. upto \in Nat /\ sent <= upto /\ Tail0 <= upto /\ (upto = sent \/ upto = Tail0)
  BY <1>1, <1>2, <1>4 DEF UMax
<1>6. Skipped(sent, upto)
  <2>1. ASSUME NEW s \in sent .. upto - 1 PROVE s < tfa.seq_tail
    BY <1>1, <1>2, <1>5, <2>1
  <2> QED
    BY <1>5, <2>1 DEF Skipped
<1>7. \/ stream.trace_chunk = NoChunk
      \/ stream.trace_chunk = RingChunk(stream) /\ stream.file # NoFile /\ ~stream.closed
  BY <1>1 DEF CurrentOK
<1>8. Settled(y)
  BY <1>4, <1>7 DEF Settled
<1>9. /\ InChunks(stream, x) /\ Follows(tfa, received, stream, x, lag)
  BY DEF Viewing, View
<1>10. InChunks(stream, y)
  <2>1. LastFile(stream) \in 1 .. LastFile(stream)
    BY <1>1, FileTypes DEF ChunksOK, LastFile
  <2> QED
    BY <1>4, <1>7, <2>1 DEF InChunks, RingChunk
<1>11. Counts(stream, y)
  BY <1>1, <1>4 DEF Counts
<1>12. ASSUME stream.trace_chunk # NoChunk
       PROVE  sent <= tfa.seq_tail + lag /\ ~stream.closed
              /\ stream.trace_chunk = RingChunk(stream)
  BY <1>7, <1>9, <1>12 DEF Follows
<1>13. stream.trace_chunk # NoChunk => Tracked(tfa, received, t, upto)
  <2> SUFFICES ASSUME stream.trace_chunk # NoChunk
               PROVE  Tracked(tfa, received, t, upto)
    OBVIOUS
  <2>1. upto = Tail0 \/ upto = tfa.seq_tail + 1
    BY <1>1, <1>2, <1>5, <1>12
  <2> QED
    BY <1>2, <2>1
<1>14. Follows(tfa, received, stream, y, lag)
  <2>1. ASSUME ~stream.closed
        PROVE  /\ upto <= received + lag
               /\ upto > received => tfa.seq_tail = received
    <3>1. sent <= received + lag /\ (sent > received => tfa.seq_tail = received)
      BY <1>9, <2>1 DEF Follows
    <3> QED
      BY <1>1, <1>2, <1>5, <3>1
  <2>2. tfa.seq_tail = received => received <= upto
    BY <1>2, <1>5 DEF Unset
  <2> QED
    BY <1>2, <1>4, <1>7, <1>13, <2>1, <2>2 DEF Follows
<1>15. Opened(received, stream, y)
  BY <1>4 DEF Opened
<1>16. AtPosition(tfa, received, stream, y, lag)
  <2> SUFFICES ASSUME stream.trace_chunk = RingChunk(stream), NEW f \in RingIds,
                      RangeOf(tfa, f).seq_tail # Unset
               PROVE  /\ count = 0 => RangeOf(tfa, f).seq_tail <= upto
                      /\ upto <= RangeOf(tfa, f).seq_tail + lag
    BY <1>4 DEF AtPosition
  <2>1. stream.trace_chunk # NoChunk
    BY <1>1, FileTypes DEF ChunksOK, LastFile, RingChunk, NoChunk
  <2>2. /\ tfa.seq_tail # Unset /\ tfa.seq_tail \in Nat
        /\ RangeOf(tfa, f).seq_tail \in Int /\ tfa.seq_tail <= RangeOf(tfa, f).seq_tail
    BY OldestTail DEF RelayState
  <2>3. count = 0 => RangeOf(tfa, f).seq_tail = tfa.seq_tail
    BY Unlimited
  <2>4. tfa.seq_tail <= upto /\ upto <= tfa.seq_tail + lag
    BY <1>1, <1>2, <1>5, <1>12, <2>1, <2>2
  <2> QED
    BY <1>5, <2>2, <2>3, <2>4
<1>17. View(tfa, received, stream, y, lag)
  BY <1>10, <1>11, <1>14, <1>15, <1>16 DEF View
<1> QED
  BY <1>4, <1>6, <1>8, <1>17 DEF Viewing, y

\* The stream after viewer_stream_rotate, if it is called.
InItsFile(x) == IF InFile(x) THEN x ELSE viewer_stream_rotate(x)

LEMMA RotatedTo ==
    ASSUME count # 0, NEW x \in ViewerStream
    PROVE  viewer_stream_rotate(x) =
             IF HasSeq(NextFile(x.current_tracefile_id), x.index_sent_seqcount)
             THEN ToFile(x, NextFile(x.current_tracefile_id), x.index_sent_seqcount)
             ELSE ToFile(x, tfa.file_tail, tfa.seq_tail)
<1> DEFINE id == x.current_tracefile_id
           sent == x.index_sent_seqcount
<1>1. viewer_stream_close_files([x EXCEPT !.current_tracefile_id = NextFile(id)])
        = ToFile(x, NextFile(id), sent)
  BY DEF viewer_stream_close_files, ToFile, ViewerStream
<1>2. viewer_stream_close_files([x EXCEPT !.current_tracefile_id = tfa.file_tail,
                                         !.index_sent_seqcount = tfa.seq_tail])
        = ToFile(x, tfa.file_tail, tfa.seq_tail)
  BY DEF viewer_stream_close_files, ToFile, ViewerStream
<1> QED
  BY <1>1, <1>2 DEF viewer_stream_rotate, HasSeq

LEMMA InItsFileView ==
    ASSUME RelayState, NEW x, NEW lag \in 0 .. 1, Viewing(x, lag), Settled(x),
           x.index_sent_seqcount < received
    PROVE  LET y == InItsFile(x)
           IN  /\ Viewing(y, lag) /\ Settled(y) /\ Ready(y) /\ InFile(y)
               /\ y.exists = x.exists /\ y.sent_flag = x.sent_flag
               /\ y.trace_chunk = x.trace_chunk
               /\ x.trace_chunk # NoChunk =>
                    Skipped(x.index_sent_seqcount, y.index_sent_seqcount)
<1> DEFINE id == x.current_tracefile_id
           sent == x.index_sent_seqcount
           new == NextFile(id)
<1>0. /\ x \in ViewerStream /\ sent \in Nat /\ id \in Nat /\ id \in RingIds
      /\ IInv /\ TypeOK
  BY DEF Viewing, ViewerStream, View, Follows, RelayState, IInv
<1>1. Skipped(sent, sent)
  <2>1. ASSUME NEW s \in sent .. sent - 1 PROVE FALSE
    BY <1>0, <2>1
  <2> QED
    BY <1>0, <2>1 DEF Skipped
<1>2. CASE InFile(x)
  <2>1. InItsFile(x) = x
    BY <1>2 DEF InItsFile
  <2>2. count > 0 => InRange(id, sent)
    <3> SUFFICES ASSUME count > 0 PROVE InRange(id, sent)
      OBVIOUS
    <3>1. id \in Files /\ HasSeq(id, sent)
      BY <1>0, <1>2, Limited DEF InFile, HasSeq
    <3> QED
      BY <1>0, <3>1, HasSeqInRange
  <2> QED
    BY <1>1, <1>2, <2>1, <2>2 DEF Ready
<1>3. CASE ~InFile(x)
  <2>1. count > 0 /\ count # 0 /\ ~HasSeq(id, sent)
    BY <1>3, CountAssumption DEF InFile, HasSeq, tracefile_array_seq_in_file
  <2>2. id \in Files /\ new \in Files /\ new \in Nat
    <3>1. id \in Files
      BY <1>0, <2>1, Limited
    <3>2. new \in Files
      BY <2>1, <3>1, NextFileWraps
    <3> QED
      BY <3>1, <3>2 DEF Files
  <2>3. \E y : /\ InItsFile(x) = y /\ y \in ViewerStream
               /\ Viewing(y, lag) /\ Ready(y)
               /\ y.exists = x.exists /\ y.sent_flag = x.sent_flag
               /\ y.trace_chunk = x.trace_chunk
               /\ y.current_tracefile_id \in Files
               /\ x.trace_chunk # NoChunk => Skipped(sent, y.index_sent_seqcount)
    <3>1. CASE HasSeq(new, sent)
      <4> DEFINE y == ToFile(x, new, sent)
      <4>1. InItsFile(x) = y
        BY <1>0, <1>3, <2>1, <3>1, RotatedTo DEF InItsFile
      <4>2. Viewing(y, lag) /\ Ready(y)
        BY <2>1, <3>1, NextFileView
      <4>3. /\ y \in ViewerStream /\ y.exists = x.exists /\ y.sent_flag = x.sent_flag
            /\ y.trace_chunk = x.trace_chunk /\ y.index_sent_seqcount = sent
            /\ y.current_tracefile_id = new
        <5>1. x \in ViewerStream /\ new \in Nat /\ sent \in Nat
          BY Zenon, <1>0, <2>2
        <5> HIDE DEF new, sent
        <5> QED
          BY Zenon, <5>1, ToFileFields
      <4> HIDE DEF y
      <4> QED
        BY <1>1, <2>2, <4>1, <4>2, <4>3
    <3>2. CASE ~HasSeq(new, sent)
      <4> DEFINE y == ToFile(x, tfa.file_tail, tfa.seq_tail)
      <4>1. InItsFile(x) = y
        BY <1>0, <1>3, <2>1, <3>2, RotatedTo DEF InItsFile
      <4>2. /\ Viewing(y, lag) /\ Ready(y) /\ y \in ViewerStream
            /\ tfa.seq_tail \in Nat /\ tfa.file_tail \in Nat
            /\ x.trace_chunk # NoChunk => Skipped(sent, tfa.seq_tail)
        BY <2>1, <3>2, TailView
      <4>3. /\ y.exists = x.exists /\ y.sent_flag = x.sent_flag
            /\ y.trace_chunk = x.trace_chunk /\ y.index_sent_seqcount = tfa.seq_tail
            /\ y.current_tracefile_id = tfa.file_tail
        <5>1. x \in ViewerStream /\ tfa.file_tail \in Nat /\ tfa.seq_tail \in Nat
          BY <1>0, <4>2
        <5> QED
          BY <5>1, ToFileFields
      <4>4. tfa.file_tail \in Files
        BY <1>0, <2>1 DEF TypeOK
      <4> HIDE DEF y
      <4> QED
        BY <4>1, <4>2, <4>3, <4>4
    <3> QED
      BY <3>1, <3>2
  <2>4. PICK y : /\ InItsFile(x) = y /\ y \in ViewerStream
                 /\ Viewing(y, lag) /\ Ready(y)
                 /\ y.exists = x.exists /\ y.sent_flag = x.sent_flag
                 /\ y.trace_chunk = x.trace_chunk
                 /\ y.current_tracefile_id \in Files
                 /\ x.trace_chunk # NoChunk => Skipped(sent, y.index_sent_seqcount)
    BY <2>3
  <2>5. InFile(y)
    <3>1. InRange(y.current_tracefile_id, y.index_sent_seqcount)
      BY <2>1, <2>4 DEF Ready
    <3>2. HasSeq(y.current_tracefile_id, y.index_sent_seqcount)
      BY <1>0, <2>1, <2>4, <3>1, HasSeqInRange DEF ViewerStream
    <3> QED
      BY <3>2 DEF InFile, HasSeq
  <2>6. Settled(y)
    BY <2>4 DEF Settled
  <2> QED
    BY <2>4, <2>5, <2>6
<1> QED
  BY <1>2, <1>3

\* Opening the files of a name.

\* Up to the index "upto", those not sent by v had been overwritten.
Passed(v) ==
    LET sent == viewer.stream.index_sent_seqcount
        upto == v.stream.index_sent_seqcount
    IN  /\ sent <= upto
        /\ ~viewer.ahead /\ ~Left(stream, v.stream) =>
             \A n \in sent .. upto - 1 :
                \/ n < tfa.seq_tail
                \/ v.reply = "ok" /\ v.index.seq = n

-----------------------------------------------------------------------------
\* A request, operation by operation.
\* What holds of the viewer between two operations of a request, and at its end.
Progress(v) ==
    /\ v \in ViewerRecord /\ v.ahead = viewer.ahead /\ v.stream.exists
    /\ Viewing(v.stream, Lag(viewer)) /\ Settled(v.stream)
    /\ v.stream.trace_chunk # NoChunk =>
          Skipped(viewer.stream.index_sent_seqcount, v.stream.index_sent_seqcount)

Outcome(v) ==
    /\ ViewerOK(tfa, received, stream, v)
    /\ v.stream.exists /\ v.stream.trace_chunk # NoChunk => Passed(v)

LEMMA ReplyFields ==
    ASSUME NEW v \in ViewerRecord,
           NEW status \in {"hup", "retry", "inactive", "err", "proceed"}
    PROVE  LET r == Reply(v, status)
           IN  /\ r \in ViewerRecord /\ r.stream = v.stream /\ r.reply = status
               /\ r.ahead = v.ahead /\ r.attached = v.attached /\ r.chunk = v.chunk
<1>1. NoViewer.index \in [seq : Int, offset : Nat] /\ Unset \in Int
  BY DEF NoViewer, Unset
<1>2. status \in Statuses
  BY DEF Statuses
<1> QED
  BY <1>1, <1>2 DEF Reply, ViewerRecord

LEMMA ProgressOutcome ==
    ASSUME NEW v, Progress(v), NEW r \in ViewerRecord, r.stream = v.stream,
           r.ahead = v.ahead,
           \/ r.reply \in {"retry", "inactive", "hup"}
           \/ r.reply = "err" /\ Left(stream, v.stream)
    PROVE  Outcome(r)
<1>1. /\ r.reply \notin {"ok", "packet", "abort", "lost", "closed"}
      /\ r.reply = "err" => Left(stream, v.stream)
  OBVIOUS
<1>2. Answered(stream, r)
  BY <1>1 DEF Answered, Progress
<1>3. Lag(r) = Lag(viewer)
  BY DEF Lag, Progress
<1>4. View(tfa, received, stream, r.stream, Lag(r))
  BY <1>3 DEF Progress, Viewing
<1>5. r.stream.trace_chunk # NoChunk => Passed(r)
  BY DEF Progress, Skipped, Passed
<1> QED
  BY <1>2, <1>4, <1>5 DEF Outcome, ViewerOK

LEMMA NoStreamIs == NoStream \in ViewerStream /\ ~NoStream.exists /\ ~NoStream.sent_flag
  BY DEF NoStream, ViewerStream, NoChunk, NoFile

LEMMA HupOutcome ==
    ASSUME NEW v \in ViewerRecord
    PROVE  Outcome(Hup(v))
<1> DEFINE r == Reply(v, "hup")
           h == Hup(v)
<1>1. r \in ViewerRecord /\ r.reply = "hup"
  BY ReplyFields
<1>2. h = [r EXCEPT !.stream = NoStream]
  BY DEF Hup
<1> HIDE DEF r, h
<1>3. h \in ViewerRecord /\ h.stream = NoStream /\ h.reply = "hup"
  BY <1>1, <1>2, NoStreamIs DEF ViewerRecord
<1>4. ~h.stream.exists /\ ~h.stream.sent_flag
  BY <1>3, NoStreamIs
<1>5. Answered(stream, h)
  BY <1>3, <1>4 DEF Answered
<1> QED
  BY <1>3, <1>4, <1>5 DEF Outcome, ViewerOK, h

LEMMA NewestProgress ==
    ASSUME RelayState, ViewInv, viewer.stream.exists
    PROVE  Progress(ToNewestChunk(viewer))
<1> DEFINE x == viewer.stream
           lag == Lag(viewer)
           last == /\ stream.trace_chunk = NoChunk
                   /\ stream.completed_rotation_count = x.last_seen_rotation_count + 1
           y == IF x.trace_chunk = stream.trace_chunk \/ last THEN x ELSE Moved(x)
           v == ToNewestChunk(viewer)
<1>0. /\ viewer \in ViewerRecord /\ x \in ViewerStream /\ lag \in 0 .. 1
      /\ View(tfa, received, stream, x, lag) /\ x.index_sent_seqcount \in Nat
      /\ stream.trace_chunk \in Nat /\ CurrentOK(tfa, received, open, stream)
  BY DEF ViewInv, ViewerOK, ViewerRecord, ViewerStream, Lag, RelayState, RelayInv,
         Relay, RelayStream
<1>1. Viewing(x, lag)
  BY <1>0 DEF Viewing
<1>2. v = [viewer EXCEPT !.chunk = stream.trace_chunk, !.stream = y]
  BY DEF ToNewestChunk, Moved
<1>3. Viewing(y, lag) /\ Settled(y) /\ Skipped(x.index_sent_seqcount, y.index_sent_seqcount)
      /\ y.exists
  <2>1. CASE x.trace_chunk = stream.trace_chunk \/ last
    <3>1. y = x
      BY <2>1
    <3>2. Settled(x)
      <4>1. CASE x.trace_chunk = stream.trace_chunk
        BY <1>0, <4>1 DEF Settled, CurrentOK
      <4>2. CASE last
        BY <1>0, <4>2 DEF Settled, View, Counts
      <4> QED
        BY <2>1, <4>1, <4>2
    <3> HIDE DEF y
    <3> QED
      BY <1>0, <1>1, <3>1, <3>2, SkippedNone
  <2>2. CASE ~(x.trace_chunk = stream.trace_chunk \/ last)
    <3>1. y = Moved(x) /\ x.trace_chunk # stream.trace_chunk
      BY <2>2
    <3>2. Moved(x).exists = x.exists
      <4>1. /\ Tail0 \in Nat /\ tfa.file_tail \in Nat
            /\ stream.completed_rotation_count \in Nat
        BY RingEnds DEF RelayState, IInv, TypeOK, TracefileArrayType, RelayInv, Relay,
           RelayStream
      <4> QED
        BY <1>0, <4>1, MovedFields
    <3> HIDE DEF y
    <3> QED
      BY <1>0, <1>1, <3>1, <3>2, MovedView
  <2> QED
    BY <2>1, <2>2
<1> HIDE DEF y
<1>4. y \in ViewerStream
  BY <1>3 DEF Viewing
<1>5. /\ v \in ViewerRecord /\ v.stream = y /\ v.ahead = viewer.ahead
  BY <1>0, <1>2, <1>4 DEF ViewerRecord
<1> HIDE DEF v
<1> QED
  BY <1>3, <1>5 DEF Progress, v

LEMMA CheckProgress ==
    ASSUME RelayState, ViewInv, NEW v, Progress(v)
    PROVE  LET c == check_index_status(v)
           IN  /\ c.reply # "proceed" => Outcome(c)
               /\ c.reply = "proceed" => Progress(c) /\ Ready(c.stream)
<1> DEFINE x == v.stream
           sent == x.index_sent_seqcount
           lag == Lag(viewer)
           y == InItsFile(x)
           c == check_index_status(v)
           waits == Reply(v, IF stream.beacon THEN "inactive" ELSE "retry")
           goes == Reply([v EXCEPT !.stream = y], "proceed")
<1>0. /\ v \in ViewerRecord /\ x \in ViewerStream /\ sent \in Nat /\ received \in Nat
      /\ Viewing(x, lag) /\ Settled(x) /\ lag \in 0 .. 1
      /\ viewer.stream.index_sent_seqcount \in Nat
  BY DEF Progress, ViewerRecord, ViewerStream, RelayState, IInv, TypeOK, Lag, ViewInv,
         ViewerOK
<1>1. ASSUME sent < received
      PROVE  /\ Viewing(y, lag) /\ Settled(y) /\ Ready(y) /\ InFile(y)
             /\ y.exists = x.exists /\ y.trace_chunk = x.trace_chunk
             /\ x.trace_chunk # NoChunk => Skipped(sent, y.index_sent_seqcount)
  BY <1>0, <1>1, InItsFileView
<1>2. \/ c = Hup(v)
      \/ c = waits
      \/ /\ sent < received
         /\ c = Reply([v EXCEPT !.stream = y],
                      IF InFile(y) THEN "proceed"
                      ELSE IF count = 1 THEN "retry" ELSE "abort")
  <2>1. ~(received = 0 \/ (sent # 0 /\ received <= sent)) => sent < received
    BY <1>0
  <2> QED
    BY <2>1 DEF check_index_status, InItsFile
<1>3. CASE c = Hup(v)
  <2>1. c.reply = "hup"
    <3> DEFINE r == Reply(v, "hup")
    <3>1. r \in ViewerRecord /\ r.reply = "hup"
      BY <1>0, ReplyFields
    <3> HIDE DEF r
    <3> QED
      BY <1>3, <3>1 DEF Hup, r, ViewerRecord
  <2> QED
    BY <1>0, <1>3, <2>1, HupOutcome
<1>4. CASE c = waits
  <2>1. PICK status \in {"inactive", "retry"} : waits = Reply(v, status)
    OBVIOUS
  <2>2. waits \in ViewerRecord /\ waits.stream = x /\ waits.ahead = v.ahead
        /\ waits.reply = status
    BY <1>0, <2>1, ReplyFields
  <2> HIDE DEF waits, c
  <2>3. Outcome(waits)
    BY <2>2, ProgressOutcome
  <2> QED
    BY <1>4, <2>1, <2>2, <2>3 DEF c
<1>5. CASE sent < received /\ c = goes
  <2> DEFINE u == [v EXCEPT !.stream = y]
  <2>1. y \in ViewerStream
    BY <1>1, <1>5 DEF Viewing
  <2> HIDE DEF y
  <2>2. u \in ViewerRecord /\ u.stream = y /\ u.ahead = v.ahead
    BY <1>0, <2>1 DEF ViewerRecord
  <2> HIDE DEF u
  <2>3. goes \in ViewerRecord /\ goes.stream = y /\ goes.ahead = v.ahead
        /\ goes.reply = "proceed"
    BY <2>2, ReplyFields DEF u
  <2> HIDE DEF goes, c
  <2>4. y.trace_chunk # NoChunk =>
          Skipped(viewer.stream.index_sent_seqcount, y.index_sent_seqcount)
    <3> SUFFICES ASSUME y.trace_chunk # NoChunk
                 PROVE  Skipped(viewer.stream.index_sent_seqcount, y.index_sent_seqcount)
      OBVIOUS
    <3>1. /\ Skipped(viewer.stream.index_sent_seqcount, sent)
          /\ Skipped(sent, y.index_sent_seqcount)
      BY <1>1, <1>5 DEF Progress
    <3>2. y.index_sent_seqcount \in Nat
      BY <2>1 DEF ViewerStream
    <3> QED
      BY <1>0, <3>1, <3>2, SkippedTwice
  <2>5. Progress(goes)
    BY <1>1, <1>5, <2>3, <2>4 DEF Progress
  <2> QED
    BY <1>1, <1>5, <2>3, <2>5 DEF c
<1> QED
  BY <1>1, <1>2, <1>3, <1>4, <1>5

LEMMA OpenProgress ==
    ASSUME RelayState, ViewInv, NEW v, Progress(v), Ready(v.stream), v.reply = "proceed"
    PROVE  LET o == OpenFiles(v)
           IN  /\ o.reply # "proceed" => Outcome(o)
               /\ o.reply = "proceed" => Progress(o) /\ Readable(o.stream)
<1> DEFINE x == v.stream
           c == x.trace_chunk
           i == x.current_tracefile_id
           lag == Lag(viewer)
           ifile == IF x.index_file # NoFile \/ c = NoChunk THEN x.index_file
                    ELSE OpenFile(stream.ifiles, c, i)
           handle == IF x.handle # NoFile THEN x.handle
                     ELSE OpenFile(stream.dfiles, c, i)
           o == OpenFiles(v)
<1>0. /\ v \in ViewerRecord /\ x \in ViewerStream
      /\ Viewing(x, lag) /\ Settled(x) /\ lag \in 0 .. 1
      /\ Opened(received, stream, x) /\ RelayInv /\ stream \in RelayStream
  BY DEF Progress, ViewerRecord, Lag, Viewing, View, RelayState, RelayInv, Relay
<1>1. CASE ifile = NoFile
  <2>1. PICK status \in {"hup", "retry"} : o = Reply(v, status)
    <3>1. o = Reply(v, IF stream.closed THEN "hup" ELSE "retry")
      BY <1>1 DEF OpenFiles
    <3> QED
      BY <3>1
  <2>2. o \in ViewerRecord /\ o.stream = x /\ o.ahead = v.ahead /\ o.reply = status
    BY <1>0, <2>1, ReplyFields
  <2> HIDE DEF o
  <2>3. Outcome(o)
    BY <2>2, ProgressOutcome
  <2> QED
    BY <2>1, <2>2, <2>3 DEF o
<1>2. CASE ifile # NoFile
  <2> DEFINE y == WithFiles(x, ifile, handle)
  <2>1. handle # NoFile /\ y \in ViewerStream /\ Viewing(y, lag) /\ Readable(y) /\ Settled(y)
    <3>1. CASE x.index_file # NoFile
      <4>1. /\ ifile = x.index_file /\ x.handle # NoFile /\ handle = x.handle
        BY <1>0, <3>1 DEF Opened
      <4>2. y = x
        BY <1>0, <4>1 DEF WithFiles, ViewerStream
      <4>3. Latest(stream, x.handle) /\ x.index_sent_seqcount < received
        BY <1>0, <4>1, HandleIsLatest
      <4>4. Readable(x)
        BY <3>1, <4>1, <4>3 DEF Readable, Ready
      <4> HIDE DEF y, ifile, handle
      <4> QED
        BY <1>0, <4>1, <4>2, <4>4
    <3>2. CASE x.index_file = NoFile
      <4>1. c # NoChunk /\ ifile = OpenFile(stream.ifiles, c, i)
        BY <1>2, <3>2
      <4>2. LastIndexNamed(stream, ifile, c, i) /\ ~Deleted(c)
        BY <1>0, <1>2, <4>1, IndexOpened
      <4>3. /\ handle # NoFile /\ DataNamed(stream, handle, c, i)
            /\ Latest(stream, handle)
        <5>1. CASE x.handle # NoFile
          BY <1>0, <5>1, HandleIsLatest
        <5>2. CASE x.handle = NoFile
          <6>1. PICK d : DataNamed(stream, d, c, i) /\ Latest(stream, d)
            <7>1. received \in Nat
              BY DEF RelayState, IInv, TypeOK
            <7> QED
              BY Zenon, <1>0, <4>2, <7>1, HasLatest
          <6>2. OpenFile(stream.dfiles, c, i) # NoFile
            BY <1>0, <4>2, <6>1, DataFound
          <6> QED
            BY <1>0, <5>2, <6>2, DataOpened
        <5> QED
          BY <5>1, <5>2
      <4>4. x.handle # NoFile => handle = x.handle
        OBVIOUS
      <4> HIDE DEF ifile, handle
      <4> QED
        BY <1>0, <3>2, <4>1, <4>2, <4>3, <4>4, WithFilesView
    <3> QED
      BY <3>1, <3>2
  <2>2. o = [v EXCEPT !.stream.index_file = ifile, !.stream.handle = handle]
    BY <1>2, <2>1 DEF OpenFiles
  <2> HIDE DEF ifile, handle, o
  <2>3. o = [v EXCEPT !.stream = y]
    BY <1>0, <2>2 DEF WithFiles, ViewerRecord, ViewerStream
  <2>5. /\ y.exists = x.exists
        /\ y.index_sent_seqcount = x.index_sent_seqcount /\ y.trace_chunk = c
    BY <1>0 DEF WithFiles, ViewerStream
  <2> HIDE DEF y
  <2>6. o \in ViewerRecord /\ o.stream = y /\ o.ahead = v.ahead /\ o.reply = "proceed"
    BY <1>0, <2>1, <2>3 DEF ViewerRecord
  <2>7. Progress(o)
    BY <2>1, <2>5, <2>6 DEF Progress
  <2> QED
    BY <2>1, <2>6, <2>7 DEF o
<1> QED
  BY <1>1, <1>2

LEMMA LessIsNotMore == \A a, b \in Nat : a < b => ~(a >= b)
  OBVIOUS

LEMMA ReadOutcome ==
    ASSUME RelayState, ViewInv, NEW v, Progress(v), Readable(v.stream)
    PROVE  Outcome(lttng_index_file_read(v))
<1> DEFINE x == v.stream
           c == x.trace_chunk
           i == x.current_tracefile_id
           s == x.index_sent_seqcount
           k == x.index_file
           h == x.handle
           p == Packets(stream, h)
           lag == Lag(viewer)
           r == lttng_index_file_read(v)
<1>0. /\ v \in ViewerRecord /\ x \in ViewerStream /\ s \in Nat /\ x.pos \in Nat
      /\ Viewing(x, lag) /\ Settled(x) /\ lag \in 0 .. 1
      /\ InChunks(stream, x) /\ Counts(stream, x)
      /\ Follows(tfa, received, stream, x, lag) /\ i \in RingIds
      /\ Opened(received, stream, x) /\ AtPosition(tfa, received, stream, x, lag)
      /\ k # NoFile /\ h # NoFile /\ Latest(stream, h)
  BY DEF Progress, ViewerRecord, ViewerStream, Lag, Viewing, View, Readable, Follows
<1>1. /\ IInv /\ RelayInv /\ stream \in RelayStream /\ received \in Nat
      /\ FilesOK(stream, received) /\ ChunksOK(stream, session)
      /\ ArrayOK(tfa, received) /\ viewer.stream.index_sent_seqcount \in Nat
  BY DEF RelayState, RelayInv, Relay, IInv, TypeOK, ViewInv, ViewerOK, ViewerRecord,
         ViewerStream
<1>2. /\ Paired(stream, k, h) /\ x.pos <= Len(p)
      /\ DataNamed(stream, h, c, i)
  BY <1>0 DEF Opened, DataNamed
<1>3. /\ k \in 1 .. Len(stream.ifiles) /\ h \in 1 .. LastFile(stream) /\ Len(p) > 0
  BY <1>1, <1>2, PairIsWritten
<1>4. /\ p \in Seq(Nat) /\ Len(p) \in Nat /\ p[1] \in Nat
      /\ Entries(stream, k) \in Seq([seq : Nat, offset : Nat])
      /\ Len(Entries(stream, k)) = Len(p)
      /\ \A n \in 1 .. Len(p) : /\ Entries(stream, k)[n].seq = p[n]
                                /\ Entries(stream, k)[n].offset = n
                                /\ p[n] = p[1] + n - 1
  <2>1. p \in Seq(Nat) /\ Len(p) \in Nat
        /\ Entries(stream, k) \in Seq([seq : Nat, offset : Nat])
    BY <1>1, <1>3, FileTypes DEF LastFile
  <2>2. Run(p, received)
    BY <1>1, <1>3 DEF FilesOK, LastFile
  <2> QED
    BY <1>1, <1>2, <1>3, <2>1, <2>2, RunBounds DEF Paired
<1>5. c # NoChunk /\ (c = RingChunk(stream) \/ Left(stream, x))
  <2>1. c \in 1 .. session.chunks
    BY <1>1, <1>2 DEF DataNamed, ChunksOK
  <2>2. c # NoChunk
    BY <2>1 DEF NoChunk
  <2> QED
    BY <1>0, <2>2 DEF Settled, Left
<1>6. ASSUME c = RingChunk(stream)
      PROVE  /\ s < received /\ s < p[1] + Len(p)
             /\ p[1] + x.pos <= s /\ s <= p[1] + x.pos + lag
  <2>1. s < received /\ (count > 0 => InRange(i, s))
    BY <1>6 DEF Readable
  <2>2. s < p[1] + Len(p)
    BY <1>0, <1>2, <1>3, <1>6, <2>1, NextIndexIn
  <2>3. p[1] + x.pos <= s /\ s <= p[1] + x.pos + lag
    BY <1>0, <1>3, <1>6 DEF AtPosition
  <2> QED
    BY <2>1, <2>2, <2>3
<1>7. CASE x.pos >= Len(p)
  <2>1. r = Reply(v, "err")
    BY <1>4, <1>7 DEF lttng_index_file_read, Entries
  <2>2. r \in ViewerRecord /\ r.stream = x /\ r.ahead = v.ahead /\ r.reply = "err"
    BY <1>0, <2>1, ReplyFields
  <2>3. c # RingChunk(stream)
    <3> SUFFICES ASSUME c = RingChunk(stream) PROVE FALSE
      OBVIOUS
    <3>1. s < p[1] + Len(p) /\ p[1] + x.pos <= s
      BY <1>6
    <3> HIDE DEF p, s
    <3> QED
      BY <1>0, <1>4, <1>7, <3>1
  <2> HIDE DEF r
  <2>4. Outcome(r)
    BY <1>5, <2>2, <2>3, ProgressOutcome
  <2> QED
    BY <2>4 DEF r
<1>8. CASE x.pos < Len(p)
  <2> DEFINE e == Entries(stream, k)[x.pos + 1]
             y == [x EXCEPT !.pos = x.pos + 1, !.index_sent_seqcount = s + 1]
  <2>0. s \in Nat /\ x.pos \in Nat /\ lag \in 0 .. 1 /\ p[1] \in Nat /\ Len(p) \in Nat
    BY <1>0, <1>4
  <2>1. x.pos + 1 \in 1 .. Len(p) /\ s + 1 \in Nat /\ x.pos + 1 \in Nat
    <3> HIDE DEF p, s
    <3> QED
      BY <1>8, <2>0
  <2>2. /\ e \in [seq : Nat, offset : Nat] /\ e.seq = p[x.pos + 1]
        /\ e.offset = x.pos + 1 /\ p[x.pos + 1] = p[1] + x.pos
    <3>1. e \in [seq : Nat, offset : Nat]
      <4>1. /\ Entries(stream, k) \in Seq([seq : Nat, offset : Nat])
            /\ x.pos + 1 \in 1 .. Len(Entries(stream, k))
        BY <1>4, <2>1
      <4> QED
        BY <4>1, ElementOf
    <3>2. /\ e.seq = p[x.pos + 1] /\ e.offset = x.pos + 1
          /\ p[x.pos + 1] = p[1] + (x.pos + 1) - 1
      BY <1>4, <2>1
    <3>3. p[1] + (x.pos + 1) - 1 = p[1] + x.pos
      BY <1>0, <1>4
    <3> QED
      BY <3>1, <3>2, <3>3
  <2>3. r = [v EXCEPT !.stream.pos = @ + 1, !.stream.index_sent_seqcount = @ + 1,
                      !.index = e, !.reply = "ok"]
    <3>1. ~(x.pos >= Len(stream.ifiles[k].packets))
      <4>1. Len(stream.ifiles[k].packets) = Len(p)
        BY Zenon, <1>4 DEF Entries
      <4> QED
        BY Zenon, <1>8, <2>0, <4>1, LessIsNotMore
    <3> QED
      BY <3>1 DEF lttng_index_file_read, Entries
  <2> HIDE DEF r, e
  <2>4. r = [v EXCEPT !.stream = y, !.index = e, !.reply = "ok"]
    BY <1>0, <2>3 DEF ViewerRecord, ViewerStream
  <2>5. /\ y \in ViewerStream /\ y.exists = x.exists /\ y.trace_chunk = c
        /\ y.sent_flag = x.sent_flag
        /\ y.last_seen_rotation_count = x.last_seen_rotation_count
        /\ y.current_tracefile_id = i /\ y.index_sent_seqcount = s + 1
        /\ y.index_file = k /\ y.pos = x.pos + 1 /\ y.handle = h
    BY <1>0, <2>1 DEF ViewerStream
  <2> HIDE DEF y
  <2>6. /\ r \in ViewerRecord /\ r.stream = y /\ r.index = e /\ r.reply = "ok"
        /\ r.ahead = v.ahead
    <3>1. e \in [seq : Int, offset : Nat]
      BY <2>2
    <3> QED
      BY <1>0, <2>4, <2>5, <3>1 DEF ViewerRecord, Statuses
  <2>7. Follows(tfa, received, stream, y, lag)
    <3>1. Tracked(tfa, received, i, s + 1)
      <4>1. CASE count = 0
        BY <4>1 DEF Tracked
      <4>2. CASE count > 0
        <5>1. i \in Files /\ InRange(i, s)
          BY <1>0, <4>2, Limited DEF Readable
        <5>2. HasSeq(i, s)
          BY <1>0, <1>1, <4>2, <5>1, HasSeqInRange
        <5> QED
          BY <1>0, <1>1, <4>2, <5>1, <5>2, Advance
      <4> QED
        BY <4>1, <4>2, CountAssumption
    <3>2. ~stream.closed => c = RingChunk(stream) /\ s + 1 <= received + lag
                            /\ ~(s + 1 > received)
      <4> SUFFICES ASSUME ~stream.closed
                   PROVE  c = RingChunk(stream) /\ s + 1 <= received + lag
                          /\ ~(s + 1 > received)
        OBVIOUS
      <4>1. c = RingChunk(stream)
        BY <1>5 DEF Left
      <4>2. s < received
        BY <1>6, <4>1
      <4> QED
        BY <1>0, <1>1, <4>1, <4>2
    <3>3. received <= s => received <= s + 1
      BY <1>0, <1>1
    <3> QED
      BY <1>0, <2>5, <3>1, <3>2, <3>3 DEF Follows
  <2>8. Opened(received, stream, y)
    <3>1. Behind(received, stream, s + 1, h)
      BY <1>0 DEF Behind, Latest, SameName
    <3>2. x.pos + 1 <= Len(p)
      BY <1>0, <1>4, <1>8
    <3> QED
      BY <1>0, <1>2, <1>3, <2>5, <3>1, <3>2 DEF Opened, DataNamed
  <2>9. AtPosition(tfa, received, stream, y, lag)
    <3> SUFFICES ASSUME c = RingChunk(stream)
                 PROVE  /\ p[1] + (x.pos + 1) <= s + 1
                        /\ s + 1 <= p[1] + (x.pos + 1) + lag
                        /\ s + 1 <= p[1] + Len(p)
      <4>1. h # NoFile /\ Len(p) # 0
        BY <1>0, <1>3
      <4> QED
        BY <2>5, <4>1 DEF AtPosition
    <3>1. /\ s < p[1] + Len(p)
          /\ p[1] + x.pos <= s /\ s <= p[1] + x.pos + lag
      BY <1>6
    <3> HIDE DEF p, s, lag
    <3> QED
      BY <2>0, <3>1
  <2>10. View(tfa, received, stream, y, Lag(r))
    <3>1. Lag(r) = lag
      BY <2>6 DEF Lag, Progress
    <3>2. InChunks(stream, y) /\ Counts(stream, y)
      BY <1>0, <2>5 DEF InChunks, Counts
    <3> QED
      BY <2>7, <2>8, <2>9, <3>1, <3>2 DEF View
  <2>11. ~viewer.ahead => e.seq = s \/ Left(stream, y)
    <3> SUFFICES ASSUME ~viewer.ahead, c = RingChunk(stream) PROVE e.seq = s
      BY <1>5, <2>5 DEF Left
    <3>1. lag = 0 /\ p[1] + x.pos <= s /\ s <= p[1] + x.pos + lag
      BY <1>6 DEF Lag
    <3>2. e.seq = p[1] + x.pos
      BY <2>2
    <3> HIDE DEF p, s, lag
    <3> QED
      BY <1>0, <1>4, <3>1, <3>2
  <2>12. Answered(stream, r)
    <3>1. s + 1 - 1 = s
      BY <1>0
    <3>2. r.ahead = viewer.ahead /\ x.exists
      BY <2>6 DEF Progress
    <3>3. e.offset \in 1 .. Len(p) /\ p[e.offset] = e.seq
      BY <2>1, <2>2
    <3>4. h # NoFile
      BY <1>0
    <3>5. r.index.seq = r.stream.index_sent_seqcount - 1 \/ r.ahead \/ Left(stream, r.stream)
      <4>1. r.stream.index_sent_seqcount - 1 = s
        <5>1. r.stream.index_sent_seqcount = s + 1
          BY <2>5, <2>6
        <5> HIDE DEF s
        <5> QED
          BY <2>0, <5>1
      <4>2. r.index.seq = e.seq /\ r.stream = y
        BY <2>6
      <4> HIDE DEF s
      <4> QED
        BY <2>11, <3>2, <4>1, <4>2
    <3> HIDE DEF x, p, h
    <3> QED
      BY <2>5, <2>6, <3>2, <3>3, <3>4, <3>5 DEF Answered, p
  <2>13. Passed(r)
    <3> DEFINE s0 == viewer.stream.index_sent_seqcount
    <3>1. s0 <= s /\ \A n \in s0 .. s - 1 : n < tfa.seq_tail
      BY <1>5 DEF Progress, Skipped
    <3>2. s0 <= s + 1
      BY <1>0, <1>1, <3>1
    <3>3. ASSUME NEW n \in s0 .. (s + 1) - 1 PROVE n \in s0 .. s - 1 \/ n = s
      BY <1>0, <1>1, <3>3
    <3> HIDE DEF s0
    <3> QED
      BY <2>5, <2>6, <2>11, <3>1, <3>2, <3>3 DEF Passed, s0
  <2> QED
    BY <2>6, <2>10, <2>12, <2>13 DEF Outcome, ViewerOK, r
<1> QED
  BY <1>0, <1>4, <1>7, <1>8

\* A viewer's request for the next index.
LEMMA NextIndexStep ==
    ASSUME RelayState, ViewInv, viewer_get_next_index
    PROVE  Outcome(viewer')
<1>0. /\ viewer \in ViewerRecord /\ viewer.stream.exists
      /\ View(tfa, received, stream, viewer.stream, Lag(viewer))
      /\ viewer.stream.index_sent_seqcount \in Nat
  BY DEF ViewInv, ViewerOK, Answered, viewer_get_next_index, ViewerRecord, ViewerStream
<1>1. CASE viewer' = Reply(viewer, "retry")
  <2>1. PICK r : r = viewer'
    OBVIOUS
  <2>2. r \in ViewerRecord /\ r.stream = viewer.stream /\ r.reply = "retry"
        /\ r.ahead = viewer.ahead
    BY <1>0, <1>1, <2>1, ReplyFields
  <2>3. Answered(stream, r)
    BY <1>0, <2>2 DEF Answered, ViewInv, ViewerOK
  <2>4. Lag(r) = Lag(viewer)
    BY <2>2 DEF Lag
  <2>5. Passed(r)
    <3>1. Skipped(viewer.stream.index_sent_seqcount, viewer.stream.index_sent_seqcount)
      BY <1>0, SkippedNone
    <3> QED
      BY <2>2, <3>1 DEF Passed, Skipped
  <2>6. Outcome(r)
    BY <1>0, <2>2, <2>3, <2>4, <2>5 DEF Outcome, ViewerOK
  <2> QED
    BY <2>1, <2>6
<1>2. ASSUME NEW v, NEW checked, NEW opened, v = ToNewestChunk(viewer),
             checked = check_index_status(v), opened = OpenFiles(checked),
             viewer' = IF checked.reply # "proceed" THEN checked
                       ELSE IF opened.reply # "proceed" THEN opened
                       ELSE lttng_index_file_read(opened)
      PROVE  Outcome(viewer')
  <2>1. Progress(v)
    BY <1>0, <1>2, NewestProgress
  <2>2. /\ checked.reply # "proceed" => Outcome(checked)
        /\ checked.reply = "proceed" => Progress(checked) /\ Ready(checked.stream)
    BY <1>2, <2>1, CheckProgress
  <2>3. CASE checked.reply # "proceed"
    BY <1>2, <2>2, <2>3
  <2>4. CASE checked.reply = "proceed"
    <3>1. /\ opened.reply # "proceed" => Outcome(opened)
          /\ opened.reply = "proceed" => Progress(opened) /\ Readable(opened.stream)
      BY <1>2, <2>2, <2>4, OpenProgress
    <3>2. CASE opened.reply # "proceed"
      BY <1>2, <2>4, <3>1, <3>2
    <3>3. CASE opened.reply = "proceed"
      <4>1. Outcome(lttng_index_file_read(opened))
        BY <3>1, <3>3, ReadOutcome
      <4> QED
        BY <1>2, <2>4, <3>3, <4>1
    <3> QED
      BY <3>2, <3>3
  <2> QED
    BY <2>3, <2>4
<1> QED
  BY <1>1, <1>2 DEF viewer_get_next_index

\* The other requests.

-----------------------------------------------------------------------------
\* The viewer streams are made.
\* viewer_stream_create: the place in the ring.
LEMMA CreatedPlace ==
    ASSUME RelayState, NEW seek, NEW x, x = viewer_stream_create(stream.trace_chunk, seek)
    PROVE  /\ x.current_tracefile_id \in RingIds /\ x.current_tracefile_id \in Nat
           /\ x.index_sent_seqcount \in Nat
           /\ Tracked(tfa, received, x.current_tracefile_id, x.index_sent_seqcount)
           /\ x.index_sent_seqcount <= received + 1
           /\ x.index_sent_seqcount > received =>
                tfa.seq_head = received /\ tfa.seq_tail = received /\ x.current_tracefile_id = 0
           /\ tfa.seq_tail = received => received <= x.index_sent_seqcount
           /\ tfa.seq_tail # Unset =>
                RangeOf(tfa, x.current_tracefile_id).seq_tail # Unset
           /\ tfa.seq_tail = Unset => x.current_tracefile_id = 0 /\ received = 0
           /\ seek # "last" /\ tfa.seq_tail # Unset =>
                x.index_sent_seqcount = RangeOf(tfa, x.current_tracefile_id).seq_tail
           /\ seek = "last" /\ tfa.seq_tail # Unset =>
                x.index_sent_seqcount = RangeOf(tfa, x.current_tracefile_id).seq_head + 1
<1> DEFINE t == tfa.file_tail
           h == tfa.file_head_read
<1>0. IInv /\ ArrayOK(tfa, received) /\ count # 1
  BY DEF RelayState
<1>1. /\ t \in RingIds /\ h \in RingIds /\ t \in Nat /\ h \in Nat
      /\ tfa.seq_tail \in Int /\ tfa.seq_head \in Int /\ received \in Nat
      /\ Tail0 \in Nat /\ Tail0 <= received /\ tfa.seq_tail <= Tail0
      /\ tfa.seq_tail # Unset => Tail0 = tfa.seq_tail
      /\ tfa.seq_tail = Unset => Tail0 = 0
      /\ tfa.seq_head + 1 \in Nat /\ tfa.seq_head <= received
      /\ Tracked(tfa, received, t, Tail0)
      /\ Tracked(tfa, received, h, tfa.seq_head + 1)
  BY <1>0, RingEnds DEF IInv, TypeOK, TracefileArrayType
<1>2. /\ tfa.seq_head = received => tfa.seq_tail = received /\ t = 0 /\ h = 0
      /\ tfa.seq_tail = Unset => t = 0 /\ h = 0 /\ received = 0
      /\ tfa.seq_tail # Unset => tfa.seq_head # Unset /\ RangeOf(tfa, h).seq_head = tfa.seq_head
      /\ tfa.seq_head \in {Unset, received - 1, received}
  BY <1>0 DEF ArrayOK, AtZero
<1>3. tfa.seq_tail # Unset => /\ RangeOf(tfa, t).seq_tail = tfa.seq_tail
                              /\ RangeOf(tfa, h).seq_tail # Unset
  <2> SUFFICES ASSUME tfa.seq_tail # Unset
               PROVE  /\ RangeOf(tfa, t).seq_tail = tfa.seq_tail
                      /\ RangeOf(tfa, h).seq_tail # Unset
    OBVIOUS
  <2>1. CASE count = 0
    BY <2>1, Unlimited
  <2>2. CASE count > 0
    <3>1. TypeOK /\ h \in Files /\ tfa.tf[t].seq_tail = tfa.seq_tail
          /\ RangeOf(tfa, t) = tfa.tf[t] /\ RangeOf(tfa, h) = tfa.tf[h]
      BY <1>0, <1>1, <2>2, Limited DEF IInv, TailIsOldestRetained
    <3>2. ~Empty(h)
      BY <1>2, <3>1 DEF Empty, EmptyFile
    <3>3. tfa.tf[h].seq_tail \in Nat
      BY <1>0, <2>2, <3>1, <3>2, FilesInOrder
    <3> QED
      BY <3>1, <3>3 DEF Unset
  <2> QED
    BY <2>1, <2>2, CountAssumption
<1>4. CASE seek = "last"
  <2>1. x.current_tracefile_id = h /\ x.index_sent_seqcount = tfa.seq_head + 1
    BY <1>4 DEF viewer_stream_create
  <2>2. tfa.seq_head + 1 > received => tfa.seq_head = received
    BY <1>1
  <2>3. tfa.seq_tail = received => received <= tfa.seq_head + 1
    BY <1>1, <1>2 DEF Unset
  <2>4. tfa.seq_head + 1 <= received + 1
    BY <1>1
  <2> QED
    BY <1>1, <1>2, <1>3, <1>4, <2>1, <2>2, <2>3, <2>4
<1>5. CASE seek # "last"
  <2>1. x.current_tracefile_id = t /\ x.index_sent_seqcount = Tail0
    BY <1>5 DEF viewer_stream_create
  <2>2. Tail0 <= received + 1 /\ ~(Tail0 > received)
    BY <1>1
  <2>3. tfa.seq_tail = received => received <= Tail0
    BY <1>1
  <2> QED
    BY <1>1, <1>2, <1>3, <1>5, <2>1, <2>2, <2>3
<1> QED
  BY <1>4, <1>5

LEMMA CreatedView ==
    ASSUME RelayState, ~stream.closed, NEW seek, NEW x,
           x = viewer_stream_create(stream.trace_chunk, seek)
    PROVE  /\ x \in ViewerStream /\ ~CreateFails(x) /\ x.exists /\ ~x.sent_flag
           /\ View(tfa, received, stream, x,
                   IF x.index_sent_seqcount > received THEN 1 ELSE 0)
<1> DEFINE c == stream.trace_chunk
           i == x.current_tracefile_id
           s == x.index_sent_seqcount
           lag == IF s > received THEN 1 ELSE 0
           k == IF stream.index_file = NoFile \/ c = NoChunk THEN NoFile
                ELSE OpenFile(stream.ifiles, c, i)
           d == IF stream.file = NoFile \/ c = NoChunk THEN NoFile
                ELSE OpenFile(stream.dfiles, c, i)
           p == Packets(stream, d)
<1>0. /\ IInv /\ ArrayOK(tfa, received) /\ stream \in RelayStream /\ RelayInv
      /\ CurrentOK(tfa, received, open, stream) /\ received \in Nat
      /\ ChunksOK(stream, session) /\ c \in Nat
      /\ stream.completed_rotation_count \in Nat
  BY DEF RelayState, RelayInv, Relay, IInv, TypeOK, RelayStream
<1>1. /\ x.exists = TRUE /\ x.sent_flag = FALSE /\ x.trace_chunk = c
      /\ x.index_file = k /\ x.handle = d
      /\ x.pos = IF seek = "last" /\ k # NoFile
                 THEN Len(stream.ifiles[k].packets) ELSE 0
      /\ x.last_seen_rotation_count = stream.completed_rotation_count
  BY DEF viewer_stream_create
<1>2. x = [exists |-> x.exists, sent_flag |-> x.sent_flag,
           current_tracefile_id |-> i, index_sent_seqcount |-> s,
           trace_chunk |-> x.trace_chunk, index_file |-> x.index_file,
           pos |-> x.pos, handle |-> x.handle,
           last_seen_rotation_count |-> x.last_seen_rotation_count]
  BY DEF viewer_stream_create
<1>3. /\ i \in RingIds /\ i \in Nat /\ s \in Nat
      /\ Tracked(tfa, received, i, s)
      /\ s <= received + 1
      /\ s > received => tfa.seq_head = received /\ tfa.seq_tail = received /\ i = 0
      /\ tfa.seq_tail = received => received <= s
      /\ tfa.seq_tail # Unset => RangeOf(tfa, i).seq_tail # Unset
      /\ tfa.seq_tail = Unset => i = 0 /\ received = 0
      /\ seek # "last" /\ tfa.seq_tail # Unset => s = RangeOf(tfa, i).seq_tail
      /\ seek = "last" /\ tfa.seq_tail # Unset => s = RangeOf(tfa, i).seq_head + 1
  BY CreatedPlace
<1>4. Counts(stream, x)
  BY <1>0, <1>1 DEF Counts
<1>5. InChunks(stream, x)
  <2>1. LastFile(stream) \in 1 .. LastFile(stream)
    BY <1>0, FileTypes DEF ChunksOK, LastFile
  <2> QED
    BY <1>0, <1>1, <2>1 DEF InChunks, CurrentOK, RingChunk
<1>6. Follows(tfa, received, stream, x, lag)
  <2>1. s <= received + lag
    BY <1>0, <1>3
  <2> HIDE DEF lag
  <2> QED
    BY <1>1, <1>3, <2>1 DEF Follows
<1>7. CASE c = NoChunk
  <2>1. k = NoFile /\ d = NoFile /\ NoFile \in Nat
    BY <1>7 DEF NoFile
  <2>2. x.pos = 0 /\ x.index_file = NoFile /\ x.handle = NoFile
    BY <1>1, <2>1
  <2>3. x \in ViewerStream
    <3>1. /\ x.exists \in BOOLEAN /\ x.sent_flag \in BOOLEAN /\ x.trace_chunk \in Nat
          /\ x.last_seen_rotation_count \in Nat
      BY <1>0, <1>1
    <3>2. x.index_file \in Nat /\ x.handle \in Nat /\ x.pos \in Nat
      BY <2>1, <2>2
    <3> QED
      BY <1>2, <1>3, <3>1, <3>2 DEF ViewerStream
  <2>4. RingChunk(stream) # NoChunk
    BY <1>0, FileTypes DEF ChunksOK, LastFile, RingChunk, NoChunk
  <2>5. Opened(received, stream, x) /\ AtPosition(tfa, received, stream, x, lag)
    BY <1>1, <1>7, <2>2, <2>4 DEF Opened, AtPosition
  <2>6. ~CreateFails(x)
    BY <1>1, <1>7 DEF CreateFails
  <2> QED
    BY <1>1, <1>4, <1>5, <1>6, <2>3, <2>5, <2>6 DEF View
<1>8. CASE c # NoChunk
  <2>1. stream.file # NoFile /\ c = RingChunk(stream)
    BY <1>0, <1>8 DEF CurrentOK
  <2>2. d = OpenFile(stream.dfiles, c, i)
    BY <1>8, <2>1
  <2>3. /\ d # NoFile /\ DataNamed(stream, d, c, i)
        /\ Latest(stream, d) /\ Len(p) \in Nat
        /\ Len(p) = 0 =>
             /\ d = LastFile(stream)
             /\ \/ tfa.seq_tail = Unset
                \/ tfa.seq_head = received /\ tfa.seq_tail = received
        /\ Len(p) > 0 =>
             /\ tfa.seq_tail # Unset /\ p[1] \in Nat
             /\ p[1] = RangeOf(tfa, i).seq_tail
             /\ p[1] + Len(p) - 1 = RangeOf(tfa, i).seq_head
    BY <1>3, <1>8, <2>2, CreatedHandle
  <2> HIDE DEF d
  <2>4. /\ k \in Nat
        /\ k # NoFile => Paired(stream, k, d)
        /\ Len(p) > 0 => k # NoFile
    BY <1>3, <1>8, <2>3, CreatedIndex
  <2> HIDE DEF k
  <2>5. /\ k # NoFile => Len(stream.ifiles[k].packets) = Len(p)
        /\ x.pos = IF seek = "last" /\ k # NoFile THEN Len(p) ELSE 0
    <3>1. k # NoFile => Len(stream.ifiles[k].packets) = Len(p)
      BY <2>4 DEF Paired, Entries
    <3>2. x.pos = IF seek = "last" /\ k # NoFile THEN Len(stream.ifiles[k].packets) ELSE 0
      BY <1>1
    <3> HIDE DEF p
    <3> QED
      BY <3>1, <3>2
  <2>6. x \in ViewerStream
    <3>1. d \in Nat /\ x.pos \in Nat
      <4>1. d \in 1 .. LastFile(stream) /\ LastFile(stream) \in Nat /\ Len(p) \in Nat
        BY <1>0, <2>3, FileTypes DEF DataNamed, LastFile
      <4> HIDE DEF p
      <4> QED
        BY <2>5, <4>1
    <3> QED
      BY <1>0, <1>1, <1>2, <1>3, <2>4, <3>1 DEF ViewerStream
  <2>7. Opened(received, stream, x)
    <3>1. Behind(received, stream, s, d)
      BY <2>3 DEF Behind, Latest, SameName
    <3>2. k # NoFile => x.pos <= Len(p)
      BY <2>3, <2>5
    <3>3. k = NoFile => x.pos = 0
      BY <2>5
    <3>4. x.index_file = k /\ x.handle = d /\ x.trace_chunk = c
      BY <1>1
    <3> HIDE DEF c
    <3> QED
      BY <2>3, <2>4, <3>1, <3>2, <3>3, <3>4 DEF Opened, DataNamed
  <2>8. ASSUME Len(p) > 0
        PROVE  /\ p[1] + x.pos <= s /\ s <= p[1] + x.pos + lag
               /\ s <= p[1] + Len(p)
    <3>1. /\ p[1] \in Nat /\ x.pos = IF seek = "last" THEN Len(p) ELSE 0
          /\ s = IF seek = "last" THEN p[1] + Len(p) - 1 + 1 ELSE p[1]
      BY <1>3, <2>3, <2>4, <2>5, <2>8
    <3>2. lag \in 0 .. 1
      OBVIOUS
    <3> HIDE DEF p, lag, s
    <3> QED
      BY <2>3, <2>8, <3>1, <3>2
  <2>9. Len(p) = 0 => d = LastFile(stream) /\ received <= s
    BY <1>0, <1>3, <2>3
  <2>10. AtPosition(tfa, received, stream, x, lag)
    BY <1>1, <2>3, <2>8, <2>9 DEF AtPosition
  <2>11. ~CreateFails(x)
    BY <1>1, <2>3 DEF CreateFails
  <2> QED
    BY <1>1, <1>4, <1>5, <1>6, <2>6, <2>7, <2>10, <2>11 DEF View
<1> QED
  BY <1>7, <1>8

\* make_viewer_streams, for a viewer that has not just been sent an index.
LEMMA MadeView ==
    ASSUME RelayState, NEW seek, NEW v, ViewerOK(tfa, received, stream, v), v.reply # "ok"
    PROVE  LET m == make_viewer_streams(v, seek)
           IN  /\ ViewerOK(tfa, received, stream, m) /\ m.reply = v.reply
               /\ v.stream.exists => m = v
<1> DEFINE m == make_viewer_streams(v, seek)
           x == viewer_stream_create(stream.trace_chunk, seek)
           chunk == IF stream.is_rotating /\ stream.trace_chunk # NoChunk
                    THEN v.chunk ELSE stream.trace_chunk
           ahead == x.index_sent_seqcount > received
<1>1. CASE stream.closed \/ v.stream.exists
  BY <1>1 DEF make_viewer_streams
<1>2. CASE ~stream.closed /\ ~v.stream.exists
  <2>1. /\ x \in ViewerStream /\ ~CreateFails(x) /\ x.exists /\ ~x.sent_flag
        /\ View(tfa, received, stream, x,
                IF x.index_sent_seqcount > received THEN 1 ELSE 0)
    BY <1>2, CreatedView
  <2>2. m = [v EXCEPT !.stream = x, !.chunk = chunk, !.ahead = ahead]
    BY <1>2, <2>1 DEF make_viewer_streams
  <2>3. v \in ViewerRecord /\ Answered(stream, v) /\ chunk \in Nat
    BY DEF ViewerOK, ViewerRecord, RelayState, RelayInv, Relay, RelayStream
  <2>4. PICK b \in BOOLEAN : b = ahead
    <3>1. ahead \in BOOLEAN
      OBVIOUS
    <3> HIDE DEF ahead
    <3> QED
      BY <3>1
  <2>5. View(tfa, received, stream, x, IF b THEN 1 ELSE 0)
    BY <2>1, <2>4
  <2> HIDE DEF x, chunk, ahead, m
  <2>6. /\ m \in ViewerRecord /\ m.stream = x /\ m.reply = v.reply /\ m.ahead = b
        /\ m.index = v.index /\ m.packet = v.packet
    BY <2>1, <2>2, <2>3, <2>4 DEF ViewerRecord
  <2>7. Answered(stream, m)
    BY <1>2, <2>1, <2>3, <2>6 DEF Answered
  <2>8. View(tfa, received, stream, m.stream, Lag(m))
    BY <2>5, <2>6 DEF Lag
  <2> QED
    BY <1>2, <2>6, <2>7, <2>8 DEF ViewerOK, m
<1> QED
  BY <1>1, <1>2

LEMMA NoViewerIs ==
    /\ NoViewer \in ViewerRecord /\ NoViewer.stream = NoStream
    /\ NoViewer.reply = "none"
  BY NoStreamIs DEF NoViewer, ViewerRecord, Unset, NoChunk, Statuses

LEMMA WithoutStream ==
    ASSUME NEW v \in ViewerRecord, v.stream = NoStream, v.reply = "none"
    PROVE  /\ ViewerOK(tfa, received, stream, v)
           /\ ~v.stream.exists /\ ~v.stream.sent_flag
<1>1. ~v.stream.exists /\ ~v.stream.sent_flag
  BY NoStreamIs
<1>2. Answered(stream, v)
  BY <1>1 DEF Answered
<1> QED
  BY <1>1, <1>2 DEF ViewerOK

LEMMA PacketStep ==
    ASSUME RelayState, ViewInv, viewer_get_packet
    PROVE  /\ ViewerOK(tfa, received, stream, viewer')
           /\ viewer'.stream = viewer.stream
<1> DEFINE x == viewer.stream
           p == Packets(stream, x.handle)
           n == viewer.index.offset
<1>0. /\ viewer \in ViewerRecord /\ x.exists /\ x.handle # NoFile /\ n \in 1 .. Len(p)
      /\ p[n] = viewer.index.seq /\ Answered(stream, viewer)
      /\ View(tfa, received, stream, x, Lag(viewer)) /\ viewer.index.seq \in Int
  BY DEF ViewInv, ViewerOK, Answered, viewer_get_packet, ViewerRecord
<1>1. Len(p) \in Nat
  BY <1>0, FileTypes DEF View, Opened, RelayState, RelayInv, Relay, LastFile
<1>2. ~(n > Len(p))
  BY <1>0, <1>1
<1>3. viewer' = [viewer EXCEPT !.packet = viewer.index.seq, !.reply = "packet"]
  BY <1>0, <1>2 DEF viewer_get_packet, Packets
<1>4. PICK v : v = viewer'
  OBVIOUS
<1>5. /\ v \in ViewerRecord /\ v.stream = x /\ v.reply = "packet" /\ v.ahead = viewer.ahead
      /\ v.packet = viewer.index.seq /\ v.index = viewer.index
  BY <1>0, <1>3, <1>4 DEF ViewerRecord, Statuses
<1>6. Answered(stream, v)
  BY <1>0, <1>5 DEF Answered
<1>7. Lag(v) = Lag(viewer)
  BY <1>5 DEF Lag
<1> QED
  BY <1>0, <1>4, <1>5, <1>6, <1>7 DEF ViewerOK

LEMMA AttachStep ==
    ASSUME RelayState, NEW seek, viewer_attach_session(seek)
    PROVE  ViewerOK(tfa, received, stream, viewer') /\ ~viewer.attached
<1> DEFINE v == [NoViewer EXCEPT !.attached = TRUE,
                                 !.chunk = session.current_trace_chunk]
           made == make_viewer_streams(v, seek)
<1>1. /\ ViewerOK(tfa, received, stream, v) /\ v.reply = "none"
      /\ ~v.stream.exists /\ ~v.stream.sent_flag
  <2>1. session.current_trace_chunk \in Nat
    BY DEF RelayState, RelaySession
  <2>2. v \in ViewerRecord /\ v.stream = NoStream /\ v.reply = "none"
    BY <2>1, NoViewerIs DEF ViewerRecord
  <2> HIDE DEF v
  <2> QED
    BY <2>2, WithoutStream
<1>2. \/ viewer' = v
      \/ viewer' = [made EXCEPT !.stream.sent_flag =
                       made.stream.exists /\ ~session.connection_closed]
  BY DEF viewer_attach_session
<1> HIDE DEF v
<1>3. ViewerOK(tfa, received, stream, made) /\ made.reply = "none"
  BY <1>1, MadeView
<1> HIDE DEF made
<1>4. PICK b \in BOOLEAN : b <=> made.stream.exists /\ ~session.connection_closed
  OBVIOUS
<1>5. ViewerOK(tfa, received, stream,
               [made EXCEPT !.stream.sent_flag = b, !.reply = "none"])
  BY <1>3, <1>4, SentView DEF Statuses
<1>6. [made EXCEPT !.stream.sent_flag = b, !.reply = "none"]
        = [made EXCEPT !.stream.sent_flag = b]
  BY <1>3 DEF ViewerOK, ViewerRecord
<1>7. [made EXCEPT !.stream.sent_flag = made.stream.exists /\ ~session.connection_closed]
        = [made EXCEPT !.stream.sent_flag = b]
  <2>1. b = (made.stream.exists /\ ~session.connection_closed)
    BY <1>3, <1>4 DEF ViewerOK, ViewerRecord, ViewerStream
  <2> QED
    BY <2>1
<1>8. ~viewer.attached
  BY DEF viewer_attach_session
<1> QED
  BY <1>1, <1>2, <1>5, <1>6, <1>7, <1>8

LEMMA NewStreamsStep ==
    ASSUME RelayState, ViewInv, viewer_get_new_streams
    PROVE  /\ ViewerOK(tfa, received, stream, viewer')
           /\ viewer.stream.exists =>
                viewer'.stream.index_sent_seqcount = viewer.stream.index_sent_seqcount
<1> DEFINE made == make_viewer_streams(viewer, "beginning")
<1>1. /\ viewer.reply # "ok" /\ ~viewer.stream.sent_flag
      /\ \/ viewer' = [made EXCEPT !.reply = "hup"]
         \/ viewer' = [made EXCEPT !.stream.sent_flag = made.stream.exists]
  BY DEF viewer_get_new_streams
<1>2. /\ ViewerOK(tfa, received, stream, made) /\ made.reply = viewer.reply
      /\ viewer.stream.exists => made = viewer
  BY <1>1, MadeView DEF ViewInv
<1> HIDE DEF made
<1>3. /\ made \in ViewerRecord /\ made.stream \in ViewerStream
      /\ made.stream.exists \in BOOLEAN /\ made.stream.sent_flag \in BOOLEAN
      /\ made.reply \in Statuses /\ "hup" \in Statuses
      /\ made.stream.sent_flag => made.stream.exists
  BY <1>2 DEF ViewerOK, Answered, ViewerRecord, ViewerStream, Statuses
<1>4. CASE viewer' = [made EXCEPT !.reply = "hup"]
  <2>1. [made EXCEPT !.stream.sent_flag = made.stream.sent_flag, !.reply = "hup"]
          = [made EXCEPT !.reply = "hup"]
    BY <1>3 DEF ViewerRecord, ViewerStream
  <2>2. ViewerOK(tfa, received, stream, viewer')
    BY <1>2, <1>3, <1>4, <2>1, SentView
  <2>3. viewer'.stream = made.stream
    BY <1>3, <1>4 DEF ViewerRecord
  <2> QED
    BY <1>2, <2>2, <2>3
<1>5. CASE viewer' = [made EXCEPT !.stream.sent_flag = made.stream.exists]
  <2>1. [made EXCEPT !.stream.sent_flag = made.stream.exists, !.reply = made.reply]
          = [made EXCEPT !.stream.sent_flag = made.stream.exists]
    BY <1>3 DEF ViewerRecord
  <2>2. ViewerOK(tfa, received, stream, viewer')
    BY <1>2, <1>3, <1>5, <2>1, SentView
  <2>3. viewer'.stream.index_sent_seqcount = made.stream.index_sent_seqcount
    BY <1>3, <1>5 DEF ViewerRecord, ViewerStream
  <2> QED
    BY <1>2, <2>2, <2>3
<1> QED
  BY <1>1, <1>4, <1>5

LEMMA SameCountPassed ==
    ASSUME ViewInv, NEW v,
           v.stream.index_sent_seqcount = viewer.stream.index_sent_seqcount
    PROVE  Passed(v)
<1>1. viewer.stream.index_sent_seqcount \in Nat
  BY DEF ViewInv, ViewerOK, ViewerRecord, ViewerStream
<1>2. Skipped(viewer.stream.index_sent_seqcount, viewer.stream.index_sent_seqcount)
  BY <1>1, SkippedNone
<1> QED
  BY <1>2 DEF Passed, Skipped

\* Each step of the viewer.  The viewer stream of one that attaches is new.
LEMMA ViewerStep ==
    ASSUME RelayState, ViewInv, viewer.stream.exists => viewer.attached, ViewerNext
    PROVE  /\ ViewerOK(tfa, received, stream, viewer')
           /\ /\ viewer.stream.exists /\ viewer'.stream.exists
              /\ viewer'.stream.trace_chunk # NoChunk
              => Passed(viewer')
<1>1. CASE \E seek \in Seeks : viewer_attach_session(seek)
  BY <1>1, AttachStep
<1>2. CASE viewer_get_new_streams
  <2>1. /\ ViewerOK(tfa, received, stream, viewer')
        /\ viewer.stream.exists =>
             viewer'.stream.index_sent_seqcount = viewer.stream.index_sent_seqcount
    BY <1>2, NewStreamsStep
  <2> QED
    BY <2>1, SameCountPassed
<1>3. CASE viewer_get_next_index
  BY <1>3, NextIndexStep DEF Outcome
<1>4. CASE viewer_get_packet
  BY <1>4, PacketStep, SameCountPassed
<1>5. CASE viewer_session_close_one_session
  <2>1. viewer' = NoViewer
    BY <1>5 DEF viewer_session_close_one_session
  <2> QED
    BY <2>1, NoViewerIs, WithoutStream
<1> QED
  BY <1>1, <1>2, <1>3, <1>4, <1>5 DEF ViewerNext

-----------------------------------------------------------------------------
\* The invariant.
\* A viewer stream that exists is that of an attached viewer.
Attached == viewer.stream.exists => viewer.attached

LEMMA KeepsAttached ==
    ASSUME NEW v \in ViewerRecord
    PROVE  /\ ToNewestChunk(v).attached = v.attached
           /\ check_index_status(v).attached = v.attached
           /\ OpenFiles(v).attached = v.attached
           /\ lttng_index_file_read(v).attached = v.attached
<1>1. ASSUME NEW status
      PROVE  Reply(v, status).attached = v.attached /\ Hup(v).attached = v.attached
  BY DEF ViewerRecord, Reply, Hup
<1>2. ToNewestChunk(v).attached = v.attached
  <2>1. PICK ws : ToNewestChunk(v) = [v EXCEPT !.chunk = stream.trace_chunk, !.stream = ws]
    BY Zenon DEF ToNewestChunk
  <2> QED
    BY <2>1 DEF ViewerRecord
<1>3. check_index_status(v).attached = v.attached
  <2>1. ASSUME NEW ws, NEW status
        PROVE  Reply([v EXCEPT !.stream = ws], status).attached = v.attached
    BY DEF ViewerRecord, Reply
  <2>2. \E ws, status : \/ check_index_status(v) = Hup(v)
                        \/ check_index_status(v) = Reply(v, status)
                        \/ check_index_status(v) = Reply([v EXCEPT !.stream = ws], status)
    BY Zenon DEF check_index_status
  <2> QED
    BY <1>1, <2>1, <2>2
<1>4. OpenFiles(v).attached = v.attached
  <2>2. PICK ifile, handle, status :
           \/ OpenFiles(v) = Reply(v, status)
           \/ OpenFiles(v) = [v EXCEPT !.stream.index_file = ifile, !.reply = status]
           \/ OpenFiles(v) = [v EXCEPT !.stream.index_file = ifile,
                                       !.stream.handle = handle]
    BY Zenon DEF OpenFiles
  <2>3. Reply(v, status).attached = v.attached
    BY <1>1
  <2>4. CASE OpenFiles(v) = [v EXCEPT !.stream.index_file = ifile, !.reply = status]
    BY <2>4 DEF ViewerRecord
  <2>5. CASE OpenFiles(v) = [v EXCEPT !.stream.index_file = ifile,
                                      !.stream.handle = handle]
    BY <2>5 DEF ViewerRecord
  <2> QED
    BY <2>2, <2>3, <2>4, <2>5
<1>5. lttng_index_file_read(v).attached = v.attached
  <2>1. ASSUME NEW e
        PROVE  [v EXCEPT !.stream.pos = @ + 1, !.stream.index_sent_seqcount = @ + 1,
                         !.index = e, !.reply = "ok"].attached = v.attached
    BY DEF ViewerRecord
  <2> QED
    BY <1>1, <2>1 DEF lttng_index_file_read
<1> QED
  BY <1>2, <1>3, <1>4, <1>5

LEMMA MadeAttached ==
    ASSUME NEW v \in ViewerRecord, v.attached, NEW seek
    PROVE  make_viewer_streams(v, seek).stream.exists =>
             make_viewer_streams(v, seek).attached
<1> DEFINE m == make_viewer_streams(v, seek)
<1>1. \/ m = v \/ m = [NoViewer EXCEPT !.reply = "closed"]
      \/ \E x, chunk, ahead : m = [v EXCEPT !.stream = x, !.chunk = chunk, !.ahead = ahead]
  BY Zenon DEF make_viewer_streams
<1> HIDE DEF m
<1>2. CASE m = [NoViewer EXCEPT !.reply = "closed"]
  BY <1>2 DEF NoViewer, NoStream, m
<1>3. ASSUME NEW x, NEW chunk, NEW ahead,
             m = [v EXCEPT !.stream = x, !.chunk = chunk, !.ahead = ahead]
      PROVE  m.attached
  BY <1>3 DEF ViewerRecord
<1> QED
  BY Zenon, <1>1, <1>2, <1>3 DEF m

LEMMA AttachedStep ==
    ASSUME RelayState, ViewInv, Attached, ViewerNext
    PROVE  Attached'
<1>0. /\ viewer \in ViewerRecord
      /\ viewer.stream.sent_flag => viewer.stream.exists
  BY DEF ViewInv, ViewerOK, Answered
<1>1. CASE \E seek \in Seeks : viewer_attach_session(seek)
  <2>1. PICK seek : viewer_attach_session(seek)
    BY <1>1
  <2> DEFINE v == [NoViewer EXCEPT !.attached = TRUE,
                                   !.chunk = session.current_trace_chunk]
             made == make_viewer_streams(v, seek)
  <2>1a. session.current_trace_chunk \in Nat
    BY DEF RelayState, RelaySession
  <2>2. /\ v \in ViewerRecord /\ v.attached /\ v.stream = NoStream
        /\ v.reply = "none"
    BY Zenon, <2>1a, NoViewerIs DEF ViewerRecord
  <2> HIDE DEF v
  <2>3. made \in ViewerRecord /\ (made.stream.exists => made.attached)
    BY <2>2, WithoutStream, MadeView, MadeAttached DEF ViewerOK
  <2>4. \/ viewer' = v
        \/ \E b : viewer' = [made EXCEPT !.stream.sent_flag = b]
    BY Zenon, <2>1 DEF viewer_attach_session, v
  <2> HIDE DEF made
  <2>5. ASSUME NEW b, viewer' = [made EXCEPT !.stream.sent_flag = b]
        PROVE  Attached'
    BY <2>3, <2>5 DEF Attached, ViewerRecord, ViewerStream
  <2> QED
    BY <2>2, <2>4, <2>5 DEF Attached
<1>2. CASE viewer_get_new_streams
  <2> DEFINE made == make_viewer_streams(viewer, "beginning")
  <2>1. /\ viewer.attached /\ viewer.reply # "ok"
        /\ \/ viewer' = [made EXCEPT !.reply = "hup"]
           \/ \E b : viewer' = [made EXCEPT !.stream.sent_flag = b]
    BY Zenon, <1>2 DEF viewer_get_new_streams
  <2>2. made \in ViewerRecord /\ (made.stream.exists => made.attached)
    BY <1>0, <2>1, MadeView, MadeAttached DEF ViewInv, ViewerOK
  <2> HIDE DEF made
  <2>3. ASSUME NEW b, viewer' = [made EXCEPT !.stream.sent_flag = b]
        PROVE  Attached'
    BY <2>2, <2>3 DEF Attached, ViewerRecord, ViewerStream
  <2>4. CASE viewer' = [made EXCEPT !.reply = "hup"]
    BY <2>2, <2>4 DEF Attached, ViewerRecord, ViewerStream
  <2> QED
    BY <2>1, <2>3, <2>4
<1>3. CASE viewer_get_next_index
  <2>1. viewer.attached
    BY <1>0, <1>3 DEF viewer_get_next_index, Attached
  <2>2. Reply(viewer, "retry").attached = viewer.attached
    BY <1>0 DEF ViewerRecord, Reply
  <2>3. ASSUME NEW v, NEW checked, NEW opened, v = ToNewestChunk(viewer),
               checked = check_index_status(v), opened = OpenFiles(checked)
        PROVE  /\ checked.attached = viewer.attached
               /\ checked.reply = "proceed" =>
                    /\ opened.attached = viewer.attached
                    /\ opened.reply = "proceed" =>
                         lttng_index_file_read(opened).attached = viewer.attached
    <3>0. viewer.stream.exists
      BY <1>0, <1>3 DEF viewer_get_next_index
    <3>1. Progress(v) /\ v \in ViewerRecord
      BY <2>3, <3>0, NewestProgress DEF Progress
    <3>2. checked.attached = viewer.attached
      BY <1>0, <2>3, <3>1, KeepsAttached
    <3>3. ASSUME checked.reply = "proceed"
          PROVE  /\ Progress(checked) /\ checked \in ViewerRecord
                 /\ Ready(checked.stream)
      BY <2>3, <3>1, <3>3, CheckProgress DEF Progress
    <3>4. ASSUME checked.reply = "proceed", opened.reply = "proceed"
          PROVE  opened \in ViewerRecord
      BY <2>3, <3>3, <3>4, OpenProgress DEF Progress
    <3> QED
      BY <2>3, <3>2, <3>3, <3>4, KeepsAttached
  <2>4. viewer'.attached = viewer.attached
    BY <1>3, <2>2, <2>3 DEF viewer_get_next_index
  <2> QED
    BY <2>1, <2>4 DEF Attached
<1>4. CASE viewer_get_packet
  <2>1. \/ viewer' = Reply(viewer, "err")
        \/ \E p : viewer' = [viewer EXCEPT !.packet = p, !.reply = "packet"]
    BY Zenon, <1>4 DEF viewer_get_packet
  <2>2. viewer'.attached = viewer.attached /\ viewer'.stream = viewer.stream
    BY Zenon, <1>0, <2>1 DEF ViewerRecord, Reply
  <2> QED
    BY <2>2 DEF Attached
<1>5. CASE viewer_session_close_one_session
  BY <1>5 DEF viewer_session_close_one_session, Attached, NoViewer, NoStream
<1> QED
  BY <1>1, <1>2, <1>3, <1>4, <1>5 DEF ViewerNext

(***************************************************************************)
(* The inductive invariant: the ring and its array (IInv, ArrayOK), the    *)
(* indexes that precede the tail were received (Committed), the files of   *)
(* the stream (RelayInv), the session, and the viewer's place in the files *)
(* and its last reply (ViewInv).                                           *)
(***************************************************************************)
LiveInv ==
    /\ IInv /\ Committed /\ ArrayOK(tfa, received)
    /\ RelayInv /\ session \in RelaySession
    /\ ViewInv /\ Attached

\* Every step of a stream and its viewer is a step of the ring, or none.
LEMMA LiveStepIsRingStep == [LiveNext]_allvars => [Next]_vars
<1> SUFFICES ASSUME [LiveNext]_allvars
             PROVE  [Next]_vars
  OBVIOUS
<1>1. CASE RelayNext
  <2>1. CASE StartPacket
    BY Zenon, <2>1 DEF StartPacket, Next
  <2>2. CASE EndPacket
    BY <2>2 DEF EndPacket, Next
  <2>3. CASE CreateTraceChunk
    BY <2>3 DEF CreateTraceChunk, vars
  <2>4. ASSUME NEW next, RotateStream(next)
        PROVE  [Next]_vars
    BY <2>4 DEF RotateStream, Next, vars
  <2>5. ASSUME NEW delete, CloseTraceChunk(delete)
        PROVE  [Next]_vars
    BY <2>5 DEF CloseTraceChunk, vars
  <2>6. CASE AddBeacon
    BY <2>6 DEF AddBeacon, vars
  <2>7. ASSUME NEW closing, CloseStream(closing)
        PROVE  [Next]_vars
    BY <2>7 DEF CloseStream, Next, vars
  <2>8. CASE CloseConnection
    BY <2>8 DEF CloseConnection, vars
  <2> QED
    BY <1>1, <2>1, <2>2, <2>3, <2>4, <2>5, <2>6, <2>7, <2>8 DEF RelayNext
<1>2. CASE ViewerNext
  BY <1>2 DEF ViewerNext, viewer_attach_session, viewer_get_new_streams,
              viewer_get_next_index, viewer_get_packet,
              viewer_session_close_one_session, relay, vars
<1>3. CASE UNCHANGED allvars
  BY <1>3 DEF allvars, relay, vars
<1> QED
  BY <1>1, <1>2, <1>3 DEF LiveNext

LEMMA ViewerKeepsRelay ==
    ASSUME RelayInv, session \in RelaySession, ViewerNext
    PROVE  RelayInv' /\ session' \in RelaySession
<1>1. ASSUME NEW seek, viewer_attach_session(seek)
      PROVE  RelayInv' /\ session' \in RelaySession
  <2>1. /\ session' \in RelaySession /\ session'.chunks = session.chunks
        /\ session'.current_trace_chunk = session.current_trace_chunk
    BY <1>1 DEF viewer_attach_session, RelaySession
  <2>2. session.current_trace_chunk \in {NoChunk, session.chunks}
    BY DEF RelayInv, Relay, ChunksOK
  <2>3. Relay(tfa, received, open, stream, session')
    BY <2>1, <2>2, SessionRelay DEF RelayInv
  <2> QED
    BY <1>1, <2>1, <2>3 DEF RelayInv, viewer_attach_session
<1>2. CASE UNCHANGED relay
  <2>1. UNCHANGED <<tfa, received, open, stream, session>>
    BY <1>2 DEF relay, vars
  <2> QED
    BY <2>1 DEF RelayInv
<1> QED
  BY <1>1, <1>2
  DEF ViewerNext, viewer_get_new_streams, viewer_get_next_index, viewer_get_packet,
      viewer_session_close_one_session

LEMMA InitLiveInv ==
    ASSUME LiveInit
    PROVE  LiveInv
<1>1. StreamInit /\ Init /\ viewer = NoViewer
  BY DEF LiveInit, StreamInit
<1>2. IInv /\ Committed /\ ArrayOK(tfa, received)
  BY <1>1, InitIInv, InitArray DEF Committed, Init
<1>3. ViewInv /\ Attached
  BY <1>1, NoViewerIs, WithoutStream DEF ViewInv, Attached
<1> QED
  BY <1>1, <1>2, <1>3, InitRelay DEF LiveInv

LEMMA ViewerStepIsQuiet ==
    ASSUME ViewerNext
    PROVE  UNCHANGED <<tfa, received, stream>>
  BY DEF ViewerNext, viewer_attach_session, viewer_get_new_streams, viewer_get_next_index,
         viewer_get_packet, viewer_session_close_one_session, relay, vars

LEMMA StepKeepsLiveInv ==
    ASSUME LiveInv, [LiveNext]_allvars, count # 1
    PROVE  LiveInv'
<1>0. /\ IInv /\ Committed /\ ArrayOK(tfa, received)
      /\ RelayInv /\ session \in RelaySession /\ ViewInv /\ Attached
  BY DEF LiveInv
<1>1. [Next]_vars
  BY LiveStepIsRingStep
<1>2. IInv' /\ Committed' /\ ArrayOK(tfa, received)'
  BY <1>0, <1>1, StepKeepsIInv, StepKeepsCommitted, ArrayStep
<1>3. CASE ViewerNext
  <2>1. UNCHANGED <<tfa, received, stream>>
    BY <1>3, ViewerStepIsQuiet
  <2>2. RelayState
    BY <1>0 DEF RelayState
  <2>3. ViewerOK(tfa, received, stream, viewer')
    BY <1>0, <1>3, <2>2, ViewerStep DEF Attached
  <2>4. ViewInv'
    BY <2>1, <2>3 DEF ViewInv
  <2>5. Attached'
    BY <1>0, <1>3, <2>2, AttachedStep
  <2>6. RelayInv' /\ (session \in RelaySession)'
    BY <1>0, <1>3, ViewerKeepsRelay
  <2> QED
    BY <1>2, <2>4, <2>5, <2>6 DEF LiveInv
<1>4. CASE RelayNext /\ UNCHANGED viewer
  <2>1. RelayInv' /\ (session \in RelaySession)'
    BY <1>0, <1>4, RelayStep, SessionStep
  <2>2. ViewerOK(tfa', received', stream', viewer)
    BY <1>0, <1>4, RelayStepViewer DEF ViewInv
  <2>3. ViewInv' /\ Attached'
    BY <1>0, <1>4, <2>2 DEF ViewInv, Attached
  <2> QED
    BY <1>2, <2>1, <2>3 DEF LiveInv
<1>5. CASE UNCHANGED allvars
  <2>1. viewer' = viewer /\ UNCHANGED <<tfa, received, open, stream, session>>
    BY <1>5 DEF allvars, relay, vars
  <2>2. RelayInv' /\ (session \in RelaySession)' /\ ViewInv' /\ Attached'
    BY <1>0, <2>1 DEF RelayInv, ViewInv, Attached
  <2> QED
    BY <1>2, <2>2 DEF LiveInv
<1> QED
  BY <1>3, <1>4, <1>5 DEF LiveNext

-----------------------------------------------------------------------------
(***************************************************************************)
(* The stream that a live viewer reads implements TracefileRing: rotations *)
(* of files and of chunks, clears and closes are steps of the ring.        *)
(***************************************************************************)
THEOREM LiveImplementsRing == LiveSpec => Spec
<1>1. LiveInit => Init
  BY DEF LiveInit, StreamInit
<1> QED
  BY <1>1, LiveStepIsRingStep, PTL DEF LiveSpec, Spec

(***************************************************************************)
(* What the viewer relies on: every index between the tail and the last    *)
(* one received is in exactly one file of the ring.                        *)
(***************************************************************************)
THEOREM LiveRetainsExactlyOnce ==
    ASSUME count # 1
    PROVE  LiveSpec => []RetainedExactlyOnce
  BY LiveImplementsRing, RingRetainsExactlyOnce, PTL

(***************************************************************************)
(* The files, the tracefile array and the viewer stream agree in every     *)
(* reachable state, for every number of files (but one), of packets, of    *)
(* trace chunks, of rotations and of viewers.                              *)
(***************************************************************************)
THEOREM LiveInvariance ==
    ASSUME count # 1
    PROVE  LiveSpec => []LiveInv
<1>1. LiveInit => LiveInv
  BY InitLiveInv
<1>2. LiveInv /\ [LiveNext]_allvars => LiveInv'
  BY StepKeepsLiveInv
<1> QED
  BY <1>1, <1>2, PTL DEF LiveSpec

LEMMA ViewerLeft ==
    ASSUME LiveInv, viewer.stream.exists, Left(stream, viewer.stream)
    PROVE  InOldChunk
<1>1. InChunks(stream, viewer.stream) /\ viewer.stream.trace_chunk \in Nat
  BY DEF LiveInv, ViewInv, ViewerOK, View, ViewerRecord, ViewerStream
<1> QED
  BY <1>1, LeftIsOld DEF LiveInv, InOldChunk

(***************************************************************************)
(* viewer_get_next_index sends the index that the viewer stream counts as  *)
(* its next: the file, the position in it and index_sent_seqcount agree.   *)
(***************************************************************************)
THEOREM IndexSentIsTheNext ==
    ASSUME count # 1
    PROVE  LiveSpec => []IndexIsTheNextOne
<1>1. LiveInv => IndexIsTheNextOne
  <2> SUFFICES ASSUME LiveInv, viewer.reply = "ok", ~viewer.ahead, ~InOldChunk
               PROVE  viewer.index.seq = viewer.stream.index_sent_seqcount - 1
    BY DEF IndexIsTheNextOne
  <2>1. /\ viewer.stream.exists
        /\ \/ viewer.index.seq = viewer.stream.index_sent_seqcount - 1
           \/ Left(stream, viewer.stream)
    BY DEF LiveInv, ViewInv, ViewerOK, Answered
  <2> QED
    BY <2>1, ViewerLeft
<1> QED
  BY <1>1, LiveInvariance, PTL

(***************************************************************************)
(* viewer_get_packet sends the packet of the index sent before it: the     *)
(* data file in which the offset is read is the one the index is about,    *)
(* whatever was overwritten, rotated, cleared or closed in between.        *)
(***************************************************************************)
THEOREM PacketSentIsIndexed ==
    ASSUME count # 1
    PROVE  LiveSpec => []PacketIsIndexed
<1>1. LiveInv => PacketIsIndexed
  BY DEF LiveInv, ViewInv, ViewerOK, Answered, PacketIsIndexed
<1> QED
  BY <1>1, LiveInvariance, PTL

(***************************************************************************)
(* No request of a viewer fails, meets an empty index or aborts the        *)
(* daemon, but for a viewer stream left in the trace chunk of a stream     *)
(* that was closed after it had moved to another one.                      *)
(***************************************************************************)
THEOREM RequestsAnswered ==
    ASSUME count # 1
    PROVE  LiveSpec => []RequestsAreAnswered
<1>1. LiveInv => RequestsAreAnswered
  <2> SUFFICES ASSUME LiveInv
               PROVE  RequestsAreAnswered
    OBVIOUS
  <2>1. /\ viewer.reply \notin {"abort", "lost", "closed"}
        /\ viewer.reply = "err" => viewer.stream.exists /\ Left(stream, viewer.stream)
    BY DEF LiveInv, ViewInv, ViewerOK, Answered
  <2> QED
    BY <2>1, ViewerLeft DEF RequestsAreAnswered, AssertionHolds
<1> QED
  BY <1>1, LiveInvariance, PTL

(***************************************************************************)
(* A viewer stream never goes back, and passes over an index without       *)
(* sending it only if it was overwritten (or cleared) in the meantime.     *)
(***************************************************************************)
THEOREM OnlyLostAreSkipped ==
    ASSUME count # 1
    PROVE  LiveSpec => OnlyLostIndexesAreSkipped
<1> DEFINE Passes ==
             viewer.stream.exists /\ viewer'.stream.exists
             /\ viewer'.stream.trace_chunk # NoChunk =>
              LET sent == viewer.stream.index_sent_seqcount
                  upto == viewer'.stream.index_sent_seqcount
              IN  /\ sent <= upto
                  /\ ~viewer.ahead /\ ~InOldChunk' =>
                      \A n \in sent .. upto - 1 :
                          \/ n < tfa.seq_tail
                          \/ viewer'.reply = "ok" /\ viewer'.index.seq = n
<1>1. LiveInv /\ LiveInv' /\ [LiveNext]_allvars => [Passes]_allvars
  <2> SUFFICES ASSUME LiveInv, LiveInv', LiveNext, viewer.stream.exists,
                      viewer'.stream.exists, viewer'.stream.trace_chunk # NoChunk
               PROVE  Passes
    OBVIOUS
  <2>1. CASE RelayNext /\ UNCHANGED viewer
    <3>1. viewer' = viewer
      BY <2>1
    <3>2. viewer.stream.index_sent_seqcount \in Nat
      BY DEF LiveInv, ViewInv, ViewerOK, ViewerRecord, ViewerStream
    <3> QED
      BY <3>1, <3>2
  <2>2. CASE ViewerNext
    <3>1. UNCHANGED <<tfa, received, stream>>
      BY <2>2, ViewerStepIsQuiet
    <3>2. RelayState
      BY DEF RelayState, LiveInv
    <3>3. Passed(viewer')
      BY <2>2, <3>2, ViewerStep DEF LiveInv, Attached
    <3>4. Left(stream, viewer'.stream) => InOldChunk'
      <4>1. InChunks(stream, viewer'.stream) /\ viewer'.stream.trace_chunk \in Nat
        BY <3>1 DEF LiveInv, ViewInv, ViewerOK, View, ViewerRecord, ViewerStream
      <4>2. Left(stream, viewer'.stream) =>
              /\ stream.trace_chunk = NoChunk /\ viewer'.stream.trace_chunk # NoChunk
              /\ \E c \in StreamChunks : c > viewer'.stream.trace_chunk
        BY <4>1, LeftIsOld DEF LiveInv
      <4> QED
        BY <3>1, <4>2 DEF InOldChunk, StreamChunks
    <3> QED
      BY <3>3, <3>4 DEF Passed
  <2> QED
    BY <2>1, <2>2 DEF LiveNext
<1> QED
  BY <1>1, LiveInvariance, PTL DEF LiveSpec, OnlyLostIndexesAreSkipped

(***************************************************************************)
(* "the updated index_sent_seqcount needs to point to a readable index     *)
(* entry now" (live.c:1531): whatever the number of files (but one), of    *)
(* packets and of rotations, a viewer that was overtaken by the ring is    *)
(* resynchronised on an index that is there, and check_index_status does   *)
(* not abort the daemon.                                                   *)
(***************************************************************************)
THEOREM LiveAssertionHolds ==
    ASSUME count # 1
    PROVE  LiveSpec => []AssertionHolds
<1>1. RequestsAreAnswered => AssertionHolds
  BY DEF RequestsAreAnswered
<1> QED
  BY <1>1, RequestsAnswered, PTL
=============================================================================
