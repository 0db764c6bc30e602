-------------------------- MODULE LiveFilesProofs ---------------------------
(***************************************************************************)
(* What a viewer stream relies on in the files of the relay stream.        *)
(* ViewerOK relates a viewer to them; no step of the relay daemon disturbs *)
(* it (RelayStepViewer).  The lemmas at the end say where a viewer stream  *)
(* may be placed and which files it then finds.                            *)
(***************************************************************************)
EXTENDS LiveStreamProofs

\* Pairs of files.
LEMMA PairIsWritten ==
    ASSUME NEW st \in RelayStream, NEW rec \in Nat, FilesOK(st, rec),
           NEW k, NEW d, Paired(st, k, d)
    PROVE  /\ k \in 1 .. Len(st.ifiles) /\ d \in 1 .. LastFile(st)
           /\ Len(Packets(st, d)) > 0
           /\ Entries(st, k)[1].seq = Packets(st, d)[1]
           /\ Packets(st, d)[1] \in Nat /\ Packets(st, d)[1] < rec
<1>1. /\ k \in 1 .. Len(st.ifiles) /\ d \in 1 .. LastFile(st)
      /\ Len(Packets(st, d)) > 0
  BY DEF Paired, FilesOK, LastFile
<1>2. Packets(st, d) \in Seq(Nat) /\ Len(Packets(st, d)) \in Nat
  BY <1>1, FileTypes DEF LastFile
<1>3. 1 \in 1 .. Len(Packets(st, d))
  BY <1>1, <1>2
<1>4. Entries(st, k)[1].seq = Packets(st, d)[1]
  BY <1>3 DEF Paired
<1>5. Run(Packets(st, d), rec)
  BY <1>1 DEF FilesOK, LastFile
<1>6. Packets(st, d)[1] \in Nat /\ Packets(st, d)[1] < rec
  BY <1>2, <1>3, <1>5 DEF Run
<1> QED
  BY <1>1, <1>4, <1>6

LEMMA PairsMatch ==
    ASSUME NEW st \in RelayStream, NEW rec \in Nat, FilesOK(st, rec),
           NEW k, NEW d, Paired(st, k, d), NEW l, NEW e, Paired(st, l, e)
    PROVE  k = l <=> d = e
<1>1. /\ k \in 1 .. Len(st.ifiles) /\ d \in 1 .. LastFile(st)
      /\ Len(Packets(st, d)) > 0
      /\ Entries(st, k)[1].seq = Packets(st, d)[1] /\ Packets(st, d)[1] \in Nat
  BY PairIsWritten
<1>2. /\ l \in 1 .. Len(st.ifiles) /\ e \in 1 .. LastFile(st)
      /\ Len(Packets(st, e)) > 0
      /\ Entries(st, l)[1].seq = Packets(st, e)[1] /\ Packets(st, e)[1] \in Nat
  BY PairIsWritten
<1>3. /\ Len(Packets(st, d)) \in Nat /\ Len(Packets(st, e)) \in Nat
      /\ Len(st.ifiles) \in Nat /\ LastFile(st) \in Nat
  BY <1>1, <1>2, FileTypes DEF LastFile
<1>4. /\ d < e => Packets(st, d)[1] < Packets(st, e)[1]
      /\ e < d => Packets(st, e)[1] < Packets(st, d)[1]
  <2>1. /\ d < e => Packets(st, d)[1] + Len(Packets(st, d)) <= Packets(st, e)[1]
        /\ e < d => Packets(st, e)[1] + Len(Packets(st, e)) <= Packets(st, d)[1]
    BY <1>1, <1>2 DEF FilesOK, LastFile
  <2> QED
    BY <1>1, <1>2, <1>3, <2>1
<1>5. /\ k < l => Packets(st, d)[1] < Packets(st, e)[1]
      /\ l < k => Packets(st, e)[1] < Packets(st, d)[1]
  BY <1>1, <1>2 DEF FilesOK
<1> QED
  BY <1>1, <1>2, <1>3, <1>4, <1>5

LEMMA WrittenPairs ==
    ASSUME IInv, NEW st, NEW se, Relay(tfa, received, open, st, se), open,
           NEW k, NEW d, Paired(st, k, d)
    PROVE  Paired(Written(st), k, d)
<1> DEFINE w == Written(st)
           n == st.file
<1>1. /\ n \in 1 .. LastFile(st) /\ n # NoFile
      /\ DataWritten(st, w, received) /\ IndexWritten(st, w, received)
      /\ Paired(w, w.index_file, n)
  BY Zenon, WrittenStep
<1> HIDE DEF w
<1>2. /\ st \in RelayStream /\ received \in Nat /\ FilesOK(st, received)
      /\ CurrentOK(tfa, received, open, st)
  BY DEF Relay, IInv, TypeOK
<1>3. /\ k \in 1 .. Len(st.ifiles) /\ d \in 1 .. LastFile(st)
      /\ Len(Packets(st, d)) > 0 /\ Len(st.ifiles) \in Nat
      /\ Len(Packets(st, n)) \in Nat
  BY <1>1, <1>2, PairIsWritten, FileTypes DEF LastFile
<1>4. Len(Packets(st, n)) > 0 <=> ~OpensIndex(st)
  <2>1. Len(Packets(st, n)) = 0 <=> OpensIndex(st)
    BY Zenon, <1>1, <1>2 DEF CurrentOK, OpensIndex
  <2> QED
    BY Zenon, <1>3, <2>1, ZeroOrMore, PositiveIsNotZero
<1>5. ~OpensIndex(st) => /\ w.index_file = st.index_file
                         /\ Paired(st, w.index_file, n)
  BY <1>1, <1>2, <1>4 DEF CurrentOK, IndexWritten
<1>6. CASE d = n
  BY <1>1, <1>2, <1>3, <1>4, <1>5, <1>6, PairsMatch DEF w
<1>7. CASE d # n
  <2>1. k # w.index_file
    <3>1. CASE OpensIndex(st)
      BY <1>1, <1>3, <3>1 DEF IndexWritten
    <3>2. CASE ~OpensIndex(st)
      BY <1>2, <1>5, <1>7, <3>2, PairsMatch
    <3> QED
      BY <3>1, <3>2
  <2>2. /\ Entries(w, k) = Entries(st, k)
        /\ w.ifiles[k].chunk = st.ifiles[k].chunk
        /\ w.ifiles[k].index = st.ifiles[k].index
        /\ k \in 1 .. Len(w.ifiles)
    BY <1>1, <1>3, <2>1 DEF IndexWritten
  <2>3. /\ Packets(w, d) = Packets(st, d) /\ d \in 1 .. Len(w.dfiles)
        /\ w.dfiles[d].chunk = st.dfiles[d].chunk
        /\ w.dfiles[d].index = st.dfiles[d].index
    BY <1>1, <1>3, <1>7 DEF DataWritten, LastFile
  <2> QED
    BY <2>2, <2>3 DEF Paired, w
<1> QED
  BY <1>6, <1>7

-----------------------------------------------------------------------------
\* A viewer of the stream.
\* The viewer: its next index is at most one beyond those received, and then it
\* is "ahead".
ViewerStream ==
    [exists : BOOLEAN, sent_flag : BOOLEAN, current_tracefile_id : Nat,
     index_sent_seqcount : Nat, trace_chunk : Nat, index_file : Nat, pos : Nat,
     handle : Nat, last_seen_rotation_count : Nat]

Lag(v) == IF v.ahead THEN 1 ELSE 0

\* The viewer stream is in a chunk that the stream has had, or in none.
InChunks(st, x) ==
    x.trace_chunk # NoChunk =>
        \E d \in 1 .. LastFile(st) : st.dfiles[d].chunk = x.trace_chunk

(***************************************************************************)
(* It is in the stream's chunk unless a rotation has completed since, and  *)
(* in its last one if that was the first since, and to no chunk.           *)
(***************************************************************************)
Counts(st, x) ==
    ~st.closed =>
        /\ x.last_seen_rotation_count <= st.completed_rotation_count
        /\ x.last_seen_rotation_count = st.completed_rotation_count =>
              x.trace_chunk = st.trace_chunk
        /\ /\ st.completed_rotation_count = x.last_seen_rotation_count + 1
           /\ st.trace_chunk = NoChunk /\ x.trace_chunk # NoChunk
           => x.trace_chunk = RingChunk(st)

(***************************************************************************)
(* The next index is tracked in the ring.  It is not beyond the tail of a  *)
(* ring that describes the files of a later chunk, nor before that of a    *)
(* ring that has just been reset for the chunk the viewer stream is in.    *)
(***************************************************************************)
Follows(a, rec, st, x, lag) ==
    /\ x.current_tracefile_id \in RingIds
    /\ x.trace_chunk # NoChunk =>
          Tracked(a, rec, x.current_tracefile_id, x.index_sent_seqcount)
    /\ x.trace_chunk = RingChunk(st) /\ a.seq_tail = rec =>
          rec <= x.index_sent_seqcount
    /\ ~st.closed =>
         /\ x.index_sent_seqcount <= rec + lag
         /\ x.index_sent_seqcount > rec =>
              /\ a.seq_tail = rec
              /\ x.trace_chunk # NoChunk => x.current_tracefile_id = 0
         /\ x.trace_chunk \notin {RingChunk(st), st.trace_chunk} =>
              x.index_sent_seqcount <= a.seq_tail + lag

SameName(st, d, e) ==
    /\ st.dfiles[d].chunk = st.dfiles[e].chunk
    /\ st.dfiles[d].index = st.dfiles[e].index

\* If file h has been overwritten the next index is one of those overwritten.
Behind(rec, st, sent, h) ==
    \A d \in 1 .. LastFile(st) : d > h /\ SameName(st, d, h) =>
        /\ sent < rec
        /\ \A j \in d .. LastFile(st) :
              Len(Packets(st, j)) > 0 => sent < Packets(st, j)[1]

\* The files held are those of the name the viewer stream has, and a pair.
Opened(rec, st, x) ==
    /\ x.index_file = NoFile => x.pos = 0
    /\ x.index_file # NoFile =>
         /\ x.handle # NoFile /\ Paired(st, x.index_file, x.handle)
         /\ x.pos <= Len(Packets(st, x.handle))
    /\ x.handle # NoFile =>
         /\ x.handle \in 1 .. LastFile(st)
         /\ st.dfiles[x.handle].chunk = x.trace_chunk
         /\ st.dfiles[x.handle].index = x.current_tracefile_id
         /\ Behind(rec, st, x.index_sent_seqcount, x.handle)

(***************************************************************************)
(* In the chunk that the ring describes, the position in the index file is *)
(* that of the next index; with no file open, it is before or at the start *)
(* of each file, or beyond it.                                             *)
(***************************************************************************)
AtPosition(a, rec, st, x, lag) ==
    LET sent == x.index_sent_seqcount
        p == Packets(st, x.handle)
    IN  x.trace_chunk = RingChunk(st) =>
          /\ x.handle = NoFile =>
               \A f \in RingIds : RangeOf(a, f).seq_tail # Unset =>
                 /\ count = 0 => RangeOf(a, f).seq_tail <= sent
                 /\ \/ sent <= RangeOf(a, f).seq_tail + lag
                    \/ sent > RangeOf(a, f).seq_head /\ f # HeadOf(a)
          /\ x.handle # NoFile /\ Len(p) = 0 =>
               x.handle = LastFile(st) /\ rec <= sent
          /\ x.handle # NoFile /\ Len(p) > 0 =>
               /\ p[1] + x.pos <= sent /\ sent <= p[1] + x.pos + lag
               /\ sent <= p[1] + Len(p)

View(a, rec, st, x, lag) ==
    /\ InChunks(st, x) /\ Counts(st, x) /\ Follows(a, rec, st, x, lag)
    /\ Opened(rec, st, x) /\ AtPosition(a, rec, st, x, lag)

\* The stream was closed, and the viewer stream left in a chunk before its last.
Left(st, x) == st.closed /\ x.trace_chunk \notin {NoChunk, RingChunk(st)}

\* What the last reply says.
Answered(st, v) ==
    /\ v.reply = "ok" =>
         /\ v.stream.exists /\ v.stream.handle # NoFile
         /\ v.index.offset \in 1 .. Len(Packets(st, v.stream.handle))
         /\ Packets(st, v.stream.handle)[v.index.offset] = v.index.seq
         /\ \/ v.ahead \/ v.index.seq = v.stream.index_sent_seqcount - 1
            \/ Left(st, v.stream)
    /\ v.reply = "err" => v.stream.exists /\ Left(st, v.stream)
    /\ v.reply = "packet" => v.packet = v.index.seq
    /\ v.reply \notin {"abort", "lost", "closed"}
    /\ v.stream.sent_flag => v.stream.exists

Statuses == {"none", "ok", "retry", "inactive", "hup", "err", "proceed", "packet"}

ViewerRecord ==
    [attached : BOOLEAN, chunk : Nat, stream : ViewerStream, reply : Statuses,
     index : [seq : Int, offset : Nat], packet : Int, ahead : BOOLEAN]

ViewerOK(a, rec, st, v) ==
    /\ v \in ViewerRecord
    /\ v.stream.exists => View(a, rec, st, v.stream, Lag(v))
    /\ Answered(st, v)

-----------------------------------------------------------------------------
\* The steps of the relay daemon, for the viewer.
\* The files and the array stay; the stream is closed, or rotated to no chunk.
LEMMA QuietViewer ==
    ASSUME NEW a, NEW rec, NEW st \in RelayStream, NEW r \in RelayStream,
           r.dfiles = st.dfiles, r.ifiles = st.ifiles, st.closed => r.closed,
           \/ r.closed
           \/ /\ r.trace_chunk = st.trace_chunk
              /\ r.completed_rotation_count = st.completed_rotation_count
           \/ /\ r.trace_chunk = NoChunk /\ st.trace_chunk = RingChunk(st)
              /\ r.completed_rotation_count = st.completed_rotation_count + 1,
           NEW v, ViewerOK(a, rec, st, v)
    PROVE  ViewerOK(a, rec, r, v)
<1> DEFINE x == v.stream
           lag == Lag(v)
<1>1. /\ \A d : Packets(r, d) = Packets(st, d)
      /\ \A k, d : Paired(r, k, d) = Paired(st, k, d)
      /\ LastFile(r) = LastFile(st) /\ RingChunk(r) = RingChunk(st)
      /\ \A d, e : SameName(r, d, e) = SameName(st, d, e)
  BY DEF Packets, Paired, LastFile, RingChunk, SameName, Entries
<1>2. v \in ViewerRecord /\ x \in ViewerStream
  BY DEF ViewerOK, ViewerRecord
<1>3. Left(st, x) => Left(r, x)
  BY <1>1 DEF Left
<1>4. Answered(r, v)
  BY <1>1, <1>3 DEF ViewerOK, Answered
<1>5. ASSUME x.exists PROVE View(a, rec, r, x, lag)
  <2>1. View(a, rec, st, x, lag)
    BY <1>5 DEF ViewerOK
  <2>2. InChunks(r, x)
    BY <1>1, <2>1 DEF View, InChunks
  <2>3. Counts(r, x)
    <3>1. /\ x.last_seen_rotation_count \in Nat
          /\ st.completed_rotation_count \in Nat
      BY <1>2 DEF ViewerStream, RelayStream
    <3>2. Counts(st, x)
      BY <2>1 DEF View
    <3> HIDE DEF x
    <3> QED
      BY <1>1, <3>1, <3>2 DEF Counts
  <2>4. Follows(a, rec, r, x, lag)
    <3>1. ~r.closed => r.trace_chunk = st.trace_chunk \/ st.trace_chunk = RingChunk(st)
      OBVIOUS
    <3>2. Follows(a, rec, st, x, lag)
      BY <2>1 DEF View
    <3> HIDE DEF x, lag
    <3> QED
      BY <1>1, <3>1, <3>2 DEF Follows
  <2>5. Opened(rec, r, x)
    BY <1>1, <2>1 DEF View, Opened, Behind
  <2>6. AtPosition(a, rec, r, x, lag)
    BY <1>1, <2>1 DEF View, AtPosition
  <2> QED
    BY <2>2, <2>3, <2>4, <2>5, <2>6 DEF View
<1> QED
  BY <1>2, <1>4, <1>5 DEF ViewerOK

\* A packet and its index are written.
LEMMA OpenedWritten ==
    ASSUME IInv, NEW st, NEW se, Relay(tfa, received, open, st, se), open,
           NEW x \in ViewerStream, Opened(received, st, x)
    PROVE  Opened(received + 1, Written(st), x)
<1> DEFINE w == Written(st)
           n == st.file
           sent == x.index_sent_seqcount
<1>1. /\ n \in 1 .. LastFile(st) /\ n = LastFile(st) /\ w \in RelayStream
      /\ LastFile(w) = LastFile(st)
      /\ DataWritten(st, w, received)
      /\ Packets(w, n)[1] = IF Len(Packets(st, n)) = 0 THEN received
                            ELSE Packets(st, n)[1]
      /\ Packets(w, n)[1] + Len(Packets(w, n)) = received + 1
      /\ Len(Packets(w, n)) = Len(Packets(st, n)) + 1
  BY Zenon, WrittenStep
<1>2. \A k, d : Paired(st, k, d) => Paired(w, k, d)
  BY Zenon, WrittenPairs
<1> HIDE DEF w
<1>3. /\ st \in RelayStream /\ received \in Nat /\ FilesOK(st, received)
  BY DEF Relay, IInv, TypeOK
<1>4. /\ sent \in Nat /\ x.pos \in Nat /\ x.handle \in Nat /\ x.index_file \in Nat
      /\ LastFile(st) \in Nat
      /\ \A d \in 1 .. LastFile(st) : Len(Packets(st, d)) \in Nat
  BY <1>3, FileTypes DEF ViewerStream, LastFile
<1>5. \A d \in 1 .. LastFile(st) :
        /\ w.dfiles[d].chunk = st.dfiles[d].chunk
        /\ w.dfiles[d].index = st.dfiles[d].index
        /\ d # n => Packets(w, d) = Packets(st, d)
  BY <1>1 DEF DataWritten, LastFile
<1>6. \A d \in 1 .. LastFile(st) : Len(Packets(st, d)) <= Len(Packets(w, d))
  BY <1>1, <1>4, <1>5
<1>7. ASSUME x.handle # NoFile PROVE Behind(received + 1, w, sent, x.handle)
  <2>1. x.handle \in 1 .. LastFile(st) /\ Behind(received, st, sent, x.handle)
    BY <1>7 DEF Opened
  <2> SUFFICES ASSUME NEW d \in 1 .. LastFile(w), d > x.handle, SameName(w, d, x.handle),
                      NEW j \in d .. LastFile(w)
               PROVE  sent < received + 1 /\ (Len(Packets(w, j)) > 0 => sent < Packets(w, j)[1])
    <3>1. ASSUME NEW d \in 1 .. LastFile(w) PROVE d \in d .. LastFile(w)
      BY <1>1, <1>4, <3>1
    <3> QED
      BY <3>1 DEF Behind
  <2>2. d \in 1 .. LastFile(st) /\ j \in d .. LastFile(st) /\ j \in 1 .. LastFile(st)
    BY <1>1, <1>4
  <2>3. SameName(st, d, x.handle)
    BY <1>5, <2>1, <2>2 DEF SameName
  <2>4. sent < received /\ (Len(Packets(st, j)) > 0 => sent < Packets(st, j)[1])
    BY <2>1, <2>2, <2>3 DEF Behind
  <2>5. CASE j # n
    BY <1>3, <1>4, <1>5, <2>2, <2>4, <2>5
  <2>6. CASE j = n
    BY <1>1, <1>3, <1>4, <2>2, <2>4, <2>6
  <2> QED
    BY <2>5, <2>6
<1>8. x.index_file # NoFile => /\ x.handle # NoFile /\ Paired(w, x.index_file, x.handle)
                               /\ x.pos <= Len(Packets(w, x.handle))
  <2> SUFFICES ASSUME x.index_file # NoFile
               PROVE  /\ x.handle # NoFile /\ Paired(w, x.index_file, x.handle)
                      /\ x.pos <= Len(Packets(w, x.handle))
    OBVIOUS
  <2>1. /\ x.handle # NoFile /\ Paired(st, x.index_file, x.handle)
        /\ x.pos <= Len(Packets(st, x.handle)) /\ x.handle \in 1 .. LastFile(st)
    BY DEF Opened
  <2>2. Len(Packets(st, x.handle)) <= Len(Packets(w, x.handle))
        /\ Len(Packets(st, x.handle)) \in Nat /\ Len(Packets(w, x.handle)) \in Nat
    BY <1>1, <1>4, <1>5, <1>6, <2>1
  <2> QED
    BY <1>2, <1>4, <2>1, <2>2
<1> QED
  BY <1>1, <1>5, <1>7, <1>8 DEF Opened, w

\* What the last reply says stays true of files that only grow.
LEMMA AnsweredGrows ==
    ASSUME NEW st, NEW r, ~st.closed, NEW v \in ViewerRecord, Answered(st, v),
           v.stream.exists /\ v.stream.handle # NoFile =>
              LET d == v.stream.handle
              IN  /\ Len(Packets(st, d)) \in Nat /\ Len(Packets(r, d)) \in Nat
                  /\ Len(Packets(st, d)) <= Len(Packets(r, d))
                  /\ \A i \in 1 .. Len(Packets(st, d)) :
                        Packets(r, d)[i] = Packets(st, d)[i]
    PROVE  Answered(r, v)
<1>1. ~Left(st, v.stream)
  BY DEF Left
<1>2. v.reply = "ok" =>
         /\ v.stream.exists /\ v.stream.handle # NoFile
         /\ v.index.offset \in 1 .. Len(Packets(r, v.stream.handle))
         /\ Packets(r, v.stream.handle)[v.index.offset] = v.index.seq
         /\ v.ahead \/ v.index.seq = v.stream.index_sent_seqcount - 1
  BY <1>1 DEF Answered
<1> QED
  BY <1>1, <1>2 DEF Answered

LEMMA AnsweredWritten ==
    ASSUME IInv, NEW st, NEW se, Relay(tfa, received, open, st, se), open,
           NEW v \in ViewerRecord, Answered(st, v),
           v.stream.exists => Opened(received, st, v.stream)
    PROVE  Answered(Written(st), v)
<1> DEFINE w == Written(st)
           n == st.file
<1>1. /\ n \in 1 .. LastFile(st) /\ ~st.closed /\ DataWritten(st, w, received)
      /\ w \in RelayStream /\ LastFile(w) = LastFile(st)
  BY Zenon, WrittenStep
<1> HIDE DEF w
<1>2. st \in RelayStream /\ received \in Nat
  BY DEF Relay, IInv, TypeOK
<1>3. ASSUME NEW d \in 1 .. LastFile(st)
      PROVE  /\ Len(Packets(st, d)) \in Nat /\ Len(Packets(w, d)) \in Nat
             /\ Len(Packets(st, d)) <= Len(Packets(w, d))
             /\ \A i \in 1 .. Len(Packets(st, d)) : Packets(w, d)[i] = Packets(st, d)[i]
  <2>1. Packets(st, d) \in Seq(Nat) /\ Len(Packets(st, d)) \in Nat
    BY <1>2, FileTypes DEF LastFile
  <2>2. CASE d # n
    BY <1>1, <2>1, <2>2 DEF DataWritten, LastFile
  <2>3. CASE d = n
    <3>1. Packets(w, d) = Append(Packets(st, d), received)
      BY <1>1, <2>3 DEF DataWritten
    <3>2. /\ Len(Packets(w, d)) = Len(Packets(st, d)) + 1
          /\ \A i \in 1 .. Len(Packets(st, d)) : Packets(w, d)[i] = Packets(st, d)[i]
      BY <1>2, <2>1, <3>1, AppendElements
    <3> QED
      BY <2>1, <3>2
  <2> QED
    BY <2>2, <2>3
<1>4. v.stream.exists /\ v.stream.handle # NoFile => v.stream.handle \in 1 .. LastFile(st)
  BY DEF Opened
<1> QED
  BY <1>1, <1>3, <1>4, AnsweredGrows DEF w

\* An empty file is created.
LEMMA OpenedAppended ==
    ASSUME NEW st \in RelayStream, NEW r \in RelayStream, NEW rec \in Nat,
           NEW chunk, NEW index, DataAppended(st, r, chunk, index), FilesOK(st, rec),
           NEW x \in ViewerStream, Opened(rec, st, x),
           x.handle # NoFile /\ st.dfiles[x.handle].chunk = chunk
             /\ st.dfiles[x.handle].index = index => x.index_sent_seqcount < rec
    PROVE  Opened(rec, r, x)
<1> DEFINE n == LastFile(st)
           h == x.handle
           sent == x.index_sent_seqcount
<1>1. /\ LastFile(r) = n + 1 /\ r.dfiles[n + 1].chunk = chunk
      /\ Len(Packets(r, n + 1)) = 0 /\ r.dfiles[n + 1].index = index
      /\ \A d \in 1 .. n : /\ r.dfiles[d].chunk = st.dfiles[d].chunk
                           /\ r.dfiles[d].index = st.dfiles[d].index
                           /\ Packets(r, d) = Packets(st, d)
      /\ \A k, d : Paired(st, k, d) => Paired(r, k, d)
  BY AppendedFiles DEF RingChunk
<1>2. n \in Nat
  BY FileTypes DEF LastFile
<1>3. ASSUME h # NoFile PROVE Behind(rec, r, sent, h)
  <2>1. h \in 1 .. n /\ Behind(rec, st, sent, h)
    BY <1>3 DEF Opened
  <2>2. ASSUME NEW d \in 1 .. n + 1, d > h, SameName(r, d, h)
        PROVE  sent < rec
    <3>1. CASE d = n + 1
      BY <1>1, <1>3, <2>1, <2>2, <3>1 DEF SameName
    <3>2. CASE d \in 1 .. n
      BY <1>1, <2>1, <2>2, <3>2 DEF SameName, Behind
    <3> QED
      BY <1>2, <3>1, <3>2
  <2>3. ASSUME NEW d \in 1 .. n + 1, d > h, SameName(r, d, h),
               NEW j \in d .. n + 1, Len(Packets(r, j)) > 0
        PROVE  sent < Packets(r, j)[1]
    <3>1. j \in 1 .. n /\ d \in 1 .. n /\ j \in d .. n
      BY <1>1, <1>2, <2>3
    <3>2. SameName(st, d, h) /\ Len(Packets(st, j)) > 0
      BY <1>1, <2>1, <2>3, <3>1 DEF SameName
    <3>3. sent < Packets(st, j)[1]
      BY <2>1, <2>3, <3>1, <3>2 DEF Behind
    <3> QED
      BY <1>1, <3>1, <3>3
  <2> QED
    BY <1>1, <2>2, <2>3 DEF Behind
<1>4. h # NoFile => /\ h \in 1 .. n + 1 /\ r.dfiles[h].chunk = x.trace_chunk
                    /\ r.dfiles[h].index = x.current_tracefile_id
                    /\ Packets(r, h) = Packets(st, h)
  BY <1>1, <1>2 DEF Opened
<1> QED
  BY <1>1, <1>3, <1>4 DEF Opened

\* The ring is reset for the files of a new chunk.
LEMMA FreshViewer ==
    ASSUME NEW st \in RelayStream, NEW rec \in Nat, NEW se, FilesOK(st, rec),
           ChunksOK(st, se), ~st.closed, NEW next \in Nat, RingChunk(st) < next,
           NEW a, Fresh(a, rec), NEW v \in ViewerRecord, Answered(st, v),
           v.stream.exists =>
              LET x == v.stream
              IN  /\ InChunks(st, x) /\ Counts(st, x) /\ Opened(rec, st, x)
                  /\ x.current_tracefile_id \in RingIds
                  /\ x.index_sent_seqcount <= rec + Lag(v)
                  /\ x.index_sent_seqcount > rec /\ x.trace_chunk # NoChunk =>
                        x.current_tracefile_id = 0
    PROVE  ViewerOK(a, rec, Rotated(st, next), v)
<1> DEFINE r == Rotated(st, next)
           n == LastFile(st)
           x == v.stream
           lag == Lag(v)
<1>0. /\ n \in Nat /\ n \in 1 .. n
      /\ \A d \in 1 .. n : st.dfiles[d].chunk \in Nat /\ st.dfiles[d].chunk > 0
  BY FileTypes DEF ChunksOK, LastFile
<1>1. \A d \in 1 .. n : st.dfiles[d].chunk < next
  BY <1>0 DEF ChunksOK, RingChunk
<1>2. next # NoChunk
  BY <1>0, <1>1 DEF NoChunk
<1>3. /\ r \in RelayStream /\ r.trace_chunk = next /\ r.closed = st.closed
      /\ r.completed_rotation_count = st.completed_rotation_count + 1
      /\ DataAppended(st, r, next, 0)
  BY Zenon, <1>2, RotatedEffect
<1> HIDE DEF r
<1>4. /\ LastFile(r) = n + 1 /\ RingChunk(r) = next
      /\ \A d \in 1 .. n : /\ r.dfiles[d].chunk = st.dfiles[d].chunk
                           /\ Packets(r, d) = Packets(st, d)
  BY <1>3, AppendedFiles
<1>5. x \in ViewerStream /\ lag \in 0 .. 1
  BY DEF ViewerRecord, Lag
<1>6. x.exists /\ x.handle # NoFile =>
        x.handle \in 1 .. n /\ Len(Packets(st, x.handle)) \in Nat
  BY FileTypes DEF Opened, LastFile
<1>7. Answered(r, v)
  BY <1>4, <1>6, AnsweredGrows
<1>8. ASSUME x.exists PROVE View(a, rec, r, x, lag)
  <2> DEFINE sent == x.index_sent_seqcount
             id == x.current_tracefile_id
  <2>1. /\ InChunks(st, x) /\ Counts(st, x) /\ Opened(rec, st, x)
        /\ id \in RingIds /\ sent <= rec + lag /\ sent \in Nat
        /\ sent > rec /\ x.trace_chunk # NoChunk => id = 0
    BY <1>5, <1>8 DEF ViewerStream
  <2>2. InChunks(r, x)
    BY <1>0, <1>4, <2>1 DEF InChunks
  <2>3. x.trace_chunk # next
    BY <1>1, <1>2, <2>1 DEF InChunks
  <2>4. Counts(r, x)
    <3>1. /\ x.last_seen_rotation_count \in Nat /\ st.completed_rotation_count \in Nat
      BY <1>5 DEF ViewerStream, RelayStream
    <3> HIDE DEF x
    <3> QED
      BY <1>2, <1>3, <2>1, <3>1 DEF Counts
  <2>5. x.trace_chunk # NoChunk => Tracked(a, rec, id, sent)
    <3>1. sent <= rec + 1
      BY <1>5, <2>1
    <3> QED
      BY <2>1, <3>1, TrackedFresh
  <2>6. Follows(a, rec, r, x, lag)
    <3>1. a.seq_tail = rec
      BY DEF Fresh
    <3> QED
      BY <1>4, <2>1, <2>3, <2>5, <3>1 DEF Follows
  <2>7. Opened(rec, r, x)
    <3>1. x.handle # NoFile => st.dfiles[x.handle].chunk # next
      BY <1>1, <2>1 DEF Opened
    <3> QED
      BY Zenon, <1>3, <1>5, <2>1, <3>1, OpenedAppended
  <2>8. AtPosition(a, rec, r, x, lag)
    BY <1>4, <2>3 DEF AtPosition
  <2> QED
    BY <2>2, <2>4, <2>6, <2>7, <2>8 DEF View
<1> QED
  BY Zenon, <1>7, <1>8 DEF ViewerOK, r

\* A packet is received.
LEMMA FlushViewer ==
    ASSUME IInv, ArrayOK(tfa, received), NEW st, NEW se,
           Relay(tfa, received, open, st, se), FlushIndex, count # 1,
           NEW v, ViewerOK(tfa, received, st, v)
    PROVE  ViewerOK(tfa', received', Written(st), v)
<1> DEFINE w == Written(st)
           n == st.file
           x == v.stream
           lag == Lag(v)
           sent == x.index_sent_seqcount
           id == x.current_tracefile_id
           h == HeadOf(tfa)
<1>0. open
  BY DEF FlushIndex
<1>1. /\ w \in RelayStream
      /\ n = LastFile(st) /\ n \in 1 .. LastFile(st) /\ n # NoFile /\ ~st.closed
      /\ LastFile(w) = LastFile(st) /\ RingChunk(w) = RingChunk(st)
      /\ SameRotation(st, w) /\ DataWritten(st, w, received)
      /\ Packets(w, n)[1] = IF Len(Packets(st, n)) = 0 THEN received
                            ELSE Packets(st, n)[1]
      /\ Packets(w, n)[1] + Len(Packets(w, n)) = received + 1
      /\ Len(Packets(w, n)) = Len(Packets(st, n)) + 1
  BY Zenon, <1>0, WrittenStep
<1>2. /\ received' = received + 1 /\ received \in Nat
      /\ HeadOf(tfa') = h /\ h \in RingIds
      /\ tfa'.seq_tail = IF tfa.seq_tail = Unset THEN received ELSE tfa.seq_tail
      /\ RangeOf(tfa', h).seq_head = received
      /\ RangeOf(tfa', h).seq_tail = IF RangeOf(tfa, h).seq_tail = Unset
                                     THEN received ELSE RangeOf(tfa, h).seq_tail
      /\ \A f \in RingIds \ {h} : RangeOf(tfa', f) = RangeOf(tfa, f)
  BY FlushEffect
<1>3. /\ v \in ViewerRecord /\ x \in ViewerStream /\ lag \in 0 .. 1 /\ Answered(st, v)
      /\ sent \in Nat /\ id \in Nat /\ st \in RelayStream
      /\ tfa.seq_tail \in Int /\ tfa.seq_tail >= Unset /\ tfa.seq_tail <= received
  BY DEF ViewerOK, ViewerRecord, ViewerStream, Lag, Relay, IInv, TypeOK, RingOrder,
         TracefileArrayType
<1>4. Answered(w, v)
  BY Zenon, <1>0, <1>3, AnsweredWritten DEF ViewerOK, View
<1>5. ASSUME x.exists PROVE View(tfa', received', w, x, lag)
  <2>1. /\ InChunks(st, x) /\ Counts(st, x) /\ Follows(tfa, received, st, x, lag)
        /\ Opened(received, st, x) /\ AtPosition(tfa, received, st, x, lag)
    BY <1>5 DEF ViewerOK, View
  <2>2. Opened(received', w, x)
    BY Zenon, <1>0, <1>2, <1>3, <2>1, OpenedWritten
  <2> HIDE DEF w
  <2>3. InChunks(w, x)
    BY <1>1, <2>1 DEF InChunks, DataWritten, LastFile
  <2>4. Counts(w, x)
    BY <1>1, <2>1 DEF Counts, SameRotation
  <2>5. sent <= received + lag
    BY <1>1, <2>1 DEF Follows
  <2>6. x.trace_chunk # NoChunk => Tracked(tfa', received', id, sent)
    <3>1. CASE count = 0
      BY <3>1 DEF Tracked
    <3>2. CASE count # 0
      <4>1. count > 1 /\ id \in Files
        BY <2>1, <3>2, CountAssumption, Limited DEF Follows
      <4>2. x.trace_chunk # NoChunk => /\ Tracked(tfa, received, id, sent)
                                       /\ NotFar(tfa, received, id, sent)
        BY <1>1, <1>2, <1>3, <2>1, <2>5 DEF Follows, NotFar
      <4> QED
        BY Zenon, <1>3, <4>1, <4>2, TrackedFlush
    <3> QED
      BY <3>1, <3>2
  <2>7. Follows(tfa', received', w, x, lag)
    <3>1. sent <= received' /\ sent <= received' + lag
      BY <1>2, <1>3, <2>5
    <3>2. tfa.seq_tail <= tfa'.seq_tail /\ tfa'.seq_tail \in Int
      BY <1>2, <1>3 DEF Unset
    <3>3. \A t : sent <= tfa.seq_tail + lag => sent <= tfa'.seq_tail + lag
      BY <1>3, <3>2
    <3>4. received' \in Nat /\ ~(sent > received')
      BY <1>2, <1>3, <3>1
    <3>5. tfa'.seq_tail # received'
      BY <1>2, <1>3
    <3> QED
      BY <1>1, <2>1, <2>6, <3>1, <3>3, <3>4, <3>5 DEF Follows, SameRotation
  <2>8. ASSUME x.trace_chunk = RingChunk(st), x.handle = NoFile, NEW f \in RingIds,
               RangeOf(tfa', f).seq_tail # Unset
        PROVE  /\ count = 0 => RangeOf(tfa', f).seq_tail <= sent
               /\ \/ sent <= RangeOf(tfa', f).seq_tail + lag
                  \/ sent > RangeOf(tfa', f).seq_head /\ f # h
    <3>1. RangeOf(tfa, f).seq_tail # Unset =>
             /\ count = 0 => RangeOf(tfa, f).seq_tail <= sent
             /\ \/ sent <= RangeOf(tfa, f).seq_tail + lag
                \/ sent > RangeOf(tfa, f).seq_head /\ f # h
      BY Zenon, <2>1, <2>8 DEF AtPosition
    <3>2. CASE f # h
      BY Zenon, <1>2, <2>8, <3>1, <3>2
    <3>3. CASE f = h /\ RangeOf(tfa, h).seq_tail # Unset
      BY Zenon, <1>2, <3>1, <3>3
    <3>4. CASE f = h /\ RangeOf(tfa, h).seq_tail = Unset
      <4>1. RangeOf(tfa', f).seq_tail = received
        BY <1>2, <3>4
      <4>2. count = 0 => received = 0
        BY Zenon, <3>4, Unlimited DEF ArrayOK
      <4> QED
        BY <1>3, <2>5, <4>1, <4>2
    <3> QED
      BY Zenon, <3>2, <3>3, <3>4
  <2>9. ASSUME x.trace_chunk = RingChunk(st), x.handle # NoFile
        PROVE  /\ Len(Packets(w, x.handle)) = 0 => x.handle = LastFile(w) /\ received' <= sent
               /\ Len(Packets(w, x.handle)) > 0 =>
                    /\ Packets(w, x.handle)[1] + x.pos <= sent
                    /\ sent <= Packets(w, x.handle)[1] + x.pos + lag
                    /\ sent <= Packets(w, x.handle)[1] + Len(Packets(w, x.handle))
    <3> DEFINE p == Packets(st, x.handle)
               q == Packets(w, x.handle)
    <3>1. x.handle \in 1 .. LastFile(st)
      BY Zenon, <2>1, <2>9 DEF Opened
    <3>2. /\ Len(p) = 0 => x.handle = LastFile(st) /\ received <= sent
          /\ Len(p) > 0 => /\ p[1] + x.pos <= sent /\ sent <= p[1] + x.pos + lag
                           /\ sent <= p[1] + Len(p)
      BY <2>1, <2>9 DEF AtPosition
    <3>3. CASE x.handle # n
      <4>1. q = p
        BY Zenon, <1>1, <3>1, <3>3 DEF DataWritten, LastFile
      <4>2. Len(p) # 0
        BY Zenon, <1>1, <3>2, <3>3
      <4> QED
        BY Zenon, <3>2, <4>1, <4>2
    <3>4. CASE x.handle = n
      <4>1. /\ Len(p) \in Nat /\ Len(q) = Len(p) + 1 /\ p \in Seq(Nat)
            /\ q[1] = IF Len(p) = 0 THEN received ELSE p[1]
        BY Zenon, <1>1, <1>3, <3>1, <3>4, FileTypes DEF LastFile
      <4>2. CASE Len(p) = 0
        <5>1. x.pos = 0
          <6>1. x.index_file = NoFile
            <7> SUFFICES ASSUME x.index_file # NoFile PROVE FALSE
              OBVIOUS
            <7>1. Paired(st, x.index_file, x.handle)
              BY <2>1 DEF Opened
            <7>2. FilesOK(st, received)
              BY DEF Relay
            <7> QED
              BY <1>2, <1>3, <4>2, <7>1, <7>2, PairIsWritten
          <6> QED
            BY Zenon, <2>1, <6>1 DEF Opened
        <5>2. received <= sent /\ sent <= received + lag
          BY <2>5, <3>2, <4>2
        <5> HIDE DEF p, q
        <5>3. q[1] = received /\ Len(q) = 1
          BY <4>1, <4>2
        <5> QED
          BY <1>2, <1>3, <5>1, <5>2, <5>3 DEF q
      <4>3. CASE Len(p) > 0
        <5>1. p[1] \in Nat
          BY <4>1, <4>3
        <5>2. p[1] + x.pos <= sent /\ sent <= p[1] + x.pos + lag /\ sent <= p[1] + Len(p)
          BY <3>2, <4>3
        <5> HIDE DEF p, q
        <5>3. q[1] = p[1] /\ Len(q) = Len(p) + 1 /\ Len(q) # 0
          BY <4>1, <4>3
        <5> QED
          BY <1>3, <4>1, <5>1, <5>2, <5>3 DEF q
      <4> QED
        BY <4>1, <4>2, <4>3
    <3> QED
      BY Zenon, <3>3, <3>4
  <2>10. AtPosition(tfa', received', w, x, lag)
    BY Zenon, <1>1, <1>2, <2>8, <2>9 DEF AtPosition
  <2> QED
    BY <2>2, <2>3, <2>4, <2>7, <2>10 DEF View
<1> QED
  BY <1>3, <1>4, <1>5 DEF ViewerOK

LEMMA NotMoreIsAtMost == \A a, b \in Nat : ~(a > b) => a <= b
  OBVIOUS

LEMMA PlusLag == \A a, b, l \in Nat : a <= b => a <= b + l
  OBVIOUS

LEMMA NatIsSet == \A a \in Nat : a # Unset
  BY DEF Unset

\* A packet goes to a new file.
LEMMA RotateViewer ==
    ASSUME IInv, ArrayOK(tfa, received), NEW st, NEW se,
           Relay(tfa, received, open, st, se), InitPacketRotate, count > 1,
           st.file # NoFile, ~st.closed,
           NEW r \in RelayStream,
           DataAppended(st, r, st.trace_chunk, NextFile(FileHead)),
           r.trace_chunk = st.trace_chunk, r.closed = st.closed,
           r.completed_rotation_count = st.completed_rotation_count,
           NEW v, ViewerOK(tfa, received, st, v)
    PROVE  ViewerOK(tfa', received', r, v)
<1> DEFINE n == LastFile(st)
           x == v.stream
           lag == Lag(v)
           sent == x.index_sent_seqcount
           id == x.current_tracefile_id
           w == tfa.file_head_write
           g == tfa'.file_head_write
<1>0. count > 0 /\ count # 1
  BY CountAssumption
<1>1. /\ tfa.seq_tail <= tfa'.seq_tail /\ g = NextFile(w) /\ g # w
      /\ w \in Files /\ g \in Files
      /\ received' = received /\ received \in Nat /\ received > 0
      /\ tfa.tf[w].seq_head = received - 1
      /\ tfa'.tf[g] = EmptyFile
      /\ \A f \in Files \ {g} : tfa'.tf[f] = tfa.tf[f]
  BY Zenon, WriteRotationEffect
<1>2. /\ st.file = n /\ n \in 1 .. n /\ Len(Packets(st, n)) > 0
  BY HeadFileIsWritten
<1>3. /\ v \in ViewerRecord /\ x \in ViewerStream /\ lag \in 0 .. 1 /\ Answered(st, v)
      /\ sent \in Nat /\ id \in Nat /\ st \in RelayStream
      /\ tfa.seq_tail \in Int /\ tfa'.seq_tail \in Int /\ tfa.seq_tail <= received
      /\ FilesOK(st, received) /\ CurrentOK(tfa, received, open, st)
  <2>1. IInv'
    BY Zenon, <1>0, StepKeepsIInv DEF Next
  <2> QED
    BY <2>1 DEF ViewerOK, ViewerRecord, ViewerStream, Lag, Relay, IInv, TypeOK,
         RingOrder, TracefileArrayType
<1>4. st.trace_chunk = RingChunk(st) /\ FileHead = w
  BY <1>0, <1>3, CountAssumption DEF CurrentOK, FileHead
<1>5. /\ LastFile(r) = n + 1 /\ RingChunk(r) = RingChunk(st)
      /\ \A d \in 1 .. n : /\ r.dfiles[d].chunk = st.dfiles[d].chunk
                           /\ r.dfiles[d].index = st.dfiles[d].index
                           /\ Packets(r, d) = Packets(st, d)
  BY <1>1, <1>3, <1>4, AppendedFiles
<1>6. tfa.seq_tail # received
  <2> SUFFICES ASSUME tfa.seq_tail = received PROVE FALSE
    OBVIOUS
  <2>1. AtZero(tfa) /\ tfa.tf[0].seq_head = received
    BY Zenon, <1>0, AnnouncedFile
  <2>2. w = 0
    BY Zenon, <2>1 DEF AtZero
  <2> QED
    BY <1>1, <2>1, <2>2
<1>10. tfa'.seq_tail # received'
  <2> DEFINE t == tfa'.file_tail
  <2> SUFFICES ASSUME tfa'.seq_tail = received PROVE FALSE
    BY Zenon, <1>1
  <2>1. t \in Files /\ tfa'.tf[t].seq_tail = received
    <3>1. IInv'
      BY Zenon, <1>0, StepKeepsIInv DEF Next
    <3> QED
      BY <1>0, <1>1, <3>1 DEF IInv, TypeOK, TailIsOldestRetained, Unset
  <2>2. t # g
    BY <1>1, <2>1 DEF EmptyFile, Unset
  <2>3. tfa.tf[t].seq_tail = received
    BY Zenon, <1>1, <2>1, <2>2
  <2>4. ~Empty(t)
    BY <1>1, <2>3 DEF Empty, EmptyFile, Unset
  <2>5. tfa.tf[t].seq_head = received
    BY <1>0, <1>1, <2>1, <2>3, <2>4, FilesInOrder
  <2> QED
    BY Zenon, <1>6, <2>1, <2>5 DEF ArrayOK
<1>7. x.exists /\ x.handle # NoFile =>
        x.handle \in 1 .. n /\ Len(Packets(st, x.handle)) \in Nat
  BY Zenon, <1>3, FileTypes DEF ViewerOK, View, Opened, LastFile
<1>8. Answered(r, v)
  BY <1>3, <1>5, <1>7, AnsweredGrows
<1>9. ASSUME x.exists PROVE View(tfa', received', r, x, lag)
  <2>1. /\ InChunks(st, x) /\ Counts(st, x) /\ Follows(tfa, received, st, x, lag)
        /\ Opened(received, st, x) /\ AtPosition(tfa, received, st, x, lag)
    BY Zenon, <1>9 DEF ViewerOK, View
  <2>2. sent <= received /\ id \in Files
    <3>1. id \in Files
      BY Zenon, <1>0, <2>1, Limited DEF Follows
    <3>2. ~(sent > received)
      BY Zenon, <1>6, <2>1 DEF Follows
    <3> QED
      BY Zenon, <1>1, <1>3, <3>1, <3>2, NotMoreIsAtMost
  <2>3. x.trace_chunk # NoChunk =>
          Tracked(tfa, received, id, sent) /\ Tracked(tfa', received', id, sent)
    BY <1>3, <2>1, <2>2, TrackedRotate DEF Follows
  <2>4. x.handle # NoFile => x.trace_chunk # NoChunk
    <3>1. \A d \in 1 .. n : st.dfiles[d].chunk > 0 /\ st.dfiles[d].chunk \in Nat
      BY <1>3, FileTypes DEF Relay, ChunksOK, LastFile
    <3> QED
      BY Zenon, <2>1, <3>1, PositiveIsNotZero DEF Opened, NoChunk
  <2>5. x.handle # NoFile /\ st.dfiles[x.handle].chunk = st.trace_chunk
          /\ st.dfiles[x.handle].index = NextFile(FileHead) => sent < received
    <3> SUFFICES ASSUME x.handle # NoFile, id = g, ~(sent < received)
                 PROVE  FALSE
      BY Zenon, <1>1, <1>4, <2>1 DEF Opened
    <3>1. sent >= received /\ sent > tfa.seq_tail
      BY <1>1, <1>3, <1>6, <2>2
    <3>2. w = id \/ tfa.tf[w] = EmptyFile
      BY Zenon, <1>0, <2>3, <2>4, <3>1 DEF Tracked
    <3>3. tfa.tf[w].seq_head # Unset
      BY <1>1 DEF Unset
    <3> QED
      BY <1>1, <3>2, <3>3 DEF EmptyFile
  <2>6. Opened(received', r, x)
    BY Zenon, <1>1, <1>3, <2>1, <2>5, OpenedAppended
  <2>7. InChunks(r, x)
    BY <1>2, <1>5, <2>1 DEF InChunks
  <2>8. Counts(r, x)
    BY <1>5, <2>1 DEF Counts
  <2>9. Follows(tfa', received', r, x, lag)
    <3>1. sent <= tfa.seq_tail + lag => sent <= tfa'.seq_tail + lag
      BY <1>1, <1>3
    <3>2. sent <= received' + lag /\ ~(sent > received')
      BY <1>1, <1>3, <2>2
    <3> QED
      BY Zenon, <1>5, <1>10, <2>1, <2>3, <3>1, <3>2 DEF Follows
  <2>10. ASSUME x.trace_chunk = RingChunk(st), x.handle = NoFile, NEW f \in RingIds,
                RangeOf(tfa', f).seq_tail # Unset
         PROVE  \/ sent <= RangeOf(tfa', f).seq_tail + lag
                \/ sent > RangeOf(tfa', f).seq_head /\ f # HeadOf(tfa')
    <3>1. f \in Files /\ RangeOf(tfa', f) = tfa'.tf[f] /\ RangeOf(tfa, f) = tfa.tf[f]
          /\ HeadOf(tfa') = g
      BY Zenon, <1>0, <2>10, Limited
    <3>2. f # g
      BY <1>1, <2>10, <3>1 DEF EmptyFile
    <3>3. RangeOf(tfa', f) = RangeOf(tfa, f)
      BY <1>1, <3>1, <3>2
    <3>4. \/ sent <= RangeOf(tfa, f).seq_tail + lag
          \/ sent > RangeOf(tfa, f).seq_head
      BY Zenon, <2>1, <2>10, <3>3 DEF AtPosition
    <3> QED
      BY Zenon, <3>1, <3>2, <3>3, <3>4
  <2>11. ASSUME x.trace_chunk = RingChunk(st), x.handle # NoFile
         PROVE  /\ Packets(r, x.handle) = Packets(st, x.handle)
                /\ Len(Packets(st, x.handle)) # 0
    <3>1. Packets(r, x.handle) = Packets(st, x.handle)
      BY Zenon, <1>5, <1>7, <1>9, <2>11
    <3>2. Len(Packets(st, x.handle)) = 0 => x.handle = n
      BY Zenon, <2>1, <2>11 DEF AtPosition
    <3> QED
      BY Zenon, <1>2, <3>1, <3>2, PositiveIsNotZero
  <2>12. AtPosition(tfa', received', r, x, lag)
    <3>1. count # 0
      BY <1>0
    <3>2. ASSUME x.trace_chunk = RingChunk(st), x.handle # NoFile
          PROVE  /\ Len(Packets(r, x.handle)) # 0
                 /\ Len(Packets(r, x.handle)) > 0 =>
                      /\ Packets(r, x.handle)[1] + x.pos <= sent
                      /\ sent <= Packets(r, x.handle)[1] + x.pos + lag
                      /\ sent <= Packets(r, x.handle)[1] + Len(Packets(r, x.handle))
      BY Zenon, <2>1, <2>11, <3>2 DEF AtPosition
    <3> QED
      BY Zenon, <1>5, <2>10, <3>1, <3>2 DEF AtPosition
  <2> QED
    BY Zenon, <2>6, <2>7, <2>8, <2>9, <2>12 DEF View
<1> QED
  BY <1>3, <1>8, <1>9 DEF ViewerOK

LEMMA MayCloseViewer ==
    ASSUME NEW a, NEW rec, NEW st \in RelayStream, NEW v, ViewerOK(a, rec, st, v),
           NEW r, r \in MayClose(st) \/ r = Closed(st)
    PROVE  ViewerOK(a, rec, r, v)
<1>1. r = st \/ r = Closed(st)
  BY DEF MayClose
<1>2. CASE r = st
  BY <1>2
<1>3. CASE r = Closed(st)
  <2>1. /\ r \in RelayStream /\ r.dfiles = st.dfiles /\ r.ifiles = st.ifiles
        /\ r.closed
    BY Zenon, <1>3, ClosedEffect
  <2> QED
    BY <2>1, QuietViewer
<1> QED
  BY <1>1, <1>2, <1>3

LEMMA RotatedViewerNone ==
    ASSUME NEW a, NEW rec, NEW st \in RelayStream, NEW v, ViewerOK(a, rec, st, v),
           st.trace_chunk = RingChunk(st)
    PROVE  ViewerOK(a, rec, Rotated(st, NoChunk), v) /\ Rotated(st, NoChunk) \in RelayStream
<1> DEFINE r == Rotated(st, NoChunk)
<1>1. NoChunk \in Nat
  BY DEF NoChunk
<1>2. /\ r \in RelayStream /\ r.dfiles = st.dfiles /\ r.ifiles = st.ifiles
      /\ r.closed = st.closed /\ r.trace_chunk = NoChunk
      /\ r.completed_rotation_count = st.completed_rotation_count + 1
  BY Zenon, <1>1, RotatedEffect
<1> HIDE DEF r
<1>3. ViewerOK(a, rec, r, v)
  BY <1>2, QuietViewer
<1> QED
  BY <1>2, <1>3 DEF r

LEMMA EndPacketViewer ==
    ASSUME IInv, ArrayOK(tfa, received), RelayInv, NEW v,
           ViewerOK(tfa, received, stream, v), EndPacket, count # 1
    PROVE  ViewerOK(tfa', received', stream', v)
<1> DEFINE w == Written(stream)
           next == stream.next_trace_chunk
           x == v.stream
           lag == Lag(v)
<1>0. /\ Relay(tfa, received, open, stream, session) /\ received \in Nat
      /\ stream \in RelayStream
  BY DEF RelayInv, IInv, TypeOK, Relay
<1>1. open /\ received' = received + 1
  BY DEF EndPacket, FlushIndex, FlushCompletesRotation
<1>2. /\ w \in RelayStream /\ FilesOK(w, received + 1) /\ ChunksOK(w, session)
      /\ LastFile(w) = LastFile(stream)
      /\ RingChunk(w) = RingChunk(stream) /\ SameRotation(stream, w)
      /\ ~stream.closed /\ DataWritten(stream, w, received)
  BY Zenon, <1>0, <1>1, WrittenStep
<1>3. w.trace_chunk = RingChunk(w) /\ ~w.closed
  BY <1>0, <1>1, <1>2 DEF SameRotation, Relay, CurrentOK
<1>4. ASSUME FlushIndex PROVE ViewerOK(tfa', received', w, v)
  BY <1>0, <1>4, FlushViewer
<1>5. Answered(w, v) /\ (x.exists => Opened(received + 1, w, x))
  <2>1. /\ v \in ViewerRecord /\ x \in ViewerStream /\ Answered(stream, v)
        /\ x.exists => Opened(received, stream, x)
    BY <1>0 DEF ViewerOK, View, ViewerRecord
  <2> QED
    BY Zenon, <1>0, <1>1, <2>1, AnsweredWritten, OpenedWritten
<1> HIDE DEF w
<1>6. CASE FlushIndex /\ stream' \in {w} \cup MayClose(w)
  BY <1>2, <1>4, <1>6, MayCloseViewer
<1>7. CASE FlushIndex /\ stream' \in MayClose(Rotated(w, NoChunk))
  <2>1. /\ ViewerOK(tfa', received', Rotated(w, NoChunk), v)
        /\ Rotated(w, NoChunk) \in RelayStream
    BY <1>2, <1>3, <1>4, <1>7, RotatedViewerNone
  <2> QED
    BY <1>7, <2>1, MayCloseViewer
<1>8. CASE /\ FlushCompletesRotation /\ stream.is_rotating /\ next # NoChunk
           /\ stream' \in MayClose(Rotated(w, next))
  <2>1. Fresh(tfa', received')
    <3>1. /\ tfa' = tracefile_array_commit_seq(tracefile_array_reset(tfa), received + 1)
          /\ received + 1 \in Nat
      BY <1>0, <1>8 DEF FlushCompletesRotation
    <3> QED
      BY <1>1, <3>1, ResetIsFresh
  <2>2. RingChunk(w) < next /\ next \in Nat
    BY Zenon, <1>0, <1>2, <1>8 DEF Relay, ChunksOK, RelayStream
  <2>3. /\ v \in ViewerRecord /\ received' \in Nat /\ FilesOK(w, received')
    BY <1>0, <1>1, <1>2 DEF ViewerOK
  <2>4. ASSUME x.exists
        PROVE  /\ InChunks(w, x) /\ Counts(w, x) /\ Opened(received', w, x)
               /\ x.current_tracefile_id \in RingIds
               /\ x.index_sent_seqcount <= received' + lag
               /\ ~(x.index_sent_seqcount > received')
    <3>1. /\ InChunks(stream, x) /\ Counts(stream, x)
          /\ Follows(tfa, received, stream, x, lag)
      BY Zenon, <1>0, <2>4 DEF ViewerOK, View
    <3>2. InChunks(w, x)
      BY Zenon, <1>2, <3>1 DEF InChunks, DataWritten, LastFile
    <3>3. Counts(w, x)
      BY <1>2, <3>1 DEF Counts, SameRotation
    <3>4. /\ x.index_sent_seqcount \in Nat /\ lag \in 0 .. 1
          /\ x.index_sent_seqcount <= received + lag
          /\ x.current_tracefile_id \in RingIds
      BY <1>2, <2>3, <3>1 DEF ViewerRecord, ViewerStream, Lag, Follows
    <3> HIDE DEF x, lag
    <3> QED
      BY <1>0, <1>1, <1>5, <2>4, <3>2, <3>3, <3>4
  <2>5. ViewerOK(tfa', received', Rotated(w, next), v)
    BY Zenon, <1>2, <1>3, <1>5, <2>1, <2>2, <2>3, <2>4, FreshViewer
  <2>6. Rotated(w, next) \in RelayStream
    BY Zenon, <1>2, <2>2, RotatedEffect
  <2> QED
    BY <1>8, <2>5, <2>6, MayCloseViewer
<1> QED
  BY <1>6, <1>7, <1>8 DEF EndPacket, w

LEMMA StartPacketViewer ==
    ASSUME IInv, ArrayOK(tfa, received), RelayInv, NEW v,
           ViewerOK(tfa, received, stream, v), StartPacket, count # 1
    PROVE  ViewerOK(tfa', received', stream', v)
<1>0. /\ Relay(tfa, received, open, stream, session) /\ stream \in RelayStream
  BY DEF RelayInv, Relay
<1>1. CASE InitPacket /\ InitPacketOf(FALSE)
  BY <1>0, <1>1 DEF InitPacket, InitPacketOf
<1>2. CASE count > 0 /\ InitPacketRotate /\ InitPacketOf(TRUE)
  <2> DEFINE f == File(stream.trace_chunk, NextFile(FileHead))
             dfiles == Append(stream.dfiles, f)
  <2>0. count > 1
    BY <1>2, CountAssumption
  <2>1. /\ stream.file # NoFile /\ ~stream.closed
        /\ stream' = [stream EXCEPT !.rotate_index = TRUE, !.dfiles = dfiles,
                                    !.file = Len(stream.dfiles) + 1]
    BY <1>2 DEF InitPacketRotate, InitPacketOf
  <2>2. NextFile(FileHead) \in Nat
    <3>1. tfa.file_head_write \in Files
      BY <1>2 DEF IInv, TypeOK
    <3>2. FileHead = tfa.file_head_write
      BY <1>2, CountAssumption DEF FileHead
    <3>3. NextFile(FileHead) \in Files
      BY <1>2, <3>1, <3>2, NextFileWraps
    <3> QED
      BY <3>3 DEF Files
  <2>3. f \in DataFile /\ stream.dfiles \in Seq(DataFile) /\ Len(stream.dfiles) \in Nat
    BY <1>0, <2>2 DEF File, DataFile, RelayStream
  <2>4. /\ dfiles \in Seq(DataFile) /\ Len(dfiles) = Len(stream.dfiles) + 1
        /\ dfiles[Len(stream.dfiles) + 1] = f
        /\ \A d \in 1 .. Len(stream.dfiles) : dfiles[d] = stream.dfiles[d]
    BY <2>3, AppendElements
  <2> HIDE DEF dfiles
  <2>5. PICK r : r = stream'
    OBVIOUS
  <2>6. /\ r \in RelayStream /\ r.dfiles = dfiles /\ r.ifiles = stream.ifiles
        /\ r.trace_chunk = stream.trace_chunk /\ r.closed = stream.closed
        /\ r.completed_rotation_count = stream.completed_rotation_count
    <3>1. Len(stream.dfiles) + 1 \in Nat
      BY <2>3
    <3> QED
      BY Zenon, <1>0, <2>1, <2>4, <2>5, <3>1 DEF RelayStream
  <2>7. DataAppended(stream, r, stream.trace_chunk, NextFile(FileHead))
    BY <2>4, <2>6 DEF DataAppended
  <2>8. ViewerOK(tfa', received', r, v)
    BY <1>0, <1>2, <2>0, <2>1, <2>6, <2>7, RotateViewer
  <2> QED
    BY <2>5, <2>8
<1> QED
  BY Zenon, <1>1, <1>2 DEF StartPacket

\* The stream's files and rotations are the same.
LEMMA SameFilesViewer ==
    ASSUME RelayInv, NEW v, ViewerOK(tfa, received, stream, v),
           UNCHANGED <<tfa, received>>, NEW r \in RelayStream, stream' = r,
           r.dfiles = stream.dfiles, r.ifiles = stream.ifiles,
           r.closed = stream.closed, r.trace_chunk = stream.trace_chunk,
           r.completed_rotation_count = stream.completed_rotation_count
    PROVE  ViewerOK(tfa', received', stream', v)
<1>1. ViewerOK(tfa, received, r, v)
  BY QuietViewer DEF RelayInv, Relay
<1> QED
  BY <1>1

LEMMA RotateStreamViewer ==
    ASSUME IInv, ArrayOK(tfa, received), RelayInv, NEW v,
           ViewerOK(tfa, received, stream, v), NEW next, RotateStream(next)
    PROVE  ViewerOK(tfa', received', stream', v)
<1> DEFINE x == v.stream
           lag == Lag(v)
<1>0. /\ Relay(tfa, received, open, stream, session) /\ received \in Nat
      /\ stream \in RelayStream /\ ~stream.closed
      /\ v \in ViewerRecord
  BY DEF RelayInv, IInv, TypeOK, Relay, RotateStream, ViewerOK
<1>1. next # NoChunk => /\ next \in Nat /\ RingChunk(stream) < next
                        /\ next = session.chunks
  BY NewChunk DEF RotateStream
<1>2. CASE next = NoChunk /\ ~open /\ UNCHANGED <<tfa, received, open>>
           /\ stream' = Rotated(stream, next)
  <2>1. stream.trace_chunk # NoChunk
    BY Zenon, <1>2 DEF RotateStream
  <2>2. stream.trace_chunk = RingChunk(stream)
    BY <1>0, <2>1 DEF Relay, CurrentOK
  <2>3. ViewerOK(tfa, received, Rotated(stream, NoChunk), v)
    BY <1>0, <2>2, RotatedViewerNone
  <2> QED
    BY <1>2, <2>3
<1>3. CASE next # NoChunk /\ CompleteRotation /\ stream' = Rotated(stream, next)
  <2>1. received' = received /\ Fresh(tfa', received)
    BY <1>0, <1>3, ResetIsFresh DEF CompleteRotation
  <2>2. FilesOK(stream, received) /\ ChunksOK(stream, session) /\ Answered(stream, v)
    BY Zenon, <1>0 DEF Relay, ViewerOK
  <2>3. ASSUME x.exists
        PROVE  /\ InChunks(stream, x) /\ Counts(stream, x) /\ Opened(received, stream, x)
               /\ x.current_tracefile_id \in RingIds
               /\ x.index_sent_seqcount <= received + lag
               /\ x.index_sent_seqcount > received /\ x.trace_chunk # NoChunk =>
                    x.current_tracefile_id = 0
    <3>1. View(tfa, received, stream, x, lag)
      BY <1>0, <2>3 DEF ViewerOK
    <3> HIDE DEF x, lag
    <3> QED
      BY <1>0, <3>1 DEF View, Follows
  <2>4. ViewerOK(tfa', received, Rotated(stream, next), v)
    BY Zenon, <1>0, <1>1, <1>3, <2>1, <2>2, <2>3, FreshViewer
  <2> QED
    BY <1>3, <2>1, <2>4
<1>4. CASE /\ stream' = [stream EXCEPT !.is_rotating = TRUE, !.next_trace_chunk = next]
           /\ UNCHANGED <<tfa, received, open>>
  <2>1. next \in Nat
    BY <1>1 DEF NoChunk
  <2>2. PICK r : r = stream'
    OBVIOUS
  <2>3. /\ r \in RelayStream /\ r.dfiles = stream.dfiles /\ r.ifiles = stream.ifiles
        /\ r.trace_chunk = stream.trace_chunk /\ r.closed = stream.closed
        /\ r.completed_rotation_count = stream.completed_rotation_count
    BY Zenon, <1>0, <1>4, <2>1, <2>2 DEF RelayStream
  <2> QED
    BY Zenon, <1>0, <1>4, <2>2, <2>3, SameFilesViewer
<1> QED
  BY <1>2, <1>3, <1>4 DEF RotateStream

\* No step of the relay daemon disturbs what the viewer relies on.
LEMMA RelayStepViewer ==
    ASSUME IInv, ArrayOK(tfa, received), RelayInv, NEW v,
           ViewerOK(tfa, received, stream, v), RelayNext, count # 1
    PROVE  ViewerOK(tfa', received', stream', v)
<1>0. stream \in RelayStream
  BY DEF RelayInv, Relay
<1>1. CASE UNCHANGED <<tfa, received, stream>>
  BY <1>1
<1>2. CASE AddBeacon
  <2>1. PICK r : r = stream'
    OBVIOUS
  <2>2. /\ r \in RelayStream /\ r.dfiles = stream.dfiles /\ r.ifiles = stream.ifiles
        /\ r.trace_chunk = stream.trace_chunk /\ r.closed = stream.closed
        /\ r.completed_rotation_count = stream.completed_rotation_count
        /\ UNCHANGED <<tfa, received>>
    BY Zenon, <1>0, <1>2, <2>1 DEF AddBeacon, RelayStream
  <2> QED
    BY <2>1, <2>2, SameFilesViewer
<1>3. ASSUME NEW closing, CloseStream(closing)
      PROVE  ViewerOK(tfa', received', stream', v)
  <2>0. UNCHANGED <<tfa, received>>
    BY <1>3 DEF CloseStream, AbandonPacket
  <2>1. CASE stream' = Closed(stream)
    <3>1. ViewerOK(tfa, received, stream', v)
      BY <1>0, <2>1, MayCloseViewer
    <3> QED
      BY <2>0, <3>1
  <2>2. CASE stream' = [stream EXCEPT !.close_requested = TRUE]
    <3>1. PICK r : r = stream'
      OBVIOUS
    <3>2. /\ r \in RelayStream /\ r.dfiles = stream.dfiles /\ r.ifiles = stream.ifiles
          /\ r.trace_chunk = stream.trace_chunk /\ r.closed = stream.closed
          /\ r.completed_rotation_count = stream.completed_rotation_count
      BY Zenon, <1>0, <2>2, <3>1 DEF RelayStream
    <3> QED
      BY <2>0, <3>1, <3>2, SameFilesViewer
  <2> QED
    BY <1>3, <2>1, <2>2 DEF CloseStream
<1>4. CASE CreateTraceChunk \/ CloseConnection \/ \E delete \in BOOLEAN : CloseTraceChunk(delete)
  BY Zenon, <1>1, <1>4 DEF CreateTraceChunk, CloseConnection, CloseTraceChunk
<1> QED
  BY <1>2, <1>3, <1>4, StartPacketViewer, EndPacketViewer, RotateStreamViewer DEF RelayNext

-----------------------------------------------------------------------------
\* The ring as a request of the viewer finds it.

InRange(f, s) ==
    /\ RangeOf(tfa, f).seq_tail # Unset
    /\ RangeOf(tfa, f).seq_tail <= s /\ s <= RangeOf(tfa, f).seq_head

LEMMA HasSeqInRange ==
    ASSUME IInv, count > 0, NEW f \in Files, NEW s \in Nat
    PROVE  HasSeq(f, s) <=> InRange(f, s)
<1>1. TypeOK /\ RangesValid /\ RangeOf(tfa, f) = tfa.tf[f]
  BY Zenon, Limited DEF IInv, RingOrder
<1>2. CASE Empty(f)
  BY <1>1, <1>2, HasSeqMeaning DEF InRange, Empty, EmptyFile
<1>3. CASE ~Empty(f)
  <2>1. tfa.tf[f].seq_head \in Nat /\ tfa.tf[f].seq_tail \in Nat
    BY <1>1, <1>3, FileRange
  <2> QED
    BY <1>1, <2>1, HasSeqMeaning DEF InRange, Unset
<1> QED
  BY <1>2, <1>3

\* The tail is in the oldest file.
LEMMA OldestTail ==
    ASSUME IInv, NEW f \in RingIds, RangeOf(tfa, f).seq_tail # Unset
    PROVE  /\ tfa.seq_tail # Unset /\ tfa.seq_tail \in Nat
           /\ RangeOf(tfa, f).seq_tail \in Int /\ RangeOf(tfa, f).seq_head \in Int
           /\ tfa.seq_tail <= RangeOf(tfa, f).seq_tail
<1> DEFINE t == tfa.file_tail
<1>1. /\ TypeOK /\ tfa.seq_tail \in Int /\ tfa.seq_tail >= Unset
      /\ tfa.seq_head \in Int
  BY DEF IInv, TypeOK, RingOrder, TracefileArrayType
<1>2. CASE count = 0
  BY <1>1, <1>2, Unlimited DEF Unset
<1>3. CASE count > 0
  <2>1. /\ f \in Files /\ RangeOf(tfa, f) = tfa.tf[f] /\ t \in Files
        /\ RangesValid /\ BeyondTailEmpty
    BY <1>1, <1>3, Limited DEF IInv, RingOrder, TypeOK
  <2>2. ~Empty(f)
    BY <2>1 DEF Empty, EmptyFile
  <2>3. tfa.seq_tail # Unset
    BY <1>3, <2>1, <2>2 DEF IInv, RingOrder
  <2>4. tfa.tf[t].seq_tail = tfa.seq_tail /\ ~Empty(t)
    BY <1>3, <2>3 DEF IInv, TailIsOldestRetained, Empty, EmptyFile
  <2>5. /\ tfa.tf[f].seq_tail \in Nat /\ tfa.tf[f].seq_head \in Nat
        /\ tfa.tf[t].seq_tail \in Nat /\ tfa.tf[t].seq_head \in Nat
        /\ tfa.tf[t].seq_tail <= tfa.tf[t].seq_head
        /\ Age(f) < Age(t) => tfa.tf[t].seq_head < tfa.tf[f].seq_tail
    BY Zenon, <1>3, <2>1, <2>2, <2>4, FilesInOrder
  <2>6. /\ Age(f) \in Int /\ Age(t) \in Int /\ (Age(f) = Age(t) => f = t)
        /\ Age(f) <= Age(t)
    <3>1. Age(f) \in 0 .. count - 1 /\ Age(t) \in 0 .. count - 1
          /\ (Age(f) = Age(t) => f = t)
      BY Zenon, <1>1, <1>3, <2>1, Ages
    <3> QED
      BY <2>1, <2>2, <3>1 DEF BeyondTailEmpty
  <2>7. tfa.tf[t].seq_tail <= tfa.tf[f].seq_tail
    BY <2>5, <2>6
  <2> QED
    BY <2>1, <2>3, <2>4, <2>5, <2>7
<1> QED
  BY <1>2, <1>3, CountAssumption

\* An array without an index is that of a stream without one.
LEMMA NothingReceived ==
    ASSUME IInv, ArrayOK(tfa, received), tfa.seq_tail = Unset
    PROVE  /\ received = 0 /\ AtZero(tfa) /\ Tracked(tfa, received, 0, 0)
<1>1. received = 0 /\ AtZero(tfa)
  BY DEF ArrayOK
<1>2. ASSUME count > 0, NEW f \in Files PROVE ~HasSeq(f, 0)
  <2>1. TypeOK /\ Empty(f)
    BY <1>2 DEF IInv, RingOrder
  <2> QED
    BY <1>2, <2>1, HasSeqMeaning
<1>3. tfa.file_head_write = 0
  BY Zenon, <1>1 DEF AtZero
<1> QED
  BY <1>1, <1>2, <1>3 DEF Tracked, HasSeq

\* The places where a viewer stream is created or sent back to.
LEMMA RingEnds ==
    ASSUME IInv, ArrayOK(tfa, received), count # 1
    PROVE  /\ tfa.file_tail \in RingIds /\ tfa.file_head_read \in RingIds
           /\ tfa.seq_tail \in Int /\ tfa.seq_head \in Int /\ received \in Nat
           /\ Tail0 \in Nat /\ Tail0 <= received /\ tfa.seq_tail <= Tail0
           /\ tfa.seq_tail # Unset => Tail0 = tfa.seq_tail
           /\ tfa.seq_tail = Unset => Tail0 = 0
           /\ tfa.seq_head + 1 \in Nat /\ tfa.seq_head <= received
           /\ Tracked(tfa, received, tfa.file_tail, Tail0)
           /\ Tracked(tfa, received, tfa.file_tail, tfa.seq_tail + 1)
           /\ Tracked(tfa, received, tfa.file_head_read, tfa.seq_head + 1)
           /\ tfa.seq_tail = received =>
                tfa.file_tail = 0 /\ tfa.file_head_read = 0
<1>1. /\ tfa.seq_tail \in Int /\ tfa.seq_head \in Int /\ received \in Nat
      /\ tfa.seq_tail >= Unset /\ tfa.seq_tail <= received /\ TypeOK
  BY Zenon DEF IInv, TypeOK, RingOrder, TracefileArrayType
<1>2. tfa.file_tail \in RingIds /\ tfa.file_head_read \in RingIds
  <2>1. CASE count = 0
    BY Zenon, <2>1, Unlimited DEF ArrayOK
  <2>2. CASE count > 0
    BY <1>1, <2>2, Limited DEF TypeOK
  <2> QED
    BY <2>1, <2>2, CountAssumption
<1>3. /\ Tail0 \in Nat /\ Tail0 <= received /\ tfa.seq_tail <= Tail0
      /\ tfa.seq_tail # Unset => Tail0 = tfa.seq_tail
      /\ tfa.seq_tail = Unset => Tail0 = 0
  BY <1>1 DEF Tail0, UMax, Unset
<1>4. tfa.seq_head \in {Unset, received - 1, received}
  BY DEF ArrayOK
<1>5. tfa.seq_head + 1 \in Nat /\ tfa.seq_head <= received
  BY <1>1, <1>4 DEF Unset
<1>6. CASE tfa.seq_tail = Unset
  <2>1. /\ received = 0 /\ AtZero(tfa) /\ Tracked(tfa, received, 0, 0)
        /\ tfa.seq_head = Unset
    BY <1>6, NothingReceived DEF ArrayOK
  <2>2. tfa.seq_tail + 1 = 0 /\ tfa.seq_head + 1 = 0 /\ Tail0 = 0
    BY <1>3, <1>6, <2>1 DEF Unset
  <2>3. tfa.file_tail = 0 /\ tfa.file_head_read = 0
    BY Zenon, <2>1 DEF AtZero
  <2> QED
    BY Zenon, <1>1, <1>2, <1>3, <1>5, <1>6, <2>1, <2>2, <2>3 DEF Unset
<1>7. CASE tfa.seq_tail # Unset
  <2>1. Tracked(tfa, received, tfa.file_tail, Tail0)
    BY <1>1, <1>3, <1>7 DEF Tracked
  <2>2. ASSUME count > 0
        PROVE  /\ Tracked(tfa, received, tfa.file_tail, tfa.seq_tail + 1)
               /\ Tracked(tfa, received, tfa.file_head_read, tfa.seq_head + 1)
    <3> DEFINE t == tfa.file_tail
               h == tfa.file_head_read
    <3>1. t \in Files /\ h \in Files /\ RangesValid
      BY <1>2, <2>2, Limited DEF IInv, RingOrder
    <3>2. tfa.tf[t].seq_tail = tfa.seq_tail /\ ~Empty(t)
      BY <1>7, <2>2 DEF IInv, TailIsOldestRetained, Empty, EmptyFile
    <3>3. tfa.tf[h].seq_head = tfa.seq_head /\ tfa.seq_head # Unset
      BY <1>7, <2>2, Limited DEF ArrayOK
    <3>4. ~Empty(h)
      BY <3>3 DEF Empty, EmptyFile
    <3>5. /\ tfa.tf[t].seq_tail \in Nat /\ tfa.tf[t].seq_head \in Nat
          /\ tfa.tf[t].seq_tail <= tfa.tf[t].seq_head
          /\ tfa.tf[h].seq_tail \in Nat /\ tfa.tf[h].seq_head \in Nat
          /\ tfa.tf[h].seq_tail <= tfa.tf[h].seq_head
      BY Zenon, <2>2, <3>1, <3>2, <3>4, FilesInOrder
    <3>6. tfa.seq_tail \in Nat /\ tfa.seq_head \in Nat
      BY Zenon, <3>2, <3>3, <3>5
    <3>7. HasSeq(t, tfa.seq_tail) /\ HasSeq(h, tfa.seq_head)
      BY <1>1, <2>2, <3>1, <3>2, <3>3, <3>5, <3>6, HasSeqMeaning
    <3> QED
      BY Zenon, <2>2, <3>1, <3>6, <3>7, Advance
  <2>3. ASSUME count = 0
        PROVE  /\ Tracked(tfa, received, tfa.file_tail, tfa.seq_tail + 1)
               /\ Tracked(tfa, received, tfa.file_head_read, tfa.seq_head + 1)
    BY <2>3 DEF Tracked
  <2>4. ASSUME tfa.seq_tail = received
        PROVE  tfa.file_tail = 0 /\ tfa.file_head_read = 0
    <3>1. CASE count = 0
      BY <3>1 DEF ArrayOK
    <3>2. CASE count > 0
      BY Zenon, <2>4, <3>2, AnnouncedFile DEF AtZero
    <3> QED
      BY <3>1, <3>2, CountAssumption
  <2> QED
    BY <1>1, <1>2, <1>3, <1>5, <1>7, <2>1, <2>2, <2>3, <2>4, CountAssumption
<1> QED
  BY <1>6, <1>7

\* The file that holds an index in the range of a file of the ring.
LEMMA HoldsIndex ==
    ASSUME IInv, RelayInv, NEW f \in RingIds, NEW s \in Nat, InRange(f, s), s < received
    PROVE  \E e \in 1 .. LastFile(stream) :
              /\ stream.dfiles[e].chunk = RingChunk(stream)
              /\ stream.dfiles[e].index = f /\ Latest(stream, e)
              /\ Len(Packets(stream, e)) > 0 /\ Len(Packets(stream, e)) \in Nat
              /\ Packets(stream, e)[1] \in Nat
              /\ Packets(stream, e)[1] = RangeOf(tfa, f).seq_tail
              /\ Packets(stream, e)[1] <= s
              /\ s < Packets(stream, e)[1] + Len(Packets(stream, e))
<1>1. RangeOf(tfa, f).seq_tail # Unset /\ RingFiles(tfa, received, stream)
      /\ stream \in RelayStream
  BY DEF InRange, RelayInv, Relay
<1>2. PICK e : Holds(tfa, received, stream, e, f)
  BY <1>1 DEF RingFiles
<1>3. /\ RangeOf(tfa, f).seq_tail \in Int /\ RangeOf(tfa, f).seq_head \in Int
  BY <1>1, OldestTail
<1>4. received \in Nat /\ RangeOf(tfa, f).seq_tail # received
  BY <1>3 DEF InRange, IInv, TypeOK
<1>5. /\ e \in 1 .. LastFile(stream)
      /\ stream.dfiles[e].chunk = RingChunk(stream)
      /\ stream.dfiles[e].index = f /\ Latest(stream, e)
      /\ Len(Packets(stream, e)) > 0
      /\ Packets(stream, e)[1] = RangeOf(tfa, f).seq_tail
      /\ Packets(stream, e)[1] + Len(Packets(stream, e)) - 1 = RangeOf(tfa, f).seq_head
  BY Zenon, <1>2, <1>4 DEF Holds
<1>6. Packets(stream, e) \in Seq(Nat) /\ Len(Packets(stream, e)) \in Nat
  BY Zenon, <1>1, <1>5, FileTypes DEF LastFile
<1>7. Packets(stream, e)[1] \in Nat
  BY <1>5, <1>6
<1>8. /\ Packets(stream, e)[1] <= s
      /\ s < Packets(stream, e)[1] + Len(Packets(stream, e))
  BY <1>3, <1>5, <1>6, <1>7 DEF InRange
<1> QED
  BY <1>5, <1>6, <1>7, <1>8

\* The index is not in a file that was overwritten since the viewer opened it.
LEMMA NotStale ==
    ASSUME IInv, RelayInv, NEW s \in Nat, s < received,
           NEW h \in 1 .. LastFile(stream), Behind(received, stream, s, h),
           stream.dfiles[h].index \in RingIds,
           count > 0 => InRange(stream.dfiles[h].index, s),
           NEW d \in 1 .. LastFile(stream), d > h, SameName(stream, d, h)
    PROVE  FALSE
<1> DEFINE id == stream.dfiles[h].index
           n == LastFile(stream)
<1>1. /\ stream \in RelayStream /\ received \in Nat /\ ChunksOK(stream, session)
      /\ FilesOK(stream, received) /\ n \in Nat
      /\ \A e \in 1 .. n : Len(Packets(stream, e)) \in Nat /\ stream.dfiles[e].chunk \in Nat
  BY Zenon, FileTypes DEF RelayInv, Relay, IInv, TypeOK, LastFile
<1>2. stream.dfiles[d].chunk = stream.dfiles[h].chunk /\ stream.dfiles[d].index = id
  BY Zenon DEF SameName
<1>3. count > 0
  <2> SUFFICES ASSUME count = 0 PROVE FALSE
    BY CountAssumption
  <2>1. stream.dfiles[h].chunk < stream.dfiles[d].chunk
    BY <1>1 DEF ChunksOK
  <2> QED
    BY <1>1, <1>2, <2>1
<1>4. PICK e \in 1 .. n :
              /\ stream.dfiles[e].chunk = RingChunk(stream)
              /\ stream.dfiles[e].index = id /\ Latest(stream, e)
              /\ Len(Packets(stream, e)) > 0 /\ Packets(stream, e)[1] \in Nat
              /\ Packets(stream, e)[1] <= s
  BY Zenon, <1>3, HoldsIndex
<1>5. CASE stream.dfiles[d].chunk = RingChunk(stream)
  <2>1. ~(d > e)
    BY Zenon, <1>2, <1>4, <1>5 DEF Latest
  <2>2. e \in d .. n
    BY <1>1, <2>1
  <2>3. s < Packets(stream, e)[1]
    BY Zenon, <1>4, <2>2 DEF Behind
  <2> QED
    BY <1>4, <2>3
<1>6. CASE stream.dfiles[d].chunk # RingChunk(stream)
  <2>1. d < e
    <3> SUFFICES ASSUME ~(d < e) PROVE FALSE
      OBVIOUS
    <3>1. e < d \/ e = d
      BY <1>1
    <3>2. e < d /\ n \in 1 .. n /\ d < n
      BY <1>1, <1>4, <1>6, <3>1 DEF RingChunk
    <3>3. /\ stream.dfiles[e].chunk <= stream.dfiles[d].chunk
          /\ stream.dfiles[d].chunk <= stream.dfiles[n].chunk
      BY Zenon, <1>1, <3>2 DEF ChunksOK
    <3> QED
      BY <1>1, <1>4, <1>6, <3>2, <3>3 DEF RingChunk
  <2>2. d # n
    BY <1>1, <2>1
  <2>3. Len(Packets(stream, d)) > 0
    <3> SUFFICES ASSUME Len(Packets(stream, d)) = 0 PROVE FALSE
      BY <1>1
    <3>1. h = d
      BY Zenon, <1>1, <1>2, <2>2 DEF ChunksOK
    <3> QED
      BY <1>1, <3>1
  <2>4. d \in d .. n
    BY <1>1
  <2>5. s < Packets(stream, d)[1]
    BY Zenon, <2>3, <2>4 DEF Behind
  <2>6. Packets(stream, d)[1] + Len(Packets(stream, d)) <= Packets(stream, e)[1]
    BY Zenon, <1>1, <1>4, <2>1, <2>3 DEF FilesOK, LastFile
  <2>7. Packets(stream, d)[1] \in Nat
    <3>1. Packets(stream, d) \in Seq(Nat)
      BY <1>1, FileTypes DEF LastFile
    <3> QED
      BY <1>1, <2>3, <3>1
  <2> QED
    BY <1>1, <1>4, <2>5, <2>6, <2>7
<1> QED
  BY Zenon, <1>5, <1>6

\* viewer_get_next_index, one operation after the other.

\* What the operations need of the relay daemon.
RelayState ==
    /\ IInv /\ ArrayOK(tfa, received) /\ Committed
    /\ RelayInv /\ session \in RelaySession /\ count # 1

Viewing(x, lag) == x \in ViewerStream /\ View(tfa, received, stream, x, lag)

\* From "sent" to "upto" every index has been overwritten.
Skipped(sent, upto) ==
    /\ sent <= upto
    /\ \A s \in sent .. upto - 1 : s < tfa.seq_tail

\* The viewer stream is not in an old chunk, unless the stream was closed.
Settled(x) == stream.closed \/ x.trace_chunk \in {NoChunk, RingChunk(stream)}

\* The stream whose files are to be opened: its next index is in its file.
Ready(x) ==
    /\ \/ x.index_sent_seqcount < received
       \/ /\ x.handle = NoFile /\ x.index_file = NoFile
          /\ x.trace_chunk # RingChunk(stream)
    /\ count > 0 => InRange(x.current_tracefile_id, x.index_sent_seqcount)

\* The stream is moved to file "id", from index "sent".
ToFile(x, id, sent) ==
    [x EXCEPT !.current_tracefile_id = id, !.index_sent_seqcount = sent,
              !.index_file = NoFile, !.pos = 0, !.handle = NoFile]

LEMMA ToFileFields ==
    ASSUME NEW x \in ViewerStream, NEW id \in Nat, NEW sent \in Nat
    PROVE  LET y == ToFile(x, id, sent)
           IN  /\ y \in ViewerStream /\ y.exists = x.exists
               /\ y.sent_flag = x.sent_flag /\ y.trace_chunk = x.trace_chunk
               /\ y.last_seen_rotation_count = x.last_seen_rotation_count
               /\ y.current_tracefile_id = id /\ y.index_sent_seqcount = sent
               /\ y.index_file = NoFile /\ y.pos = 0 /\ y.handle = NoFile
  BY Zenon DEF ToFile, ViewerStream, NoFile

LEMMA ToFileView ==
    ASSUME NEW x, NEW lag \in 0 .. 1, Viewing(x, lag),
           NEW id \in RingIds, id \in Nat, NEW sent \in Nat,
           Follows(tfa, received, stream, ToFile(x, id, sent), lag),
           x.trace_chunk = RingChunk(stream) =>
               \A f \in RingIds : RangeOf(tfa, f).seq_tail # Unset =>
                 /\ count = 0 => RangeOf(tfa, f).seq_tail <= sent
                 /\ \/ sent <= RangeOf(tfa, f).seq_tail + lag
                    \/ sent > RangeOf(tfa, f).seq_head /\ f # HeadOf(tfa)
    PROVE  Viewing(ToFile(x, id, sent), lag)
<1> DEFINE y == ToFile(x, id, sent)
<1>0. x \in ViewerStream /\ InChunks(stream, x) /\ Counts(stream, x)
  BY Zenon DEF Viewing, View
<1>1. /\ y \in ViewerStream /\ y.trace_chunk = x.trace_chunk
      /\ y.last_seen_rotation_count = x.last_seen_rotation_count
      /\ y.current_tracefile_id = id /\ y.index_sent_seqcount = sent
      /\ y.index_file = NoFile /\ y.pos = 0 /\ y.handle = NoFile
  BY Zenon, <1>0, ToFileFields
<1> HIDE DEF y
<1>2. InChunks(stream, y) /\ Counts(stream, y)
  BY Zenon, <1>0, <1>1 DEF InChunks, Counts
<1>3. Opened(received, stream, y)
  BY Zenon, <1>1 DEF Opened
<1>4. AtPosition(tfa, received, stream, y, lag)
  BY <1>1 DEF AtPosition
<1>5. Follows(tfa, received, stream, y, lag)
  BY DEF y
<1> QED
  BY Zenon, <1>1, <1>2, <1>3, <1>4, <1>5 DEF Viewing, View, y

\* The next file holds the index.
LEMMA NextFileView ==
    ASSUME RelayState, count > 0, NEW x, NEW lag \in 0 .. 1, Viewing(x, lag),
           x.index_sent_seqcount < received,
           ~HasSeq(x.current_tracefile_id, x.index_sent_seqcount),
           HasSeq(NextFile(x.current_tracefile_id), x.index_sent_seqcount)
    PROVE  LET y == ToFile(x, NextFile(x.current_tracefile_id), x.index_sent_seqcount)
           IN  Viewing(y, lag) /\ Ready(y)
<1> DEFINE id == x.current_tracefile_id
           new == NextFile(id)
           sent == x.index_sent_seqcount
           y == ToFile(x, new, sent)
<1>0. /\ IInv /\ TypeOK /\ RelayInv /\ stream \in RelayStream /\ received \in Nat
      /\ FilesOK(stream, received) /\ ChunksOK(stream, session)
      /\ RetainedExactlyOnce /\ Files = RingIds
  BY Limited DEF RelayState, RelayInv, Relay, IInv, TypeOK
<1>1. /\ x \in ViewerStream /\ sent \in Nat /\ id \in Nat
      /\ Follows(tfa, received, stream, x, lag) /\ Opened(received, stream, x)
      /\ AtPosition(tfa, received, stream, x, lag)
  BY DEF Viewing, View, ViewerStream
<1>2. id \in Files /\ new \in Files /\ new \in Nat
  <2>1. id \in Files
    BY <1>0, <1>1 DEF Follows
  <2>2. new \in Files
    BY <2>1, NextFileWraps
  <2> QED
    BY <2>1, <2>2 DEF Files
<1>3. InRange(new, sent)
  BY Zenon, <1>0, <1>1, <1>2, HasSeqInRange
<1>4. /\ RangeOf(tfa, new) = tfa.tf[new] /\ HeadOf(tfa) = tfa.file_head_write
      /\ \A f \in RingIds : RangeOf(tfa, f) = tfa.tf[f]
      /\ tfa.file_head_write \in Files
  BY Zenon, <1>0, Limited DEF TypeOK
<1>5. ~Empty(new) /\ new # id
  BY <1>3, <1>4 DEF InRange, Empty, EmptyFile
<1>6. /\ tfa.seq_tail \in Nat /\ tfa.seq_tail # Unset
      /\ tfa.tf[new].seq_tail \in Nat /\ tfa.tf[new].seq_head \in Nat
      /\ tfa.seq_tail <= tfa.tf[new].seq_tail
      /\ tfa.tf[new].seq_tail <= sent /\ sent <= tfa.tf[new].seq_head
  BY Zenon, <1>0, <1>2, <1>3, <1>4, <1>5, OldestTail, FilesInOrder DEF InRange
<1>7. \A f \in Files : HasSeq(f, sent) => f = new
  <2>1. sent \in tfa.seq_tail .. received - 1
    BY <1>0, <1>1, <1>6
  <2> QED
    BY Zenon, <1>0, <1>2, <1>6, <2>1 DEF RetainedExactlyOnce
<1>8. Tracked(tfa, received, new, sent)
  BY <1>0, <1>1, <1>7 DEF Tracked, HasSeq
<1>9. /\ y \in ViewerStream /\ y.trace_chunk = x.trace_chunk
      /\ y.current_tracefile_id = new /\ y.index_sent_seqcount = sent
  BY Zenon, <1>1, <1>2, ToFileFields
<1>10. Follows(tfa, received, stream, y, lag)
  <2> HIDE DEF y
  <2>1. ~(sent > received)
    BY <1>0, <1>1
  <2> QED
    BY Zenon, <1>0, <1>1, <1>2, <1>8, <1>9, <2>1 DEF Follows
<1>11. ASSUME x.trace_chunk = RingChunk(stream), NEW f \in RingIds,
              RangeOf(tfa, f).seq_tail # Unset
       PROVE  \/ sent <= RangeOf(tfa, f).seq_tail + lag
              \/ sent > RangeOf(tfa, f).seq_head /\ f # HeadOf(tfa)
  <2>1. CASE x.handle = NoFile
    BY <1>1, <1>11, <2>1 DEF AtPosition
  <2>2. CASE x.handle # NoFile
    <3> DEFINE h == x.handle
               p == Packets(stream, h)
    <3>1. h \in 1 .. LastFile(stream) /\ stream.dfiles[h].index = id
      BY Zenon, <1>1, <2>2 DEF Opened
    <3>2. p \in Seq(Nat) /\ Len(p) \in Nat
      BY <1>0, <3>1, FileTypes DEF LastFile
    <3>3. Len(p) > 0 /\ p[1] \in Nat
      <4>1. Len(p) # 0
        BY <1>0, <1>1, <1>11, <2>2 DEF AtPosition
      <4> QED
        BY <3>2, <4>1
    <3>4. p[1] + x.pos <= sent /\ sent <= p[1] + Len(p) /\ x.pos \in Nat
      BY <1>1, <1>11, <2>2, <3>3 DEF AtPosition, ViewerStream
    <3>5. CASE f = new
      <4>1. PICK e \in 1 .. LastFile(stream) :
              /\ stream.dfiles[e].index = new
              /\ Len(Packets(stream, e)) > 0 /\ Len(Packets(stream, e)) \in Nat
              /\ Packets(stream, e)[1] \in Nat
              /\ Packets(stream, e)[1] = RangeOf(tfa, new).seq_tail
              /\ sent < Packets(stream, e)[1] + Len(Packets(stream, e))
        BY Zenon, <1>0, <1>1, <1>2, <1>3, HoldsIndex
      <4>2. e # h /\ LastFile(stream) \in Nat
        BY Zenon, <1>0, <1>5, <3>1, <4>1, FileTypes DEF LastFile
      <4>3. /\ h < e => p[1] + Len(p) <= Packets(stream, e)[1]
            /\ e < h => Packets(stream, e)[1] + Len(Packets(stream, e)) <= p[1]
        BY <1>0, <3>1, <3>3, <4>1 DEF FilesOK, LastFile
      <4> HIDE DEF p, sent
      <4>4. ~(e < h)
        BY <1>1, <3>3, <3>4, <4>1, <4>3
      <4>5. sent <= Packets(stream, e)[1]
        <5>1. h < e
          BY <3>1, <4>2, <4>4
        <5> QED
          BY <1>1, <3>2, <3>3, <3>4, <4>1, <4>3, <5>1
      <4>6. lag \in Nat
        OBVIOUS
      <4> QED
        BY Zenon, <1>1, <3>5, <4>1, <4>5, <4>6, PlusLag
    <3>6. CASE f # new
      <4> DEFINE w == tfa.file_head_write
      <4>1. ~Empty(f) /\ f \in Files
        BY <1>0, <1>4, <1>11 DEF Empty, EmptyFile
      <4>2. /\ tfa.tf[f].seq_tail \in Nat /\ tfa.tf[f].seq_head \in Nat
            /\ tfa.tf[f].seq_tail <= sent /\ sent <= tfa.tf[f].seq_head => f = new
        <5>1. /\ tfa.tf[f].seq_tail \in Nat /\ tfa.tf[f].seq_head \in Nat
              /\ HasSeq(f, sent) <=> /\ tfa.tf[f].seq_tail <= sent
                                     /\ sent <= tfa.tf[f].seq_head
          BY Zenon, <1>0, <1>1, <4>1, FilesInOrder
        <5> QED
          BY <1>7, <4>1, <5>1
      <4>3. f = w => tfa.tf[new].seq_head < tfa.tf[f].seq_tail
        <5> SUFFICES ASSUME f = w
                     PROVE  tfa.tf[new].seq_head < tfa.tf[f].seq_tail
          OBVIOUS
        <5>1. /\ Age(w) = 0 /\ Age(new) \in 0 .. count - 1 /\ count \in Nat
              /\ Age(new) = Age(w) => new = w
          BY Zenon, <1>0, <1>2, <1>4, Ages, CountAssumption
        <5>2. Age(f) < Age(new)
          BY <3>6, <5>1
        <5> QED
          BY Zenon, <1>0, <1>2, <1>5, <4>1, <5>2, FilesInOrder
      <4>4. \/ sent <= tfa.tf[f].seq_tail
            \/ sent > tfa.tf[f].seq_head /\ f # w
        BY <1>1, <1>6, <3>6, <4>2, <4>3
      <4> QED
        BY <1>1, <1>4, <4>2, <4>4
    <3> QED
      BY Zenon, <3>5, <3>6
  <2> QED
    BY Zenon, <2>1, <2>2
<1>12. Viewing(y, lag)
  BY <1>0, <1>1, <1>2, <1>10, <1>11, CountAssumption, ToFileView
<1>13. Ready(y)
  BY Zenon, <1>3, <1>9 DEF Ready
<1> QED
  BY Zenon, <1>12, <1>13

\* No file the viewer tries holds the index: it has been overwritten.
LEMMA TailView ==
    ASSUME RelayState, count > 0, NEW x, NEW lag \in 0 .. 1, Viewing(x, lag),
           x.index_sent_seqcount < received,
           ~HasSeq(x.current_tracefile_id, x.index_sent_seqcount),
           ~HasSeq(NextFile(x.current_tracefile_id), x.index_sent_seqcount)
    PROVE  LET y == ToFile(x, tfa.file_tail, tfa.seq_tail)
           IN  /\ Viewing(y, lag) /\ Ready(y) /\ y \in ViewerStream
               /\ tfa.seq_tail \in Nat /\ tfa.file_tail \in Nat
               /\ x.trace_chunk # NoChunk =>
                    Skipped(x.index_sent_seqcount, tfa.seq_tail)
<1> DEFINE id == x.current_tracefile_id
           sent == x.index_sent_seqcount
           t == tfa.file_tail
           y == ToFile(x, t, tfa.seq_tail)
<1>0. /\ IInv /\ ArrayOK(tfa, received) /\ RelayInv /\ count # 1
      /\ received \in Nat /\ RetainedExactlyOnce /\ TypeOK
      /\ t \in Nat /\ tfa.seq_tail \in Int /\ tfa.seq_tail >= Unset
      /\ t \in Files /\ Files = RingIds
      /\ stream \in RelayStream /\ ChunksOK(stream, session)
  BY Limited DEF RelayState, IInv, TypeOK, TracefileArrayType, RingOrder, RelayInv, Relay
<1>1. /\ x \in ViewerStream /\ sent \in Nat
      /\ Follows(tfa, received, stream, x, lag)
  BY Zenon DEF Viewing, View, ViewerStream
<1>2. tfa.seq_tail # Unset /\ tfa.seq_tail \in Nat /\ tfa.seq_tail <= received
  <2>1. received > 0
    BY <1>0, <1>1
  <2>2. tfa.seq_tail # Unset
    BY Zenon, <2>1 DEF RelayState, Committed
  <2> QED
    BY <1>0, <2>2, RingEnds DEF Unset
<1>3. Tracked(tfa, received, t, tfa.seq_tail)
  BY Zenon, <1>0, <1>2, RingEnds
<1>4. HasSeq(t, tfa.seq_tail)
  <2>1. tfa.tf[t].seq_tail = tfa.seq_tail /\ ~Empty(t)
    BY <1>0, <1>2 DEF IInv, TailIsOldestRetained, Empty, EmptyFile
  <2> QED
    BY <1>0, <1>2, <2>1, FilesInOrder
<1>5. InRange(t, tfa.seq_tail)
  BY <1>0, <1>2, <1>4, HasSeqInRange
<1>6. x.trace_chunk # NoChunk => sent <= tfa.seq_tail
  <2> SUFFICES ASSUME x.trace_chunk # NoChunk, ~(sent <= tfa.seq_tail)
               PROVE  FALSE
    OBVIOUS
  <2>1. sent \in tfa.seq_tail .. received - 1 /\ sent > tfa.seq_tail
    BY <1>0, <1>1, <1>2
  <2>2. PICK f \in Files : HasSeq(f, sent)
    BY Zenon, <1>0, <1>2, <2>1 DEF RetainedExactlyOnce
  <2>3. f \in {id, NextFile(id)}
    BY <1>1, <2>1, <2>2 DEF Follows, Tracked, HasSeq
  <2> QED
    BY <2>2, <2>3
<1>8. x.trace_chunk # NoChunk => Skipped(sent, tfa.seq_tail)
  <2>1. ASSUME NEW s \in sent .. tfa.seq_tail - 1 PROVE s < tfa.seq_tail
    BY <1>1, <1>2, <2>1
  <2> QED
    BY <1>6, <2>1 DEF Skipped
<1>9. /\ y \in ViewerStream /\ y.trace_chunk = x.trace_chunk
      /\ y.current_tracefile_id = t /\ y.index_sent_seqcount = tfa.seq_tail
      /\ y.index_file = NoFile /\ y.handle = NoFile
  <2>1. x \in ViewerStream /\ t \in Nat /\ tfa.seq_tail \in Nat
    BY <1>0, <1>1, <1>2
  <2> QED
    BY Zenon, <2>1, ToFileFields
<1>10. Follows(tfa, received, stream, y, lag)
  <2> HIDE DEF y
  <2>1. /\ tfa.seq_tail <= received + lag /\ ~(tfa.seq_tail > received)
        /\ tfa.seq_tail <= tfa.seq_tail + lag
        /\ tfa.seq_tail = received => received <= tfa.seq_tail
    BY <1>0, <1>2
  <2> QED
    BY <1>0, <1>3, <1>9, <2>1 DEF Follows
<1>11. ASSUME NEW f \in RingIds, RangeOf(tfa, f).seq_tail # Unset
       PROVE  tfa.seq_tail <= RangeOf(tfa, f).seq_tail + lag
  <2>1. RangeOf(tfa, f).seq_tail \in Int /\ tfa.seq_tail <= RangeOf(tfa, f).seq_tail
    BY Zenon, <1>0, <1>11, OldestTail
  <2> QED
    BY <1>2, <2>1
<1>12. Viewing(y, lag)
  BY <1>0, <1>1, <1>2, <1>10, <1>11, CountAssumption, ToFileView
<1>13. Ready(y)
  <2>1. x.trace_chunk = RingChunk(stream) => tfa.seq_tail # received
    <3> SUFFICES ASSUME x.trace_chunk = RingChunk(stream), tfa.seq_tail = received
                 PROVE  FALSE
      OBVIOUS
    <3>1. received <= sent
      BY <1>1 DEF Follows
    <3> QED
      BY <1>0, <1>1, <3>1
  <2>2. tfa.seq_tail < received \/ tfa.seq_tail = received
    BY <1>0, <1>2
  <2> HIDE DEF y
  <2> QED
    BY <1>5, <1>9, <2>1, <2>2 DEF Ready
<1> QED
  BY Zenon, <1>0, <1>2, <1>8, <1>9, <1>12, <1>13

-----------------------------------------------------------------------------
\* The files it finds there.
LEMMA OpenFileIs ==
    ASSUME NEW S, NEW files \in Seq(S), NEW c, NEW i, OpenFile(files, c, i) # NoFile
    PROVE  LET k == OpenFile(files, c, i)
           IN  /\ k \in 1 .. Len(files) /\ files[k].chunk = c /\ files[k].index = i
               /\ ~Deleted(c)
               /\ \A j \in 1 .. Len(files) :
                     files[j].chunk = c /\ files[j].index = i => j <= k
<1> DEFINE last == {k \in DOMAIN files :
                      /\ files[k].chunk = c /\ files[k].index = i
                      /\ \A j \in DOMAIN files :
                            files[j].chunk = c /\ files[j].index = i => j <= k}
<1>1. last # {} /\ ~Deleted(c) /\ OpenFile(files, c, i) = CHOOSE k \in last : TRUE
  BY Zenon DEF OpenFile
<1>2. OpenFile(files, c, i) \in last
  <2> HIDE DEF last
  <2> QED
    BY Zenon, <1>1
<1>3. DOMAIN files = 1 .. Len(files)
  OBVIOUS
<1> QED
  BY Zenon, <1>1, <1>2, <1>3

LEMMA OpenFileFinds ==
    ASSUME NEW S, NEW files \in Seq(S), NEW c, NEW i, ~Deleted(c),
           NEW k \in 1 .. Len(files), files[k].chunk = c, files[k].index = i,
           \A j \in 1 .. Len(files) :
              files[j].chunk = c /\ files[j].index = i => j <= k
    PROVE  OpenFile(files, c, i) # NoFile
<1> DEFINE last == {l \in DOMAIN files :
                      /\ files[l].chunk = c /\ files[l].index = i
                      /\ \A j \in DOMAIN files :
                            files[j].chunk = c /\ files[j].index = i => j <= l}
<1>1. DOMAIN files = 1 .. Len(files) /\ Len(files) \in Nat
  OBVIOUS
<1>2. k \in last
  BY Zenon, <1>1
<1>3. OpenFile(files, c, i) = CHOOSE l \in last : TRUE
  BY Zenon, <1>2 DEF OpenFile
<1>4. OpenFile(files, c, i) \in last
  <2> HIDE DEF last
  <2> QED
    BY Zenon, <1>2, <1>3
<1>5. OpenFile(files, c, i) \in 1 .. Len(files)
  BY Zenon, <1>1, <1>4
<1> QED
  BY <1>1, <1>5 DEF NoFile

\* The names of files k and d are (c, i).
IndexNamed(st, k, c, i) ==
    /\ k \in 1 .. Len(st.ifiles) /\ st.ifiles[k].chunk = c /\ st.ifiles[k].index = i

DataNamed(st, d, c, i) ==
    /\ d \in 1 .. LastFile(st) /\ st.dfiles[d].chunk = c /\ st.dfiles[d].index = i

LastIndexNamed(st, k, c, i) ==
    IndexNamed(st, k, c, i) /\ \A l : IndexNamed(st, l, c, i) => l <= k

LEMMA IndexOpened ==
    ASSUME stream \in RelayStream, NEW c, NEW i, OpenFile(stream.ifiles, c, i) # NoFile
    PROVE  /\ LastIndexNamed(stream, OpenFile(stream.ifiles, c, i), c, i)
           /\ ~Deleted(c)
<1>1. stream.ifiles \in Seq(IndexFile)
  BY Zenon DEF RelayStream
<1> QED
  BY <1>1, OpenFileIs DEF LastIndexNamed, IndexNamed

LEMMA DataOpened ==
    ASSUME stream \in RelayStream, NEW c, NEW i, OpenFile(stream.dfiles, c, i) # NoFile
    PROVE  LET d == OpenFile(stream.dfiles, c, i)
           IN  DataNamed(stream, d, c, i) /\ Latest(stream, d) /\ ~Deleted(c)
<1> DEFINE d == OpenFile(stream.dfiles, c, i)
<1>1. stream.dfiles \in Seq(DataFile) /\ LastFile(stream) \in Nat
  BY Zenon, FileTypes DEF RelayStream, LastFile
<1>2. /\ d \in 1 .. Len(stream.dfiles) /\ stream.dfiles[d].chunk = c
      /\ stream.dfiles[d].index = i /\ ~Deleted(c)
      /\ \A j \in 1 .. Len(stream.dfiles) :
            stream.dfiles[j].chunk = c /\ stream.dfiles[j].index = i => j <= d
  BY <1>1, OpenFileIs
<1> HIDE DEF d
<1>3. Latest(stream, d)
  <2> SUFFICES ASSUME NEW e \in 1 .. LastFile(stream), e > d,
                      stream.dfiles[e].chunk = c, stream.dfiles[e].index = i
               PROVE  FALSE
    BY Zenon, <1>2 DEF Latest
  <2>1. e <= d
    BY <1>2 DEF LastFile
  <2> QED
    BY <1>1, <1>2, <2>1 DEF LastFile
<1> QED
  BY Zenon, <1>2, <1>3 DEF DataNamed, LastFile, d

LEMMA DataFound ==
    ASSUME stream \in RelayStream, NEW d, NEW c, NEW i, DataNamed(stream, d, c, i),
           Latest(stream, d), ~Deleted(c)
    PROVE  OpenFile(stream.dfiles, c, i) # NoFile
<1>1. stream.dfiles \in Seq(DataFile) /\ Len(stream.dfiles) \in Nat
  BY DEF RelayStream
<1>2. /\ d \in 1 .. Len(stream.dfiles) /\ stream.dfiles[d].chunk = c
      /\ stream.dfiles[d].index = i
  BY Zenon DEF DataNamed, LastFile
<1>3. ASSUME NEW j \in 1 .. Len(stream.dfiles), stream.dfiles[j].chunk = c,
             stream.dfiles[j].index = i
      PROVE  j <= d
  <2>1. ~(j > d)
    BY Zenon, <1>2, <1>3 DEF Latest, LastFile
  <2> QED
    BY <1>1, <1>2, <2>1
<1> QED
  BY Zenon, <1>1, <1>2, <1>3, OpenFileFinds

LEMMA OneLatest ==
    ASSUME stream \in RelayStream, NEW d, NEW e, NEW c, NEW i,
           DataNamed(stream, d, c, i), DataNamed(stream, e, c, i), Latest(stream, d)
    PROVE  e <= d /\ (Latest(stream, e) => e = d)
<1>1. LastFile(stream) \in Nat /\ d \in 1 .. LastFile(stream) /\ e \in 1 .. LastFile(stream)
  BY Zenon, FileTypes DEF LastFile, DataNamed
<1>2. ~(e > d) /\ (Latest(stream, e) => ~(d > e))
  BY Zenon DEF Latest, DataNamed
<1> QED
  BY <1>1, <1>2

\* An index file of a name is that of a data file of the same name.
LEMMA IndexHasData ==
    ASSUME RelayInv, NEW k, NEW c, NEW i, IndexNamed(stream, k, c, i)
    PROVE  \E d : DataNamed(stream, d, c, i) /\ Paired(stream, k, d)
                  /\ Len(Packets(stream, d)) > 0
<1>1. PICK d : Paired(stream, k, d)
  BY DEF RelayInv, Relay, FilesOK, IndexNamed
<1>2. Len(Packets(stream, d)) > 0
  BY Zenon, <1>1 DEF RelayInv, Relay, FilesOK, Paired
<1> QED
  BY Zenon, <1>1, <1>2 DEF Paired, DataNamed, IndexNamed, LastFile

\* The last index file of a name is that of the last data file of the name.
LEMMA PairIsLast ==
    ASSUME RelayInv, received \in Nat, NEW k, NEW d, NEW c, NEW i,
           Paired(stream, k, d), DataNamed(stream, d, c, i), Latest(stream, d)
    PROVE  LastIndexNamed(stream, k, c, i)
<1>0. stream \in RelayStream /\ FilesOK(stream, received)
  BY Zenon DEF RelayInv, Relay
<1>1. IndexNamed(stream, k, c, i)
  BY Zenon DEF Paired, DataNamed, IndexNamed
<1>2. ASSUME NEW l, IndexNamed(stream, l, c, i)
      PROVE  l <= k
  <2>1. PICK e : DataNamed(stream, e, c, i) /\ Paired(stream, l, e)
    BY Zenon, <1>2, IndexHasData
  <2>2. e <= d
    BY Zenon, <1>0, <2>1, OneLatest
  <2>3. /\ l \in 1 .. Len(stream.ifiles) /\ e \in 1 .. LastFile(stream)
        /\ Len(Packets(stream, e)) > 0
        /\ Entries(stream, l)[1].seq = Packets(stream, e)[1]
        /\ Packets(stream, e)[1] \in Nat
    BY Zenon, <1>0, <2>1, PairIsWritten
  <2>4. /\ k \in 1 .. Len(stream.ifiles) /\ d \in 1 .. LastFile(stream)
        /\ Len(Packets(stream, d)) > 0
        /\ Entries(stream, k)[1].seq = Packets(stream, d)[1]
        /\ Packets(stream, d)[1] \in Nat
    BY Zenon, <1>0, PairIsWritten
  <2>5. Len(Packets(stream, e)) \in Nat /\ Len(stream.ifiles) \in Nat
        /\ LastFile(stream) \in Nat
    BY Zenon, <1>0, <2>3, FileTypes DEF LastFile
  <2>6. Packets(stream, e)[1] <= Packets(stream, d)[1]
    <3>1. CASE e = d
      BY <2>4, <3>1
    <3>2. CASE e < d
      <4>1. Packets(stream, e)[1] + Len(Packets(stream, e)) <= Packets(stream, d)[1]
        BY Zenon, <1>0, <2>3, <2>4, <3>2 DEF FilesOK, LastFile
      <4> QED
        BY <2>3, <2>4, <2>5, <4>1
    <3> QED
      BY <2>2, <2>3, <2>4, <2>5, <3>1, <3>2
  <2>7. CASE k < l
    <3>1. Packets(stream, d)[1] < Packets(stream, e)[1]
      BY Zenon, <1>0, <2>3, <2>4, <2>7 DEF FilesOK
    <3> QED
      BY <2>3, <2>4, <2>6, <3>1
  <2> QED
    BY <2>3, <2>4, <2>5, <2>7
<1> QED
  BY Zenon, <1>1, <1>2 DEF LastIndexNamed

LEMMA InRangeIsPositive ==
    \A k, n : n \in Nat /\ k \in 1 .. n => k \in Nat /\ k # 0 /\ n \in 1 .. n
  OBVIOUS

LEMMA AtMostEachOther == \A a, b \in Nat : a <= b /\ b <= a => a = b
  OBVIOUS

LEMMA LastPair ==
    ASSUME RelayInv, received \in Nat, NEW k, NEW d, NEW c, NEW i,
           LastIndexNamed(stream, k, c, i), DataNamed(stream, d, c, i),
           Latest(stream, d), Len(Packets(stream, d)) > 0
    PROVE  Paired(stream, k, d)
<1>1. stream \in RelayStream /\ FilesOK(stream, received)
  BY Zenon DEF RelayInv, Relay
<1>2. PICK l : Paired(stream, l, d)
  BY Zenon, <1>1 DEF FilesOK, DataNamed, LastFile
<1>3. LastIndexNamed(stream, l, c, i)
  BY Zenon, <1>2, PairIsLast
<1>4. l <= k /\ k <= l
  BY Zenon, <1>3 DEF LastIndexNamed
<1>5. Len(stream.ifiles) \in Nat
  BY Zenon, <1>1, FileTypes
<1>6. k \in Nat /\ l \in Nat
  BY Zenon, <1>3, <1>5, InRangeIsPositive DEF LastIndexNamed, IndexNamed
<1> QED
  BY Zenon, <1>2, <1>4, <1>6, AtMostEachOther

LEMMA LastNamed ==
    ASSUME stream \in RelayStream, NEW d, d = LastFile(stream)
    PROVE  Latest(stream, d)
<1>1. LastFile(stream) \in Nat
  BY Zenon, FileTypes DEF LastFile
<1>2. \A e \in 1 .. LastFile(stream) : ~(e > d)
  BY <1>1
<1> QED
  BY Zenon, <1>2 DEF Latest

\* There is a last data file of the name of an index file.
LEMMA HasLatest ==
    ASSUME RelayInv, received \in Nat, NEW k, NEW c, NEW i,
           LastIndexNamed(stream, k, c, i)
    PROVE  \E d : DataNamed(stream, d, c, i) /\ Latest(stream, d)
<1>0. /\ stream \in RelayStream /\ FilesOK(stream, received)
      /\ ChunksOK(stream, session)
  BY Zenon DEF RelayInv, Relay
<1>1. PICK e : DataNamed(stream, e, c, i) /\ Paired(stream, k, e)
  BY Zenon, IndexHasData DEF LastIndexNamed
<1>2. CASE Latest(stream, e)
  BY Zenon, <1>1, <1>2
<1>3. CASE ~Latest(stream, e)
  <2>1. PICK f \in 1 .. LastFile(stream) :
           f > e /\ stream.dfiles[f].chunk = c /\ stream.dfiles[f].index = i
    BY Zenon, <1>1, <1>3 DEF Latest, DataNamed
  <2>2. DataNamed(stream, f, c, i)
    BY Zenon, <2>1 DEF DataNamed
  <2>3. /\ k \in 1 .. Len(stream.ifiles) /\ e \in 1 .. LastFile(stream)
        /\ Len(Packets(stream, e)) > 0
        /\ Entries(stream, k)[1].seq = Packets(stream, e)[1]
        /\ Packets(stream, e)[1] \in Nat
    BY Zenon, <1>0, <1>1, PairIsWritten
  <2>4. /\ Len(Packets(stream, e)) \in Nat /\ Len(Packets(stream, f)) \in Nat
        /\ Len(stream.ifiles) \in Nat /\ LastFile(stream) \in Nat
    BY Zenon, <1>0, <2>1, <2>3, FileTypes DEF LastFile
  <2>5. Len(Packets(stream, f)) = 0
    <3> SUFFICES ASSUME Len(Packets(stream, f)) > 0 PROVE FALSE
      BY <2>4
    <3>1. PICK l : Paired(stream, l, f)
      BY Zenon, <1>0 DEF FilesOK, LastFile
    <3>2. /\ l \in 1 .. Len(stream.ifiles)
          /\ Entries(stream, l)[1].seq = Packets(stream, f)[1]
          /\ Packets(stream, f)[1] \in Nat
      BY Zenon, <1>0, <3>1, PairIsWritten
    <3>3. l <= k
      BY Zenon, <2>2, <3>1 DEF LastIndexNamed, IndexNamed, DataNamed, Paired
    <3>4. e < f
      BY <2>1, <2>3, <2>4
    <3>5. Packets(stream, e)[1] + Len(Packets(stream, e)) <= Packets(stream, f)[1]
      BY Zenon, <1>0, <2>3, <3>4 DEF FilesOK, LastFile
    <3>6. Packets(stream, e)[1] < Packets(stream, f)[1]
      BY <2>3, <2>4, <3>2, <3>5
    <3>7. CASE l < k
      <4>1. Packets(stream, f)[1] < Packets(stream, e)[1]
        BY Zenon, <1>0, <2>3, <3>2, <3>7 DEF FilesOK
      <4> QED
        BY <2>3, <3>2, <3>6, <4>1
    <3>8. CASE l = k
      BY <2>3, <3>2, <3>6, <3>8
    <3> QED
      BY <2>3, <2>4, <3>2, <3>3, <3>7, <3>8
  <2>6. f = LastFile(stream)
    <3> SUFFICES ASSUME f # LastFile(stream) PROVE FALSE
      OBVIOUS
    <3>1. stream.dfiles[e].chunk = stream.dfiles[f].chunk
      BY Zenon, <1>1, <2>1 DEF DataNamed
    <3>2. e = f
      BY Zenon, <1>0, <2>3, <2>5, <3>1 DEF ChunksOK
    <3> QED
      BY <2>3, <2>4, <2>1, <3>2
  <2> QED
    BY Zenon, <1>0, <2>2, <2>6, LastNamed
<1> QED
  BY Zenon, <1>2, <1>3

\* The stream's files are open, and its next index is in them or it is left.
Readable(x) ==
    /\ x.index_file # NoFile /\ x.handle # NoFile
    /\ Latest(stream, x.handle)
    /\ x.trace_chunk = RingChunk(stream) => x.index_sent_seqcount < received
    /\ count > 0 => InRange(x.current_tracefile_id, x.index_sent_seqcount)

\* A file already open has not been overwritten.
LEMMA HandleIsLatest ==
    ASSUME RelayState, NEW x, NEW lag, Viewing(x, lag), Ready(x), x.handle # NoFile
    PROVE  /\ Latest(stream, x.handle) /\ x.index_sent_seqcount < received
           /\ DataNamed(stream, x.handle, x.trace_chunk, x.current_tracefile_id)
<1> DEFINE h == x.handle
           s == x.index_sent_seqcount
<1>1. /\ IInv /\ RelayInv /\ s \in Nat /\ s < received
      /\ Opened(received, stream, x) /\ Follows(tfa, received, stream, x, lag)
      /\ count > 0 => InRange(x.current_tracefile_id, s)
  BY DEF RelayState, Viewing, View, Ready, ViewerStream
<1>2. /\ h \in 1 .. LastFile(stream) /\ Behind(received, stream, s, h)
      /\ stream.dfiles[h].index = x.current_tracefile_id
      /\ stream.dfiles[h].chunk = x.trace_chunk
      /\ x.current_tracefile_id \in RingIds
  BY Zenon, <1>1 DEF Opened, Follows
<1>3. ASSUME NEW d \in 1 .. LastFile(stream), d > h, SameName(stream, d, h) PROVE FALSE
  BY Zenon, <1>1, <1>2, <1>3, NotStale
<1>4. Latest(stream, h)
  BY Zenon, <1>3 DEF Latest, SameName
<1> QED
  BY Zenon, <1>1, <1>2, <1>4 DEF DataNamed

\* The last data file of a name has packets, if there is an index file.
LEMMA LatestIsWritten ==
    ASSUME RelayState, NEW x, NEW lag, Viewing(x, lag), Ready(x), NEW k, NEW d,
           IndexNamed(stream, k, x.trace_chunk, x.current_tracefile_id),
           DataNamed(stream, d, x.trace_chunk, x.current_tracefile_id),
           Latest(stream, d)
    PROVE  Len(Packets(stream, d)) > 0
<1> DEFINE c == x.trace_chunk
           i == x.current_tracefile_id
           s == x.index_sent_seqcount
<1>0. /\ IInv /\ RelayInv /\ s \in Nat /\ i \in RingIds /\ stream \in RelayStream
      /\ ChunksOK(stream, session) /\ CurrentOK(tfa, received, open, stream)
  BY DEF RelayState, RelayInv, Relay, Viewing, View, ViewerStream, Follows
<1>1. d \in 1 .. LastFile(stream) /\ Len(Packets(stream, d)) \in Nat
  BY Zenon, <1>0, FileTypes DEF DataNamed, LastFile
<1> SUFFICES ASSUME Len(Packets(stream, d)) = 0 PROVE FALSE
  BY <1>1
<1>2. PICK e : DataNamed(stream, e, c, i) /\ Len(Packets(stream, e)) > 0
  BY Zenon, <1>0, IndexHasData
<1>3. e # d
  BY <1>2
<1>4. d = LastFile(stream) /\ stream.rotate_index
  <2> SUFFICES ASSUME ~(d = LastFile(stream) /\ stream.rotate_index) PROVE FALSE
    OBVIOUS
  <2>1. e = d
    BY Zenon, <1>0, <1>1, <1>2 DEF ChunksOK, DataNamed
  <2> QED
    BY <1>3, <2>1
<1>5. c = RingChunk(stream) /\ count > 0
  BY Zenon, <1>0, <1>4 DEF DataNamed, RingChunk, CurrentOK
<1>6. s < received /\ InRange(i, s)
  BY Zenon, <1>5 DEF Ready
<1>7. PICK f \in 1 .. LastFile(stream) :
         /\ stream.dfiles[f].chunk = RingChunk(stream)
         /\ stream.dfiles[f].index = i /\ Latest(stream, f)
         /\ Len(Packets(stream, f)) > 0
  BY Zenon, <1>0, <1>6, HoldsIndex
<1>8. f = d
  BY Zenon, <1>0, <1>5, <1>7, OneLatest DEF DataNamed
<1> QED
  BY Zenon, <1>7, <1>8, PositiveIsNotZero

WithFiles(x, k, d) == [x EXCEPT !.index_file = k, !.handle = d]

LEMMA WithFilesFields ==
    ASSUME NEW x \in ViewerStream, NEW k \in Nat, NEW d \in Nat
    PROVE  LET y == WithFiles(x, k, d)
           IN  /\ y \in ViewerStream /\ y.exists = x.exists
               /\ y.sent_flag = x.sent_flag /\ y.trace_chunk = x.trace_chunk
               /\ y.last_seen_rotation_count = x.last_seen_rotation_count
               /\ y.current_tracefile_id = x.current_tracefile_id
               /\ y.index_sent_seqcount = x.index_sent_seqcount
               /\ y.index_file = k /\ y.pos = x.pos /\ y.handle = d
  BY Zenon DEF WithFiles, ViewerStream

\* Where the next index is in a file of the chunk that the ring describes.
LEMMA NextIndexIn ==
    ASSUME RelayState, NEW d, NEW i \in RingIds, NEW s \in Nat, s < received,
           DataNamed(stream, d, RingChunk(stream), i), Latest(stream, d),
           Len(Packets(stream, d)) > 0, count > 0 => InRange(i, s)
    PROVE  /\ Packets(stream, d)[1] \in Nat
           /\ Packets(stream, d)[1] = RangeOf(tfa, i).seq_tail
           /\ count > 0 => Packets(stream, d)[1] <= s
           /\ s < Packets(stream, d)[1] + Len(Packets(stream, d))
           /\ Len(Packets(stream, d)) \in Nat
<1>0. /\ IInv /\ RelayInv /\ stream \in RelayStream /\ ChunksOK(stream, session)
      /\ RingFiles(tfa, received, stream) /\ ArrayOK(tfa, received) /\ received \in Nat
      /\ FilesOK(stream, received) /\ Committed
  BY Zenon DEF RelayState, RelayInv, Relay, IInv, TypeOK
<1>1. CASE count > 0
  <2>1. PICK e \in 1 .. LastFile(stream) :
              /\ stream.dfiles[e].chunk = RingChunk(stream)
              /\ stream.dfiles[e].index = i /\ Latest(stream, e)
              /\ Len(Packets(stream, e)) > 0 /\ Len(Packets(stream, e)) \in Nat
              /\ Packets(stream, e)[1] \in Nat
              /\ Packets(stream, e)[1] = RangeOf(tfa, i).seq_tail
              /\ Packets(stream, e)[1] <= s
              /\ s < Packets(stream, e)[1] + Len(Packets(stream, e))
    BY Zenon, <1>0, <1>1, HoldsIndex
  <2>2. e = d
    BY Zenon, <1>0, <2>1, OneLatest DEF DataNamed
  <2> QED
    BY <2>1, <2>2
<1>2. CASE count = 0
  <2>1. i = 0 /\ i \in RingIds
    BY <1>2, Unlimited
  <2>2. RangeOf(tfa, i).seq_tail # Unset
    BY <1>0, <1>2, Unlimited DEF Committed
  <2>3. PICK e : Holds(tfa, received, stream, e, i)
    BY <1>0, <2>1, <2>2 DEF RingFiles
  <2>4. e = d
    BY Zenon, <1>0, <2>3, OneLatest DEF DataNamed, Holds
  <2>5. /\ Packets(stream, d)[1] = RangeOf(tfa, i).seq_tail
        /\ Packets(stream, d)[1] + Len(Packets(stream, d)) - 1 = tfa.seq_head
    BY <1>2, <2>3, <2>4, Unlimited DEF Holds
  <2>6. Packets(stream, d) \in Seq(Nat) /\ Len(Packets(stream, d)) \in Nat
    BY Zenon, <1>0, FileTypes DEF DataNamed, LastFile
  <2>7. /\ Packets(stream, d)[1] \in Nat
        /\ Packets(stream, d)[1] + Len(Packets(stream, d)) <= received
    BY Zenon, <1>0, <2>6, RunBounds DEF FilesOK, DataNamed, LastFile
  <2>8. tfa.seq_head \in {received - 1, received}
    BY <1>0, <1>2, <2>2, Unlimited DEF ArrayOK
  <2> QED
    BY <1>0, <1>2, <2>5, <2>6, <2>7, <2>8
<1> QED
  BY <1>1, <1>2, CountAssumption

LEMMA AddsNothing ==
    \A a, s, l \in Nat : /\ (a <= s /\ s <= a + l) <=> (a + 0 <= s /\ s <= a + 0 + l)
                         /\ s < a + l => s <= a + l
  OBVIOUS

LEMMA NatIsNotNegative == \A n \in Nat : 0 <= n
  OBVIOUS

LEMMA OneOrZero == \A n \in 0 .. 1 : n \in Nat
  OBVIOUS

LEMMA AtMostIsNotMore == \A a \in Nat, b \in Int : a <= b => ~(a > b)
  OBVIOUS

LEMMA WithFilesView ==
    ASSUME RelayState, NEW x, NEW lag \in 0 .. 1, Viewing(x, lag), Ready(x), Settled(x),
           x.index_file = NoFile, x.trace_chunk # NoChunk, NEW k, NEW d,
           LastIndexNamed(stream, k, x.trace_chunk, x.current_tracefile_id),
           DataNamed(stream, d, x.trace_chunk, x.current_tracefile_id),
           Latest(stream, d), x.handle # NoFile => d = x.handle
    PROVE  LET y == WithFiles(x, k, d)
           IN  y \in ViewerStream /\ Viewing(y, lag) /\ Readable(y) /\ Settled(y)
<1> DEFINE y == WithFiles(x, k, d)
           p == Packets(stream, d)
           i == x.current_tracefile_id
           s == x.index_sent_seqcount
<1>0. /\ IInv /\ RelayInv /\ stream \in RelayStream /\ received \in Nat
      /\ x \in ViewerStream /\ s \in Nat /\ i \in RingIds
      /\ InChunks(stream, x) /\ Counts(stream, x)
      /\ Follows(tfa, received, stream, x, lag) /\ Opened(received, stream, x)
      /\ AtPosition(tfa, received, stream, x, lag)
  BY Zenon DEF RelayState, RelayInv, Relay, Viewing, View, ViewerStream, Follows, IInv, TypeOK
<1>1. k \in 1 .. Len(stream.ifiles) /\ d \in 1 .. LastFile(stream)
  BY Zenon DEF LastIndexNamed, IndexNamed, DataNamed
<1>2. k \in Nat /\ d \in Nat /\ k # NoFile /\ d # NoFile
  BY Zenon, <1>0, <1>1, FileTypes, InRangeIsPositive DEF LastFile, NoFile
<1>3. Len(p) > 0 /\ Len(p) \in Nat
  BY Zenon, <1>0, <1>1, LatestIsWritten, FileTypes DEF LastIndexNamed, LastFile
<1>4. Paired(stream, k, d)
  BY Zenon, <1>0, <1>3, LastPair
<1>5. /\ y \in ViewerStream /\ y.trace_chunk = x.trace_chunk
      /\ y.last_seen_rotation_count = x.last_seen_rotation_count
      /\ y.current_tracefile_id = i /\ y.index_sent_seqcount = s
      /\ y.index_file = k /\ y.pos = x.pos /\ y.handle = d
  BY <1>0, <1>2, WithFilesFields
<1> HIDE DEF y
<1>6. x.pos = 0
  BY Zenon, <1>0 DEF Opened
<1>7. Opened(received, stream, y)
  <2>1. Behind(received, stream, s, d)
    BY Zenon DEF Behind, Latest, SameName
  <2>2. 0 <= Len(p)
    BY Zenon, <1>3, NatIsNotNegative
  <2> QED
    BY Zenon, <1>1, <1>2, <1>4, <1>5, <1>6, <2>1, <2>2 DEF Opened, DataNamed
<1>8. x.trace_chunk = RingChunk(stream) => s < received
  BY Zenon DEF Ready
<1>9. AtPosition(tfa, received, stream, y, lag)
  <2>0. lag \in Nat /\ (count = 0 \/ count > 0)
    BY Zenon, CountAssumption, ZeroOrMore, OneOrZero
  <2>1. ASSUME x.trace_chunk = RingChunk(stream)
        PROVE  /\ p[1] \in Nat /\ p[1] = RangeOf(tfa, i).seq_tail
               /\ count > 0 => p[1] <= s
               /\ s < p[1] + Len(p)
    BY Zenon, <1>0, <1>3, <1>8, <2>1, NextIndexIn DEF Ready
  <2>2. ASSUME x.trace_chunk = RingChunk(stream), x.handle # NoFile
        PROVE  p[1] + 0 <= s /\ s <= p[1] + 0 + lag
    BY Zenon, <1>0, <1>3, <1>6, <2>2 DEF AtPosition
  <2>3. ASSUME x.trace_chunk = RingChunk(stream), x.handle = NoFile
        PROVE  p[1] + 0 <= s /\ s <= p[1] + 0 + lag
    <3>1. RangeOf(tfa, i).seq_tail # Unset
      BY Zenon, <2>1, <2>3, NatIsSet
    <3>2. /\ count = 0 => RangeOf(tfa, i).seq_tail <= s
          /\ \/ s <= RangeOf(tfa, i).seq_tail + lag
             \/ s > RangeOf(tfa, i).seq_head /\ i # HeadOf(tfa)
      BY Zenon, <1>0, <2>3, <3>1 DEF AtPosition
    <3>3. ~(s > RangeOf(tfa, i).seq_head /\ i # HeadOf(tfa))
      <4>1. CASE count = 0
        BY Zenon, <1>0, <4>1, Unlimited
      <4>2. CASE count > 0
        <5>1. InRange(i, s)
          BY Zenon, <2>3, <4>2 DEF Ready
        <5>2. RangeOf(tfa, i).seq_head \in Int /\ s <= RangeOf(tfa, i).seq_head
          BY Zenon, <1>0, <3>1, <5>1, OldestTail DEF InRange
        <5> QED
          BY Zenon, <1>0, <5>2, AtMostIsNotMore
      <4> QED
        BY Zenon, <2>0, <4>1, <4>2
    <3>4. p[1] <= s /\ s <= p[1] + lag
      BY Zenon, <2>0, <2>1, <2>3, <3>2, <3>3
    <3> QED
      BY Zenon, <1>0, <2>0, <2>1, <2>3, <3>4, AddsNothing
  <2>4. ASSUME x.trace_chunk = RingChunk(stream)
        PROVE  /\ p[1] + 0 <= s /\ s <= p[1] + 0 + lag
               /\ s <= p[1] + Len(p) /\ Len(p) # 0
    <3>1. p[1] + 0 <= s /\ s <= p[1] + 0 + lag
      BY Zenon, <2>2, <2>3, <2>4
    <3>2. s <= p[1] + Len(p)
      BY Zenon, <1>0, <1>3, <2>1, <2>4, AddsNothing
    <3> QED
      BY Zenon, <1>3, <3>1, <3>2, PositiveIsNotZero
  <2> QED
    BY Zenon, <1>2, <1>5, <1>6, <2>4 DEF AtPosition
<1>10. InChunks(stream, y) /\ Counts(stream, y) /\ Follows(tfa, received, stream, y, lag)
  BY Zenon, <1>0, <1>5 DEF InChunks, Counts, Follows
<1>11. Readable(y)
  BY Zenon, <1>2, <1>5, <1>8 DEF Readable, Ready
<1>12. Settled(y)
  BY Zenon, <1>5 DEF Settled
<1> QED
  BY Zenon, <1>5, <1>7, <1>9, <1>10, <1>11, <1>12 DEF Viewing, View, y

\* A request for the next index, from the viewer's state.

LEMMA SkippedNone ==
    ASSUME NEW s \in Nat
    PROVE  Skipped(s, s)
<1>1. ASSUME NEW n \in s .. s - 1 PROVE FALSE
  BY <1>1
<1> QED
  BY <1>1 DEF Skipped

LEMMA SkippedTwice ==
    ASSUME NEW s \in Nat, NEW t \in Nat, NEW u \in Nat, Skipped(s, t), Skipped(t, u)
    PROVE  Skipped(s, u)
<1>1. ASSUME NEW n \in s .. u - 1 PROVE n < tfa.seq_tail
  <2>1. n \in s .. t - 1 \/ n \in t .. u - 1
    BY <1>1
  <2> QED
    BY <2>1 DEF Skipped
<1>2. s <= u
  BY DEF Skipped
<1> QED
  BY <1>1, <1>2 DEF Skipped

LEMMA ElementOf ==
    ASSUME NEW S, NEW q \in Seq(S), NEW n \in 1 .. Len(q)
    PROVE  q[n] \in S
  OBVIOUS

\* Its data file is there.
LEMMA CreatedHandle ==
    ASSUME RelayState, stream.trace_chunk # NoChunk, NEW i \in RingIds,
           tfa.seq_tail # Unset => RangeOf(tfa, i).seq_tail # Unset,
           tfa.seq_tail = Unset => i = 0 /\ received = 0
    PROVE  LET d == OpenFile(stream.dfiles, stream.trace_chunk, i)
               p == Packets(stream, d)
           IN  /\ d # NoFile /\ DataNamed(stream, d, stream.trace_chunk, i)
               /\ Latest(stream, d) /\ Len(p) \in Nat
               /\ Len(p) = 0 =>
                    /\ d = LastFile(stream)
                    /\ \/ tfa.seq_tail = Unset
                       \/ tfa.seq_head = received /\ tfa.seq_tail = received
               /\ Len(p) > 0 =>
                    /\ tfa.seq_tail # Unset /\ p[1] \in Nat
                    /\ p[1] = RangeOf(tfa, i).seq_tail
                    /\ p[1] + Len(p) - 1 = RangeOf(tfa, i).seq_head
<1> DEFINE c == stream.trace_chunk
           d == OpenFile(stream.dfiles, c, i)
           n == LastFile(stream)
           p == Packets(stream, d)
<1>0. /\ IInv /\ ArrayOK(tfa, received) /\ stream \in RelayStream
      /\ RingFiles(tfa, received, stream) /\ CurrentOK(tfa, received, open, stream)
      /\ FilesOK(stream, received) /\ ChunksOK(stream, session) /\ received \in Nat
  BY DEF RelayState, RelayInv, Relay, IInv, TypeOK
<1>1. /\ stream.file # NoFile /\ stream.file = n /\ c = RingChunk(stream)
      /\ stream.dfiles[n].index = HeadOf(tfa) /\ n \in Nat /\ n \in 1 .. n
  <2>1. /\ stream.file # NoFile /\ stream.file = n /\ c = RingChunk(stream)
        /\ stream.dfiles[n].index = HeadOf(tfa)
    BY Zenon, <1>0 DEF CurrentOK
  <2>2. n \in Nat /\ n > 0
    BY Zenon, <1>0, FileTypes DEF ChunksOK, LastFile
  <2>3. n \in 1 .. n
    BY <2>2
  <2> QED
    BY Zenon, <2>1, <2>2, <2>3
<1>2. ~Deleted(c)
  BY DEF Deleted
<1>3. CASE tfa.seq_tail # Unset
  <2>1. PICK e : Holds(tfa, received, stream, e, i)
    BY Zenon, <1>0, <1>3 DEF RingFiles
  <2>2. DataNamed(stream, e, c, i) /\ Latest(stream, e)
    BY <1>1, <2>1 DEF Holds, DataNamed
  <2>3. d # NoFile
    BY Zenon, <1>0, <1>2, <2>2, DataFound
  <2>4. DataNamed(stream, d, c, i) /\ Latest(stream, d)
    BY Zenon, <1>0, <2>3, DataOpened
  <2> HIDE DEF d
  <2>5. e = d
    BY <1>0, <2>2, <2>4, OneLatest
  <2>6. p \in Seq(Nat) /\ Len(p) \in Nat
    BY Zenon, <1>0, <2>4, FileTypes DEF DataNamed, LastFile
  <2>7. ASSUME Len(p) = 0
        PROVE  d = n /\ tfa.seq_head = received /\ tfa.seq_tail = received
    <3>1. d = n /\ RangeOf(tfa, i).seq_head = received
      BY <2>1, <2>5, <2>7 DEF Holds
    <3>2. tfa.seq_head = received
      <4>1. CASE count = 0
        BY <3>1, <4>1, Unlimited
      <4>2. CASE count > 0
        BY Zenon, <1>0, <3>1, <4>2, Limited DEF ArrayOK
      <4> QED
        BY <4>1, <4>2, CountAssumption
    <3> QED
      BY Zenon, <1>0, <3>1, <3>2 DEF ArrayOK
  <2>8. ASSUME Len(p) > 0
        PROVE  /\ p[1] \in Nat /\ p[1] = RangeOf(tfa, i).seq_tail
               /\ p[1] + Len(p) - 1 = RangeOf(tfa, i).seq_head
    <3>1. /\ p[1] = RangeOf(tfa, i).seq_tail
          /\ p[1] + Len(p) - 1 = RangeOf(tfa, i).seq_head
      BY <2>1, <2>5, <2>6, <2>8 DEF Holds
    <3> QED
      BY <2>6, <2>8, <3>1
  <2> QED
    BY Zenon, <1>3, <2>3, <2>4, <2>6, <2>7, <2>8 DEF d
<1>4. CASE tfa.seq_tail = Unset
  <2>1. HeadOf(tfa) = 0 /\ i = 0 /\ received = 0
    BY Zenon, <1>0, <1>4 DEF ArrayOK, AtZero, HeadOf
  <2>2. DataNamed(stream, n, c, i)
    BY <1>1, <2>1 DEF DataNamed, RingChunk
  <2>3. d # NoFile
    BY Zenon, <1>0, <1>2, <2>2, LastNamed, DataFound
  <2>4. DataNamed(stream, d, c, i) /\ Latest(stream, d)
    BY Zenon, <1>0, <2>3, DataOpened
  <2> HIDE DEF d
  <2>5. n <= d
    BY Zenon, <1>0, <2>2, <2>4, OneLatest
  <2>6. d = n
    BY <1>1, <2>4, <2>5 DEF DataNamed
  <2>7. p \in Seq(Nat) /\ Len(p) \in Nat /\ Run(p, received)
    BY Zenon, <1>0, <2>4, FileTypes DEF DataNamed, LastFile, FilesOK
  <2>8. Len(p) = 0
    <3> SUFFICES ASSUME Len(p) > 0 PROVE FALSE
      BY <2>7
    <3>1. p[1] \in Nat /\ p[1] < received
      <4>1. 1 \in 1 .. Len(p)
        BY <2>7
      <4> QED
        BY <2>7, <4>1 DEF Run
    <3> QED
      BY <2>1, <3>1
  <2> QED
    BY <1>4, <2>3, <2>4, <2>6, <2>7, <2>8 DEF d
<1> QED
  BY Zenon, <1>3, <1>4

\* Its index file is that of its data file, and is there if that has packets.
LEMMA CreatedIndex ==
    ASSUME RelayState, stream.trace_chunk # NoChunk, NEW i \in RingIds, NEW d,
           DataNamed(stream, d, stream.trace_chunk, i), Latest(stream, d),
           Len(Packets(stream, d)) = 0 =>
              /\ d = LastFile(stream)
              /\ \/ tfa.seq_tail = Unset
                 \/ tfa.seq_head = received /\ tfa.seq_tail = received
    PROVE  LET k == IF stream.index_file = NoFile THEN NoFile
                    ELSE OpenFile(stream.ifiles, stream.trace_chunk, i)
           IN  /\ k \in Nat
               /\ k # NoFile => Paired(stream, k, d)
               /\ Len(Packets(stream, d)) > 0 => k # NoFile
<1> DEFINE c == stream.trace_chunk
           k == IF stream.index_file = NoFile THEN NoFile
                ELSE OpenFile(stream.ifiles, c, i)
           n == LastFile(stream)
<1>0. /\ IInv /\ ArrayOK(tfa, received) /\ stream \in RelayStream /\ RelayInv
      /\ CurrentOK(tfa, received, open, stream) /\ received \in Nat
      /\ FilesOK(stream, received) /\ ChunksOK(stream, session)
  BY Zenon DEF RelayState, RelayInv, Relay, IInv, TypeOK
<1>1. /\ stream.file # NoFile /\ stream.file = n /\ c = RingChunk(stream)
      /\ n \in Nat /\ n \in 1 .. n /\ Len(Packets(stream, d)) \in Nat
      /\ d \in 1 .. n /\ stream.dfiles[d].chunk = RingChunk(stream)
  <2>1. stream.file # NoFile /\ stream.file = n /\ c = RingChunk(stream)
    BY Zenon, <1>0 DEF CurrentOK
  <2>2. d \in 1 .. n /\ stream.dfiles[d].chunk = RingChunk(stream)
    BY Zenon, <2>1 DEF DataNamed
  <2>3. n \in Nat /\ Len(Packets(stream, d)) \in Nat
    BY Zenon, <1>0, <2>2, FileTypes DEF LastFile
  <2> QED
    BY Zenon, <2>1, <2>2, <2>3, InRangeIsPositive
<1>2. ~Deleted(c)
  BY Zenon DEF Deleted
<1>3. ASSUME k # NoFile
      PROVE  LastIndexNamed(stream, k, c, i) /\ k \in Nat
  <2>1. k = OpenFile(stream.ifiles, c, i) /\ stream.index_file # NoFile
    BY Zenon, <1>3
  <2>2. LastIndexNamed(stream, k, c, i)
    BY Zenon, <1>0, <1>3, <2>1, IndexOpened
  <2> HIDE DEF k
  <2> QED
    BY <2>2 DEF LastIndexNamed, IndexNamed
<1>4. ASSUME k # NoFile
      PROVE  Paired(stream, k, d)
  <2>0. stream.index_file # NoFile
    BY <1>4
  <2> HIDE DEF k
  <2>1. Len(Packets(stream, d)) > 0
    <3> SUFFICES ASSUME Len(Packets(stream, d)) = 0 PROVE FALSE
      BY <1>1
    <3>1. tfa.seq_head # received
      BY Zenon, <1>0, <2>0 DEF CurrentOK
    <3>2. received = 0
      BY Zenon, <1>0, <3>1 DEF ArrayOK
    <3>3. PICK e : Paired(stream, k, e)
      BY <1>0, <1>3, <1>4, IndexHasData DEF LastIndexNamed
    <3>4. Packets(stream, e)[1] \in Nat /\ Packets(stream, e)[1] < received
      BY Zenon, <1>0, <3>3, PairIsWritten
    <3> QED
      BY <3>2, <3>4
  <2> QED
    BY Zenon, <1>0, <1>3, <1>4, <2>1, LastPair
<1>5. ASSUME Len(Packets(stream, d)) > 0
      PROVE  k # NoFile
  <2>1. stream.index_file # NoFile
    <3> SUFFICES ASSUME stream.index_file = NoFile PROVE FALSE
      OBVIOUS
    <3>1. Len(Packets(stream, n)) = 0 /\ ~stream.rotate_index
      BY Zenon, <1>0, <1>1 DEF CurrentOK
    <3>2. d = n
      BY Zenon, <1>0, <1>1, <3>1 DEF ChunksOK, RingChunk
    <3> QED
      BY <1>5, <3>1, <3>2
  <2>2. PICK l : Paired(stream, l, d)
    BY Zenon, <1>0, <1>1, <1>5 DEF FilesOK, LastFile
  <2>3. LastIndexNamed(stream, l, c, i) /\ stream.ifiles \in Seq(IndexFile)
    BY Zenon, <1>0, <2>2, PairIsLast DEF RelayStream
  <2>4. OpenFile(stream.ifiles, c, i) # NoFile
    <3>1. /\ l \in 1 .. Len(stream.ifiles) /\ stream.ifiles[l].chunk = c
          /\ stream.ifiles[l].index = i
          /\ \A j \in 1 .. Len(stream.ifiles) :
                stream.ifiles[j].chunk = c /\ stream.ifiles[j].index = i => j <= l
      BY Zenon, <2>3 DEF LastIndexNamed, IndexNamed
    <3> QED
      BY Zenon, <1>2, <2>3, <3>1, OpenFileFinds
  <2> QED
    BY Zenon, <2>1, <2>4
<1>6. k \in Nat
  <2>1. NoFile \in Nat
    BY DEF NoFile
  <2> HIDE DEF k
  <2> QED
    BY Zenon, <1>3, <2>1
<1> QED
  BY <1>4, <1>5, <1>6

LEMMA SentView ==
    ASSUME NEW v, ViewerOK(tfa, received, stream, v), NEW b \in BOOLEAN,
           b => v.stream.exists, NEW reply \in Statuses,
           reply = v.reply \/ reply = "hup"
    PROVE  LET m == [v EXCEPT !.stream.sent_flag = b, !.reply = reply]
           IN  ViewerOK(tfa, received, stream, m)
<1> DEFINE x == v.stream
           y == [x EXCEPT !.sent_flag = b]
           m == [v EXCEPT !.stream.sent_flag = b, !.reply = reply]
<1>0. v \in ViewerRecord /\ x \in ViewerStream /\ Answered(stream, v)
  BY DEF ViewerOK, ViewerRecord
<1>1. m = [v EXCEPT !.stream = y, !.reply = reply]
  BY <1>0 DEF ViewerRecord
<1>2. /\ y \in ViewerStream /\ y.exists = x.exists /\ y.trace_chunk = x.trace_chunk
      /\ y.sent_flag = b
      /\ y.last_seen_rotation_count = x.last_seen_rotation_count
      /\ y.current_tracefile_id = x.current_tracefile_id
      /\ y.index_sent_seqcount = x.index_sent_seqcount
      /\ y.index_file = x.index_file /\ y.pos = x.pos /\ y.handle = x.handle
  BY <1>0 DEF ViewerStream
<1> HIDE DEF y
<1>3. /\ m \in ViewerRecord /\ m.stream = y /\ m.reply = reply /\ m.ahead = v.ahead
      /\ m.index = v.index /\ m.packet = v.packet
  BY Zenon, <1>0, <1>1, <1>2 DEF ViewerRecord
<1> HIDE DEF m
<1>4. Lag(m) = Lag(v)
  BY <1>3 DEF Lag
<1>5. Answered(stream, m)
  BY Zenon, <1>0, <1>2, <1>3 DEF Answered, Left
<1>6. View(tfa, received, stream, x, Lag(v)) => View(tfa, received, stream, y, Lag(v))
  BY Zenon, <1>2 DEF View, InChunks, Counts, Follows, Opened, AtPosition
<1> QED
  BY Zenon, <1>2, <1>3, <1>4, <1>5, <1>6 DEF ViewerOK, m

-----------------------------------------------------------------------------
\* A viewer stream left when the relay stream was closed is in an old chunk.
LEMMA LeftIsOld ==
    ASSUME RelayInv, NEW x, x.trace_chunk \in Nat, InChunks(stream, x), Left(stream, x)
    PROVE  /\ stream.trace_chunk = NoChunk /\ x.trace_chunk # NoChunk
           /\ \E c \in StreamChunks : c > x.trace_chunk
<1>1. /\ stream.closed /\ x.trace_chunk # NoChunk
      /\ x.trace_chunk # RingChunk(stream)
  BY DEF Left
<1>2. stream.trace_chunk = NoChunk
  BY Zenon, <1>1 DEF RelayInv, Relay, CurrentOK
<1>3. /\ LastFile(stream) > 0 /\ LastFile(stream) \in Nat /\ session.chunks \in Nat
      /\ \A d \in 1 .. LastFile(stream) : stream.dfiles[d].chunk \in 1 .. session.chunks
      /\ \A d, e \in 1 .. LastFile(stream) :
            d < e => stream.dfiles[d].chunk <= stream.dfiles[e].chunk
  <2>1. stream \in RelayStream /\ ChunksOK(stream, session)
    BY Zenon DEF RelayInv, Relay
  <2>2. LastFile(stream) \in Nat
    BY Zenon, <2>1, FileTypes DEF LastFile
  <2> QED
    BY Zenon, <2>1, <2>2 DEF ChunksOK
<1>4. PICK d \in 1 .. LastFile(stream) : stream.dfiles[d].chunk = x.trace_chunk
  BY <1>1 DEF InChunks
<1>5. LastFile(stream) \in 1 .. LastFile(stream)
  BY <1>3
<1>6. RingChunk(stream) > x.trace_chunk
  <2>1. d < LastFile(stream)
    BY <1>1, <1>3, <1>4 DEF RingChunk
  <2>2. x.trace_chunk <= RingChunk(stream) /\ RingChunk(stream) \in Nat
    BY <1>3, <1>4, <1>5, <2>1 DEF RingChunk
  <2> QED
    BY <1>1, <2>2
<1>7. RingChunk(stream) \in StreamChunks
  BY <1>3, <1>5 DEF StreamChunks, RingChunk, LastFile
<1> QED
  BY Zenon, <1>1, <1>2, <1>6, <1>7
=============================================================================
