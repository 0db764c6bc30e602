-------------------------- MODULE LiveStreamProofs --------------------------
(***************************************************************************)
(* What the files of a relay stream hold, for every number of trace files, *)
(* of indexes and of trace chunks.  RelayInv relates the index files to    *)
(* the data files, both to the tracefile array, and the current files to   *)
(* the packet being received; no step of the relay daemon disturbs it      *)
(* (RelayStep), and the session keeps its trace chunk while the stream has *)
(* one (SessionStep).                                                      *)
(***************************************************************************)
EXTENDS LiveStream, TracefileRingProofs

\* Sequences.
LEMMA AppendElements ==
    ASSUME NEW S, NEW s \in Seq(S), NEW x \in S
    PROVE  /\ Append(s, x) \in Seq(S)
           /\ Len(s) \in Nat /\ Len(Append(s, x)) = Len(s) + 1
           /\ Append(s, x)[Len(s) + 1] = x
           /\ \A i \in 1 .. Len(s) : Append(s, x)[i] = s[i]
  OBVIOUS

LEMMA ExceptElements ==
    ASSUME NEW S, NEW s \in Seq(S), NEW k \in 1 .. Len(s), NEW x \in S
    PROVE  /\ [s EXCEPT ![k] = x] \in Seq(S)
           /\ Len([s EXCEPT ![k] = x]) = Len(s)
           /\ [s EXCEPT ![k] = x][k] = x
           /\ \A i \in 1 .. Len(s) : i # k => [s EXCEPT ![k] = x][i] = s[i]
  OBVIOUS

\* The files of the stream.

-----------------------------------------------------------------------------
DataFile == [chunk : Nat, index : Nat, packets : Seq(Nat)]

IndexFile == [chunk : Nat, index : Nat, packets : Seq([seq : Nat, offset : Nat])]

RelayStream ==
    [trace_chunk : Nat, dfiles : Seq(DataFile), file : Nat,
     ifiles : Seq(IndexFile), index_file : Nat, rotate_index : BOOLEAN,
     is_rotating : BOOLEAN, next_trace_chunk : Nat,
     completed_rotation_count : Nat, beacon : BOOLEAN,
     close_requested : BOOLEAN, closed : BOOLEAN]

Packets(st, d) == st.dfiles[d].packets

Entries(st, k) == st.ifiles[k].packets

\* Consecutive indexes, all of them received.
Run(p, rec) == \A i \in 1 .. Len(p) : p[i] = p[1] + i - 1 /\ p[i] < rec

\* The index file k is that of the data file d.
Paired(st, k, d) ==
    /\ k \in 1 .. Len(st.ifiles) /\ d \in 1 .. Len(st.dfiles)
    /\ st.ifiles[k].chunk = st.dfiles[d].chunk
    /\ st.ifiles[k].index = st.dfiles[d].index
    /\ Len(Entries(st, k)) = Len(Packets(st, d))
    /\ \A i \in 1 .. Len(Packets(st, d)) :
          Entries(st, k)[i].seq = Packets(st, d)[i] /\ Entries(st, k)[i].offset = i

(***************************************************************************)
(* The files hold increasing runs of indexes; index files and data files   *)
(* that are not empty go by pairs, in the same order.                      *)
(***************************************************************************)
FilesOK(st, rec) ==
    /\ \A d \in 1 .. Len(st.dfiles) : Run(Packets(st, d), rec)
    /\ \A d, e \in 1 .. Len(st.dfiles) :
          d < e /\ Len(Packets(st, d)) > 0 /\ Len(Packets(st, e)) > 0 =>
            Packets(st, d)[1] + Len(Packets(st, d)) <= Packets(st, e)[1]
    /\ \A k \in 1 .. Len(st.ifiles) :
          Len(Entries(st, k)) > 0 /\ \E d : Paired(st, k, d)
    /\ \A d \in 1 .. Len(st.dfiles) :
          Len(Packets(st, d)) > 0 => \E k : Paired(st, k, d)
    /\ \A k, l \in 1 .. Len(st.ifiles) :
          k < l => Entries(st, k)[1].seq < Entries(st, l)[1].seq

\* The last data file, and the chunk whose files the ring describes.
LastFile(st) == Len(st.dfiles)

RingChunk(st) == st.dfiles[LastFile(st)].chunk

(***************************************************************************)
(* The chunks of the files increase, without a limit each file has its     *)
(* own, and a file is empty only if it is the first of its chunk and no    *)
(* other has followed, or is the one that a packet being received has just *)
(* opened.                                                                 *)
(***************************************************************************)
ChunksOK(st, se) ==
    /\ LastFile(st) > 0 /\ se.chunks \in Nat
    /\ \A d \in 1 .. LastFile(st) : st.dfiles[d].chunk \in 1 .. se.chunks
    /\ \A d, e \in 1 .. LastFile(st) : d < e => st.dfiles[d].chunk <= st.dfiles[e].chunk
    /\ count = 0 =>
          \A d, e \in 1 .. LastFile(st) : d < e => st.dfiles[d].chunk < st.dfiles[e].chunk
    /\ se.current_trace_chunk \in {NoChunk, se.chunks}
    /\ st.is_rotating /\ ~st.closed =>
          \/ st.next_trace_chunk = NoChunk
          \/ RingChunk(st) < st.next_trace_chunk /\ st.next_trace_chunk = se.chunks
    /\ \A d \in 1 .. LastFile(st) :
          Len(Packets(st, d)) = 0 /\ (d = LastFile(st) => ~st.rotate_index) =>
            \A e \in 1 .. LastFile(st) : st.dfiles[e].chunk = st.dfiles[d].chunk => e = d

(***************************************************************************)
(* The file being written is the last one, and bears the number of the     *)
(* head of the ring; its index file is open once it has a packet.          *)
(***************************************************************************)
CurrentOK(a, rec, op, st) ==
    /\ st.trace_chunk = NoChunk <=> st.file = NoFile
    /\ st.index_file # NoFile => st.file # NoFile /\ a.seq_head # rec
    /\ st.closed => st.file = NoFile
    /\ op => st.file # NoFile
    /\ st.rotate_index => (op \/ st.closed) /\ count > 0
    /\ st.rotate_index /\ st.file # NoFile => st.index_file # NoFile
    /\ st.file # NoFile =>
         /\ st.file = LastFile(st) /\ st.trace_chunk = RingChunk(st)
         /\ st.dfiles[st.file].index = HeadOf(a)
         /\ Len(Packets(st, st.file)) = 0 <=> (st.rotate_index \/ st.index_file = NoFile)
         /\ Len(Packets(st, st.file)) > 0 =>
              /\ Packets(st, st.file)[Len(Packets(st, st.file))] = rec - 1
              /\ st.index_file = Len(st.ifiles)
              /\ Paired(st, st.index_file, st.file)
              /\ RangeOf(a, HeadOf(a)).seq_tail # Unset

\* File d is the one on disk: none of the same name was created after it.
Latest(st, d) ==
    \A e \in 1 .. LastFile(st) :
        e > d => ~(/\ st.dfiles[e].chunk = st.dfiles[d].chunk
                   /\ st.dfiles[e].index = st.dfiles[d].index)

\* Data file d holds what the array announces for file f of the ring.
Holds(a, rec, st, d, f) ==
    /\ d \in 1 .. LastFile(st)
    /\ st.dfiles[d].chunk = RingChunk(st) /\ st.dfiles[d].index = f
    /\ Latest(st, d)
    /\ \/ /\ Len(Packets(st, d)) > 0
          /\ Packets(st, d)[1] = RangeOf(a, f).seq_tail
          /\ Packets(st, d)[1] + Len(Packets(st, d)) - 1 = RangeOf(a, f).seq_head
       \/ /\ Len(Packets(st, d)) = 0 /\ d = LastFile(st)
          /\ RangeOf(a, f).seq_tail = rec /\ RangeOf(a, f).seq_head = rec

RingFiles(a, rec, st) ==
    \A f \in RingIds : RangeOf(a, f).seq_tail # Unset =>
        \E d : Holds(a, rec, st, d, f)

\* The entry that Written adds, and whether it opens an index file for it.
NewEntry(st, rec) == [seq |-> rec, offset |-> Len(Packets(st, st.file)) + 1]

OpensIndex(st) == st.rotate_index \/ st.index_file = NoFile

\* Fields that Written leaves alone.
SameRotation(st, w) ==
    /\ w.trace_chunk = st.trace_chunk /\ w.file = st.file
    /\ w.is_rotating = st.is_rotating /\ w.next_trace_chunk = st.next_trace_chunk
    /\ w.completed_rotation_count = st.completed_rotation_count
    /\ w.close_requested = st.close_requested /\ w.closed = st.closed

DataWritten(st, w, rec) ==
    /\ Len(w.dfiles) = Len(st.dfiles)
    /\ \A d \in 1 .. Len(st.dfiles) :
          /\ w.dfiles[d].chunk = st.dfiles[d].chunk
          /\ w.dfiles[d].index = st.dfiles[d].index
          /\ d # st.file => Packets(w, d) = Packets(st, d)
    /\ Packets(w, st.file) = Append(Packets(st, st.file), rec)

IndexWritten(st, w, rec) ==
    /\ w.index_file = IF OpensIndex(st) THEN Len(st.ifiles) + 1 ELSE st.index_file
    /\ Len(w.ifiles) = IF OpensIndex(st) THEN Len(st.ifiles) + 1 ELSE Len(st.ifiles)
    /\ \A k \in 1 .. Len(st.ifiles) :
          /\ w.ifiles[k].chunk = st.ifiles[k].chunk
          /\ w.ifiles[k].index = st.ifiles[k].index
          /\ k # w.index_file => Entries(w, k) = Entries(st, k)
    /\ OpensIndex(st) =>
          /\ w.ifiles[w.index_file].chunk = st.trace_chunk
          /\ w.ifiles[w.index_file].index = FileHead
          /\ Len(Entries(w, w.index_file)) = 1
          /\ Entries(w, w.index_file)[1] = NewEntry(st, rec)
    /\ ~OpensIndex(st) =>
          Entries(w, w.index_file) = Append(Entries(st, st.index_file), NewEntry(st, rec))

-----------------------------------------------------------------------------
\* A packet is written.
LEMMA AppendPacket ==
    ASSUME NEW S, NEW f \in [chunk : Nat, index : Nat, packets : Seq(S)], NEW x \in S
    PROVE  LET g == [f EXCEPT !.packets = Append(@, x)]
           IN  /\ g \in [chunk : Nat, index : Nat, packets : Seq(S)]
               /\ g.packets = Append(f.packets, x)
               /\ g.chunk = f.chunk /\ g.index = f.index
<1>1. f.packets \in Seq(S) /\ f.chunk \in Nat /\ f.index \in Nat
  OBVIOUS
<1>2. Append(f.packets, x) \in Seq(S)
  BY <1>1, AppendElements
<1> QED
  BY <1>1, <1>2

LEMMA WrittenEffect ==
    ASSUME NEW st \in RelayStream, received \in Nat, FileHead \in Nat,
           st.file \in 1 .. Len(st.dfiles),
           OpensIndex(st) \/ st.index_file \in 1 .. Len(st.ifiles)
    PROVE  /\ Written(st) \in RelayStream
           /\ SameRotation(st, Written(st)) /\ ~Written(st).rotate_index
           /\ DataWritten(st, Written(st), received)
           /\ IndexWritten(st, Written(st), received)
<1> DEFINE m == Len(st.ifiles)
           n == st.file
           k == IF st.rotate_index \/ st.index_file = NoFile THEN m + 1
                ELSE st.index_file
           files == IF k > m THEN Append(st.ifiles, File(st.trace_chunk, FileHead))
                    ELSE st.ifiles
           entry == [seq |-> received, offset |-> Len(st.dfiles[n].packets) + 1]
           ifile == [files[k] EXCEPT !.packets = Append(@, entry)]
           dfile == [st.dfiles[n] EXCEPT !.packets = Append(@, received)]
           ifiles == [files EXCEPT ![k] = ifile]
           dfiles == [st.dfiles EXCEPT ![n] = dfile]
<1>1. /\ st.dfiles \in Seq(DataFile) /\ st.ifiles \in Seq(IndexFile)
      /\ st.trace_chunk \in Nat /\ st.index_file \in Nat
      /\ m \in Nat
  BY DEF RelayStream
<1>2. Written(st) = [st EXCEPT !.ifiles = ifiles, !.index_file = k,
                               !.dfiles = dfiles, !.rotate_index = FALSE,
                               !.beacon = FALSE]
  BY Zenon DEF Written
<1>3. /\ st.dfiles[n] \in DataFile /\ st.dfiles[n].packets \in Seq(Nat)
      /\ dfile \in DataFile
      /\ dfile.packets = Append(st.dfiles[n].packets, received)
      /\ dfile.chunk = st.dfiles[n].chunk /\ dfile.index = st.dfiles[n].index
  <2>1. st.dfiles[n] \in DataFile
    BY <1>1
  <2>2. st.dfiles[n].packets \in Seq(Nat)
    BY <2>1 DEF DataFile
  <2> QED
    BY Zenon, <2>1, <2>2, AppendPacket DEF DataFile
<1>4. File(st.trace_chunk, FileHead) \in IndexFile
  BY <1>1 DEF File, IndexFile
<1>5. /\ k \in Nat /\ k \in 1 .. m + 1
      /\ OpensIndex(st) => k = m + 1 /\ k > m
      /\ ~OpensIndex(st) => k = st.index_file /\ ~(k > m)
  <2> HIDE DEF m
  <2>1. CASE OpensIndex(st)
    <3>1. k = m + 1
      BY <2>1 DEF OpensIndex
    <3> QED
      BY <1>1, <2>1, <3>1
  <2>2. CASE ~OpensIndex(st)
    <3>1. k = st.index_file
      BY <2>2 DEF OpensIndex
    <3>2. st.index_file \in 1 .. m
      BY <2>2 DEF m
    <3> QED
      BY <1>1, <2>2, <3>1, <3>2
  <2> QED
    BY <2>1, <2>2
<1>6. /\ files \in Seq(IndexFile)
      /\ Len(files) = IF OpensIndex(st) THEN m + 1 ELSE m
      /\ \A j \in 1 .. m : files[j] = st.ifiles[j]
      /\ OpensIndex(st) => files[k] = File(st.trace_chunk, FileHead)
      /\ k \in 1 .. Len(files)
  <2>1. CASE OpensIndex(st)
    <3>1. files = Append(st.ifiles, File(st.trace_chunk, FileHead))
      BY <1>5, <2>1
    <3> HIDE DEF files, k
    <3> QED
      BY <1>1, <1>4, <1>5, <2>1, <3>1, AppendElements
  <2>2. CASE ~OpensIndex(st)
    BY <1>1, <1>5, <2>2
  <2> QED
    BY <2>1, <2>2
<1> HIDE DEF files, k, m
<1>7. entry \in [seq : Nat, offset : Nat]
  <2>1. ASSUME NEW p \in Seq(Nat)
        PROVE  [seq |-> received, offset |-> Len(p) + 1] \in [seq : Nat, offset : Nat]
    OBVIOUS
  <2> QED
    BY <1>3, <2>1
<1>8. /\ files[k] \in IndexFile /\ files[k].packets \in Seq([seq : Nat, offset : Nat])
      /\ ifile \in IndexFile
      /\ ifile.packets = Append(files[k].packets, entry)
      /\ ifile.chunk = files[k].chunk /\ ifile.index = files[k].index
  <2>1. files[k] \in IndexFile
    BY <1>6
  <2> HIDE DEF entry
  <2>2. files[k].packets \in Seq([seq : Nat, offset : Nat])
    BY <2>1 DEF IndexFile
  <2> QED
    BY Zenon, <1>7, <2>1, <2>2, AppendPacket DEF IndexFile
<1> HIDE DEF ifile, dfile
<1>9. /\ ifiles \in Seq(IndexFile) /\ Len(ifiles) = Len(files)
      /\ ifiles[k] = ifile
      /\ \A j \in 1 .. Len(files) : j # k => ifiles[j] = files[j]
  BY <1>6, <1>8, ExceptElements
<1>10. /\ dfiles \in Seq(DataFile) /\ Len(dfiles) = Len(st.dfiles)
       /\ dfiles[n] = dfile
       /\ \A d \in 1 .. Len(st.dfiles) : d # n => dfiles[d] = st.dfiles[d]
  BY <1>1, <1>3, ExceptElements
<1> HIDE DEF ifiles, dfiles
<1>11. /\ Written(st) \in RelayStream
       /\ Written(st).ifiles = ifiles /\ Written(st).dfiles = dfiles
       /\ Written(st).index_file = k /\ Written(st).rotate_index = FALSE
       /\ SameRotation(st, Written(st))
  BY Zenon, <1>2, <1>5, <1>9, <1>10 DEF RelayStream, SameRotation
<1>12. DataWritten(st, Written(st), received)
  BY Zenon, <1>3, <1>10, <1>11 DEF DataWritten, Packets
<1>13. IndexWritten(st, Written(st), received)
  <2>1. entry = NewEntry(st, received)
    BY DEF NewEntry, Packets
  <2>2. ASSUME OpensIndex(st)
        PROVE  /\ ifile.chunk = st.trace_chunk /\ ifile.index = FileHead
               /\ Len(ifile.packets) = 1 /\ ifile.packets[1] = entry
    <3>1. files[k].packets = <<>> /\ files[k].chunk = st.trace_chunk
          /\ files[k].index = FileHead
      BY <1>6, <2>2 DEF File
    <3> HIDE DEF entry
    <3> QED
      BY <1>7, <1>8, <3>1
  <2>3. ASSUME ~OpensIndex(st)
        PROVE  k = st.index_file /\ files[k] = st.ifiles[k]
    BY <1>5, <1>6, <2>3 DEF k, OpensIndex
  <2>4. k = IF OpensIndex(st) THEN m + 1 ELSE st.index_file
    BY <1>5, <2>3
  <2> HIDE DEF entry
  <2> DEFINE w == Written(st)
  <2>5. /\ w.index_file = IF OpensIndex(st) THEN m + 1 ELSE st.index_file
        /\ Len(w.ifiles) = IF OpensIndex(st) THEN m + 1 ELSE m
    BY <1>6, <1>9, <1>11, <2>4
  <2>6. ASSUME NEW j \in 1 .. m
        PROVE  /\ w.ifiles[j].chunk = st.ifiles[j].chunk
               /\ w.ifiles[j].index = st.ifiles[j].index
               /\ j # w.index_file => w.ifiles[j].packets = st.ifiles[j].packets
    <3>1. j \in 1 .. Len(files) /\ files[j] = st.ifiles[j]
      BY <1>1, <1>6
    <3> QED
      BY <1>8, <1>9, <1>11, <3>1
  <2>7. w.ifiles[w.index_file] = ifile
    BY <1>9, <1>11
  <2>8. ~OpensIndex(st) => ifile.packets = Append(st.ifiles[st.index_file].packets, entry)
    BY Zenon, <1>8, <2>3
  <2> QED
    BY <2>1, <2>2, <2>5, <2>6, <2>7, <2>8 DEF IndexWritten, Entries, m
<1> QED
  BY <1>11, <1>12, <1>13

LEMMA FileTypes ==
    ASSUME NEW st \in RelayStream
    PROVE  /\ Len(st.dfiles) \in Nat /\ Len(st.ifiles) \in Nat
           /\ \A d \in 1 .. Len(st.dfiles) :
                /\ Packets(st, d) \in Seq(Nat) /\ Len(Packets(st, d)) \in Nat
                /\ st.dfiles[d].chunk \in Nat /\ st.dfiles[d].index \in Nat
           /\ \A k \in 1 .. Len(st.ifiles) :
                /\ Entries(st, k) \in Seq([seq : Nat, offset : Nat])
                /\ Len(Entries(st, k)) \in Nat
                /\ st.ifiles[k].chunk \in Nat /\ st.ifiles[k].index \in Nat
<1>1. st.dfiles \in Seq(DataFile) /\ st.ifiles \in Seq(IndexFile)
  BY DEF RelayStream
<1>2. ASSUME NEW d \in 1 .. Len(st.dfiles)
      PROVE  /\ Packets(st, d) \in Seq(Nat)
             /\ st.dfiles[d].chunk \in Nat /\ st.dfiles[d].index \in Nat
  <2>1. st.dfiles[d] \in DataFile
    BY <1>1
  <2> QED
    BY <2>1 DEF DataFile, Packets
<1>3. ASSUME NEW k \in 1 .. Len(st.ifiles)
      PROVE  /\ Entries(st, k) \in Seq([seq : Nat, offset : Nat])
             /\ st.ifiles[k].chunk \in Nat /\ st.ifiles[k].index \in Nat
  <2>1. st.ifiles[k] \in IndexFile
    BY <1>1
  <2> QED
    BY <2>1 DEF IndexFile, Entries
<1> QED
  BY <1>1, <1>2, <1>3

LEMMA RunBounds ==
    ASSUME NEW p \in Seq(Nat), NEW rec \in Nat, Run(p, rec), Len(p) > 0
    PROVE  /\ Len(p) \in Nat /\ p[1] \in Nat
           /\ p[1] + Len(p) <= rec
           /\ p[Len(p)] = p[1] + Len(p) - 1
           /\ \A i \in 1 .. Len(p) : p[i] = p[1] + i - 1
  BY DEF Run

LEMMA RunGrows ==
    ASSUME NEW p \in Seq(Nat), NEW rec \in Nat, Run(p, rec),
           Len(p) > 0 => p[Len(p)] = rec - 1
    PROVE  /\ Run(Append(p, rec), rec + 1)
           /\ Len(Append(p, rec)) = Len(p) + 1 /\ Len(p) \in Nat
           /\ Append(p, rec)[1] = IF Len(p) = 0 THEN rec ELSE p[1]
           /\ Append(p, rec)[1] + Len(p) = rec
           /\ Append(p, rec)[1] \in Nat
<1> DEFINE q == Append(p, rec)
<1>1. /\ Len(p) \in Nat /\ Len(q) = Len(p) + 1 /\ q[Len(p) + 1] = rec
      /\ \A i \in 1 .. Len(p) : q[i] = p[i]
  BY AppendElements
<1> HIDE DEF q
<1>2. CASE Len(p) = 0
  BY <1>1, <1>2 DEF Run, q
<1>3. CASE Len(p) > 0
  <2>1. /\ p[1] \in Nat /\ p[1] + Len(p) = rec
        /\ \A i \in 1 .. Len(p) : p[i] = p[1] + i - 1
    <3>1. /\ p[1] \in Nat /\ p[Len(p)] = p[1] + Len(p) - 1
          /\ \A i \in 1 .. Len(p) : p[i] = p[1] + i - 1
      BY <1>3, RunBounds
    <3> QED
      BY <1>1, <1>3, <3>1
  <2>2. q[1] = p[1]
    BY <1>1, <1>3
  <2>3. ASSUME NEW i \in 1 .. Len(q)
        PROVE  q[i] = q[1] + i - 1 /\ q[i] < rec + 1
    <3>1. CASE i = Len(p) + 1
      BY <1>1, <2>1, <2>2, <3>1
    <3>2. CASE i \in 1 .. Len(p)
      <4>1. q[i] = p[i] /\ p[i] = p[1] + i - 1
        BY <1>1, <2>1, <3>2
      <4> QED
        BY <1>1, <2>1, <2>2, <3>2, <4>1
    <3>3. i = Len(p) + 1 \/ i \in 1 .. Len(p)
      BY <1>1
    <3> QED
      BY <3>1, <3>2, <3>3
  <2>4. Run(q, rec + 1)
    BY <2>3 DEF Run
  <2>5. /\ Len(q) = Len(p) + 1 /\ Len(p) \in Nat
        /\ q[1] = IF Len(p) = 0 THEN rec ELSE p[1]
        /\ q[1] + Len(p) = rec /\ q[1] \in Nat
    BY <1>1, <1>3, <2>1, <2>2
  <2> QED
    BY <2>4, <2>5 DEF q
<1> QED
  BY <1>1, <1>2, <1>3

\* Writing the next packet and its index keeps the files as they have to be.
LEMMA WrittenFiles ==
    ASSUME NEW st \in RelayStream, NEW w \in RelayStream, NEW rec \in Nat, NEW a,
           NEW op, FilesOK(st, rec), CurrentOK(a, rec, op, st),
           st.file # NoFile, st.file \in 1 .. Len(st.dfiles), HeadOf(a) = FileHead,
           SameRotation(st, w), DataWritten(st, w, rec), IndexWritten(st, w, rec)
    PROVE  /\ FilesOK(w, rec + 1)
           /\ Paired(w, w.index_file, st.file)
           /\ w.index_file = Len(w.ifiles) /\ w.index_file # NoFile
           /\ Packets(w, st.file)[1] =
                IF Len(Packets(st, st.file)) = 0 THEN rec ELSE Packets(st, st.file)[1]
           /\ Packets(w, st.file)[1] + Len(Packets(w, st.file)) = rec + 1
           /\ Len(Packets(w, st.file)) = Len(Packets(st, st.file)) + 1
<1> DEFINE n == st.file
           k == w.index_file
           p == Packets(st, n)
           q == Packets(w, n)
           D == 1 .. Len(st.dfiles)
           I == 1 .. Len(st.ifiles)
<1>1. /\ Len(st.dfiles) \in Nat /\ Len(st.ifiles) \in Nat
      /\ \A d \in D : Packets(st, d) \in Seq(Nat) /\ Len(Packets(st, d)) \in Nat
      /\ \A j \in I : /\ Entries(st, j) \in Seq([seq : Nat, offset : Nat])
                      /\ Len(Entries(st, j)) \in Nat
  BY FileTypes
<1>2. /\ Len(w.dfiles) = Len(st.dfiles)
      /\ \A d \in D : /\ w.dfiles[d].chunk = st.dfiles[d].chunk
                      /\ w.dfiles[d].index = st.dfiles[d].index
                      /\ d # n => Packets(w, d) = Packets(st, d)
      /\ q = Append(p, rec)
  BY DEF DataWritten
<1>3. /\ Len(p) = 0 <=> OpensIndex(st)
      /\ Len(p) > 0 => /\ p[Len(p)] = rec - 1
                       /\ st.index_file = Len(st.ifiles)
                       /\ Paired(st, st.index_file, n)
      /\ n = Len(st.dfiles)
      /\ st.dfiles[n].chunk = st.trace_chunk /\ st.dfiles[n].index = FileHead
  BY DEF CurrentOK, OpensIndex, RingChunk, LastFile
<1>4. /\ Run(q, rec + 1) /\ Len(q) = Len(p) + 1 /\ Len(p) \in Nat
      /\ q[1] = IF Len(p) = 0 THEN rec ELSE p[1]
      /\ q[1] + Len(p) = rec /\ q[1] \in Nat
  <2>1. p \in Seq(Nat) /\ Run(p, rec)
    BY <1>1 DEF FilesOK
  <2> HIDE DEF p
  <2> QED
    BY <1>2, <1>3, <2>1, RunGrows
<1>5. \A i \in 1 .. Len(p) : q[i] = p[i]
  BY <1>1, <1>2, AppendElements
<1>6. q[Len(q)] = rec
  BY <1>1, <1>2, <1>4, AppendElements
<1>7. /\ k = Len(w.ifiles) /\ k \in Nat /\ k > 0
      /\ I \subseteq 1 .. k
      /\ \A j \in 1 .. k : j # k => j \in I
  <2>1. CASE OpensIndex(st)
    BY <1>1, <2>1 DEF IndexWritten
  <2>2. CASE ~OpensIndex(st)
    <3>1. st.index_file = Len(st.ifiles) /\ st.index_file \in I
      BY <1>3, <1>4, <2>2 DEF Paired
    <3> QED
      BY <1>1, <2>2, <3>1 DEF IndexWritten
  <2> QED
    BY <2>1, <2>2
<1>8. \A j \in I : /\ w.ifiles[j].chunk = st.ifiles[j].chunk
                   /\ w.ifiles[j].index = st.ifiles[j].index
                   /\ j # k => Entries(w, j) = Entries(st, j)
  BY DEF IndexWritten
<1>9. ASSUME ~OpensIndex(st)
      PROVE  /\ k \in I /\ k = st.index_file /\ Len(p) > 0 /\ Paired(st, k, n)
             /\ Entries(w, k) = Append(Entries(st, k), NewEntry(st, rec))
  BY <1>3, <1>4, <1>9 DEF IndexWritten, Paired
<1>10. ASSUME OpensIndex(st)
       PROVE  /\ k \notin I /\ Len(p) = 0
              /\ w.ifiles[k].chunk = st.trace_chunk /\ w.ifiles[k].index = FileHead
              /\ Len(Entries(w, k)) = 1 /\ Entries(w, k)[1] = NewEntry(st, rec)
  BY <1>1, <1>3, <1>10 DEF IndexWritten
<1>11. NewEntry(st, rec).seq = rec /\ NewEntry(st, rec).offset = Len(p) + 1
       /\ NewEntry(st, rec) \in [seq : Nat, offset : Nat]
  BY <1>4 DEF NewEntry
<1>12. Paired(w, k, n)
  <2>1. CASE OpensIndex(st)
    <3>1. Len(q) = 1 /\ q[1] = rec
      BY <1>4, <1>10, <2>1
    <3>2. /\ Len(Entries(w, k)) = Len(q)
          /\ Entries(w, k)[1].seq = q[1] /\ Entries(w, k)[1].offset = 1
      BY <1>10, <1>11, <2>1, <3>1
    <3>3. \A i \in 1 .. Len(q) : Entries(w, k)[i].seq = q[i] /\ Entries(w, k)[i].offset = i
      BY <3>1, <3>2
    <3>4. /\ k \in 1 .. Len(w.ifiles) /\ n \in 1 .. Len(w.dfiles)
          /\ w.ifiles[k].chunk = w.dfiles[n].chunk
          /\ w.ifiles[k].index = w.dfiles[n].index
      BY <1>2, <1>3, <1>7, <1>10, <2>1
    <3> QED
      BY <3>2, <3>3, <3>4 DEF Paired
  <2>2. CASE ~OpensIndex(st)
    <3>1. /\ Len(Entries(w, k)) = Len(Entries(st, k)) + 1
          /\ Entries(w, k)[Len(Entries(st, k)) + 1] = NewEntry(st, rec)
          /\ \A i \in 1 .. Len(Entries(st, k)) : Entries(w, k)[i] = Entries(st, k)[i]
      <4>1. /\ Entries(w, k) = Append(Entries(st, k), NewEntry(st, rec))
            /\ NewEntry(st, rec) \in [seq : Nat, offset : Nat]
        BY Zenon, <1>9, <1>11, <2>2
      <4>2. Entries(st, k) \in Seq([seq : Nat, offset : Nat])
        BY <1>1, <1>9, <2>2
      <4> QED
        BY <4>1, <4>2, AppendElements
    <3>2. Len(Entries(st, k)) = Len(p)
      BY <1>9, <2>2 DEF Paired
    <3>3. ASSUME NEW i \in 1 .. Len(q)
          PROVE  Entries(w, k)[i].seq = q[i] /\ Entries(w, k)[i].offset = i
      <4>1. CASE i = Len(p) + 1
        BY <1>4, <1>6, <1>11, <3>1, <3>2, <4>1
      <4>2. CASE i \in 1 .. Len(p)
        BY <1>5, <1>9, <2>2, <3>1, <3>2, <4>2 DEF Paired
      <4>3. i = Len(p) + 1 \/ i \in 1 .. Len(p)
        BY <1>4
      <4> QED
        BY <4>1, <4>2, <4>3
    <3> QED
      BY Zenon, <1>2, <1>4, <1>7, <1>8, <1>9, <2>2, <3>1, <3>2, <3>3 DEF Paired
  <2> QED
    BY <2>1, <2>2
<1>13. \A j \in I : \A d : Paired(st, j, d) =>
         /\ d \in D /\ Len(Packets(st, d)) > 0
         /\ Entries(st, j)[1].seq = Packets(st, d)[1]
         /\ Packets(st, d)[1] \in Nat /\ Packets(st, d)[1] < rec
  <2> SUFFICES ASSUME NEW j \in I, NEW d, Paired(st, j, d)
               PROVE  /\ d \in D /\ Len(Packets(st, d)) > 0
                      /\ Entries(st, j)[1].seq = Packets(st, d)[1]
                      /\ Packets(st, d)[1] \in Nat /\ Packets(st, d)[1] < rec
    OBVIOUS
  <2>1. d \in D /\ Len(Packets(st, d)) > 0
    BY DEF Paired, FilesOK
  <2>2. Entries(st, j)[1].seq = Packets(st, d)[1]
    <3>1. 1 \in 1 .. Len(Packets(st, d))
      BY <1>1, <2>1
    <3> QED
      BY <3>1 DEF Paired
  <2>3. Run(Packets(st, d), rec) /\ Packets(st, d) \in Seq(Nat)
    BY <1>1, <2>1 DEF FilesOK
  <2>4. Packets(st, d)[1] \in Nat /\ Packets(st, d)[1] < rec
    BY <2>1, <2>3, RunBounds
  <2> QED
    BY <2>1, <2>2, <2>4
<1>14. ASSUME NEW j \in I, j # k, NEW d, Paired(st, j, d)
       PROVE  Paired(w, j, d)
  <2>1. d # n
    <3> SUFFICES ASSUME d = n PROVE FALSE
      OBVIOUS
    <3>1. ~OpensIndex(st)
      BY <1>3, <1>13, <1>14
    <3>2. j < k /\ k \in I /\ Paired(st, k, n)
      BY <1>1, <1>3, <1>9, <1>14, <3>1
    <3>3. Entries(st, j)[1].seq = p[1] /\ Entries(st, k)[1].seq = p[1] /\ p[1] \in Nat
      BY <1>13, <1>14, <3>2
    <3>4. Entries(st, j)[1].seq < Entries(st, k)[1].seq
      BY <3>2 DEF FilesOK
    <3> QED
      BY <3>3, <3>4
  <2>2. d \in D
    BY <1>14 DEF Paired
  <2> QED
    BY Zenon, <1>2, <1>7, <1>8, <1>14, <2>1, <2>2 DEF Paired
<1>15. ASSUME NEW d \in D, d # n, NEW j, Paired(st, j, d), Len(Packets(st, d)) > 0
       PROVE  j # k
  <2> SUFFICES ASSUME j = k PROVE FALSE
    OBVIOUS
  <2>1. j \in I
    BY <1>15 DEF Paired
  <2>2. ~OpensIndex(st)
    BY <1>10, <2>1
  <2>3. Paired(st, k, n) /\ Len(p) > 0
    BY <1>9, <2>2
  <2>4. Packets(st, d)[1] = p[1] /\ p[1] \in Nat
    BY <1>13, <1>15, <2>1, <2>3
  <2>5. Packets(st, d)[1] + Len(Packets(st, d)) <= p[1]
    <3>1. d < n
      BY <1>1, <1>3, <1>15
    <3> QED
      BY <1>15, <2>3, <3>1 DEF FilesOK
  <2> QED
    BY <1>1, <1>15, <2>4, <2>5
<1>16. \A j \in I : Entries(w, j)[1] = Entries(st, j)[1] /\ Len(Entries(w, j)) > 0
  <2> SUFFICES ASSUME NEW j \in I
               PROVE  Entries(w, j)[1] = Entries(st, j)[1] /\ Len(Entries(w, j)) > 0
    OBVIOUS
  <2>1. Len(Entries(st, j)) > 0
    BY DEF FilesOK
  <2>2. CASE j # k
    BY <1>8, <2>1, <2>2
  <2>3. CASE j = k
    <3>1. ~OpensIndex(st)
      BY <1>10, <2>3
    <3>2. Entries(w, k) = Append(Entries(st, k), NewEntry(st, rec))
      BY <1>9, <3>1
    <3> QED
      BY <1>1, <1>11, <2>1, <2>3, <3>2, AppendElements
  <2> QED
    BY <2>2, <2>3
<1>17. \A d \in 1 .. Len(w.dfiles) : Run(Packets(w, d), rec + 1)
  <2> SUFFICES ASSUME NEW d \in D PROVE Run(Packets(w, d), rec + 1)
    BY <1>2
  <2>1. CASE d = n
    BY <1>4, <2>1
  <2>2. CASE d # n
    <3>1. Packets(w, d) = Packets(st, d) /\ Run(Packets(st, d), rec)
          /\ Packets(st, d) \in Seq(Nat)
      BY <1>1, <1>2, <2>2 DEF FilesOK
    <3>2. \A i \in 1 .. Len(Packets(st, d)) : Packets(st, d)[i] \in Nat
      BY <3>1
    <3> QED
      BY <3>1, <3>2 DEF Run
  <2> QED
    BY <2>1, <2>2
<1>18. ASSUME NEW d \in D, NEW e \in D, d < e,
              Len(Packets(w, d)) > 0, Len(Packets(w, e)) > 0
       PROVE  Packets(w, d)[1] + Len(Packets(w, d)) <= Packets(w, e)[1]
  <2>1. d # n /\ Packets(w, d) = Packets(st, d)
    BY <1>1, <1>2, <1>3, <1>18
  <2>2. CASE e # n
    BY <1>2, <1>18, <2>1, <2>2 DEF FilesOK
  <2>3. CASE e = n
    <3>1. CASE Len(p) = 0
      <4>1. Packets(st, d)[1] + Len(Packets(st, d)) <= rec
        BY <1>1, <1>18, <2>1, RunBounds DEF FilesOK
      <4> QED
        BY <1>4, <2>1, <2>3, <3>1, <4>1
    <3>2. CASE Len(p) > 0
      <4>1. Packets(st, d)[1] + Len(Packets(st, d)) <= p[1]
        BY <1>18, <2>1, <2>3, <3>2 DEF FilesOK
      <4> QED
        BY <1>4, <2>1, <2>3, <3>2, <4>1
    <3> QED
      BY <1>4, <3>1, <3>2
  <2> QED
    BY <2>2, <2>3
<1>19. ASSUME NEW j \in 1 .. Len(w.ifiles)
       PROVE  Len(Entries(w, j)) > 0 /\ \E d : Paired(w, j, d)
  <2>1. CASE j = k
    <3>1. Len(Entries(w, k)) = Len(q)
      BY <1>12 DEF Paired
    <3> QED
      BY <1>4, <1>12, <2>1, <3>1
  <2>2. CASE j # k
    <3>1. j \in I
      BY <1>7, <1>19, <2>2
    <3>2. PICK d : Paired(st, j, d)
      BY <3>1 DEF FilesOK
    <3> QED
      BY <1>14, <1>16, <2>2, <3>1, <3>2
  <2> QED
    BY <2>1, <2>2
<1>20. ASSUME NEW d \in D, Len(Packets(w, d)) > 0
       PROVE  \E j : Paired(w, j, d)
  <2>1. CASE d = n
    BY <1>12, <2>1
  <2>2. CASE d # n
    <3>1. Len(Packets(st, d)) > 0
      BY <1>2, <1>20, <2>2
    <3>2. PICK j : Paired(st, j, d)
      BY <3>1 DEF FilesOK
    <3>3. j # k /\ j \in I
      BY Zenon, <1>15, <2>2, <3>1, <3>2 DEF Paired
    <3> QED
      BY <1>14, <3>2, <3>3
  <2> QED
    BY <2>1, <2>2
<1>21. ASSUME NEW i \in 1 .. Len(w.ifiles), NEW j \in 1 .. Len(w.ifiles), i < j
       PROVE  Entries(w, i)[1].seq < Entries(w, j)[1].seq
  <2>1. i \in I
    BY <1>7, <1>21
  <2>2. Entries(w, i)[1] = Entries(st, i)[1]
    BY <1>16, <2>1
  <2>3. CASE j \in I
    <3>1. Entries(w, j)[1] = Entries(st, j)[1]
      BY <1>16, <2>3
    <3> QED
      BY <1>21, <2>1, <2>2, <2>3, <3>1 DEF FilesOK
  <2>4. CASE j \notin I
    <3>1. j = k /\ OpensIndex(st)
      BY <1>7, <1>9, <1>21, <2>4
    <3>2. Entries(w, j)[1].seq = rec
      BY <1>10, <1>11, <3>1
    <3>3. PICK d : Paired(st, i, d)
      BY <2>1 DEF FilesOK
    <3> QED
      BY <1>13, <2>1, <2>2, <3>2, <3>3
  <2> QED
    BY <2>3, <2>4
<1>22. FilesOK(w, rec + 1)
  BY <1>2, <1>17, <1>18, <1>19, <1>20, <1>21 DEF FilesOK
<1> QED
  BY <1>4, <1>7, <1>12, <1>22 DEF NoFile

LEMMA WrittenChunks ==
    ASSUME NEW st \in RelayStream, NEW w \in RelayStream, NEW rec \in Nat, NEW se,
           ChunksOK(st, se), st.file = LastFile(st),
           SameRotation(st, w), ~w.rotate_index, DataWritten(st, w, rec)
    PROVE  /\ ChunksOK(w, se)
           /\ RingChunk(w) = RingChunk(st) /\ LastFile(w) = LastFile(st)
<1>1. LastFile(w) = LastFile(st) /\ LastFile(st) \in 1 .. LastFile(st)
  BY FileTypes DEF DataWritten, LastFile, ChunksOK
<1>2. \A d \in 1 .. LastFile(st) :
        /\ w.dfiles[d].chunk = st.dfiles[d].chunk
        /\ d # LastFile(st) => Packets(w, d) = Packets(st, d)
  BY DEF DataWritten, LastFile
<1>3. RingChunk(w) = RingChunk(st)
  BY <1>1, <1>2 DEF RingChunk
<1>4. Len(Packets(w, LastFile(st))) # 0
  <2>1. Packets(w, LastFile(st)) = Append(Packets(st, LastFile(st)), rec)
        /\ Packets(st, LastFile(st)) \in Seq(Nat)
    BY <1>1, FileTypes DEF DataWritten, LastFile
  <2> QED
    BY <2>1, AppendElements
<1> QED
  BY <1>1, <1>2, <1>3, <1>4 DEF ChunksOK, SameRotation

\* What the relay side keeps of a stream, its files and the array.
Relay(a, rec, op, st, se) ==
    /\ st \in RelayStream
    /\ FilesOK(st, rec) /\ ChunksOK(st, se)
    /\ CurrentOK(a, rec, op, st) /\ RingFiles(a, rec, st)

\* A packet is written: what holds of its files whatever becomes of the array.
LEMMA WrittenStep ==
    ASSUME IInv, NEW st, NEW se, Relay(tfa, received, open, st, se), open
    PROVE  LET w == Written(st)
           IN  /\ w \in RelayStream /\ FilesOK(w, received + 1) /\ ChunksOK(w, se)
               /\ st.file = LastFile(st) /\ st.file \in 1 .. LastFile(st)
               /\ st.file # NoFile /\ ~st.closed
               /\ LastFile(w) = LastFile(st) /\ RingChunk(w) = RingChunk(st)
               /\ SameRotation(st, w) /\ ~w.rotate_index
               /\ DataWritten(st, w, received) /\ IndexWritten(st, w, received)
               /\ Paired(w, w.index_file, st.file)
               /\ w.index_file = Len(w.ifiles) /\ w.index_file # NoFile
               /\ Packets(w, st.file)[1] =
                    IF Len(Packets(st, st.file)) = 0 THEN received
                    ELSE Packets(st, st.file)[1]
               /\ Packets(w, st.file)[1] + Len(Packets(w, st.file)) = received + 1
               /\ Len(Packets(w, st.file)) = Len(Packets(st, st.file)) + 1
<1> DEFINE w == Written(st)
<1>1. /\ st \in RelayStream /\ FilesOK(st, received) /\ ChunksOK(st, se)
      /\ CurrentOK(tfa, received, open, st) /\ received \in Nat
  BY DEF Relay, IInv, TypeOK
<1>2. /\ st.file # NoFile /\ st.file = LastFile(st) /\ ~st.closed
      /\ st.file \in 1 .. Len(st.dfiles)
  BY <1>1, FileTypes DEF CurrentOK, ChunksOK, LastFile, NoFile
<1>3. FileHead \in Nat /\ HeadOf(tfa) = FileHead
  BY DEF FileHead, HeadOf, IInv, TypeOK, TracefileArrayType
<1>4. OpensIndex(st) \/ st.index_file \in 1 .. Len(st.ifiles)
  <2>1. Len(Packets(st, st.file)) \in Nat
    BY <1>1, <1>2, FileTypes
  <2>2. CASE Len(Packets(st, st.file)) = 0
    BY <1>1, <1>2, <2>2 DEF CurrentOK, OpensIndex
  <2>3. CASE Len(Packets(st, st.file)) > 0
    BY <1>1, <1>2, <2>3 DEF CurrentOK, Paired
  <2> QED
    BY <2>1, <2>2, <2>3
<1>5. /\ w \in RelayStream /\ SameRotation(st, w) /\ ~w.rotate_index
      /\ DataWritten(st, w, received) /\ IndexWritten(st, w, received)
  BY <1>1, <1>2, <1>3, <1>4, WrittenEffect
<1> HIDE DEF w
<1>6. /\ FilesOK(w, received + 1)
      /\ Paired(w, w.index_file, st.file)
      /\ w.index_file = Len(w.ifiles) /\ w.index_file # NoFile
      /\ Packets(w, st.file)[1] =
           IF Len(Packets(st, st.file)) = 0 THEN received
           ELSE Packets(st, st.file)[1]
      /\ Packets(w, st.file)[1] + Len(Packets(w, st.file)) = received + 1
      /\ Len(Packets(w, st.file)) = Len(Packets(st, st.file)) + 1
  BY Zenon, <1>1, <1>2, <1>3, <1>5, WrittenFiles
<1>7. ChunksOK(w, se) /\ RingChunk(w) = RingChunk(st) /\ LastFile(w) = LastFile(st)
  BY <1>1, <1>2, <1>5, WrittenChunks
<1> QED
  BY <1>2, <1>5, <1>6, <1>7 DEF w, LastFile

LEMMA WrittenRelay ==
    ASSUME IInv, NEW st, NEW se, Relay(tfa, received, open, st, se), FlushIndex
    PROVE  Relay(tfa', received', FALSE, Written(st), se)
<1> DEFINE w == Written(st)
           n == st.file
           p == Packets(st, n)
           q == Packets(w, n)
<1>0. open
  BY DEF FlushIndex
<1>1. /\ w \in RelayStream /\ FilesOK(w, received + 1) /\ ChunksOK(w, se)
      /\ n = LastFile(st) /\ n \in 1 .. LastFile(st)
      /\ n # NoFile /\ ~st.closed
      /\ LastFile(w) = LastFile(st) /\ RingChunk(w) = RingChunk(st)
      /\ SameRotation(st, w) /\ ~w.rotate_index
      /\ DataWritten(st, w, received)
      /\ Paired(w, w.index_file, n)
      /\ w.index_file = Len(w.ifiles) /\ w.index_file # NoFile
      /\ q[1] = IF Len(p) = 0 THEN received ELSE p[1]
      /\ q[1] + Len(q) = received + 1
      /\ Len(q) = Len(p) + 1
  BY Zenon, <1>0, WrittenStep
<1> HIDE DEF w
<1>2. /\ st \in RelayStream /\ CurrentOK(tfa, received, open, st)
      /\ RingFiles(tfa, received, st) /\ received \in Nat
      /\ FilesOK(st, received)
  BY DEF Relay, IInv, TypeOK
<1>3. /\ received' = received + 1 /\ tfa'.seq_head = received
      /\ HeadOf(tfa') = HeadOf(tfa) /\ HeadOf(tfa) \in RingIds
      /\ RangeOf(tfa', HeadOf(tfa)).seq_head = received
      /\ RangeOf(tfa', HeadOf(tfa)).seq_tail =
           IF RangeOf(tfa, HeadOf(tfa)).seq_tail = Unset
           THEN received ELSE RangeOf(tfa, HeadOf(tfa)).seq_tail
      /\ \A f \in RingIds \ {HeadOf(tfa)} : RangeOf(tfa', f) = RangeOf(tfa, f)
  BY FlushEffect
<1>4. /\ st.trace_chunk = RingChunk(st) /\ st.dfiles[n].index = HeadOf(tfa)
      /\ st.trace_chunk # NoChunk
      /\ Len(p) > 0 => RangeOf(tfa, HeadOf(tfa)).seq_tail # Unset
      /\ Len(p) \in Nat /\ Len(q) \in Nat /\ q \in Seq(Nat) /\ p \in Seq(Nat)
      /\ Run(q, received + 1)
  <2>1. q \in Seq(Nat) /\ p \in Seq(Nat) /\ Len(p) \in Nat /\ Len(q) \in Nat
    BY <1>1, <1>2, FileTypes DEF LastFile
  <2> QED
    BY Zenon, <1>1, <1>2, <2>1 DEF CurrentOK, FilesOK, LastFile
<1>5. q[Len(q)] = received /\ q[1] \in Nat
  <2>1. Len(q) > 0 /\ received + 1 \in Nat
    BY <1>1, <1>2, <1>4
  <2>2. q[1] \in Nat /\ q[Len(q)] = q[1] + Len(q) - 1
    BY <1>4, <2>1, RunBounds
  <2> QED
    BY <1>1, <1>2, <1>4, <2>2
<1>6. \A d \in 1 .. LastFile(st) :
        /\ w.dfiles[d].chunk = st.dfiles[d].chunk
        /\ w.dfiles[d].index = st.dfiles[d].index
        /\ d # n => Packets(w, d) = Packets(st, d)
  BY <1>1 DEF DataWritten, LastFile
<1>7. RangeOf(tfa', HeadOf(tfa)).seq_tail # Unset
  BY <1>2, <1>3 DEF Unset
<1>8. CurrentOK(tfa', received', FALSE, w)
  <2>1. tfa'.seq_head # received'
    BY <1>2, <1>3
  <2>2. w.file = n /\ w.trace_chunk = st.trace_chunk /\ w.closed = st.closed
    BY <1>1 DEF SameRotation
  <2>3. w.dfiles[n].index = HeadOf(tfa')
    BY <1>1, <1>3, <1>4, <1>6
  <2>4. Len(q) > 0 /\ Len(q) # 0 /\ q[Len(q)] = received' - 1
    BY <1>1, <1>2, <1>3, <1>4, <1>5
  <2> QED
    BY <1>1, <1>3, <1>4, <1>7, <2>1, <2>2, <2>3, <2>4 DEF CurrentOK
<1>9. \A d \in 1 .. LastFile(st) : Latest(st, d) => Latest(w, d)
  BY <1>1, <1>6 DEF Latest
<1>10. ASSUME NEW f \in RingIds, RangeOf(tfa', f).seq_tail # Unset
       PROVE  \E d : Holds(tfa', received', w, d, f)
  <2>1. CASE f = HeadOf(tfa)
    <3>1. RangeOf(tfa', f).seq_tail = q[1]
      <4>1. CASE RangeOf(tfa, f).seq_tail = Unset
        BY <1>1, <1>3, <1>4, <2>1, <4>1
      <4>2. CASE RangeOf(tfa, f).seq_tail # Unset
        <5>1. PICK d : Holds(tfa, received, st, d, f)
          BY <1>2, <4>2 DEF RingFiles
        <5>2. d = n
          <6>1. /\ d \in 1 .. LastFile(st) /\ Latest(st, d)
                /\ st.dfiles[d].chunk = st.dfiles[n].chunk
                /\ st.dfiles[d].index = st.dfiles[n].index
            BY <1>1, <1>4, <2>1, <5>1 DEF Holds, RingChunk
          <6>2. ~(n > d)
            BY <1>1, <6>1 DEF Latest
          <6> QED
            BY <1>1, <1>2, <6>1, <6>2, FileTypes DEF LastFile
        <5> QED
          BY <1>1, <1>3, <1>4, <2>1, <4>2, <5>1, <5>2 DEF Holds
      <4> QED
        BY <4>1, <4>2
    <3>2. RangeOf(tfa', f).seq_head = q[1] + Len(q) - 1
      <4>1. q[1] + Len(q) - 1 = received
        <5>1. q[1] + Len(q) = received + 1
          BY <1>1
        <5>2. q[1] \in Nat /\ Len(q) \in Nat /\ received \in Nat
          BY <1>2, <1>4, <1>5
        <5>3. \A x, y, z \in Nat : x + y = z + 1 => x + y - 1 = z
          OBVIOUS
        <5> HIDE DEF q
        <5> QED
          BY <5>1, <5>2, <5>3
      <4> QED
        BY <1>3, <2>1, <4>1
    <3>3. Latest(w, n)
      BY <1>1, <1>2, FileTypes DEF Latest, LastFile
    <3>4. Len(q) > 0
      BY <1>1, <1>4
    <3>5. /\ n \in 1 .. LastFile(w) /\ w.dfiles[n].index = f
          /\ w.dfiles[n].chunk = RingChunk(w)
      BY <1>1, <1>4, <1>6, <2>1 DEF RingChunk
    <3>6. Holds(tfa', received', w, n, f)
      BY <3>1, <3>2, <3>3, <3>4, <3>5 DEF Holds
    <3> QED
      BY <3>6
  <2>2. CASE f # HeadOf(tfa)
    <3>1. RangeOf(tfa', f) = RangeOf(tfa, f)
      BY <1>3, <2>2
    <3>2. PICK d : Holds(tfa, received, st, d, f)
      BY <1>2, <1>10, <3>1 DEF RingFiles
    <3>3. d # n
      BY <1>4, <2>2, <3>2 DEF Holds
    <3>4. Holds(tfa', received', w, d, f)
      BY <1>1, <1>6, <1>9, <3>1, <3>2, <3>3 DEF Holds
    <3> QED
      BY <3>4
  <2> QED
    BY <2>1, <2>2
<1> QED
  BY Zenon, <1>1, <1>3, <1>8, <1>10 DEF Relay, RingFiles, w

-----------------------------------------------------------------------------
\* A data file is added.
\* An empty data file is created after the others.
DataAppended(st, r, chunk, index) ==
    /\ Len(r.dfiles) = Len(st.dfiles) + 1
    /\ \A d \in 1 .. Len(st.dfiles) : r.dfiles[d] = st.dfiles[d]
    /\ r.dfiles[Len(st.dfiles) + 1] = File(chunk, index)
    /\ r.ifiles = st.ifiles

LEMMA AppendedFiles ==
    ASSUME NEW st \in RelayStream, NEW r \in RelayStream, NEW rec \in Nat,
           NEW chunk, NEW index, DataAppended(st, r, chunk, index), FilesOK(st, rec)
    PROVE  /\ FilesOK(r, rec)
           /\ LastFile(r) = LastFile(st) + 1 /\ RingChunk(r) = chunk
           /\ Packets(r, LastFile(r)) = <<>> /\ Len(Packets(r, LastFile(r))) = 0
           /\ r.dfiles[LastFile(r)].index = index
           /\ \A d \in 1 .. LastFile(st) :
                /\ r.dfiles[d].chunk = st.dfiles[d].chunk
                /\ r.dfiles[d].index = st.dfiles[d].index
                /\ Packets(r, d) = Packets(st, d)
           /\ \A k, d : Paired(st, k, d) => Paired(r, k, d)
<1> DEFINE n == LastFile(st)
<1>1. n \in Nat /\ LastFile(r) = n + 1 /\ r.ifiles = st.ifiles
  BY FileTypes DEF LastFile, DataAppended
<1>2. \A d \in 1 .. n : /\ r.dfiles[d].chunk = st.dfiles[d].chunk
                        /\ r.dfiles[d].index = st.dfiles[d].index
                        /\ Packets(r, d) = Packets(st, d)
  BY DEF DataAppended, Packets, LastFile
<1>3. /\ RingChunk(r) = chunk /\ r.dfiles[n + 1].index = index
      /\ Packets(r, n + 1) = <<>> /\ Len(Packets(r, n + 1)) = 0
  BY <1>1 DEF DataAppended, Packets, LastFile, RingChunk, File
<1>4. \A k : Entries(r, k) = Entries(st, k)
  BY <1>1 DEF Entries
<1>5. \A k, d : Paired(st, k, d) => Paired(r, k, d)
  <2> SUFFICES ASSUME NEW k, NEW d, Paired(st, k, d) PROVE Paired(r, k, d)
    OBVIOUS
  <2>1. d \in 1 .. n /\ d \in 1 .. n + 1
    BY <1>1 DEF Paired, LastFile
  <2> QED
    BY <1>1, <1>2, <1>4, <2>1 DEF Paired, LastFile
<1>6. ASSUME NEW d \in 1 .. n + 1, Len(Packets(r, d)) > 0
      PROVE  d \in 1 .. n
  BY <1>1, <1>3, <1>6
<1>7. \A d \in 1 .. n + 1 : Run(Packets(r, d), rec)
  <2> SUFFICES ASSUME NEW d \in 1 .. n + 1 PROVE Run(Packets(r, d), rec)
    OBVIOUS
  <2>1. CASE d \in 1 .. n
    BY <1>2, <2>1 DEF FilesOK, LastFile
  <2>2. CASE d = n + 1
    BY <1>3, <2>2 DEF Run
  <2> QED
    BY <1>1, <2>1, <2>2
<1>8. ASSUME NEW d \in 1 .. n + 1, NEW e \in 1 .. n + 1, d < e,
             Len(Packets(r, d)) > 0, Len(Packets(r, e)) > 0
      PROVE  Packets(r, d)[1] + Len(Packets(r, d)) <= Packets(r, e)[1]
  <2>1. d \in 1 .. n /\ e \in 1 .. n
    BY <1>6, <1>8
  <2> QED
    BY <1>2, <1>8, <2>1 DEF FilesOK, LastFile
<1>9. ASSUME NEW d \in 1 .. n + 1, Len(Packets(r, d)) > 0
      PROVE  \E k : Paired(r, k, d)
  <2>1. d \in 1 .. n
    BY <1>6, <1>9
  <2>2. Len(Packets(st, d)) > 0
    BY <1>2, <1>9, <2>1
  <2> QED
    BY <1>5, <2>1, <2>2 DEF FilesOK, LastFile
<1>10. \A k \in 1 .. Len(st.ifiles) :
         Len(Entries(st, k)) > 0 /\ \E d : Paired(r, k, d)
  BY <1>5 DEF FilesOK
<1>11. \A k, l \in 1 .. Len(st.ifiles) :
         k < l => Entries(st, k)[1].seq < Entries(st, l)[1].seq
  BY DEF FilesOK
<1>12. FilesOK(r, rec)
  <2>1. Len(r.dfiles) = n + 1
    BY <1>1 DEF LastFile
  <2> QED
    BY <1>1, <1>4, <1>7, <1>8, <1>9, <1>10, <1>11, <2>1 DEF FilesOK
<1> QED
  BY <1>1, <1>2, <1>3, <1>5, <1>12

AppendedTo(st, r, chunk, index) ==
    /\ LastFile(r) = LastFile(st) + 1 /\ RingChunk(r) = chunk
    /\ Len(Packets(r, LastFile(st) + 1)) = 0
    /\ r.dfiles[LastFile(st) + 1].index = index
    /\ \A d \in 1 .. LastFile(st) : /\ r.dfiles[d].chunk = st.dfiles[d].chunk
                                    /\ r.dfiles[d].index = st.dfiles[d].index
                                    /\ Packets(r, d) = Packets(st, d)

LEMMA AppendedFilesAre ==
    ASSUME NEW st \in RelayStream, NEW r \in RelayStream, NEW rec \in Nat,
           NEW chunk, NEW index, DataAppended(st, r, chunk, index), FilesOK(st, rec)
    PROVE  FilesOK(r, rec) /\ AppendedTo(st, r, chunk, index)
  BY AppendedFiles DEF AppendedTo

LEMMA ZeroOrMore == \A n \in Nat : n = 0 \/ n > 0
  OBVIOUS

LEMMA PositiveIsNotZero == \A x : x > 0 => x # 0
  OBVIOUS

LEMMA RotatedEffect ==
    ASSUME NEW st \in RelayStream, NEW next \in Nat
    PROVE  LET r == Rotated(st, next)
           IN  /\ r \in RelayStream /\ r.ifiles = st.ifiles
               /\ r.index_file = NoFile /\ r.trace_chunk = next
               /\ r.is_rotating = FALSE /\ r.rotate_index = st.rotate_index
               /\ r.closed = st.closed /\ r.close_requested = st.close_requested
               /\ r.completed_rotation_count = st.completed_rotation_count + 1
               /\ next = NoChunk => r.file = NoFile /\ r.dfiles = st.dfiles
               /\ next # NoChunk => /\ r.file = LastFile(st) + 1
                                    /\ DataAppended(st, r, next, 0)
<1> DEFINE dfiles == IF next = NoChunk THEN st.dfiles
                     ELSE Append(st.dfiles, File(next, 0))
           file == IF next = NoChunk THEN NoFile ELSE Len(st.dfiles) + 1
<1>1. /\ st.dfiles \in Seq(DataFile) /\ Len(st.dfiles) \in Nat
      /\ st.completed_rotation_count \in Nat
  BY DEF RelayStream
<1>2. File(next, 0) \in DataFile
  BY DEF File, DataFile
<1>3. dfiles \in Seq(DataFile) /\ file \in Nat
  BY <1>1, <1>2, AppendElements DEF NoFile
<1>4. Rotated(st, next) =
        [st EXCEPT !.dfiles = dfiles, !.file = file, !.index_file = NoFile,
                   !.trace_chunk = next, !.is_rotating = FALSE,
                   !.completed_rotation_count = st.completed_rotation_count + 1]
  BY DEF Rotated
<1>5. next # NoChunk =>
        /\ Len(dfiles) = Len(st.dfiles) + 1
        /\ \A d \in 1 .. Len(st.dfiles) : dfiles[d] = st.dfiles[d]
        /\ dfiles[Len(st.dfiles) + 1] = File(next, 0)
  BY <1>1, <1>2, AppendElements
<1>6. /\ next = NoChunk => dfiles = st.dfiles /\ file = NoFile
      /\ next # NoChunk => file = Len(st.dfiles) + 1
  OBVIOUS
<1> HIDE DEF dfiles, file
<1>7. /\ Rotated(st, next).dfiles = dfiles /\ Rotated(st, next).file = file
      /\ Rotated(st, next).ifiles = st.ifiles
      /\ Rotated(st, next).index_file = NoFile
      /\ Rotated(st, next).trace_chunk = next
      /\ Rotated(st, next).is_rotating = FALSE
      /\ Rotated(st, next).rotate_index = st.rotate_index
      /\ Rotated(st, next).closed = st.closed
      /\ Rotated(st, next).close_requested = st.close_requested
      /\ Rotated(st, next).completed_rotation_count = st.completed_rotation_count + 1
  BY <1>4 DEF RelayStream
<1>8. Rotated(st, next) \in RelayStream
  <2> DEFINE c == st.completed_rotation_count + 1
  <2>1. c \in Nat /\ NoFile \in Nat
    BY <1>1 DEF NoFile
  <2>2. Rotated(st, next) =
          [st EXCEPT !.dfiles = dfiles, !.file = file, !.index_file = NoFile,
                     !.trace_chunk = next, !.is_rotating = FALSE,
                     !.completed_rotation_count = c]
    BY <1>4
  <2> HIDE DEF c
  <2> QED
    BY Zenon, <1>3, <2>1, <2>2 DEF RelayStream
<1> QED
  BY <1>5, <1>6, <1>7, <1>8 DEF DataAppended, LastFile

LEMMA RotatedRelayNew ==
    ASSUME NEW st \in RelayStream, NEW rec \in Nat, NEW se, NEW a, Fresh(a, rec),
           FilesOK(st, rec), ChunksOK(st, se), ~st.rotate_index, ~st.closed,
           NEW next \in Nat, RingChunk(st) < next, next = se.chunks
    PROVE  Relay(a, rec, FALSE, Rotated(st, next), se)
<1> DEFINE r == Rotated(st, next)
           n == LastFile(st)
<1>1. n \in 1 .. n /\ \A d \in 1 .. n : st.dfiles[d].chunk \in Nat
  BY FileTypes DEF ChunksOK, LastFile
<1>2. \A d \in 1 .. n : st.dfiles[d].chunk <= RingChunk(st)
  BY <1>1 DEF ChunksOK, RingChunk
<1>3. next # NoChunk /\ RingChunk(st) \in 1 .. se.chunks
  BY <1>1 DEF ChunksOK, RingChunk, NoChunk
<1>4. /\ r \in RelayStream /\ r.index_file = NoFile /\ r.trace_chunk = next
      /\ r.is_rotating = FALSE /\ ~r.rotate_index /\ ~r.closed
      /\ r.file = n + 1 /\ DataAppended(st, r, next, 0)
  <2>1. /\ r \in RelayStream /\ r.index_file = NoFile /\ r.trace_chunk = next
        /\ r.is_rotating = FALSE /\ r.rotate_index = st.rotate_index
        /\ r.closed = st.closed
        /\ next # NoChunk => r.file = n + 1 /\ DataAppended(st, r, next, 0)
    BY Zenon, RotatedEffect
  <2> HIDE DEF r
  <2> QED
    BY <1>3, <2>1
<1> HIDE DEF r
<1>5. /\ FilesOK(r, rec) /\ LastFile(r) = n + 1 /\ RingChunk(r) = next
      /\ Len(Packets(r, n + 1)) = 0 /\ r.dfiles[n + 1].index = 0
      /\ \A d \in 1 .. n : /\ r.dfiles[d].chunk = st.dfiles[d].chunk
                           /\ r.dfiles[d].index = st.dfiles[d].index
                           /\ Packets(r, d) = Packets(st, d)
  BY <1>4, AppendedFiles
<1>6. r.dfiles[n + 1].chunk = next
  BY <1>5 DEF RingChunk
<1>7. \A d \in 1 .. n : r.dfiles[d].chunk < next
  BY <1>1, <1>2, <1>3, <1>5
<1>8. \A d \in 1 .. n + 1 : d \in 1 .. n \/ d = n + 1
  BY <1>1
<1>9. ChunksOK(r, se)
  <2>1. LastFile(r) > 0 /\ se.chunks \in Nat /\ se.current_trace_chunk \in {NoChunk, se.chunks}
    BY <1>1, <1>5 DEF ChunksOK
  <2>2. \A d \in 1 .. n + 1 : r.dfiles[d].chunk \in 1 .. se.chunks
    <3>1. next \in 1 .. se.chunks
      BY <1>3, <2>1
    <3> QED
      BY <1>5, <1>6, <1>8, <3>1 DEF ChunksOK
  <2>3. \A d, e \in 1 .. n + 1 : d < e => r.dfiles[d].chunk <= r.dfiles[e].chunk
    <3> SUFFICES ASSUME NEW d \in 1 .. n + 1, NEW e \in 1 .. n + 1, d < e
                 PROVE  r.dfiles[d].chunk <= r.dfiles[e].chunk
      OBVIOUS
    <3>1. d \in 1 .. n
      BY <1>1
    <3>2. CASE e = n + 1
      BY <1>1, <1>5, <1>6, <1>7, <3>1, <3>2
    <3>3. CASE e \in 1 .. n
      BY <1>5, <3>1, <3>3 DEF ChunksOK
    <3> QED
      BY <1>8, <3>2, <3>3
  <2>4. ASSUME NEW d \in 1 .. n + 1, Len(Packets(r, d)) = 0,
               NEW e \in 1 .. n + 1, r.dfiles[e].chunk = r.dfiles[d].chunk
        PROVE  e = d
    <3>1. CASE d = n + 1
      BY <1>1, <1>6, <1>7, <1>8, <2>4, <3>1
    <3>2. CASE d \in 1 .. n
      <4>1. e \in 1 .. n
        BY <1>1, <1>6, <1>7, <1>8, <2>4, <3>2
      <4> QED
        BY <1>5, <2>4, <3>2, <4>1 DEF ChunksOK
    <3> QED
      BY <1>8, <3>1, <3>2
  <2>5. ASSUME count = 0, NEW d \in 1 .. n + 1, NEW e \in 1 .. n + 1, d < e
        PROVE  r.dfiles[d].chunk < r.dfiles[e].chunk
    <3>1. d \in 1 .. n
      BY <1>1, <2>5
    <3>2. CASE e = n + 1
      BY <1>1, <1>2, <1>6, <1>7, <3>1, <3>2
    <3>3. CASE e \in 1 .. n
      BY <1>5, <1>6, <2>5, <3>1, <3>3 DEF ChunksOK
    <3> QED
      BY <1>8, <3>2, <3>3
  <2> QED
    BY <1>4, <1>5, <2>1, <2>2, <2>3, <2>4, <2>5 DEF ChunksOK
<1>10. HeadOf(a) = 0
  BY DEF Fresh
<1>11. CurrentOK(a, rec, FALSE, r)
  BY <1>1, <1>3, <1>4, <1>5, <1>10 DEF CurrentOK, NoFile
<1>12. RingFiles(a, rec, r)
  <2> SUFFICES ASSUME NEW f \in RingIds, RangeOf(a, f).seq_tail # Unset
               PROVE  \E d : Holds(a, rec, r, d, f)
    BY DEF RingFiles
  <2>1. f = 0
    BY DEF Fresh, EmptyFile
  <2>2. Latest(r, n + 1)
    BY <1>1, <1>5 DEF Latest
  <2>3. n + 1 \in 1 .. LastFile(r)
    BY <1>1, <1>5
  <2>4. Holds(a, rec, r, n + 1, f)
    BY <1>5, <1>6, <2>1, <2>2, <2>3 DEF Holds, Fresh
  <2> QED
    BY <2>4
<1> QED
  BY Zenon, <1>4, <1>5, <1>9, <1>11, <1>12 DEF Relay, r

\* What is said of the files of a stream is said of a stream that has the same.
LEMMA SameFiles ==
    ASSUME NEW st, NEW r, r.dfiles = st.dfiles, r.ifiles = st.ifiles
    PROVE  /\ \A d : Packets(r, d) = Packets(st, d)
           /\ \A k : Entries(r, k) = Entries(st, k)
           /\ \A k, d : Paired(st, k, d) => Paired(r, k, d)
           /\ LastFile(r) = LastFile(st) /\ RingChunk(r) = RingChunk(st)
           /\ \A rec : FilesOK(st, rec) => FilesOK(r, rec)
           /\ \A a, rec : RingFiles(a, rec, st) => RingFiles(a, rec, r)
<1>1. \A d : Packets(r, d) = Packets(st, d)
  BY Zenon DEF Packets
<1>2. \A k : Entries(r, k) = Entries(st, k)
  BY Zenon DEF Entries
<1>3. LastFile(r) = LastFile(st) /\ RingChunk(r) = RingChunk(st)
  BY Zenon DEF LastFile, RingChunk
<1>4. \A k, d : Paired(st, k, d) => Paired(r, k, d)
  BY <1>1, <1>2 DEF Paired
<1>5. ASSUME NEW rec, FilesOK(st, rec)
      PROVE  FilesOK(r, rec)
  BY <1>1, <1>2, <1>4, <1>5 DEF FilesOK
<1>6. \A d : Latest(st, d) => Latest(r, d)
  BY Zenon, <1>3 DEF Latest
<1>7. ASSUME NEW a, NEW rec, RingFiles(a, rec, st)
      PROVE  RingFiles(a, rec, r)
  <2>1. \A d, f : Holds(a, rec, st, d, f) => Holds(a, rec, r, d, f)
    BY Zenon, <1>1, <1>3, <1>6 DEF Holds
  <2> QED
    BY Zenon, <1>7, <2>1 DEF RingFiles
<1> QED
  BY Zenon, <1>1, <1>2, <1>3, <1>4, <1>5, <1>7

LEMMA SameFilesChunks ==
    ASSUME NEW st, NEW r, NEW se, ChunksOK(st, se), r.dfiles = st.dfiles,
           r.ifiles = st.ifiles, r.rotate_index = st.rotate_index,
           r.is_rotating /\ ~r.closed =>
              \/ r.next_trace_chunk = NoChunk
              \/ /\ RingChunk(st) < r.next_trace_chunk
                 /\ r.next_trace_chunk = se.chunks
    PROVE  ChunksOK(r, se)
<1>1. /\ \A d : Packets(r, d) = Packets(st, d)
      /\ LastFile(r) = LastFile(st) /\ RingChunk(r) = RingChunk(st)
  BY Zenon, SameFiles
<1>2. /\ LastFile(r) > 0 /\ se.chunks \in Nat
      /\ se.current_trace_chunk \in {NoChunk, se.chunks}
  BY Zenon, <1>1 DEF ChunksOK
<1>3. \A d \in 1 .. LastFile(r) : r.dfiles[d].chunk \in 1 .. se.chunks
  BY Zenon, <1>1 DEF ChunksOK
<1>4. \A d, e \in 1 .. LastFile(r) : d < e => r.dfiles[d].chunk <= r.dfiles[e].chunk
  BY Zenon, <1>1 DEF ChunksOK
<1>5. count = 0 =>
        \A d, e \in 1 .. LastFile(r) : d < e => r.dfiles[d].chunk < r.dfiles[e].chunk
  BY Zenon, <1>1 DEF ChunksOK
<1>6. \A d \in 1 .. LastFile(r) :
        Len(Packets(r, d)) = 0 /\ (d = LastFile(r) => ~r.rotate_index) =>
          \A e \in 1 .. LastFile(r) : r.dfiles[e].chunk = r.dfiles[d].chunk => e = d
  BY Zenon, <1>1 DEF ChunksOK
<1> QED
  BY Zenon, <1>1, <1>2, <1>3, <1>4, <1>5, <1>6 DEF ChunksOK

\* The files are the same and none is written.
LEMMA NoFileRelay ==
    ASSUME NEW a, NEW rec, NEW op, NEW se, NEW st, Relay(a, rec, op, st, se),
           NEW r \in RelayStream, r.dfiles = st.dfiles, r.ifiles = st.ifiles,
           r.file = NoFile, r.index_file = NoFile, r.trace_chunk = NoChunk,
           r.rotate_index = st.rotate_index,
           r.is_rotating => r.closed \/ (/\ st.is_rotating /\ ~st.closed
                                         /\ r.next_trace_chunk = st.next_trace_chunk),
           r.rotate_index => r.closed
    PROVE  Relay(a, rec, FALSE, r, se)
<1>1. FilesOK(r, rec) /\ RingFiles(a, rec, r)
  BY Zenon, SameFiles DEF Relay
<1>2. r.is_rotating /\ ~r.closed =>
        \/ r.next_trace_chunk = NoChunk
        \/ RingChunk(st) < r.next_trace_chunk /\ r.next_trace_chunk = se.chunks
  BY Zenon DEF Relay, ChunksOK
<1>3. ChunksOK(r, se)
  BY Zenon, <1>2, SameFilesChunks DEF Relay
<1>4. CurrentOK(a, rec, FALSE, r)
  BY DEF Relay, CurrentOK
<1> QED
  BY Zenon, <1>1, <1>3, <1>4 DEF Relay

\* The file that stream_init_packet leaves holds the last packet received.
LEMMA HeadFileIsWritten ==
    ASSUME IInv, NEW st, NEW se, Relay(tfa, received, open, st, se),
           InitPacketRotate, count > 1, st.file # NoFile
    PROVE  /\ st.file = LastFile(st) /\ st.file \in 1 .. LastFile(st)
           /\ Len(Packets(st, st.file)) > 0
           /\ RangeOf(tfa, HeadOf(tfa)).seq_head = received - 1
           /\ received \in Nat /\ received > 0
<1> DEFINE w == tfa.file_head_write
           n == st.file
<1>0. count > 0 /\ count # 1
  BY CountAssumption
<1>1. /\ w \in Files /\ received \in Nat /\ received > 0
      /\ tfa.tf[w].seq_head = received - 1
  BY WriteRotationEffect
<1>2. /\ TypeOK /\ RangesValid
  BY <1>0 DEF IInv, RingOrder
<1>3. tfa.tf[w].seq_tail # Unset
  BY <1>0, <1>1, <1>2, FileRange DEF Unset
<1>4. /\ RingIds = Files /\ HeadOf(tfa) = w
      /\ RangeOf(tfa, w).seq_head = tfa.tf[w].seq_head
      /\ RangeOf(tfa, w).seq_tail = tfa.tf[w].seq_tail
  BY <1>0, Limited
<1>5. /\ st \in RelayStream /\ n = LastFile(st) /\ st.trace_chunk = RingChunk(st)
      /\ st.dfiles[n].index = w
  BY <1>4 DEF Relay, CurrentOK
<1>6. n \in 1 .. LastFile(st) /\ Len(Packets(st, n)) \in Nat
  BY <1>5, FileTypes DEF Relay, ChunksOK, LastFile
<1>7. PICK d : Holds(tfa, received, st, d, w)
  BY <1>1, <1>3, <1>4 DEF Relay, RingFiles
<1>8. d = n
  <2>1. /\ d \in 1 .. LastFile(st) /\ Latest(st, d)
        /\ st.dfiles[d].chunk = st.dfiles[n].chunk
        /\ st.dfiles[d].index = st.dfiles[n].index
    BY <1>5, <1>7 DEF Holds, RingChunk
  <2>2. ~(n > d)
    BY <1>6, <2>1 DEF Latest
  <2> QED
    BY <1>5, <1>6, <2>1, <2>2
<1>9. Len(Packets(st, n)) > 0
  BY <1>1, <1>4, <1>7, <1>8 DEF Holds
<1> QED
  BY <1>1, <1>4, <1>5, <1>6, <1>9

LEMMA RotateRelay ==
    ASSUME IInv, NEW st, NEW se, Relay(tfa, received, open, st, se),
           InitPacketRotate, count > 1, st.file # NoFile, ~st.closed,
           NEW r \in RelayStream, r.rotate_index = TRUE,
           DataAppended(st, r, st.trace_chunk, NextFile(FileHead)),
           r.file = LastFile(st) + 1, r.index_file = st.index_file,
           r.trace_chunk = st.trace_chunk, r.closed = st.closed,
           r.is_rotating = st.is_rotating, r.next_trace_chunk = st.next_trace_chunk
    PROVE  Relay(tfa', received', TRUE, r, se)
<1> DEFINE n == LastFile(st)
<1>0. count > 0 /\ count # 1
  BY CountAssumption
<1>1. /\ st.file = n /\ n \in 1 .. n /\ Len(Packets(st, n)) > 0
      /\ RangeOf(tfa, HeadOf(tfa)).seq_head = received - 1 /\ received \in Nat
  BY HeadFileIsWritten
<1>2. /\ st \in RelayStream /\ FilesOK(st, received) /\ ChunksOK(st, se)
      /\ CurrentOK(tfa, received, open, st) /\ RingFiles(tfa, received, st)
  BY DEF Relay
<1>3. /\ FilesOK(r, received)
      /\ LastFile(r) = n + 1 /\ RingChunk(r) = st.trace_chunk
      /\ Len(Packets(r, n + 1)) = 0
      /\ r.dfiles[n + 1].index = NextFile(FileHead)
      /\ \A d \in 1 .. n : /\ r.dfiles[d].chunk = st.dfiles[d].chunk
                           /\ r.dfiles[d].index = st.dfiles[d].index
                           /\ Packets(r, d) = Packets(st, d)
  <2>1. FilesOK(r, received) /\ AppendedTo(st, r, st.trace_chunk, NextFile(FileHead))
    BY Zenon, <1>1, <1>2, AppendedFilesAre
  <2> QED
    BY Zenon, <2>1 DEF AppendedTo
<1>4. /\ tfa'.seq_head = tfa.seq_head /\ received' = received
      /\ tfa'.file_head_write = NextFile(tfa.file_head_write)
      /\ tfa'.file_head_write \in Files
      /\ tfa'.tf[tfa'.file_head_write] = EmptyFile
      /\ \A f \in Files \ {tfa'.file_head_write} : tfa'.tf[f] = tfa.tf[f]
  BY WriteRotationEffect
<1>5. /\ HeadOf(tfa') = NextFile(FileHead) /\ HeadOf(tfa) = tfa.file_head_write
      /\ RingIds = Files
      /\ RangeOf(tfa', HeadOf(tfa')) = EmptyFile
      /\ \A f \in RingIds : f # HeadOf(tfa') => RangeOf(tfa', f) = RangeOf(tfa, f)
  BY <1>0, <1>4, Limited DEF FileHead
<1>6. st.trace_chunk = RingChunk(st) /\ st.trace_chunk # NoChunk
      /\ r.dfiles[n + 1].chunk = RingChunk(st)
  BY Zenon, <1>2, <1>3 DEF CurrentOK, RingChunk
<1>7. \A d \in 1 .. n + 1 : d \in 1 .. n \/ d = n + 1
  BY <1>1
<1>8. ChunksOK(r, se)
  <2>a. /\ se.chunks \in Nat /\ se.current_trace_chunk \in {NoChunk, se.chunks}
        /\ \A d \in 1 .. n : st.dfiles[d].chunk \in 1 .. se.chunks
        /\ \A d, e \in 1 .. n : d < e => st.dfiles[d].chunk <= st.dfiles[e].chunk
    BY Zenon, <1>2 DEF ChunksOK
  <2>1. /\ LastFile(r) > 0 /\ se.chunks \in Nat
        /\ se.current_trace_chunk \in {NoChunk, se.chunks}
        /\ RingChunk(st) \in 1 .. se.chunks
    BY <1>1, <1>3, <2>a DEF RingChunk
  <2>2. \A d \in 1 .. n + 1 : r.dfiles[d].chunk \in 1 .. se.chunks
    BY Zenon, <1>2, <1>3, <1>6, <1>7, <2>1 DEF ChunksOK
  <2>3. \A d, e \in 1 .. n + 1 : d < e => r.dfiles[d].chunk <= r.dfiles[e].chunk
    <3> SUFFICES ASSUME NEW d \in 1 .. n + 1, NEW e \in 1 .. n + 1, d < e
                 PROVE  r.dfiles[d].chunk <= r.dfiles[e].chunk
      OBVIOUS
    <3>1. d \in 1 .. n
      BY <1>1
    <3>2. CASE e = n + 1
      <4>1. st.dfiles[d].chunk <= st.dfiles[n].chunk
        BY <1>1, <2>a, <3>1
      <4> QED
        BY <1>3, <1>6, <3>1, <3>2, <4>1 DEF RingChunk
    <3>3. CASE e \in 1 .. n
      BY Zenon, <1>2, <1>3, <3>1, <3>3 DEF ChunksOK
    <3> QED
      BY <1>7, <3>2, <3>3
  <2>4. ASSUME NEW d \in 1 .. n + 1, Len(Packets(r, d)) = 0, d # n + 1,
               NEW e \in 1 .. n + 1, r.dfiles[e].chunk = r.dfiles[d].chunk
        PROVE  e = d
    <3>1. d \in 1 .. n /\ d # n
      BY <1>1, <1>3, <1>7, <2>4
    <3>2. \A c \in 1 .. n : st.dfiles[c].chunk = st.dfiles[d].chunk => c = d
      BY Zenon, <1>2, <1>3, <2>4, <3>1 DEF ChunksOK
    <3>3. e # n + 1
      BY Zenon, <1>1, <1>3, <1>6, <2>4, <3>1, <3>2 DEF RingChunk
    <3> QED
      BY Zenon, <1>3, <1>7, <2>4, <3>1, <3>2, <3>3
  <2> QED
    <3>1. r.is_rotating /\ ~r.closed =>
            \/ r.next_trace_chunk = NoChunk
            \/ RingChunk(r) < r.next_trace_chunk /\ r.next_trace_chunk = se.chunks
      BY Zenon, <1>2, <1>3, <1>6 DEF ChunksOK
    <3>2. \A d \in 1 .. n + 1 :
            Len(Packets(r, d)) = 0 /\ (d = n + 1 => ~r.rotate_index) =>
              \A e \in 1 .. n + 1 : r.dfiles[e].chunk = r.dfiles[d].chunk => e = d
      BY Zenon, <2>4
    <3>3. count # 0
      BY <1>0
    <3> HIDE DEF n
    <3> QED
      BY Zenon, <1>3, <2>1, <2>2, <2>3, <3>1, <3>2, <3>3 DEF ChunksOK
<1>9. CurrentOK(tfa', received', TRUE, r)
  <2>1. Len(Packets(st, st.file)) # 0 /\ r.file # NoFile /\ count > 0
    BY <1>0, <1>1 DEF NoFile
  <2>2. st.index_file # NoFile /\ tfa.seq_head # received
    BY Zenon, <1>2, <2>1 DEF CurrentOK
  <2>3. r.index_file # NoFile /\ tfa'.seq_head # received'
    BY Zenon, <1>4, <2>2
  <2>4. /\ r.file = LastFile(r) /\ r.trace_chunk = RingChunk(r)
        /\ r.dfiles[r.file].index = HeadOf(tfa')
        /\ Len(Packets(r, r.file)) = 0 /\ ~(Len(Packets(r, r.file)) > 0)
    BY <1>3, <1>5
  <2>5. ~r.closed /\ r.trace_chunk # NoChunk
    BY Zenon, <1>6
  <2> QED
    BY Zenon, <2>1, <2>3, <2>4, <2>5 DEF CurrentOK
<1>10. RingFiles(tfa', received', r)
  <2> SUFFICES ASSUME NEW f \in RingIds, RangeOf(tfa', f).seq_tail # Unset
               PROVE  \E d : Holds(tfa', received, r, d, f)
    BY Zenon, <1>4 DEF RingFiles
  <2>1. f # HeadOf(tfa') /\ RangeOf(tfa', f) = RangeOf(tfa, f)
    <3>1. EmptyFile.seq_tail = Unset
      BY DEF EmptyFile
    <3> QED
      BY Zenon, <1>5, <3>1
  <2>2. PICK d : Holds(tfa, received, st, d, f)
    BY <1>2, <2>1 DEF RingFiles
  <2>3. d \in 1 .. n /\ d \in 1 .. n + 1 /\ st.dfiles[d].index = f
        /\ st.dfiles[d].chunk = RingChunk(st) /\ Latest(st, d)
    BY <1>1, <2>2 DEF Holds
  <2>4. Len(Packets(st, d)) > 0
    BY <1>1, <2>2 DEF Holds
  <2>5. Latest(r, d)
    <3> SUFFICES ASSUME NEW e \in 1 .. n + 1, e > d,
                        r.dfiles[e].chunk = r.dfiles[d].chunk,
                        r.dfiles[e].index = r.dfiles[d].index
                 PROVE  FALSE
      BY <1>3 DEF Latest
    <3>1. e # n + 1
      BY <1>3, <1>5, <2>1, <2>3
    <3> QED
      BY <1>3, <1>7, <2>3, <3>1 DEF Latest
  <2>6. /\ Packets(st, d)[1] = RangeOf(tfa, f).seq_tail
        /\ Packets(st, d)[1] + Len(Packets(st, d)) - 1 = RangeOf(tfa, f).seq_head
    <3>1. Len(Packets(st, d)) # 0
      BY Zenon, <2>4, PositiveIsNotZero
    <3> QED
      BY Zenon, <2>2, <3>1 DEF Holds
  <2>7. Holds(tfa', received, r, d, f)
    BY Zenon, <1>3, <1>6, <2>1, <2>3, <2>4, <2>5, <2>6 DEF Holds
  <2> QED
    BY Zenon, <2>7
<1> QED
  BY Zenon, <1>3, <1>4, <1>8, <1>9, <1>10 DEF Relay

LEMMA ClosedEffect ==
    ASSUME NEW st \in RelayStream
    PROVE  LET r == Closed(st)
           IN  /\ r \in RelayStream /\ r.dfiles = st.dfiles /\ r.ifiles = st.ifiles
               /\ r.file = NoFile /\ r.index_file = NoFile /\ r.trace_chunk = NoChunk
               /\ r.rotate_index = st.rotate_index /\ r.closed = TRUE
               /\ r.is_rotating = st.is_rotating
               /\ r.completed_rotation_count = st.completed_rotation_count
<1>1. NoFile \in Nat /\ NoChunk \in Nat
  BY DEF NoFile, NoChunk
<1> QED
  BY Zenon, <1>1 DEF Closed, RelayStream

LEMMA ClosedRelay ==
    ASSUME NEW a, NEW rec, NEW op, NEW st, NEW se, Relay(a, rec, op, st, se)
    PROVE  Relay(a, rec, FALSE, Closed(st), se)
<1> DEFINE r == Closed(st)
<1>1. st \in RelayStream
  BY DEF Relay
<1>2. /\ r \in RelayStream /\ r.dfiles = st.dfiles /\ r.ifiles = st.ifiles
      /\ r.file = NoFile /\ r.index_file = NoFile /\ r.trace_chunk = NoChunk
      /\ r.rotate_index = st.rotate_index /\ r.closed = TRUE
      /\ r.is_rotating = st.is_rotating
  BY Zenon, <1>1, ClosedEffect
<1> HIDE DEF r
<1>3. Relay(a, rec, FALSE, r, se)
  BY Zenon, <1>2, NoFileRelay
<1> QED
  BY Zenon, <1>3 DEF r

LEMMA RotatedRelayNone ==
    ASSUME NEW a, NEW rec, NEW st, NEW se, Relay(a, rec, FALSE, st, se), ~st.closed
    PROVE  Relay(a, rec, FALSE, Rotated(st, NoChunk), se)
<1> DEFINE r == Rotated(st, NoChunk)
<1>1. st \in RelayStream /\ NoChunk \in Nat /\ st.rotate_index \in BOOLEAN
  BY DEF Relay, NoChunk, RelayStream
<1>2. ~st.rotate_index
  BY <1>1 DEF Relay, CurrentOK
<1>3. /\ r \in RelayStream /\ r.dfiles = st.dfiles /\ r.ifiles = st.ifiles
      /\ r.file = NoFile /\ r.index_file = NoFile /\ r.trace_chunk = NoChunk
      /\ r.rotate_index = st.rotate_index /\ r.is_rotating = FALSE
  BY Zenon, <1>1, RotatedEffect
<1> HIDE DEF r
<1>4. Relay(a, rec, FALSE, r, se)
  BY Zenon, <1>2, <1>3, NoFileRelay
<1> QED
  BY Zenon, <1>4 DEF r

\* What holds of a stream holds of it when it may be closed.
LEMMA MayCloseRelay ==
    ASSUME NEW a, NEW rec, NEW st, NEW se, Relay(a, rec, FALSE, st, se),
           NEW r \in MayClose(st)
    PROVE  Relay(a, rec, FALSE, r, se)
<1>1. r = st \/ r = Closed(st)
  BY DEF MayClose
<1> QED
  BY Zenon, <1>1, ClosedRelay

-----------------------------------------------------------------------------
\* The steps of the relay daemon.
RelayInv == Relay(tfa, received, open, stream, session)

LEMMA EndPacketRelay ==
    ASSUME IInv, RelayInv, EndPacket
    PROVE  RelayInv'
<1> DEFINE w == Written(stream)
           next == stream.next_trace_chunk
<1>0. /\ Relay(tfa, received, open, stream, session) /\ received \in Nat
      /\ stream \in RelayStream
  BY DEF RelayInv, IInv, TypeOK, Relay
<1>1. session' = session /\ open /\ open' = FALSE /\ received' = received + 1
  BY DEF EndPacket, FlushIndex, FlushCompletesRotation
<1>2. /\ w \in RelayStream /\ FilesOK(w, received + 1) /\ ChunksOK(w, session)
      /\ RingChunk(w) = RingChunk(stream) /\ SameRotation(stream, w)
      /\ ~w.rotate_index /\ ~stream.closed
  BY Zenon, <1>0, <1>1, WrittenStep
<1>3. ~w.closed
  BY <1>2 DEF SameRotation
<1>4. ASSUME FlushIndex PROVE Relay(tfa', received', FALSE, w, session)
  BY Zenon, <1>0, <1>4, WrittenRelay
<1> HIDE DEF w
<1>5. CASE FlushIndex /\ stream' \in {w} \cup MayClose(w)
  <2>1. Relay(tfa', received', FALSE, stream', session)
    BY Zenon, <1>4, <1>5, MayCloseRelay
  <2> QED
    BY Zenon, <1>1, <2>1 DEF RelayInv
<1>6. CASE FlushIndex /\ stream' \in MayClose(Rotated(w, NoChunk))
  <2>1. Relay(tfa', received', FALSE, Rotated(w, NoChunk), session)
    BY Zenon, <1>3, <1>4, <1>6, RotatedRelayNone
  <2>2. Relay(tfa', received', FALSE, stream', session)
    BY Zenon, <1>6, <2>1, MayCloseRelay
  <2> QED
    BY Zenon, <1>1, <2>2 DEF RelayInv
<1>7. CASE /\ FlushCompletesRotation /\ stream.is_rotating /\ next # NoChunk
           /\ stream' \in MayClose(Rotated(w, next))
  <2>1. Fresh(tfa', received')
    <3>1. /\ tfa' = tracefile_array_commit_seq(tracefile_array_reset(tfa), received + 1)
          /\ received + 1 \in Nat
      BY <1>0, <1>7 DEF FlushCompletesRotation
    <3> QED
      BY <1>1, <3>1, ResetIsFresh
  <2>2. RingChunk(stream) < next /\ next = session.chunks /\ next \in Nat
    BY Zenon, <1>0, <1>2, <1>7 DEF Relay, ChunksOK, RelayStream
  <2>3. received' \in Nat /\ FilesOK(w, received')
    BY <1>0, <1>1, <1>2
  <2>4. Relay(tfa', received', FALSE, Rotated(w, next), session)
    BY Zenon, <1>2, <1>3, <2>1, <2>2, <2>3, RotatedRelayNew
  <2>5. Relay(tfa', received', FALSE, stream', session)
    BY Zenon, <1>7, <2>4, MayCloseRelay
  <2> QED
    BY Zenon, <1>1, <2>5 DEF RelayInv
<1> QED
  BY <1>5, <1>6, <1>7 DEF EndPacket, w

LEMMA StartPacketRelay ==
    ASSUME IInv, RelayInv, StartPacket, count # 1
    PROVE  RelayInv'
<1>0. /\ Relay(tfa, received, open, stream, session) /\ stream \in RelayStream
      /\ stream.trace_chunk \in Nat /\ stream.dfiles \in Seq(DataFile)
      /\ Len(stream.dfiles) \in Nat
  BY FileTypes DEF RelayInv, Relay, RelayStream
<1>1. CASE InitPacket /\ InitPacketOf(FALSE)
  <2>1. /\ UNCHANGED <<tfa, received, stream, session>> /\ open' = TRUE
        /\ stream.file # NoFile
    BY <1>1 DEF InitPacket, InitPacketOf
  <2>2. CurrentOK(tfa, received, TRUE, stream)
    BY Zenon, <1>0, <2>1 DEF Relay, CurrentOK
  <2> QED
    BY Zenon, <1>0, <2>1, <2>2 DEF Relay, RelayInv
<1>2. CASE count > 0 /\ InitPacketRotate /\ InitPacketOf(TRUE)
  <2> DEFINE f == File(stream.trace_chunk, NextFile(FileHead))
             dfiles == Append(stream.dfiles, f)
  <2>0. count > 1
    BY <1>2, CountAssumption
  <2>1. /\ session' = session /\ open' = TRUE
        /\ stream.file # NoFile /\ ~stream.closed
        /\ stream' = [stream EXCEPT !.rotate_index = TRUE, !.dfiles = dfiles,
                                    !.file = Len(stream.dfiles) + 1]
    BY <1>2 DEF InitPacketRotate, InitPacketOf
  <2>2. NextFile(FileHead) \in Nat
    <3>1. tfa.file_head_write \in Files
      BY <1>2 DEF IInv, TypeOK
    <3>2. FileHead = tfa.file_head_write
      BY <1>2, CountAssumption DEF FileHead
    <3>3. NextFile(FileHead) \in Files
      BY <1>2, <3>1, <3>2, NextFileWraps
    <3> QED
      BY <3>3 DEF Files
  <2>3. f \in DataFile
    BY <1>0, <2>2 DEF File, DataFile
  <2>4. /\ dfiles \in Seq(DataFile) /\ Len(dfiles) = Len(stream.dfiles) + 1
        /\ dfiles[Len(stream.dfiles) + 1] = f
        /\ \A d \in 1 .. Len(stream.dfiles) : dfiles[d] = stream.dfiles[d]
    BY <1>0, <2>3, AppendElements
  <2> HIDE DEF dfiles
  <2>5. /\ stream'.dfiles = dfiles /\ stream'.ifiles = stream.ifiles
        /\ stream'.file = LastFile(stream) + 1 /\ stream'.rotate_index = TRUE
        /\ stream'.index_file = stream.index_file
        /\ stream'.trace_chunk = stream.trace_chunk
        /\ stream'.closed = stream.closed
        /\ stream'.is_rotating = stream.is_rotating
        /\ stream'.next_trace_chunk = stream.next_trace_chunk
    BY <1>0, <2>1 DEF RelayStream, LastFile
  <2>6. stream' \in RelayStream
    <3>1. Len(stream.dfiles) + 1 \in Nat
      BY <1>0
    <3> QED
      BY Zenon, <1>0, <2>1, <2>4, <3>1 DEF RelayStream
  <2>7. DataAppended(stream, stream', stream.trace_chunk, NextFile(FileHead))
    BY <2>4, <2>5 DEF DataAppended
  <2>8. PICK r : r = stream'
    OBVIOUS
  <2>9. Relay(tfa', received', TRUE, r, session)
    BY Zenon, <1>0, <1>2, <2>0, <2>1, <2>5, <2>6, <2>7, <2>8, RotateRelay
  <2> QED
    BY Zenon, <2>1, <2>8, <2>9 DEF RelayInv
<1> QED
  BY Zenon, <1>1, <1>2 DEF StartPacket

\* The session: its chunks are numbered from 1.
RelaySession ==
    [current_trace_chunk : Nat, pending_closure : Nat, ongoing_rotation : BOOLEAN,
     connection_closed : BOOLEAN, cleared : SUBSET Nat, chunks : Nat, viewers : Nat]

LEMMA SessionRelay ==
    ASSUME NEW a, NEW rec, NEW op, NEW st, NEW se, Relay(a, rec, op, st, se),
           NEW se2, se2.chunks = se.chunks,
           se2.current_trace_chunk \in {NoChunk, se.chunks}
    PROVE  Relay(a, rec, op, st, se2)
  BY Zenon DEF Relay, ChunksOK

\* A stream that has the files and the rotation it had.
LEMMA SameFilesRelay ==
    ASSUME NEW a, NEW rec, NEW op, NEW st, NEW se, Relay(a, rec, op, st, se),
           NEW r \in RelayStream, r.dfiles = st.dfiles, r.ifiles = st.ifiles,
           r.file = st.file, r.index_file = st.index_file,
           r.trace_chunk = st.trace_chunk, r.rotate_index = st.rotate_index,
           r.closed = st.closed,
           r.is_rotating /\ ~r.closed =>
              \/ r.next_trace_chunk = NoChunk
              \/ /\ RingChunk(st) < r.next_trace_chunk
                 /\ r.next_trace_chunk = se.chunks
    PROVE  Relay(a, rec, op, r, se)
<1>1. FilesOK(r, rec) /\ RingFiles(a, rec, r)
  BY Zenon, SameFiles DEF Relay
<1>2. ChunksOK(r, se)
  BY Zenon, SameFilesChunks DEF Relay
<1>3. CurrentOK(a, rec, op, r)
  <2>1. /\ \A d : Packets(r, d) = Packets(st, d)
        /\ \A k, d : Paired(st, k, d) => Paired(r, k, d)
        /\ LastFile(r) = LastFile(st) /\ RingChunk(r) = RingChunk(st)
    BY Zenon, SameFiles
  <2> QED
    BY Zenon, <2>1 DEF Relay, CurrentOK
<1> QED
  BY Zenon, <1>1, <1>2, <1>3 DEF Relay

\* A chunk the session has, and the stream not yet, comes after those it had.
LEMMA NewChunk ==
    ASSUME RelayInv, NEW next, next # NoChunk,
           next = session.current_trace_chunk, next \notin StreamChunks
    PROVE  next \in Nat /\ RingChunk(stream) < next /\ next = session.chunks
<1> DEFINE n == LastFile(stream)
<1>1. /\ n \in 1 .. n /\ session.chunks \in Nat /\ next = session.chunks
      /\ stream.dfiles[n].chunk \in 1 .. session.chunks
      /\ stream.dfiles \in Seq(DataFile)
  <2>1. stream \in RelayStream /\ ChunksOK(stream, session)
    BY Zenon DEF RelayInv, Relay
  <2>2. /\ n > 0 /\ session.chunks \in Nat
        /\ session.current_trace_chunk \in {NoChunk, session.chunks}
        /\ \A d \in 1 .. n : stream.dfiles[d].chunk \in 1 .. session.chunks
    BY Zenon, <2>1 DEF ChunksOK
  <2>3. n \in Nat
    BY Zenon, <2>1, FileTypes DEF LastFile
  <2>4. stream.dfiles \in Seq(DataFile)
    BY <2>1 DEF RelayStream
  <2> HIDE DEF n
  <2> QED
    BY <2>2, <2>3, <2>4
<1>2. n \in DOMAIN stream.dfiles
  BY <1>1 DEF LastFile
<1>3. stream.dfiles[n].chunk \in StreamChunks
  BY <1>2 DEF StreamChunks
<1> QED
  BY <1>1, <1>3 DEF RingChunk

LEMMA RotateStreamRelay ==
    ASSUME IInv, RelayInv, NEW next, RotateStream(next)
    PROVE  RelayInv'
<1>0. /\ Relay(tfa, received, open, stream, session) /\ received \in Nat
      /\ stream \in RelayStream /\ open \in BOOLEAN /\ session' = session
      /\ ~stream.closed
  BY DEF RelayInv, IInv, TypeOK, Relay, RotateStream
<1>1. next # NoChunk => /\ next \in Nat /\ RingChunk(stream) < next
                        /\ next = session.chunks
  BY NewChunk DEF RotateStream
<1>2. CASE next = NoChunk /\ ~open /\ UNCHANGED <<tfa, received, open>>
           /\ stream' = Rotated(stream, next)
  <2>1. Relay(tfa, received, FALSE, Rotated(stream, NoChunk), session)
    BY Zenon, <1>0, <1>2, RotatedRelayNone
  <2> QED
    BY Zenon, <1>0, <1>2, <2>1 DEF RelayInv
<1>3. CASE next # NoChunk /\ CompleteRotation /\ stream' = Rotated(stream, next)
  <2>1. received' = received /\ open' = FALSE /\ open = FALSE
    BY <1>0, <1>3 DEF CompleteRotation
  <2>2. Fresh(tfa', received)
    BY <1>0, <1>3, ResetIsFresh DEF CompleteRotation
  <2>3. ~stream.rotate_index /\ FilesOK(stream, received) /\ ChunksOK(stream, session)
    BY <1>0, <2>1 DEF Relay, CurrentOK
  <2>4. Relay(tfa', received, FALSE, Rotated(stream, next), session)
    BY Zenon, <1>0, <1>1, <1>3, <2>2, <2>3, RotatedRelayNew
  <2> QED
    BY Zenon, <1>0, <1>3, <2>1, <2>4 DEF RelayInv
<1>4. CASE /\ stream' = [stream EXCEPT !.is_rotating = TRUE, !.next_trace_chunk = next]
           /\ UNCHANGED <<tfa, received, open>>
  <2>1. next \in Nat
    BY <1>1 DEF NoChunk
  <2>2. PICK r : r = stream'
    OBVIOUS
  <2>3. /\ r \in RelayStream /\ r.dfiles = stream.dfiles /\ r.ifiles = stream.ifiles
        /\ r.file = stream.file /\ r.index_file = stream.index_file
        /\ r.trace_chunk = stream.trace_chunk
        /\ r.rotate_index = stream.rotate_index /\ r.closed = stream.closed
        /\ r.next_trace_chunk = next
    BY Zenon, <1>0, <1>4, <2>1, <2>2 DEF RelayStream
  <2>4. Relay(tfa, received, open, r, session)
    BY <1>0, <1>1, <2>3, SameFilesRelay
  <2> QED
    BY <1>0, <1>4, <2>2, <2>4 DEF RelayInv
<1> QED
  BY <1>2, <1>3, <1>4 DEF RotateStream

LEMMA CloseStreamRelay ==
    ASSUME IInv, RelayInv, session \in RelaySession, NEW closing, CloseStream(closing)
    PROVE  RelayInv'
<1>0. /\ Relay(tfa, received, open, stream, session)
      /\ stream \in RelayStream /\ open \in BOOLEAN
  BY DEF RelayInv, IInv, TypeOK, Relay
<1>1. /\ session'.chunks = session.chunks
      /\ session'.current_trace_chunk = session.current_trace_chunk
      /\ session.current_trace_chunk \in {NoChunk, session.chunks}
  BY <1>0 DEF CloseStream, RelaySession, Relay, ChunksOK
<1>2. CASE /\ stream' = [stream EXCEPT !.close_requested = TRUE]
           /\ UNCHANGED <<tfa, received, open>>
  <2>2. PICK r : r = stream'
    OBVIOUS
  <2>3. /\ r \in RelayStream /\ r.dfiles = stream.dfiles /\ r.ifiles = stream.ifiles
        /\ r.file = stream.file /\ r.index_file = stream.index_file
        /\ r.trace_chunk = stream.trace_chunk
        /\ r.rotate_index = stream.rotate_index /\ r.closed = stream.closed
        /\ r.next_trace_chunk = stream.next_trace_chunk
        /\ r.is_rotating = stream.is_rotating
    BY Zenon, <1>0, <1>2, <2>2 DEF RelayStream
  <2>4. r.is_rotating /\ ~r.closed =>
              \/ r.next_trace_chunk = NoChunk
              \/ /\ RingChunk(stream) < r.next_trace_chunk
                 /\ r.next_trace_chunk = session.chunks
    BY <1>0, <2>3 DEF Relay, ChunksOK
  <2>5. Relay(tfa, received, open, r, session)
    BY <1>0, <2>3, <2>4, SameFilesRelay
  <2>6. Relay(tfa, received, open, r, session')
    BY <1>1, <2>5, SessionRelay
  <2> QED
    BY <1>2, <2>2, <2>6 DEF RelayInv
<1>3. CASE stream' = Closed(stream) /\ UNCHANGED <<tfa, received>> /\ open' = FALSE
  <2>1. Relay(tfa, received, FALSE, Closed(stream), session)
    BY Zenon, <1>0, ClosedRelay
  <2>2. Relay(tfa, received, FALSE, Closed(stream), session')
    BY Zenon, <1>1, <2>1, SessionRelay
  <2> QED
    BY Zenon, <1>3, <2>2 DEF RelayInv
<1> QED
  BY Zenon, <1>0, <1>2, <1>3 DEF CloseStream, AbandonPacket

\* The steps of the session keep its shape.
LEMMA SessionStep ==
    ASSUME session \in RelaySession, RelayNext
    PROVE  session' \in RelaySession
<1>1. session.chunks \in Nat /\ session.viewers \in Nat
      /\ session.current_trace_chunk \in Nat /\ session.pending_closure \in Nat
      /\ session.cleared \subseteq Nat
  BY DEF RelaySession
<1>2. CASE session' = session
  BY <1>2
<1>3. CASE CreateTraceChunk
  <2>1. PICK og \in BOOLEAN, c \in Nat :
          session' = [session EXCEPT !.ongoing_rotation = og,
                        !.pending_closure = session.current_trace_chunk,
                        !.current_trace_chunk = c, !.chunks = c]
    <3> DEFINE og == session.current_trace_chunk # NoChunk
               c == session.chunks + 1
    <3>1. og \in BOOLEAN /\ c \in Nat
      BY <1>1
    <3>2. session' = [session EXCEPT !.ongoing_rotation = og,
                        !.pending_closure = session.current_trace_chunk,
                        !.current_trace_chunk = c, !.chunks = c]
      BY <1>3 DEF CreateTraceChunk
    <3> QED
      BY Zenon, <3>1, <3>2
  <2> QED
    BY Zenon, <1>1, <2>1 DEF RelaySession
<1>4. ASSUME NEW delete \in BOOLEAN, CloseTraceChunk(delete)
      PROVE  session' \in RelaySession
  <2> DEFINE chunk == IF session.pending_closure # NoChunk THEN session.pending_closure
                      ELSE session.current_trace_chunk
  <2>1. chunk \in Nat
    BY <1>1
  <2>2. PICK og \in BOOLEAN, cur \in Nat, cl \in SUBSET Nat :
          session' = [session EXCEPT !.ongoing_rotation = og,
                        !.current_trace_chunk = cur, !.pending_closure = NoChunk,
                        !.cleared = cl]
    <3> DEFINE og == session.ongoing_rotation
                       /\ session.current_trace_chunk \in {NoChunk, chunk}
               cur == IF session.current_trace_chunk = chunk THEN NoChunk
                      ELSE session.current_trace_chunk
               cl == IF delete THEN session.cleared \cup {chunk} ELSE session.cleared
    <3>1. og \in BOOLEAN /\ cur \in Nat /\ cl \in SUBSET Nat
      BY <1>1, <2>1 DEF NoChunk
    <3>2. session' = [session EXCEPT !.ongoing_rotation = og,
                        !.current_trace_chunk = cur, !.pending_closure = NoChunk,
                        !.cleared = cl]
      BY <1>4 DEF CloseTraceChunk
    <3> QED
      BY Zenon, <3>1, <3>2
  <2>3. NoChunk \in Nat
    BY DEF NoChunk
  <2> QED
    BY Zenon, <2>2, <2>3 DEF RelaySession
<1>5. ASSUME NEW closing \in BOOLEAN, CloseStream(closing)
      PROVE  session' \in RelaySession
  BY <1>5 DEF CloseStream, RelaySession
<1>6. CASE CloseConnection
  BY Zenon, <1>6 DEF CloseConnection, RelaySession
<1> QED
  BY <1>2, <1>3, <1>4, <1>5, <1>6
  DEF RelayNext, StartPacket, EndPacket, RotateStream, AddBeacon, InitPacketOf

LEMMA RelayStep ==
    ASSUME IInv, RelayInv, session \in RelaySession, RelayNext, count # 1
    PROVE  RelayInv'
<1>0. /\ Relay(tfa, received, open, stream, session)
      /\ stream \in RelayStream /\ session.chunks \in Nat
      /\ session.current_trace_chunk \in {NoChunk, session.chunks}
  BY DEF RelayInv, Relay, RelaySession, ChunksOK
<1>1. ASSUME UNCHANGED <<tfa, received, open, stream>>,
             session'.chunks = session.chunks,
             session'.current_trace_chunk \in {NoChunk, session.chunks}
      PROVE  RelayInv'
  <2>1. Relay(tfa, received, open, stream, session')
    BY <1>0, <1>1, SessionRelay
  <2> QED
    BY <1>1, <2>1 DEF RelayInv
<1>2. CASE CreateTraceChunk
  <2>1. /\ session'.chunks = session.chunks + 1
        /\ session'.current_trace_chunk = session.chunks + 1
        /\ UNCHANGED <<tfa, received, open, stream>>
        /\ stream.closed \/ ~stream.is_rotating
    BY <1>2 DEF CreateTraceChunk, RelaySession
  <2>2. PICK se2 : se2 = session'
    OBVIOUS
  <2>3. ChunksOK(stream, se2)
    <3>1. ChunksOK(stream, session)
      BY <1>0 DEF Relay
    <3> DEFINE n == session.chunks
    <3>2. /\ se2.chunks = n + 1 /\ n \in Nat /\ n + 1 \in Nat
          /\ se2.current_trace_chunk \in {NoChunk, se2.chunks}
      BY <1>0, <2>1, <2>2
    <3>3. \A x : x \in 1 .. n => x \in 1 .. se2.chunks
      BY <3>2
    <3> QED
      BY Zenon, <2>1, <3>1, <3>2, <3>3 DEF ChunksOK
  <2>4. Relay(tfa, received, open, stream, se2)
    BY <1>0, <2>3 DEF Relay
  <2> QED
    BY <2>1, <2>2, <2>4 DEF RelayInv
<1>3. ASSUME NEW delete \in BOOLEAN, CloseTraceChunk(delete)
      PROVE  RelayInv'
  <2>1. /\ session'.chunks = session.chunks
        /\ \/ session'.current_trace_chunk = NoChunk
           \/ session'.current_trace_chunk = session.current_trace_chunk
        /\ UNCHANGED <<tfa, received, open, stream>>
    BY <1>3 DEF CloseTraceChunk, RelaySession
  <2> QED
    BY <1>0, <1>1, <2>1
<1>4. CASE AddBeacon
  <2>1. PICK r : r = stream'
    OBVIOUS
  <2>2. /\ r \in RelayStream /\ r.dfiles = stream.dfiles /\ r.ifiles = stream.ifiles
        /\ r.file = stream.file /\ r.index_file = stream.index_file
        /\ r.trace_chunk = stream.trace_chunk
        /\ r.rotate_index = stream.rotate_index /\ r.closed = stream.closed
        /\ r.next_trace_chunk = stream.next_trace_chunk
        /\ r.is_rotating = stream.is_rotating
        /\ UNCHANGED <<tfa, received, open, session>>
    BY Zenon, <1>0, <1>4, <2>1 DEF AddBeacon, RelayStream
  <2>3. r.is_rotating /\ ~r.closed =>
              \/ r.next_trace_chunk = NoChunk
              \/ /\ RingChunk(stream) < r.next_trace_chunk
                 /\ r.next_trace_chunk = session.chunks
    BY <1>0, <2>2 DEF Relay, ChunksOK
  <2>4. Relay(tfa, received, open, r, session)
    BY <1>0, <2>2, <2>3, SameFilesRelay
  <2> QED
    BY <2>1, <2>2, <2>4 DEF RelayInv
<1>5. CASE CloseConnection
  <2>1. /\ session'.chunks = session.chunks
        /\ session'.current_trace_chunk = session.current_trace_chunk
        /\ UNCHANGED <<tfa, received, open, stream>>
    BY <1>5 DEF CloseConnection, RelaySession
  <2> QED
    BY <1>0, <1>1, <2>1
<1> QED
  BY <1>2, <1>3, <1>4, <1>5, StartPacketRelay, EndPacketRelay,
     RotateStreamRelay, CloseStreamRelay DEF RelayNext

LEMMA InitRelay ==
    StreamInit => RelayInv /\ session \in RelaySession
<1> SUFFICES ASSUME StreamInit PROVE RelayInv /\ session \in RelaySession
  OBVIOUS
<1> DEFINE f == File(1, 0)
           dfiles == <<f>>
<1>1. /\ f \in DataFile /\ f.chunk = 1 /\ f.index = 0 /\ f.packets = <<>>
      /\ dfiles \in Seq(DataFile) /\ Len(dfiles) = 1 /\ dfiles[1] = f
      /\ <<>> \in Seq(IndexFile)
  <2>1. f \in DataFile /\ f.chunk = 1 /\ f.index = 0 /\ f.packets = <<>>
    BY DEF File, DataFile
  <2> HIDE DEF f
  <2>2. dfiles \in Seq(DataFile)
    BY <2>1
  <2>3. Len(dfiles) = 1 /\ dfiles[1] = f
    OBVIOUS
  <2>4. <<>> \in Seq(IndexFile)
    OBVIOUS
  <2> QED
    BY <2>1, <2>2, <2>3, <2>4
<1>2. /\ received = 0 /\ open = FALSE /\ HeadOf(tfa) = 0
      /\ \A x \in RingIds : RangeOf(tfa, x).seq_tail = Unset
  <2>1. received = 0 /\ open = FALSE /\ tfa = tracefile_array_create
    BY DEF StreamInit, Init
  <2>2. CASE count = 0
    BY <2>1, <2>2, Unlimited DEF tracefile_array_create
  <2>3. CASE count > 0
    BY <2>1, <2>3, Limited DEF tracefile_array_create, EmptyFile
  <2>4. count = 0 \/ count > 0
    BY CountAssumption
  <2> QED
    BY Zenon, <2>1, <2>2, <2>3, <2>4
<1>3. stream.dfiles = dfiles /\ stream.ifiles = <<>> /\ stream.file = 1
      /\ stream.index_file = NoFile /\ stream.trace_chunk = 1
      /\ ~stream.rotate_index /\ ~stream.is_rotating /\ ~stream.closed
  BY DEF StreamInit
<1>4. stream \in RelayStream
  <2>1. stream = [trace_chunk |-> 1, dfiles |-> dfiles, file |-> 1,
                 ifiles |-> <<>>, index_file |-> NoFile,
                 rotate_index |-> FALSE,
                 is_rotating |-> FALSE, next_trace_chunk |-> NoChunk,
                 completed_rotation_count |-> 0, beacon |-> FALSE,
                 close_requested |-> FALSE, closed |-> FALSE]
    BY DEF StreamInit
  <2> HIDE DEF dfiles
  <2> QED
    BY <1>1, <2>1 DEF RelayStream, NoFile, NoChunk
<1> HIDE DEF dfiles, f
<1>5. session \in RelaySession /\ session.chunks = 1 /\ session.current_trace_chunk = 1
  BY DEF StreamInit, RelaySession, NoChunk
<1>6. /\ LastFile(stream) = 1 /\ RingChunk(stream) = 1
      /\ \A d \in 1 .. 1 : d = 1 /\ Packets(stream, d) = <<>>
      /\ Len(stream.ifiles) = 0 /\ Len(Packets(stream, 1)) = 0
  <2>1. LastFile(stream) = 1 /\ RingChunk(stream) = 1
    BY Zenon, <1>1, <1>3 DEF LastFile, RingChunk
  <2>2. Packets(stream, 1) = <<>>
    BY <1>1, <1>3 DEF Packets
  <2>3. Len(stream.ifiles) = 0 /\ Len(Packets(stream, 1)) = 0
    BY <1>3, <2>2
  <2>4. \A d \in 1 .. 1 : d = 1
    OBVIOUS
  <2> QED
    BY <2>1, <2>2, <2>3, <2>4
<1>7. FilesOK(stream, received)
  <2>1. \A d \in 1 .. Len(stream.dfiles) : d = 1 /\ Len(Packets(stream, d)) = 0
    BY Zenon, <1>1, <1>3, <1>6
  <2> QED
    BY <1>6, <2>1 DEF FilesOK, Run
<1>8. ChunksOK(stream, session)
  BY <1>1, <1>3, <1>5, <1>6 DEF ChunksOK
<1>9. CurrentOK(tfa, received, open, stream)
  BY <1>1, <1>2, <1>3, <1>6 DEF CurrentOK, NoFile, NoChunk
<1>10. RingFiles(tfa, received, stream)
  BY <1>2 DEF RingFiles
<1> QED
  BY <1>4, <1>5, <1>7, <1>8, <1>9, <1>10 DEF RelayInv, Relay
=============================================================================
