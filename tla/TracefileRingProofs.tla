------------------------ MODULE TracefileRingProofs ------------------------
(***************************************************************************)
(* Proofs of the properties of module TracefileRing, for every number of   *)
(* files but one (with a single file TLC finds them violated) and every    *)
(* number of indexes.                                                      *)
(***************************************************************************)
EXTENDS TracefileRing, TLAPS

\* The heads and the tail are files of the ring.
HeadsInRing(a) ==
    /\ a.file_head_read \in Files
    /\ a.file_head_write \in Files
    /\ a.file_tail \in Files

\* The modulo of the code wraps the last file to the first.
LEMMA NextFileWraps ==
    ASSUME count > 0, NEW f \in Files
    PROVE  /\ NextFile(f) \in Files
           /\ NextFile(f) = IF f = count - 1 THEN 0 ELSE f + 1
  BY CountAssumption DEF NextFile, Files

\* What tracefile_array_file_rotate does to the array when it rotates the
\* file written (tracefile-array.c:88-107).
LEMMA RotateWriteEffect ==
    ASSUME NEW a \in TracefileArrayType, count > 0, HeadsInRing(a)
    PROVE  LET b == tracefile_array_rotate_write(a)
               head == NextFile(a.file_head_write)
               tail == IF head = a.file_tail
                       THEN NextFile(a.file_tail) ELSE a.file_tail
           IN  /\ b \in TracefileArrayType /\ HeadsInRing(b)
               /\ b.file_head_write = head
               /\ b.file_tail = tail
               /\ b.seq_tail = IF a.tf[head].seq_head # Unset
                               THEN a.tf[tail].seq_tail ELSE a.seq_tail
               /\ b.tf[head] = EmptyFile
               /\ \A f \in Files \ {head} : b.tf[f] = a.tf[f]
<1> DEFINE b == tracefile_array_rotate_write(a)
           head == NextFile(a.file_head_write)
           tail == IF head = a.file_tail
                   THEN NextFile(a.file_tail) ELSE a.file_tail
<1>1. head \in Files /\ tail \in Files
  BY NextFileWraps DEF HeadsInRing
<1>2. /\ b.file_head_read = a.file_head_read
      /\ b.file_head_write = head
      /\ b.file_tail = tail
      /\ b.seq_head = a.seq_head
      /\ b.seq_tail = IF a.tf[head].seq_head # Unset
                      THEN a.tf[tail].seq_tail ELSE a.seq_tail
      /\ b.tf = [a.tf EXCEPT ![head] = EmptyFile]
  BY CountAssumption DEF tracefile_array_rotate_write
<1>3. /\ a.tf \in [Files -> SeqRange]
      /\ EmptyFile \in SeqRange
  BY DEF TracefileArrayType, SeqRange, EmptyFile, Unset
<1>4. /\ b.tf[head] = EmptyFile
      /\ \A f \in Files \ {head} : b.tf[f] = a.tf[f]
  BY <1>1, <1>2, <1>3
<1>5. b \in TracefileArrayType
  <2>1. b = [tf |-> b.tf, file_head_read |-> b.file_head_read,
             file_head_write |-> b.file_head_write,
             file_tail |-> b.file_tail,
             seq_head |-> b.seq_head, seq_tail |-> b.seq_tail]
    BY CountAssumption DEF tracefile_array_rotate_write
  <2>2. b.tf \in [Files -> SeqRange]
    BY <1>1, <1>2, <1>3
  <2>3. b.seq_tail \in Int /\ b.seq_head \in Int
    BY <1>1, <1>2, <1>3 DEF TracefileArrayType, SeqRange
  <2>4. /\ b.file_head_read \in Nat
        /\ b.file_head_write \in Nat
        /\ b.file_tail \in Nat
    BY <1>1, <1>2, CountAssumption DEF HeadsInRing, Files
  <2> QED
    BY ONLY <2>1, <2>2, <2>3, <2>4 DEF TracefileArrayType
<1> QED
  BY <1>1, <1>2, <1>4, <1>5 DEF HeadsInRing

\* What tracefile_array_commit_seq does (tracefile-array.c:113-139).
LEMMA CommitEffect ==
    ASSUME NEW a \in TracefileArrayType, NEW seq \in Nat,
           count > 0 => HeadsInRing(a)
    PROVE  LET b == tracefile_array_commit_seq(a, seq)
               w == a.file_head_write
           IN  /\ b \in TracefileArrayType
               /\ count > 0 => HeadsInRing(b)
               /\ b.file_head_write = w
               /\ b.file_tail = a.file_tail
               /\ b.seq_tail = IF a.seq_tail = Unset THEN seq ELSE a.seq_tail
               /\ count > 0 =>
                    /\ b.tf[w].seq_head = seq
                    /\ b.tf[w].seq_tail = IF a.tf[w].seq_tail = Unset
                                          THEN seq ELSE a.tf[w].seq_tail
                    /\ \A f \in Files \ {w} : b.tf[f] = a.tf[f]
<1> DEFINE b == tracefile_array_commit_seq(a, seq)
           tail == IF a.seq_tail = Unset THEN seq ELSE a.seq_tail
           overall == [a EXCEPT !.seq_head = seq, !.seq_tail = tail]
           w == a.file_head_write
<1>1. /\ overall \in TracefileArrayType
      /\ overall.tf = a.tf
      /\ overall.file_head_write = w
      /\ overall.file_head_read = a.file_head_read
      /\ overall.file_tail = a.file_tail
      /\ overall.seq_tail = tail
  <2>1. tail \in Int /\ seq \in Int
    BY DEF TracefileArrayType, Unset
  <2> HIDE DEF tail
  <2> QED
    BY <2>1 DEF TracefileArrayType
<1>2. CASE count = 0
  <2>1. b = overall
    BY <1>2 DEF tracefile_array_commit_seq
  <2> QED
    BY <1>1, <1>2, <2>1
<1>3. CASE count > 0
  <2> DEFINE file == [seq_head |-> seq,
                      seq_tail |-> IF a.tf[w].seq_tail = Unset
                                   THEN seq ELSE a.tf[w].seq_tail]
  <2>1. w \in Files
    BY <1>3 DEF HeadsInRing
  <2>2. b = [overall EXCEPT !.tf[w] = file]
    BY <1>1, <1>3, CountAssumption DEF tracefile_array_commit_seq
  <2>3. file \in SeqRange
    BY <2>1 DEF TracefileArrayType, SeqRange, Unset
  <2> HIDE DEF b, overall, file
  <2>4. /\ b \in TracefileArrayType
        /\ b.file_head_write = w
        /\ b.file_head_read = a.file_head_read
        /\ b.file_tail = a.file_tail
        /\ b.seq_tail = tail
        /\ b.tf = [a.tf EXCEPT ![w] = file]
    BY <1>1, <2>1, <2>2, <2>3 DEF TracefileArrayType
  <2>5. a.tf \in [Files -> SeqRange]
    BY DEF TracefileArrayType
  <2>6. b.tf[w] = file /\ \A f \in Files \ {w} : b.tf[f] = a.tf[f]
    BY <2>1, <2>4, <2>5
  <2> QED
    BY <1>3, <2>4, <2>6 DEF HeadsInRing, file, b
<1> QED
  BY <1>2, <1>3, CountAssumption

\* What tracefile_array_reset leaves (tracefile-array.c:55-69).
LEMMA ResetEffect ==
    ASSUME NEW a
    PROVE  LET b == tracefile_array_reset(a)
           IN  /\ b \in TracefileArrayType
               /\ count > 0 => HeadsInRing(b)
               /\ b.file_head_write = 0 /\ b.file_tail = 0
               /\ b.seq_tail = Unset
               /\ \A f \in Files : b.tf[f] = EmptyFile
<1> DEFINE b == tracefile_array_reset(a)
<1>1. [f \in Files |-> EmptyFile] \in [Files -> SeqRange]
  BY DEF SeqRange, EmptyFile, Unset
<1>2. b \in TracefileArrayType
  BY <1>1 DEF tracefile_array_reset, tracefile_array_create,
              TracefileArrayType, Unset
<1>3. /\ b.file_head_read = 0 /\ b.file_head_write = 0 /\ b.file_tail = 0
      /\ b.seq_tail = Unset
      /\ b.tf = [f \in Files |-> EmptyFile]
  BY DEF tracefile_array_reset, tracefile_array_create
<1> QED
  BY <1>2, <1>3, CountAssumption DEF HeadsInRing, Files

\* The read head follows the file written (tracefile-array.c:81-87).
LEMMA RotateReadEffect ==
    ASSUME NEW a \in TracefileArrayType, count > 0 => HeadsInRing(a)
    PROVE  LET b == tracefile_array_rotate_read(a)
           IN  /\ b \in TracefileArrayType
               /\ count > 0 => HeadsInRing(b)
               /\ b.file_head_write = a.file_head_write
               /\ b.file_tail = a.file_tail
               /\ b.seq_tail = a.seq_tail
               /\ b.tf = a.tf
<1>1. CASE count = 0
  BY <1>1 DEF tracefile_array_rotate_read
<1>2. CASE count > 0
  BY <1>2 DEF tracefile_array_rotate_read, TracefileArrayType, HeadsInRing
<1> QED
  BY <1>1, <1>2, CountAssumption

-----------------------------------------------------------------------------
\* The inductive invariant.
IInv == TypeOK /\ RingOrder /\ RetainedExactlyOnce /\ TailIsOldestRetained

\* Of a file that is not empty, HasSeq says that a sequence count is in range;
\* an empty file has none.
LEMMA HasSeqMeaning ==
    ASSUME TypeOK, count > 0, NEW f \in Files, NEW s \in Nat
    PROVE  /\ Empty(f) => ~HasSeq(f, s)
           /\ tfa.tf[f].seq_head \in Nat /\ tfa.tf[f].seq_tail \in Nat =>
                (HasSeq(f, s) <=> /\ tfa.tf[f].seq_tail <= s
                                  /\ s <= tfa.tf[f].seq_head)
  BY CountAssumption
  DEF HasSeq, tracefile_array_seq_in_file, ULeq, Unset, Empty, EmptyFile

\* An array just reset, whose only file announces the next index.
LEMMA FreshArray ==
    ASSUME IInv, received' \in Nat, open' \in BOOLEAN,
           tfa' = tracefile_array_commit_seq(tracefile_array_reset(tfa),
                                             received')
    PROVE  IInv' /\ tfa'.seq_tail = received'
<1> DEFINE r == tracefile_array_reset(tfa)
<1>1. /\ r \in TracefileArrayType
      /\ count > 0 => HeadsInRing(r)
      /\ r.file_head_write = 0 /\ r.file_tail = 0
      /\ r.seq_tail = Unset
      /\ \A f \in Files : r.tf[f] = EmptyFile
  BY ResetEffect
<1> HIDE DEF r
<1>2. tfa' = tracefile_array_commit_seq(r, received')
  BY DEF r
<1>3. /\ tfa' \in TracefileArrayType
      /\ count > 0 => HeadsInRing(tfa')
      /\ tfa'.file_head_write = 0
      /\ tfa'.file_tail = 0
      /\ tfa'.seq_tail = received'
      /\ count > 0 =>
           /\ tfa'.tf[0].seq_head = received'
           /\ tfa'.tf[0].seq_tail = IF r.tf[0].seq_tail = Unset
                                    THEN received' ELSE r.tf[0].seq_tail
           /\ \A f \in Files \ {0} : tfa'.tf[f] = r.tf[f]
  BY <1>1, <1>2, CommitEffect
<1>4. TypeOK'
  BY <1>3 DEF TypeOK, HeadsInRing
<1>5. CASE count = 0
  BY <1>3, <1>4, <1>5
  DEF IInv, RingOrder, RetainedExactlyOnce, TailIsOldestRetained, Unset
<1>6. CASE count > 0
  <2>1. /\ 0 \in Files
        /\ \A f \in Files : f \in Int /\ f >= 0
    BY <1>6, CountAssumption DEF Files
  <2>3. /\ tfa'.tf[0].seq_head = received'
        /\ tfa'.tf[0].seq_tail = received'
        /\ ~Empty(0)'
    BY <1>1, <1>3, <1>6, <2>1 DEF Empty, EmptyFile, Unset
  <2>4. \A f \in Files : f # 0 => Empty(f)'
    BY <1>1, <1>3, <1>6 DEF Empty
  <2>5. RingOrder'
    <3>1. /\ Age(0)' = 0
          /\ \A f \in Files : f # 0 => Age(f)' \in Int /\ Age(f)' > 0
      BY <1>3, <1>6, <2>1, CountAssumption DEF Age, Files
    <3>2. RangesValid'
      BY <2>3, <2>4 DEF RangesValid
    <3>3. BeyondTailEmpty'
      BY <1>3, <2>1, <2>4, <3>1 DEF BeyondTailEmpty
    <3>4. UpToTailUsed'
      BY <1>3, <2>1, <3>1 DEF UpToTailUsed
    <3>5. OlderIsSmaller'
      BY <2>4, <3>1 DEF OlderIsSmaller
    <3>6. HeadAnnounces'
      BY <1>3, <2>3, <2>4 DEF HeadAnnounces, Empty, EmptyFile, Unset
    <3> QED
      BY <1>3, <3>2, <3>3, <3>4, <3>5, <3>6 DEF RingOrder, Unset
  <2>6. TailIsOldestRetained'
    BY <1>3, <2>3 DEF TailIsOldestRetained
  <2>7. RetainedExactlyOnce'
    <3> SUFFICES ASSUME NEW s \in (tfa.seq_tail .. received - 1)'
                 PROVE  FALSE
      BY DEF RetainedExactlyOnce
    <3> QED
      BY <1>3
  <2> QED
    BY <1>3, <1>4, <2>5, <2>6, <2>7 DEF IInv
<1> QED
  BY <1>3, <1>5, <1>6, CountAssumption

-----------------------------------------------------------------------------
\* Ages number the files from the head; the file after another is younger.
LEMMA Ages ==
    TypeOK /\ count > 0 =>
        /\ \A f \in Files : Age(f) \in 0 .. count - 1
        /\ Age(tfa.file_head_write) = 0
        /\ \A f, g \in Files : Age(f) = Age(g) => f = g
        /\ Age(NextFile(tfa.file_head_write)) = count - 1
        /\ \A f \in Files \ {tfa.file_head_write} :
              Age(NextFile(f)) = Age(f) - 1
<1> SUFFICES ASSUME TypeOK, count > 0
             PROVE  /\ \A f \in Files : Age(f) \in 0 .. count - 1
                    /\ Age(tfa.file_head_write) = 0
                    /\ \A f, g \in Files : Age(f) = Age(g) => f = g
                    /\ Age(NextFile(tfa.file_head_write)) = count - 1
                    /\ \A f \in Files \ {tfa.file_head_write} :
                          Age(NextFile(f)) = Age(f) - 1
  OBVIOUS
<1> DEFINE w == tfa.file_head_write
<1>1. w \in Files
  BY DEF TypeOK
<1>2. \A f \in Files : Age(f) \in 0 .. count - 1
  BY <1>1, CountAssumption DEF Age, Files
<1>3. Age(w) = 0
  BY <1>1, CountAssumption DEF Age, Files
<1>4. \A f, g \in Files : Age(f) = Age(g) => f = g
  BY <1>1, CountAssumption DEF Age, Files
<1>5. Age(NextFile(w)) = count - 1
  BY <1>1, NextFileWraps, CountAssumption DEF Age, Files
<1>6. ASSUME NEW f \in Files \ {w}
      PROVE  Age(NextFile(f)) = Age(f) - 1
  BY <1>1, <1>6, NextFileWraps, CountAssumption DEF Age, Files
<1> QED
  BY <1>2, <1>3, <1>4, <1>5, <1>6

\* The range of a file is that of natural numbers unless the file is empty.
LEMMA FileRange ==
    TypeOK /\ RangesValid /\ count > 0 =>
        \A f \in Files :
            /\ tfa.tf[f] \in SeqRange
            /\ Empty(f) <=> tfa.tf[f].seq_head = Unset
            /\ Empty(f) <=> tfa.tf[f].seq_tail = Unset
            /\ ~Empty(f) => /\ tfa.tf[f].seq_head \in Nat
                            /\ tfa.tf[f].seq_tail \in Nat
<1> SUFFICES ASSUME TypeOK, RangesValid, count > 0, NEW f \in Files
             PROVE  /\ tfa.tf[f] \in SeqRange
                    /\ Empty(f) <=> tfa.tf[f].seq_head = Unset
                    /\ Empty(f) <=> tfa.tf[f].seq_tail = Unset
                    /\ ~Empty(f) => /\ tfa.tf[f].seq_head \in Nat
                                    /\ tfa.tf[f].seq_tail \in Nat
  OBVIOUS
<1>1. tfa.tf[f] \in SeqRange
  BY DEF TypeOK, TracefileArrayType
<1>2. CASE Empty(f)
  BY <1>1, <1>2 DEF Empty, EmptyFile, Unset
<1>3. CASE ~Empty(f)
  BY <1>1, <1>3 DEF RangesValid, SeqRange, Unset
<1> QED
  BY <1>2, <1>3, <1>1

\* Two files have no sequence count in common.
LEMMA RangesDisjoint ==
    TypeOK /\ RangesValid /\ OlderIsSmaller /\ count > 0 =>
        \A s \in Nat : \A f, g \in Files :
            HasSeq(f, s) /\ HasSeq(g, s) => f = g
<1> SUFFICES ASSUME TypeOK, RangesValid, OlderIsSmaller, count > 0,
                    NEW s \in Nat, NEW f \in Files, NEW g \in Files,
                    HasSeq(f, s), HasSeq(g, s), f # g
             PROVE  FALSE
  OBVIOUS
<1>1. ~Empty(f) /\ ~Empty(g)
  BY HasSeqMeaning
<1>2. /\ tfa.tf[f].seq_head \in Nat /\ tfa.tf[f].seq_tail \in Nat
      /\ tfa.tf[g].seq_head \in Nat /\ tfa.tf[g].seq_tail \in Nat
  BY <1>1, FileRange
<1>3. /\ tfa.tf[f].seq_tail <= s /\ s <= tfa.tf[f].seq_head
      /\ tfa.tf[g].seq_tail <= s /\ s <= tfa.tf[g].seq_head
  BY <1>2, HasSeqMeaning
<1>4. Age(f) < Age(g) \/ Age(g) < Age(f)
  BY Ages
<1> QED
  BY <1>1, <1>2, <1>3, <1>4 DEF OlderIsSmaller

\* The same of the state a step leads to.
LEMMA RangesDisjointNext ==
    TypeOK' /\ RangesValid' /\ OlderIsSmaller' /\ count > 0 =>
        \A s \in Nat : \A f, g \in Files :
            HasSeq(f, s)' /\ HasSeq(g, s)' => f = g
<1>1. (TypeOK /\ RangesValid /\ OlderIsSmaller /\ count > 0 =>
         \A s \in Nat : \A f, g \in Files :
             HasSeq(f, s) /\ HasSeq(g, s) => f = g)'
  BY RangesDisjoint, PTL
<1> QED
  BY <1>1 DEF HasSeq

\* An index flushed extends the range of the file written.
LEMMA FlushKeepsIInv ==
    ASSUME IInv, FlushIndex
    PROVE  IInv' /\ tfa.seq_tail <= tfa'.seq_tail
<1> DEFINE w == tfa.file_head_write
           a == tracefile_array_rotate_read(tfa)
<1>1. /\ tfa \in TracefileArrayType
      /\ count > 0 => HeadsInRing(tfa)
      /\ received \in Nat /\ received' = received + 1
      /\ open' = FALSE
  BY DEF IInv, TypeOK, HeadsInRing, FlushIndex
<1>2. /\ a \in TracefileArrayType
      /\ count > 0 => HeadsInRing(a)
      /\ a.file_head_write = w
      /\ a.file_tail = tfa.file_tail
      /\ a.seq_tail = tfa.seq_tail
      /\ a.tf = tfa.tf
  BY <1>1, RotateReadEffect
<1>3. tfa' = tracefile_array_commit_seq(a, received)
  BY DEF FlushIndex
<1> HIDE DEF a
<1>4. /\ tfa' \in TracefileArrayType
      /\ count > 0 => HeadsInRing(tfa')
      /\ tfa'.file_head_write = w
      /\ tfa'.file_tail = tfa.file_tail
      /\ tfa'.seq_tail = IF tfa.seq_tail = Unset
                         THEN received ELSE tfa.seq_tail
      /\ count > 0 =>
           /\ tfa'.tf[w].seq_head = received
           /\ tfa'.tf[w].seq_tail = IF tfa.tf[w].seq_tail = Unset
                                    THEN received ELSE tfa.tf[w].seq_tail
           /\ \A f \in Files \ {w} : tfa'.tf[f] = tfa.tf[f]
  BY <1>1, <1>2, <1>3, CommitEffect
<1>5. TypeOK'
  <2>1. received' \in Nat
    BY <1>1
  <2>2. open' \in BOOLEAN
    BY <1>1
  <2>3. tfa' \in TracefileArrayType /\ (count > 0 => HeadsInRing(tfa'))
    BY <1>4
  <2> QED
    BY <2>1, <2>2, <2>3 DEF TypeOK, HeadsInRing
<1>6. /\ tfa.seq_tail \in Int
      /\ Unset <= tfa.seq_tail /\ tfa.seq_tail <= received
      /\ tfa'.seq_tail \in Nat /\ tfa.seq_tail <= tfa'.seq_tail
      /\ tfa'.seq_tail <= received
  BY <1>1, <1>4 DEF IInv, RingOrder, TracefileArrayType, Unset
<1>7. CASE count = 0
  BY <1>1, <1>5, <1>6, <1>7
  DEF IInv, RingOrder, RetainedExactlyOnce, TailIsOldestRetained, Unset
<1>8. CASE count > 0
  <2>1. /\ TypeOK /\ RangesValid /\ BeyondTailEmpty /\ UpToTailUsed
        /\ OlderIsSmaller /\ HeadAnnounces
        /\ tfa.seq_tail = Unset => \A f \in Files : Empty(f)
        /\ w \in Files /\ tfa.file_tail \in Files
    BY <1>8 DEF IInv, RingOrder, TypeOK
  <2>2. /\ \A f \in Files : Age(f)' = Age(f) /\ Age(f) \in Int
        /\ Age(tfa.file_tail)' = Age(tfa.file_tail)
        /\ Age(w) = 0
        /\ \A f \in Files : Age(f) >= 0
        /\ \A f \in Files \ {w} : Age(f) # 0
    <3>1. \A f \in Files : Age(f)' = Age(f)
      BY <1>4 DEF Age
    <3>2. /\ \A f \in Files : Age(f) \in 0 .. count - 1
          /\ Age(w) = 0
          /\ \A f, g \in Files : Age(f) = Age(g) => f = g
      BY <1>8, <2>1, Ages
    <3> QED
      BY <1>4, <2>1, <3>1, <3>2
  <2>3. \A f \in Files \ {w} : Empty(f)' <=> Empty(f)
    BY <1>4, <1>8 DEF Empty
  <2>4. /\ ~Empty(w)'
        /\ tfa'.tf[w].seq_tail \in Nat
        /\ tfa'.tf[w].seq_tail <= received
        /\ tfa'.tf[w].seq_head = received
        /\ Empty(w) => tfa'.tf[w].seq_tail = received
        /\ ~Empty(w) => tfa'.tf[w].seq_tail = tfa.tf[w].seq_tail
    <3>1. /\ Empty(w) <=> tfa.tf[w].seq_tail = Unset
          /\ ~Empty(w) => tfa.tf[w].seq_tail \in Nat
                          /\ tfa.tf[w].seq_head \in Nat
      BY <1>8, <2>1, FileRange
    <3>2. ~Empty(w) => tfa.tf[w].seq_tail <= received
      BY <1>1, <2>1, <3>1 DEF RangesValid
    <3>3. ~Empty(w)'
      BY <1>1, <1>4, <1>8 DEF Empty, EmptyFile, Unset
    <3> QED
      BY <1>1, <1>4, <1>8, <3>1, <3>2, <3>3
  <2>5. \A f \in Files \ {w} : ~Empty(f) =>
            /\ tfa.tf[f].seq_head \in Nat /\ tfa.tf[f].seq_tail \in Nat
            /\ tfa.tf[f].seq_head < received
    <3> SUFFICES ASSUME NEW f \in Files \ {w}, ~Empty(f)
                 PROVE  /\ tfa.tf[f].seq_head \in Nat
                        /\ tfa.tf[f].seq_tail \in Nat
                        /\ tfa.tf[f].seq_head < received
      OBVIOUS
    <3>1. tfa.tf[f].seq_head \in Nat /\ tfa.tf[f].seq_tail \in Nat
      BY <1>8, <2>1, FileRange
    <3>2. tfa.tf[f].seq_head <= received /\ tfa.tf[f].seq_head # received
      BY <2>1 DEF RangesValid, HeadAnnounces
    <3> QED
      BY <1>1, <3>1, <3>2
  <2>6. RangesValid'
    BY <1>1, <1>4, <1>8, <2>1, <2>3, <2>4, <2>5 DEF RangesValid
  <2>7. BeyondTailEmpty'
    BY <1>4, <2>1, <2>2, <2>3 DEF BeyondTailEmpty
  <2>8. UpToTailUsed'
    BY <1>4, <2>1, <2>2, <2>3 DEF UpToTailUsed
  <2>9. OlderIsSmaller'
    <3> SUFFICES ASSUME NEW f \in Files, NEW g \in Files,
                        Age(f)' < Age(g)', ~Empty(f)', ~Empty(g)'
                 PROVE  tfa'.tf[g].seq_head < tfa'.tf[f].seq_tail
      BY DEF OlderIsSmaller
    <3>1. g # w /\ Age(f) < Age(g) /\ ~Empty(g)
      BY <2>2, <2>3
    <3>2. tfa'.tf[g].seq_head = tfa.tf[g].seq_head
      BY <1>4, <1>8, <3>1
    <3>3. CASE f = w /\ Empty(w)
      BY <2>4, <2>5, <3>1, <3>2, <3>3
    <3>4. CASE f = w /\ ~Empty(w)
      BY <2>1, <2>4, <3>1, <3>2, <3>4 DEF OlderIsSmaller
    <3>5. CASE f # w
      BY <1>4, <1>8, <2>1, <2>3, <3>1, <3>2, <3>5 DEF OlderIsSmaller
    <3> QED
      BY <3>3, <3>4, <3>5
  <2>10. HeadAnnounces'
    <3> SUFFICES ASSUME NEW f \in Files, tfa'.tf[f].seq_head = received + 1
                 PROVE  FALSE
      BY <1>1 DEF HeadAnnounces
    <3>1. f # w
      BY <1>1, <2>4
    <3>2. tfa'.tf[f].seq_head = tfa.tf[f].seq_head
      BY <1>4, <1>8, <3>1
    <3>3. ~Empty(f)
      BY <1>1, <3>2 DEF Empty, EmptyFile, Unset
    <3> QED
      BY <1>1, <2>5, <3>1, <3>2, <3>3
  <2>11. RingOrder'
    BY <1>1, <1>6, <2>6, <2>7, <2>8, <2>9, <2>10 DEF RingOrder, Unset
  <2>12. TailIsOldestRetained'
    <3>1. CASE tfa.seq_tail = Unset
      <4>1. Empty(w) /\ Empty(tfa.file_tail)
        BY <2>1, <3>1
      <4>2. tfa.file_tail = w
        BY <2>1, <2>2, <4>1 DEF UpToTailUsed
      <4> QED
        BY <1>4, <2>4, <3>1, <4>1, <4>2 DEF TailIsOldestRetained
    <3>2. CASE tfa.seq_tail # Unset
      <4>1. tfa.tf[tfa.file_tail].seq_tail = tfa.seq_tail
        BY <1>8, <3>2 DEF IInv, TailIsOldestRetained
      <4>2. CASE tfa.file_tail = w
        BY <1>4, <1>8, <3>2, <4>1, <4>2 DEF TailIsOldestRetained
      <4>3. CASE tfa.file_tail # w
        BY <1>4, <1>8, <2>1, <3>2, <4>1, <4>3 DEF TailIsOldestRetained
      <4> QED
        BY <4>2, <4>3
    <3> QED
      BY <3>1, <3>2
  <2>13. RetainedExactlyOnce'
    <3> SUFFICES ASSUME NEW s \in tfa'.seq_tail .. received
                 PROVE  /\ \E f \in Files : HasSeq(f, s)'
                        /\ \A f, g \in Files :
                              HasSeq(f, s)' /\ HasSeq(g, s)' => f = g
      BY <1>1 DEF RetainedExactlyOnce
    <3>1. s \in Nat
      BY <1>6
    <3>2. \A f, g \in Files : HasSeq(f, s)' /\ HasSeq(g, s)' => f = g
      BY <1>5, <1>8, <2>6, <2>9, <3>1, RangesDisjointNext
    <3>3. ASSUME NEW f \in Files,
                 tfa'.tf[f].seq_tail \in Nat, tfa'.tf[f].seq_head \in Nat,
                 tfa'.tf[f].seq_tail <= s, s <= tfa'.tf[f].seq_head
          PROVE  HasSeq(f, s)'
      BY <1>8, <3>1, <3>3
      DEF HasSeq, tracefile_array_seq_in_file, ULeq, Unset
    <3>4. CASE s = received
      <4>1. PICK v \in Files : v = w
        BY <2>1
      <4>2. HasSeq(v, s)'
        BY <1>1, <2>4, <3>3, <3>4, <4>1
      <4> QED
        BY <3>2, <4>2
    <3>5. CASE s # received
      <4>1. s \in tfa.seq_tail .. received - 1 /\ tfa.seq_tail # Unset
        BY <1>1, <1>4, <1>6, <3>5
      <4>2. PICK f \in Files : HasSeq(f, s)
        BY <1>8, <4>1 DEF IInv, RetainedExactlyOnce
      <4>3. ~Empty(f)
        BY <1>8, <2>1, <3>1, <4>2, HasSeqMeaning
      <4>4. tfa.tf[f].seq_head \in Nat /\ tfa.tf[f].seq_tail \in Nat
        BY <1>8, <2>1, <4>3, FileRange
      <4>5. tfa.tf[f].seq_tail <= s /\ s <= tfa.tf[f].seq_head
        BY <1>8, <2>1, <3>1, <4>2, <4>4, HasSeqMeaning
      <4>6. CASE f = w
        <5>1. /\ tfa'.tf[f].seq_tail \in Nat /\ tfa'.tf[f].seq_head \in Nat
              /\ tfa'.tf[f].seq_tail <= s /\ s <= tfa'.tf[f].seq_head
          BY <1>1, <2>4, <4>1, <4>3, <4>5, <4>6
        <5> QED
          BY <3>2, <3>3, <5>1
      <4>7. CASE f # w
        <5>1. tfa'.tf[f] = tfa.tf[f]
          BY <1>4, <1>8, <4>7
        <5> QED
          BY <3>2, <3>3, <4>4, <4>5, <5>1
      <4> QED
        BY <4>6, <4>7
    <3> QED
      BY <3>2, <3>4, <3>5
  <2> QED
    BY <1>5, <1>6, <2>11, <2>12, <2>13 DEF IInv
<1> QED
  BY <1>7, <1>8, CountAssumption

\* A rotation of the file written makes every file one rotation older, but
\* the one it empties, and pushes the tail when that one was the oldest.
LEMMA RotateKeepsIInv ==
    ASSUME IInv, InitPacketRotate, count # 1
    PROVE  IInv' /\ tfa.seq_tail <= tfa'.seq_tail
<1> DEFINE w == tfa.file_head_write
           t == tfa.file_tail
           head == NextFile(w)
           tail == IF head = t THEN NextFile(t) ELSE t
<1>1. /\ tfa \in TracefileArrayType
      /\ count > 0 => HeadsInRing(tfa)
      /\ received \in Nat /\ received' = received /\ received > 0
      /\ tfa' = tracefile_array_rotate_write(tfa)
      /\ tfa.seq_tail \in Int
      /\ Unset <= tfa.seq_tail /\ tfa.seq_tail <= received
  BY DEF IInv, TypeOK, RingOrder, HeadsInRing, InitPacketRotate,
         HeadFileUsed, TracefileArrayType
<1>2. open' \in BOOLEAN
  BY DEF InitPacketRotate
<1>3. CASE count = 0
  <2>1. tfa' = tfa
    BY <1>1, <1>3 DEF tracefile_array_rotate_write
  <2>2. TypeOK'
    BY <1>1, <1>2, <1>3, <2>1 DEF TypeOK
  <2> QED
    BY <1>1, <1>3, <2>1, <2>2
    DEF IInv, RingOrder, RetainedExactlyOnce, TailIsOldestRetained
<1>4. CASE count > 0
  <2>1. /\ TypeOK /\ RangesValid /\ BeyondTailEmpty /\ UpToTailUsed
        /\ OlderIsSmaller /\ HeadAnnounces
        /\ tfa.seq_tail = Unset => \A f \in Files : Empty(f)
        /\ w \in Files /\ t \in Files
        /\ tfa.tf[w].seq_head = received - 1
    BY <1>4 DEF IInv, RingOrder, TypeOK, InitPacketRotate, HeadFileUsed
  <2>2. /\ tfa' \in TracefileArrayType /\ HeadsInRing(tfa')
        /\ tfa'.file_head_write = head
        /\ tfa'.file_tail = tail
        /\ tfa'.seq_tail = IF tfa.tf[head].seq_head # Unset
                           THEN tfa.tf[tail].seq_tail ELSE tfa.seq_tail
        /\ tfa'.tf[head] = EmptyFile
        /\ \A f \in Files \ {head} : tfa'.tf[f] = tfa.tf[f]
    BY <1>1, <1>4, RotateWriteEffect
  <2>3. TypeOK'
    BY <1>1, <1>2, <2>2 DEF TypeOK, HeadsInRing
  <2>4. /\ \A f \in Files : Age(f) \in 0 .. count - 1
        /\ Age(w) = 0
        /\ \A f, g \in Files : Age(f) = Age(g) => f = g
        /\ Age(head) = count - 1
        /\ \A f \in Files \ {w} : Age(NextFile(f)) = Age(f) - 1
    BY <1>4, <2>1, Ages
  <2>5. /\ head \in Files /\ tail \in Files
        /\ head # w /\ tail # head /\ NextFile(t) \in Files
    BY <1>4, <2>1, NextFileWraps, CountAssumption DEF Files
  <2>6. \A f \in Files \ {head} : Age(f)' = Age(f) + 1
    BY <1>4, <2>1, <2>2, <2>5, NextFileWraps, CountAssumption DEF Age, Files
  <2>7. \A f \in Files : f = head => Age(f)' = 0
    BY <1>4, <2>2, <2>5, CountAssumption DEF Age, Files
  <2>8. ~Empty(w) /\ tfa.seq_tail # Unset
    BY <1>1, <2>1 DEF Empty, EmptyFile, Unset
  <2>9. /\ \A f \in Files \ {head} : Empty(f)' <=> Empty(f)
        /\ \A f \in Files : f = head => Empty(f)'
    BY <2>2 DEF Empty
  <2>10. PICK h \in Files, l \in Files : h = head /\ l = tail
    BY <2>5
  <2>11. tfa'.file_tail = l /\ tfa'.file_head_write = h
    BY <2>2, <2>10
  <2>12. /\ Age(l)' = Age(l) + 1 /\ Age(l) \in Int
         /\ ~Empty(l)
         /\ \A f \in Files \ {h} : Age(f) > Age(l) => Empty(f)
         /\ \A f \in Files \ {h} : Age(f) <= Age(l) => ~Empty(f)
    <3>1. Age(l)' = Age(l) + 1 /\ Age(l) \in Int
      BY <2>4, <2>5, <2>6, <2>10
    <3>2. CASE head # t
      BY <2>1, <2>4, <2>8, <2>10, <3>1, <3>2 DEF BeyondTailEmpty, UpToTailUsed
    <3>3. CASE head = t
      <4>1. Age(t) = count - 1 /\ t # w
        BY <2>4, <2>5, <3>3
      <4>2. Age(l) = count - 2
        BY <2>1, <2>4, <2>10, <3>3, <4>1, CountAssumption
      <4>3. \A f \in Files \ {h} : Age(f) <= count - 2
        BY <2>4, <2>5, <2>10, CountAssumption
      <4>4. \A f \in Files : ~Empty(f)
        BY <2>1, <2>4, <2>8, <4>1 DEF UpToTailUsed
      <4> QED
        BY <2>4, <3>1, <4>2, <4>3, <4>4, CountAssumption
    <3> QED
      BY <3>2, <3>3
  <2>13. /\ tfa'.seq_tail = tfa.tf[l].seq_tail
         /\ tfa'.seq_tail \in Nat /\ tfa'.seq_tail <= received
         /\ tfa.seq_tail <= tfa'.seq_tail
         /\ ~Empty(h) => tfa.tf[h].seq_head < tfa'.seq_tail
    <3>1. /\ tfa.tf[l].seq_tail \in Nat /\ tfa.tf[l].seq_head \in Nat
          /\ tfa.tf[l].seq_tail <= received
      <4>1. tfa.tf[l].seq_tail \in Nat /\ tfa.tf[l].seq_head \in Nat
        BY <1>4, <2>1, <2>12, FileRange
      <4> QED
        BY <1>1, <2>1, <2>12, <4>1 DEF RangesValid
    <3>2. Empty(h) <=> tfa.tf[h].seq_head = Unset
      BY <1>4, <2>1, FileRange
    <3>3. tfa.tf[t].seq_tail = tfa.seq_tail
      BY <1>4, <2>8 DEF IInv, TailIsOldestRetained
    <3>4. CASE head # t
      <4>1. Empty(h) /\ l = t
        BY <2>1, <2>4, <2>10, <3>4 DEF BeyondTailEmpty
      <4> QED
        BY <1>1, <2>2, <2>10, <3>1, <3>2, <3>3, <4>1
    <3>5. CASE head = t
      <4>1. /\ Age(l) < Age(t) /\ ~Empty(t) /\ h = t
        BY <2>1, <2>4, <2>5, <2>10, <3>5 DEF UpToTailUsed
      <4>2. /\ tfa.tf[t].seq_tail \in Nat /\ tfa.tf[t].seq_head \in Nat
        BY <1>4, <2>1, <4>1, FileRange
      <4>3. /\ tfa.tf[t].seq_tail <= tfa.tf[t].seq_head
            /\ tfa.tf[t].seq_head < tfa.tf[l].seq_tail
        BY <2>1, <2>12, <4>1 DEF RangesValid, OlderIsSmaller
      <4> QED
        BY <2>2, <2>10, <3>1, <3>2, <3>3, <4>1, <4>2, <4>3
    <3> QED
      BY <3>4, <3>5
  <2>14. RangesValid'
    BY <1>1, <2>1, <2>2, <2>9, <2>10 DEF RangesValid
  <2>15. BeyondTailEmpty'
    BY <2>4, <2>6, <2>9, <2>10, <2>11, <2>12 DEF BeyondTailEmpty
  <2>16. UpToTailUsed'
    BY <2>4, <2>6, <2>9, <2>10, <2>11, <2>12 DEF UpToTailUsed
  <2>17. OlderIsSmaller'
    BY <2>1, <2>2, <2>4, <2>6, <2>9, <2>10 DEF OlderIsSmaller
  <2>18. HeadAnnounces'
    <3> SUFFICES ASSUME NEW f \in Files, tfa'.tf[f].seq_head = received
                 PROVE  FALSE
      BY <1>1 DEF HeadAnnounces
    <3>1. f # head
      BY <1>1, <2>2 DEF EmptyFile, Unset
    <3>2. tfa.tf[f].seq_head = received
      BY <2>2, <3>1
    <3> QED
      BY <1>1, <2>1, <3>2 DEF HeadAnnounces
  <2>19. RingOrder'
    BY <1>1, <2>13, <2>14, <2>15, <2>16, <2>17, <2>18 DEF RingOrder, Unset
  <2>20. TailIsOldestRetained'
    BY <2>2, <2>5, <2>10, <2>11, <2>13 DEF TailIsOldestRetained
  <2>21. RetainedExactlyOnce'
    <3> SUFFICES ASSUME NEW s \in tfa'.seq_tail .. received - 1
                 PROVE  /\ \E f \in Files : HasSeq(f, s)'
                        /\ \A f, g \in Files :
                              HasSeq(f, s)' /\ HasSeq(g, s)' => f = g
      BY <1>1 DEF RetainedExactlyOnce
    <3>1. s \in Nat /\ s \in tfa.seq_tail .. received - 1
      BY <1>1, <2>13
    <3>2. \A f, g \in Files : HasSeq(f, s)' /\ HasSeq(g, s)' => f = g
      BY <1>4, <2>3, <2>14, <2>17, <3>1, RangesDisjointNext
    <3>3. PICK f \in Files : HasSeq(f, s)
      BY <1>4, <2>8, <3>1 DEF IInv, RetainedExactlyOnce
    <3>4. ~Empty(f)
      BY <1>4, <2>1, <3>1, <3>3, HasSeqMeaning
    <3>5. tfa.tf[f].seq_head \in Nat /\ tfa.tf[f].seq_tail \in Nat
      BY <1>4, <2>1, <3>4, FileRange
    <3>6. tfa.tf[f].seq_tail <= s /\ s <= tfa.tf[f].seq_head
      BY <1>4, <2>1, <3>1, <3>3, <3>5, HasSeqMeaning
    <3>7. f # h
      BY <2>13, <3>4, <3>5, <3>6
    <3>8. tfa'.tf[f] = tfa.tf[f]
      BY <2>2, <2>10, <3>7
    <3>9. HasSeq(f, s)'
      BY <1>4, <3>1, <3>5, <3>6, <3>8
      DEF HasSeq, tracefile_array_seq_in_file, ULeq, Unset
    <3> QED
      BY <3>2, <3>9
  <2> QED
    BY <2>3, <2>13, <2>19, <2>20, <2>21 DEF IInv
<1> QED
  BY <1>3, <1>4, CountAssumption

-----------------------------------------------------------------------------
\* Every step keeps the invariant and moves the tail forward, if at all.
LEMMA StepKeepsIInv ==
    ASSUME IInv, [Next]_vars, count # 1
    PROVE  IInv' /\ tfa.seq_tail <= tfa'.seq_tail
<1>1. /\ received \in Nat /\ open \in BOOLEAN
      /\ tfa.seq_tail \in Int /\ tfa.seq_tail <= received
  BY DEF IInv, TypeOK, RingOrder, TracefileArrayType
<1>2. ASSUME UNCHANGED <<tfa, received>>, open' \in BOOLEAN
      PROVE  IInv' /\ tfa.seq_tail <= tfa'.seq_tail
  <2>1. TypeOK'
    BY <1>2 DEF IInv, TypeOK
  <2>2. RingOrder'
    BY <1>2 DEF IInv, RingOrder, RangesValid, BeyondTailEmpty, UpToTailUsed,
                OlderIsSmaller, HeadAnnounces, Age, Empty
  <2>3. RetainedExactlyOnce' /\ TailIsOldestRetained'
    BY <1>2 DEF IInv, RetainedExactlyOnce, TailIsOldestRetained, HasSeq
  <2> QED
    BY <1>1, <1>2, <2>1, <2>2, <2>3 DEF IInv
<1>3. CASE InitPacket
  BY <1>2, <1>3 DEF InitPacket
<1>4. CASE InitPacketRotate
  BY <1>4, RotateKeepsIInv
<1>5. CASE FlushIndex
  BY <1>5, FlushKeepsIInv
<1>6. CASE CompleteRotation
  <2>1. received' \in Nat /\ received' = received
    BY <1>1, <1>6 DEF CompleteRotation
  <2>2. open' \in BOOLEAN
    BY <1>1, <1>6 DEF CompleteRotation
  <2>3. tfa' = tracefile_array_commit_seq(tracefile_array_reset(tfa),
                                          received')
    BY <1>6 DEF CompleteRotation
  <2>4. IInv' /\ tfa'.seq_tail = received'
    BY <2>1, <2>2, <2>3, FreshArray
  <2> QED
    BY <1>1, <2>1, <2>4
<1>7. CASE FlushCompletesRotation
  <2>1. received' \in Nat /\ received' = received + 1
    BY <1>1, <1>7 DEF FlushCompletesRotation
  <2>2. open' \in BOOLEAN
    BY <1>1, <1>7 DEF FlushCompletesRotation
  <2>3. tfa' = tracefile_array_commit_seq(tracefile_array_reset(tfa),
                                          received')
    BY <1>7 DEF FlushCompletesRotation
  <2>4. IInv' /\ tfa'.seq_tail = received'
    BY <2>1, <2>2, <2>3, FreshArray
  <2> QED
    BY <1>1, <2>1, <2>4
<1>8. CASE AbandonPacket
  BY <1>2, <1>8 DEF AbandonPacket
<1>9. CASE UNCHANGED vars
  BY <1>1, <1>2, <1>9 DEF vars
<1> QED
  BY <1>3, <1>4, <1>5, <1>6, <1>7, <1>8, <1>9 DEF Next

\* tracefile_array_create leaves an array that satisfies the invariant.
LEMMA InitIInv == Init => IInv
<1> SUFFICES ASSUME Init
             PROVE  IInv
  OBVIOUS
<1>1. tfa = tracefile_array_reset(tfa) /\ received = 0
  BY DEF Init, tracefile_array_reset
<1>2. /\ tfa \in TracefileArrayType
      /\ count > 0 => HeadsInRing(tfa)
      /\ tfa.file_head_write = 0 /\ tfa.file_tail = 0
      /\ tfa.seq_tail = Unset
      /\ \A f \in Files : tfa.tf[f] = EmptyFile
  BY <1>1, ResetEffect
<1>3. open \in BOOLEAN
  BY DEF Init
<1>4. TypeOK
  BY <1>1, <1>2, <1>3 DEF TypeOK, HeadsInRing
<1>5. RetainedExactlyOnce /\ TailIsOldestRetained
  BY <1>2 DEF RetainedExactlyOnce, TailIsOldestRetained
<1>6. RingOrder
  <2>1. \A f \in Files : Empty(f) /\ tfa.tf[f].seq_head = Unset
    BY <1>2 DEF Empty, EmptyFile
  <2>2. /\ Age(0) = 0
        /\ \A f \in Files : f # 0 => Age(f) \in Int /\ Age(f) > 0
    BY <1>2, CountAssumption DEF Age, Files
  <2>3. RangesValid /\ BeyondTailEmpty /\ OlderIsSmaller
    BY <2>1 DEF RangesValid, BeyondTailEmpty, OlderIsSmaller
  <2>4. UpToTailUsed
    BY <1>2, <2>2 DEF UpToTailUsed
  <2>5. HeadAnnounces
    BY <1>1, <2>1 DEF HeadAnnounces, Unset
  <2> QED
    BY <1>1, <1>2, <2>1, <2>3, <2>4, <2>5 DEF RingOrder, Unset
<1> QED
  BY <1>4, <1>5, <1>6 DEF IInv

\* The invariant holds in every reachable state.
LEMMA Invariance ==
    ASSUME count # 1
    PROVE  Spec => []IInv
<1>1. Init => IInv
  BY InitIInv
<1>2. IInv /\ [Next]_vars => IInv'
  BY StepKeepsIInv
<1> QED
  BY <1>1, <1>2, PTL DEF Spec

-----------------------------------------------------------------------------
(***************************************************************************)
(* The array is well formed in every reachable state, for every number of  *)
(* files: the heads and the tail that tracefile_array_file_rotate computes *)
(* are files of the ring.                                                  *)
(***************************************************************************)
THEOREM RingTypeCorrect == Spec => []TypeOK
<1>1. Init => TypeOK
  BY InitIInv DEF IInv
<1>2. TypeOK /\ [Next]_vars => TypeOK'
  <2> SUFFICES ASSUME TypeOK, [Next]_vars
               PROVE  TypeOK'
    OBVIOUS
  <2>1. /\ tfa \in TracefileArrayType
        /\ count > 0 => HeadsInRing(tfa)
        /\ received \in Nat
    BY DEF TypeOK, HeadsInRing
  <2>2. received' \in Nat
    BY <2>1 DEF Next, InitPacket, InitPacketRotate, FlushIndex, vars,
                CompleteRotation, FlushCompletesRotation, AbandonPacket
  <2>3. open' \in BOOLEAN
    BY DEF TypeOK, Next, InitPacket, InitPacketRotate, FlushIndex, vars,
           CompleteRotation, FlushCompletesRotation, AbandonPacket
  <2>4. ASSUME NEW a \in TracefileArrayType, count > 0 => HeadsInRing(a),
               NEW n \in Nat
        PROVE  LET b == tracefile_array_commit_seq(a, n)
               IN  b \in TracefileArrayType /\ (count > 0 => HeadsInRing(b))
    BY <2>4, CommitEffect
  <2>5. tfa' \in TracefileArrayType /\ (count > 0 => HeadsInRing(tfa'))
    <3>1. CASE UNCHANGED tfa
      BY <2>1, <3>1
    <3>2. CASE InitPacketRotate
      <4>1. CASE count = 0
        BY <2>1, <3>2, <4>1 DEF InitPacketRotate, tracefile_array_rotate_write
      <4>2. CASE count > 0
        BY <2>1, <3>2, <4>2, RotateWriteEffect DEF InitPacketRotate
      <4> QED
        BY <4>1, <4>2, CountAssumption
    <3>3. CASE FlushIndex
      <4> DEFINE a == tracefile_array_rotate_read(tfa)
      <4>1. a \in TracefileArrayType /\ (count > 0 => HeadsInRing(a))
        BY <2>1, RotateReadEffect
      <4>2. tfa' = tracefile_array_commit_seq(a, received)
        BY <3>3 DEF FlushIndex
      <4> HIDE DEF a
      <4> QED
        BY <2>1, <2>4, <4>1, <4>2
    <3>4. CASE CompleteRotation \/ FlushCompletesRotation
      <4> DEFINE a == tracefile_array_reset(tfa)
      <4>1. a \in TracefileArrayType /\ (count > 0 => HeadsInRing(a))
        BY ResetEffect
      <4>2. \E n \in Nat : tfa' = tracefile_array_commit_seq(a, n)
        BY <2>1, <3>4 DEF CompleteRotation, FlushCompletesRotation
      <4> HIDE DEF a
      <4> QED
        BY <2>4, <4>1, <4>2
    <3> QED
      BY <3>1, <3>2, <3>3, <3>4 DEF Next, vars, InitPacket, AbandonPacket
  <2> QED
    BY <2>2, <2>3, <2>5 DEF TypeOK, HeadsInRing
<1> QED
  BY <1>1, <1>2, PTL DEF Spec

(***************************************************************************)
(* Whatever the number of files (but one), every index between the tail    *)
(* and the last one received is in exactly one file.                       *)
(***************************************************************************)
THEOREM RingRetainsExactlyOnce ==
    ASSUME count # 1
    PROVE  Spec => []RetainedExactlyOnce
<1>1. IInv => RetainedExactlyOnce
  BY DEF IInv
<1> QED
  BY <1>1, Invariance, PTL

(***************************************************************************)
(* tracefile_array_file_rotate pushes the tail past all it overwrites.     *)
(***************************************************************************)
THEOREM RingTailIsOldest ==
    ASSUME count # 1
    PROVE  Spec => []TailIsOldestRetained
<1>1. IInv => TailIsOldestRetained
  BY DEF IInv
<1> QED
  BY <1>1, Invariance, PTL

(***************************************************************************)
(* The files from the tail to the head hold increasing ranges.             *)
(***************************************************************************)
THEOREM RingIsOrdered ==
    ASSUME count # 1
    PROVE  Spec => []RingOrder
<1>1. IInv => RingOrder
  BY DEF IInv
<1> QED
  BY <1>1, Invariance, PTL

(***************************************************************************)
(* No step moves the tail backwards, the reset of the array by             *)
(* stream_complete_rotation included.                                      *)
(***************************************************************************)
THEOREM RingTailMovesForward ==
    ASSUME count # 1
    PROVE  Spec => TailOnlyMovesForward
<1>1. IInv /\ [Next]_vars => [tfa.seq_tail <= tfa'.seq_tail]_vars
  BY StepKeepsIInv
<1> QED
  BY <1>1, Invariance, PTL DEF Spec, TailOnlyMovesForward

-----------------------------------------------------------------------------
\* The files of the ring; a stream without a limit has one.
RingIds == IF count = 0 THEN {0} ELSE Files

\* The range of indexes that the array announces for a file of the ring.
RangeOf(a, f) ==
    IF count = 0 THEN [seq_head |-> a.seq_head, seq_tail |-> a.seq_tail]
    ELSE a.tf[f]

HeadOf(a) == IF count = 0 THEN 0 ELSE a.file_head_write

AtZero(a) == a.file_head_write = 0 /\ a.file_head_read = 0 /\ a.file_tail = 0

(***************************************************************************)
(* What the bounds of the whole array say of its files: the last index is  *)
(* in the file that is read last, and an index is announced before it is   *)
(* received only by an array that has just been reset.                     *)
(***************************************************************************)
ArrayOK(a, rec) ==
    /\ a.seq_head \in {Unset, rec - 1, rec}
    /\ a.seq_head = Unset <=> a.seq_tail = Unset
    /\ a.seq_tail = Unset => rec = 0 /\ AtZero(a)
    /\ a.seq_tail # Unset => RangeOf(a, a.file_head_read).seq_head = a.seq_head
    /\ a.seq_head = rec => a.seq_tail = rec /\ AtZero(a)
    /\ count = 0 => a.file_tail = 0 /\ a.file_head_read = 0
    /\ \A f \in Files : a.tf[f].seq_head = rec => a.seq_head = rec

-----------------------------------------------------------------------------
\* The effect of each operation on the fields that the ring's own lemmas leave
\* out.
LEMMA FlushEffect ==
    ASSUME IInv, FlushIndex
    PROVE  /\ tfa'.seq_head = received
           /\ tfa'.seq_tail = IF tfa.seq_tail = Unset THEN received ELSE tfa.seq_tail
           /\ tfa'.file_head_write = tfa.file_head_write
           /\ tfa'.file_tail = tfa.file_tail
           /\ tfa'.file_head_read = IF count = 0 THEN tfa.file_head_read
                                    ELSE tfa.file_head_write
           /\ received' = received + 1 /\ received \in Nat
           /\ HeadOf(tfa') = HeadOf(tfa) /\ HeadOf(tfa) \in RingIds
           /\ RangeOf(tfa', HeadOf(tfa)).seq_head = received
           /\ RangeOf(tfa', HeadOf(tfa)).seq_tail =
                IF RangeOf(tfa, HeadOf(tfa)).seq_tail = Unset
                THEN received ELSE RangeOf(tfa, HeadOf(tfa)).seq_tail
           /\ \A f \in RingIds \ {HeadOf(tfa)} : RangeOf(tfa', f) = RangeOf(tfa, f)
<1> DEFINE a == tracefile_array_rotate_read(tfa)
<1>1. /\ tfa \in TracefileArrayType /\ received \in Nat
      /\ count > 0 => HeadsInRing(tfa)
  BY DEF IInv, TypeOK, HeadsInRing
<1>2. /\ a \in TracefileArrayType
      /\ count > 0 => HeadsInRing(a)
      /\ a.file_head_write = tfa.file_head_write
      /\ a.file_tail = tfa.file_tail
      /\ a.seq_tail = tfa.seq_tail
      /\ a.tf = tfa.tf
  BY <1>1, RotateReadEffect
<1>3. a.file_head_read = IF count = 0 THEN tfa.file_head_read
                         ELSE tfa.file_head_write
  BY <1>1 DEF tracefile_array_rotate_read, TracefileArrayType
<1>4. tfa' = tracefile_array_commit_seq(a, received) /\ received' = received + 1
  BY DEF FlushIndex
<1> HIDE DEF a
<1>5. /\ tfa'.seq_head = received
      /\ tfa'.file_head_read = a.file_head_read
  BY <1>2, <1>4 DEF tracefile_array_commit_seq, TracefileArrayType
<1>6. /\ tfa'.file_head_write = a.file_head_write
      /\ tfa'.file_tail = a.file_tail
      /\ tfa'.seq_tail = IF a.seq_tail = Unset THEN received ELSE a.seq_tail
      /\ count > 0 =>
           /\ tfa'.tf[a.file_head_write].seq_head = received
           /\ tfa'.tf[a.file_head_write].seq_tail =
                IF a.tf[a.file_head_write].seq_tail = Unset
                THEN received ELSE a.tf[a.file_head_write].seq_tail
           /\ \A f \in Files \ {a.file_head_write} : tfa'.tf[f] = a.tf[f]
  BY <1>1, <1>2, <1>4, CommitEffect
<1>7. CASE count = 0
  BY <1>1, <1>2, <1>3, <1>4, <1>5, <1>6, <1>7 DEF HeadOf, RingIds, RangeOf
<1>8. CASE count # 0
  BY <1>1, <1>2, <1>3, <1>4, <1>5, <1>6, <1>8, CountAssumption
  DEF HeadOf, RingIds, RangeOf, HeadsInRing
<1> QED
  BY <1>7, <1>8

LEMMA WriteRotationEffect ==
    ASSUME IInv, InitPacketRotate, count > 1
    PROVE  /\ tfa'.seq_head = tfa.seq_head
           /\ tfa.seq_tail <= tfa'.seq_tail
           /\ tfa'.file_head_read = tfa.file_head_read
           /\ tfa'.file_head_write = NextFile(tfa.file_head_write)
           /\ tfa'.file_head_write # tfa.file_head_write
           /\ tfa.file_head_write \in Files /\ tfa'.file_head_write \in Files
           /\ received' = received /\ received \in Nat /\ received > 0
           /\ tfa.tf[tfa.file_head_write].seq_head = received - 1
           /\ tfa'.tf[tfa'.file_head_write] = EmptyFile
           /\ \A f \in Files \ {tfa'.file_head_write} : tfa'.tf[f] = tfa.tf[f]
           /\ tfa'.file_tail = IF NextFile(tfa.file_head_write) = tfa.file_tail
                               THEN NextFile(tfa.file_tail) ELSE tfa.file_tail
<1>1. /\ tfa \in TracefileArrayType /\ received \in Nat /\ HeadsInRing(tfa)
      /\ count > 0
  BY CountAssumption DEF IInv, TypeOK, HeadsInRing
<1>2. /\ tfa' = tracefile_array_rotate_write(tfa) /\ received' = received
      /\ received > 0 /\ tfa.tf[tfa.file_head_write].seq_head = received - 1
  BY <1>1 DEF InitPacketRotate, HeadFileUsed
<1>3. tfa'.seq_head = tfa.seq_head /\ tfa'.file_head_read = tfa.file_head_read
  BY <1>1, <1>2, CountAssumption DEF tracefile_array_rotate_write
<1>4. NextFile(tfa.file_head_write) # tfa.file_head_write
  BY <1>1, NextFileWraps, CountAssumption DEF HeadsInRing, Files
<1>5. tfa.seq_tail <= tfa'.seq_tail
  BY RotateKeepsIInv, CountAssumption
<1>6. /\ HeadsInRing(tfa')
      /\ tfa'.file_head_write = NextFile(tfa.file_head_write)
      /\ tfa'.tf[NextFile(tfa.file_head_write)] = EmptyFile
      /\ \A f \in Files \ {NextFile(tfa.file_head_write)} : tfa'.tf[f] = tfa.tf[f]
      /\ tfa'.file_tail = IF NextFile(tfa.file_head_write) = tfa.file_tail
                          THEN NextFile(tfa.file_tail) ELSE tfa.file_tail
  BY <1>1, <1>2, RotateWriteEffect
<1> QED
  BY <1>1, <1>2, <1>3, <1>4, <1>5, <1>6 DEF HeadsInRing

\* An array that was reset for the index "rec".
Fresh(a, rec) ==
    /\ a.seq_head = rec /\ a.seq_tail = rec /\ AtZero(a)
    /\ HeadOf(a) = 0 /\ 0 \in RingIds
    /\ RangeOf(a, 0).seq_head = rec /\ RangeOf(a, 0).seq_tail = rec
    /\ \A f \in RingIds \ {0} : RangeOf(a, f) = EmptyFile

LEMMA ResetIsFresh ==
    ASSUME NEW rec \in Nat, NEW x
    PROVE  Fresh(tracefile_array_commit_seq(tracefile_array_reset(x), rec), rec)
<1> DEFINE r == tracefile_array_reset(x)
           b == tracefile_array_commit_seq(r, rec)
<1>1. /\ r \in TracefileArrayType
      /\ count > 0 => HeadsInRing(r)
      /\ r.file_head_write = 0 /\ r.file_tail = 0
      /\ r.seq_tail = Unset
      /\ \A f \in Files : r.tf[f] = EmptyFile
  BY ResetEffect
<1>2. r.file_head_read = 0
  BY DEF tracefile_array_reset, tracefile_array_create
<1> HIDE DEF r
<1>3. b.seq_head = rec /\ b.file_head_read = 0
  BY <1>1, <1>2 DEF tracefile_array_commit_seq, TracefileArrayType
<1>4. /\ b.file_head_write = 0 /\ b.file_tail = 0 /\ b.seq_tail = rec
      /\ count > 0 =>
           /\ b.tf[0].seq_head = rec
           /\ b.tf[0].seq_tail = IF r.tf[0].seq_tail = Unset
                                 THEN rec ELSE r.tf[0].seq_tail
           /\ \A f \in Files \ {0} : b.tf[f] = r.tf[f]
  BY <1>1, CommitEffect
<1>5. count > 0 => 0 \in Files
  BY CountAssumption DEF Files
<1>6. count > 0 => b.tf[0].seq_tail = rec
  BY <1>1, <1>4, <1>5 DEF EmptyFile
<1> HIDE DEF b
<1>7. ASSUME count = 0 PROVE Fresh(b, rec)
  BY <1>3, <1>4, <1>7 DEF Fresh, AtZero, HeadOf, RingIds, RangeOf
<1>8. ASSUME count > 0 PROVE Fresh(b, rec)
  BY <1>1, <1>3, <1>4, <1>5, <1>6, <1>8 DEF Fresh, AtZero, HeadOf, RingIds, RangeOf
<1> QED
  BY <1>7, <1>8, CountAssumption DEF b, r

\* With a limit, these are what the array says of its files; without, the
\* whole array is one file.
LEMMA Limited ==
    ASSUME count > 0
    PROVE  /\ RingIds = Files
           /\ \A a : HeadOf(a) = a.file_head_write
           /\ \A a, f : RangeOf(a, f) = a.tf[f]
  BY CountAssumption DEF RingIds, HeadOf, RangeOf

LEMMA Unlimited ==
    ASSUME count = 0
    PROVE  /\ RingIds = {0}
           /\ \A a : HeadOf(a) = 0
           /\ \A a, f : /\ RangeOf(a, f).seq_head = a.seq_head
                        /\ RangeOf(a, f).seq_tail = a.seq_tail
  BY DEF RingIds, HeadOf, RangeOf

\* An array that announces the next index does so in its first file.
LEMMA AnnouncedFile ==
    ASSUME IInv, ArrayOK(tfa, received), count > 0, tfa.seq_tail = received
    PROVE  /\ tfa.seq_head = received /\ AtZero(tfa) /\ 0 \in Files
           /\ tfa.tf[0].seq_tail = received /\ tfa.tf[0].seq_head = received
<1> DEFINE t == tfa.file_tail
<1>1. /\ TypeOK /\ RangesValid /\ HeadAnnounces /\ t \in Files
      /\ received \in Nat /\ tfa.seq_tail # Unset
      /\ tfa.tf[t].seq_tail = received
  BY CountAssumption DEF IInv, RingOrder, TypeOK, TailIsOldestRetained, Unset
<1>2. ~Empty(t)
  BY <1>1, FileRange
<1>3. tfa.tf[t].seq_head = received
  BY <1>1, <1>2, FileRange DEF RangesValid
<1>4. tfa.seq_head = received /\ AtZero(tfa)
  BY <1>1, <1>3 DEF ArrayOK
<1> QED
  BY <1>1, <1>3, <1>4 DEF AtZero

LEMMA ArrayStep ==
    ASSUME IInv, ArrayOK(tfa, received), [Next]_vars, count # 1
    PROVE  ArrayOK(tfa', received')
<1>1. /\ tfa \in TracefileArrayType /\ received \in Nat
      /\ count > 0 => HeadsInRing(tfa)
      /\ count > 0 => /\ RangesValid /\ HeadAnnounces
                      /\ RetainedExactlyOnce /\ TypeOK
  BY DEF IInv, TypeOK, HeadsInRing, RingOrder
<1>2. CASE FlushIndex
  <2>1. /\ tfa'.seq_head = received
        /\ tfa'.seq_tail = IF tfa.seq_tail = Unset THEN received ELSE tfa.seq_tail
        /\ tfa'.file_tail = tfa.file_tail
        /\ tfa'.file_head_read = IF count = 0 THEN tfa.file_head_read
                                 ELSE tfa.file_head_write
        /\ received' = received + 1
        /\ HeadOf(tfa) \in RingIds
        /\ RangeOf(tfa', HeadOf(tfa)).seq_head = received
        /\ \A f \in RingIds \ {HeadOf(tfa)} : RangeOf(tfa', f) = RangeOf(tfa, f)
    BY <1>2, FlushEffect
  <2>2. tfa'.seq_tail # Unset /\ tfa'.seq_head # Unset
    BY <1>1, <2>1 DEF Unset
  <2>3. RangeOf(tfa', tfa'.file_head_read).seq_head = tfa'.seq_head
    BY <2>1 DEF HeadOf, ArrayOK
  <2>4. \A f \in Files : tfa'.tf[f].seq_head # received'
    <3> SUFFICES ASSUME NEW f \in Files
                 PROVE  tfa'.tf[f].seq_head # received'
      OBVIOUS
    <3>1. count > 0
      BY CountAssumption DEF Files
    <3>2. CASE f = HeadOf(tfa)
      BY <1>1, <2>1, <3>1, <3>2 DEF RangeOf, HeadOf
    <3>3. CASE f # HeadOf(tfa)
      <4>1. tfa'.tf[f] = tfa.tf[f]
        BY <2>1, <3>1, <3>3, Limited
      <4>2. \/ tfa.tf[f].seq_head = Unset
            \/ tfa.tf[f].seq_head \in Nat /\ tfa.tf[f].seq_head <= received
        <5>1. /\ Empty(f) <=> tfa.tf[f].seq_head = Unset
              /\ ~Empty(f) => tfa.tf[f].seq_head \in Nat
          BY <1>1, <3>1, FileRange
        <5>2. Empty(f) \/ tfa.tf[f].seq_head <= received
          BY <1>1, <3>1 DEF RangesValid
        <5> QED
          BY <5>1, <5>2
      <4> QED
        BY <1>1, <2>1, <4>1, <4>2 DEF Unset
    <3> QED
      BY <3>2, <3>3
  <2> QED
    BY <1>1, <2>1, <2>2, <2>3, <2>4 DEF ArrayOK
<1>3. CASE InitPacketRotate
  <2>1. CASE count = 0
    <3>1. tfa' = tfa /\ received' = received
      BY <1>3, <2>1 DEF InitPacketRotate, tracefile_array_rotate_write
    <3> QED
      BY <3>1
  <2>2. CASE count > 1
    <3> DEFINE w == tfa'.file_head_write
               r == tfa.file_head_read
    <3>0. count > 0 /\ count # 0
      BY <2>2, CountAssumption
    <3>1. /\ tfa'.seq_head = tfa.seq_head
          /\ tfa.seq_tail <= tfa'.seq_tail
          /\ tfa'.file_head_read = r
          /\ w # tfa.file_head_write
          /\ tfa.file_head_write \in Files /\ w \in Files
          /\ received' = received /\ received > 0
          /\ tfa.tf[tfa.file_head_write].seq_head = received - 1
          /\ tfa'.tf[w] = EmptyFile
          /\ \A f \in Files \ {w} : tfa'.tf[f] = tfa.tf[f]
      BY <1>3, <2>2, WriteRotationEffect
    <3>2. /\ tfa.seq_tail \in Int /\ tfa.seq_tail >= Unset
          /\ tfa'.seq_tail \in Int /\ tfa.seq_tail <= received
      BY <1>3, <2>2, RotateKeepsIInv
      DEF IInv, TypeOK, RingOrder, TracefileArrayType
    <3>3. tfa.seq_tail # Unset /\ tfa'.seq_tail # Unset /\ tfa.seq_head # Unset
      BY <3>1, <3>2 DEF ArrayOK, Unset
    <3>4. tfa.seq_head # received
      <4>1. ASSUME tfa.seq_head = received
            PROVE  FALSE
        <5>1. tfa.tf[0].seq_head = received /\ tfa.file_head_write = 0
          BY <3>0, <4>1, AnnouncedFile DEF ArrayOK, AtZero
        <5> QED
          BY <1>1, <3>1, <5>1
      <4> QED
        BY <4>1
    <3>5. tfa.seq_head = received - 1 /\ tfa.tf[r].seq_head = received - 1
      BY <3>0, <3>3, <3>4 DEF ArrayOK, RangeOf
    <3>6. r \in Files
      BY <1>1, <3>0 DEF HeadsInRing
    <3>7. r = tfa.file_head_write
      <4>1. HasSeq(r, received - 1) /\ HasSeq(tfa.file_head_write, received - 1)
        <5>1. ASSUME NEW f \in Files, tfa.tf[f].seq_head = received - 1
              PROVE  HasSeq(f, received - 1)
          <6>1. ~Empty(f)
            BY <1>1, <3>0, <3>1, <5>1, FileRange DEF Unset
          <6>2. /\ tfa.tf[f].seq_tail \in Nat /\ tfa.tf[f].seq_head \in Nat
                /\ tfa.tf[f].seq_tail <= tfa.tf[f].seq_head
            BY <1>1, <3>0, <6>1, FileRange DEF RangesValid
          <6> QED
            BY <1>1, <3>0, <3>1, <5>1, <6>2, HasSeqMeaning
        <5> QED
          BY <3>1, <3>5, <3>6, <5>1
      <4>2. received - 1 \in Nat
        BY <1>1, <3>1
      <4>3. OlderIsSmaller
        BY <3>0 DEF IInv, RingOrder
      <4> QED
        BY <1>1, <3>0, <3>1, <3>6, <4>1, <4>2, <4>3, RangesDisjoint
    <3>8. RangeOf(tfa', r).seq_head = tfa.seq_head
      BY <3>0, <3>1, <3>5, <3>6, <3>7 DEF RangeOf
    <3>9. \A f \in Files : tfa'.tf[f].seq_head # received
      <4> SUFFICES ASSUME NEW f \in Files, tfa'.tf[f].seq_head = received
                   PROVE  FALSE
        OBVIOUS
      <4>1. f # w
        BY <1>1, <3>1 DEF EmptyFile, Unset
      <4>2. tfa.tf[f].seq_head = received
        BY <3>1, <4>1
      <4> QED
        BY <3>4, <4>2 DEF ArrayOK
    <3> QED
      BY <3>0, <3>1, <3>3, <3>4, <3>5, <3>8, <3>9 DEF ArrayOK
  <2> QED
    BY <2>1, <2>2, CountAssumption
<1>4. ASSUME NEW rec \in Nat, received' = rec,
             tfa' = tracefile_array_commit_seq(tracefile_array_reset(tfa), rec)
      PROVE  ArrayOK(tfa', received')
  <2>1. Fresh(tfa', rec)
    BY <1>4, ResetIsFresh
  <2> QED
    BY <1>4, <2>1 DEF Fresh, ArrayOK, AtZero, Unset
<1>5. CASE UNCHANGED <<tfa, received>>
  BY <1>5
<1> QED
  BY <1>1, <1>2, <1>3, <1>4, <1>5
  DEF Next, vars, InitPacket, CompleteRotation, FlushCompletesRotation, AbandonPacket

LEMMA InitArray == Init => ArrayOK(tfa, received)
<1> SUFFICES ASSUME Init
             PROVE  ArrayOK(tfa, received)
  OBVIOUS
<1>1. tfa = tracefile_array_create /\ received = 0
  BY DEF Init
<1>2. /\ tfa.seq_head = Unset /\ tfa.seq_tail = Unset /\ AtZero(tfa)
      /\ \A f \in Files : tfa.tf[f] = EmptyFile
  BY <1>1 DEF tracefile_array_create, AtZero
<1> QED
  BY <1>1, <1>2 DEF ArrayOK, EmptyFile, Unset, AtZero

-----------------------------------------------------------------------------
(***************************************************************************)
(* Where the ring has the next index of a viewer that reads file "id": if  *)
(* it is beyond the tail it is in that file or in the one after it, or it  *)
(* will be written there.                                                  *)
(***************************************************************************)
Tracked(a, rec, id, sent) ==
    count > 0 /\ sent > a.seq_tail =>
        /\ \A f \in Files : tracefile_array_seq_in_file(a, f, sent) =>
                                f \in {id, NextFile(id)}
        /\ sent >= rec => \/ a.file_head_write = id
                          \/ /\ a.file_head_write = NextFile(id)
                             /\ a.tf[a.file_head_write] = EmptyFile

\* What RingOrder says of two files with indexes.
LEMMA FilesInOrder ==
    ASSUME IInv, count > 0, NEW f \in Files, ~Empty(f)
    PROVE  /\ tfa.tf[f].seq_tail \in Nat /\ tfa.tf[f].seq_head \in Nat
           /\ tfa.tf[f].seq_tail <= tfa.tf[f].seq_head
           /\ tfa.tf[f].seq_head <= received
           /\ \A g \in Files : ~Empty(g) /\ Age(f) < Age(g) =>
                tfa.tf[g].seq_head < tfa.tf[f].seq_tail
           /\ \A s \in Nat : HasSeq(f, s) <=> /\ tfa.tf[f].seq_tail <= s
                                              /\ s <= tfa.tf[f].seq_head
<1>1. TypeOK /\ RangesValid /\ OlderIsSmaller
  BY DEF IInv, RingOrder
<1>2. tfa.tf[f].seq_tail \in Nat /\ tfa.tf[f].seq_head \in Nat
  BY <1>1, FileRange
<1>3. tfa.tf[f].seq_tail <= tfa.tf[f].seq_head /\ tfa.tf[f].seq_head <= received
  BY <1>1 DEF RangesValid
<1>4. \A g \in Files : ~Empty(g) /\ Age(f) < Age(g) =>
        tfa.tf[g].seq_head < tfa.tf[f].seq_tail
  BY <1>1 DEF OlderIsSmaller
<1> QED
  BY <1>1, <1>2, <1>3, <1>4, HasSeqMeaning

\* A file older than the one written, and not empty, is followed by a file that
\* is not empty or is the one written.
LEMMA NextIsUsed ==
    ASSUME IInv, count > 0, NEW f \in Files, ~Empty(f), f # tfa.file_head_write
    PROVE  /\ NextFile(f) \in Files
           /\ Age(NextFile(f)) = Age(f) - 1 /\ Age(f) \in Nat
           /\ NextFile(f) # tfa.file_head_write => ~Empty(NextFile(f))
<1>1. TypeOK /\ BeyondTailEmpty /\ UpToTailUsed /\ tfa.file_tail \in Files
  BY DEF IInv, RingOrder, TypeOK
<1>2. NextFile(f) \in Files
  BY NextFileWraps
<1>3. /\ Age(f) \in 0 .. count - 1 /\ Age(tfa.file_tail) \in 0 .. count - 1
      /\ Age(NextFile(f)) = Age(f) - 1
  BY <1>1, Ages
<1>4. Age(f) <= Age(tfa.file_tail)
  BY <1>1, <1>3, CountAssumption DEF BeyondTailEmpty
<1>5. NextFile(f) # tfa.file_head_write => ~Empty(NextFile(f))
  BY <1>1, <1>2, <1>3, <1>4, CountAssumption DEF UpToTailUsed
<1> QED
  BY <1>2, <1>3, <1>5, CountAssumption

\* A viewer that reads an index of a file goes on in the same or the next one.
LEMMA Advance ==
    ASSUME IInv, ArrayOK(tfa, received), count > 0,
           NEW id \in Files, NEW s \in Nat, HasSeq(id, s)
    PROVE  Tracked(tfa, received, id, s + 1)
<1> DEFINE w == tfa.file_head_write
<1>1. /\ TypeOK /\ w \in Files /\ tfa.file_tail \in Files
      /\ received \in Nat /\ tfa.seq_tail \in Int
  BY DEF IInv, TypeOK, TracefileArrayType
<1>2. ~Empty(id)
  BY <1>1, HasSeqMeaning
<1>3. /\ tfa.tf[id].seq_tail \in Nat /\ tfa.tf[id].seq_head \in Nat
      /\ tfa.tf[id].seq_tail <= s /\ s <= tfa.tf[id].seq_head
      /\ tfa.tf[id].seq_head <= received
  BY <1>2, FilesInOrder
<1>4. \A f \in Files : Age(f) \in Int
  BY <1>1, Ages, CountAssumption
<1>5. \A f, g \in Files : Age(f) = Age(g) => f = g
  BY <1>1, Ages
<1>6. Age(w) = 0
  BY <1>1, Ages
<1>7. ASSUME NEW f \in Files, HasSeq(f, s + 1)
      PROVE  f \in {id, NextFile(id)}
  <2> SUFFICES ASSUME f # id, f # NextFile(id)
               PROVE  FALSE
    OBVIOUS
  <2>1. ~Empty(f)
    BY <1>1, <1>7, HasSeqMeaning
  <2>2. /\ tfa.tf[f].seq_tail \in Nat /\ tfa.tf[f].seq_head \in Nat
        /\ tfa.tf[f].seq_tail <= s + 1 /\ s + 1 <= tfa.tf[f].seq_head
    BY <1>7, <2>1, FilesInOrder
  <2>3. Age(f) < Age(id)
    <3>1. ~(Age(id) < Age(f))
      BY <1>2, <1>3, <2>1, <2>2, FilesInOrder
    <3> QED
      BY <1>4, <1>5, <3>1
  <2>4. id # w
    BY <1>1, <1>4, <1>6, <2>3, Ages, CountAssumption
  <2>5. /\ NextFile(id) \in Files /\ Age(NextFile(id)) = Age(id) - 1
        /\ NextFile(id) # w => ~Empty(NextFile(id))
    BY <1>2, <2>4, NextIsUsed
  <2>6. Age(f) < Age(NextFile(id))
    BY <1>4, <1>5, <2>3, <2>5
  <2>7. NextFile(id) # w
    BY <1>1, <1>4, <1>6, <2>6, Ages, CountAssumption
  <2>8. /\ tfa.tf[NextFile(id)].seq_tail \in Nat
        /\ tfa.tf[NextFile(id)].seq_head \in Nat
        /\ tfa.tf[NextFile(id)].seq_tail <= tfa.tf[NextFile(id)].seq_head
        /\ tfa.tf[id].seq_head < tfa.tf[NextFile(id)].seq_tail
    BY <1>2, <1>4, <2>5, <2>7, FilesInOrder
  <2>9. tfa.tf[NextFile(id)].seq_head < tfa.tf[f].seq_tail
    BY <2>1, <2>5, <2>6, <2>7, FilesInOrder
  <2> QED
    BY <1>3, <2>2, <2>8, <2>9
<1>8. ASSUME s + 1 >= received, w # id
      PROVE  w = NextFile(id) /\ tfa.tf[w] = EmptyFile
  <2>1. /\ NextFile(id) \in Files /\ Age(NextFile(id)) = Age(id) - 1
        /\ NextFile(id) # w => ~Empty(NextFile(id))
    BY <1>2, <1>8, NextIsUsed
  <2>2. ASSUME NEW f \in Files, ~Empty(f), Age(f) < Age(id)
        PROVE  tfa.tf[f].seq_head = received
    <3>1. /\ tfa.tf[f].seq_tail \in Nat /\ tfa.tf[f].seq_head \in Nat
          /\ tfa.tf[f].seq_tail <= tfa.tf[f].seq_head
          /\ tfa.tf[f].seq_head <= received
          /\ tfa.tf[id].seq_head < tfa.tf[f].seq_tail
      BY <1>2, <2>2, FilesInOrder
    <3> QED
      BY <1>1, <1>3, <1>8, <3>1
  <2>3. NextFile(id) = w
    <3>1. ASSUME NextFile(id) # w
          PROVE  FALSE
      <4>1. tfa.tf[NextFile(id)].seq_head = received
        BY <1>4, <2>1, <2>2, <3>1
      <4>2. HeadAnnounces
        BY DEF IInv, RingOrder
      <4> QED
        BY <2>1, <3>1, <4>1, <4>2 DEF HeadAnnounces
    <3> QED
      BY <3>1
  <2>4. Empty(w)
    <3>1. ASSUME ~Empty(w)
          PROVE  FALSE
      <4>1. Age(w) < Age(id)
        BY <1>4, <2>1, <2>3
      <4>2. tfa.tf[w].seq_head = received
        BY <1>1, <2>2, <3>1, <4>1
      <4>3. tfa.seq_tail = received
        BY <1>1, <4>2 DEF ArrayOK
      <4>4. w = 0 /\ tfa.file_tail = 0
        BY <4>3, AnnouncedFile DEF AtZero
      <4>5. BeyondTailEmpty
        BY DEF IInv, RingOrder
      <4> QED
        BY <1>1, <1>2, <4>1, <4>4, <4>5 DEF BeyondTailEmpty
    <3> QED
      BY <3>1
  <2> QED
    BY <2>3, <2>4 DEF Empty
<1> QED
  BY <1>7, <1>8 DEF Tracked, HasSeq

\* The next index of a viewer is at most one beyond those received, and then
\* only the first file of a reset array announces it.
NotFar(a, rec, id, sent) ==
    /\ sent <= rec + 1
    /\ sent > rec => a.seq_tail = rec /\ id = 0

LEMMA TrackedFlush ==
    ASSUME IInv, ArrayOK(tfa, received), FlushIndex, count > 1,
           NEW id \in Files, NEW sent \in Nat,
           Tracked(tfa, received, id, sent), NotFar(tfa, received, id, sent)
    PROVE  Tracked(tfa', received', id, sent)
<1> DEFINE w == tfa.file_head_write
<1>0. count > 0 /\ count # 1
  BY CountAssumption
<1>1. IInv' /\ tfa.seq_tail <= tfa'.seq_tail
  BY <1>0, FlushKeepsIInv
<1>2. /\ TypeOK /\ RangesValid /\ OlderIsSmaller /\ w \in Files
      /\ received \in Nat /\ tfa.seq_tail \in Int
  BY <1>0 DEF IInv, RingOrder, TypeOK, TracefileArrayType
<1>3. /\ TypeOK' /\ RangesValid' /\ OlderIsSmaller' /\ HeadAnnounces'
      /\ tfa'.seq_tail \in Int
  BY <1>0, <1>1 DEF IInv, RingOrder, TypeOK, TracefileArrayType
<1>4. /\ tfa'.file_head_write = w
      /\ received' = received + 1
      /\ tfa'.tf[w].seq_head = received
      /\ tfa'.tf[w].seq_tail = IF tfa.tf[w].seq_tail = Unset
                               THEN received ELSE tfa.tf[w].seq_tail
      /\ \A f \in Files \ {w} : tfa'.tf[f] = tfa.tf[f]
  BY <1>0, FlushEffect, Limited
<1>5. \A f, g \in Files : HasSeq(f, sent)' /\ HasSeq(g, sent)' => f = g
  BY <1>0, <1>3, RangesDisjointNext
<1>6. \A f \in Files, s \in Nat : HasSeq(f, s) => HasSeq(f, s)' \/ s > received
  <2> SUFFICES ASSUME NEW f \in Files, NEW s \in Nat, HasSeq(f, s), s <= received
               PROVE  HasSeq(f, s)'
    BY <1>2
  <2>1. CASE f # w
    BY <1>4, <2>1 DEF HasSeq, tracefile_array_seq_in_file
  <2>2. CASE f = w
    <3>1. ~Empty(w)
      BY <1>0, <1>2, <2>2, HasSeqMeaning
    <3>2. tfa.tf[w].seq_tail \in Nat /\ tfa.tf[w].seq_tail <= s
      BY <1>0, <2>2, <3>1, FilesInOrder
    <3>3. tfa'.tf[w].seq_tail = tfa.tf[w].seq_tail /\ tfa'.tf[w].seq_head = received
      BY <1>4, <3>2 DEF Unset
    <3> QED
      BY <1>2, <2>2, <3>2, <3>3
      DEF HasSeq, tracefile_array_seq_in_file, ULeq, Unset
  <2> QED
    BY <2>1, <2>2
<1>7. tracefile_array_seq_in_file(tfa', w, received)
  <2>1. /\ tfa'.tf[w].seq_head = received
        /\ tfa'.tf[w].seq_tail \in Nat /\ tfa'.tf[w].seq_tail <= received
    <3>1. Empty(w) \/ (/\ tfa.tf[w].seq_tail \in Nat /\ tfa.tf[w].seq_head \in Nat
                       /\ tfa.tf[w].seq_tail <= tfa.tf[w].seq_head
                       /\ tfa.tf[w].seq_head <= received)
      BY <1>0, <1>2, FilesInOrder
    <3> QED
      BY <1>2, <1>4, <3>1 DEF Empty, EmptyFile, Unset
  <2> QED
    BY <1>2, <2>1 DEF tracefile_array_seq_in_file, ULeq, Unset
<1> SUFFICES ASSUME sent > tfa'.seq_tail
             PROVE  /\ \A f \in Files : HasSeq(f, sent)' => f \in {id, NextFile(id)}
                    /\ sent >= received' => tfa'.file_head_write = id
  BY DEF Tracked, HasSeq
<1>8. CASE sent < received
  <2>1. tfa.seq_tail # Unset
    BY <1>2, <1>8 DEF ArrayOK
  <2>2. PICK g \in Files : HasSeq(g, sent)
    BY <1>0, <1>1, <1>2, <1>3, <1>8, <2>1 DEF IInv, RetainedExactlyOnce
  <2>3. g \in {id, NextFile(id)}
    BY <1>0, <1>1, <1>2, <1>3, <2>2 DEF Tracked, HasSeq
  <2>4. HasSeq(g, sent)'
    BY <1>2, <1>6, <1>8, <2>2
  <2> QED
    BY <1>2, <1>4, <1>5, <1>8, <2>3, <2>4
<1>9. CASE sent = received
  <2>1. w \in {id, NextFile(id)}
    BY <1>0, <1>1, <1>2, <1>3, <1>9 DEF Tracked
  <2> QED
    BY <1>2, <1>4, <1>5, <1>7, <1>9, <2>1 DEF HasSeq
<1>10. CASE sent = received + 1
  <2>1. tfa.seq_tail = received /\ id = 0
    BY <1>2, <1>10 DEF NotFar
  <2>2. w = 0
    BY <1>0, <2>1, AnnouncedFile DEF AtZero
  <2>3. ASSUME NEW f \in Files, HasSeq(f, sent)'
        PROVE  f = w
    <3>1. tfa'.tf[f].seq_head = received'
      <4>1. /\ ~Empty(f)'
            /\ tfa'.tf[f].seq_tail \in Nat /\ tfa'.tf[f].seq_head \in Nat
        <5>1. tfa'.tf[f] # EmptyFile
          BY <1>0, <2>3
          DEF HasSeq, tracefile_array_seq_in_file, ULeq, EmptyFile, Unset
        <5>2. tfa'.tf[f] \in SeqRange
          BY <1>3 DEF TypeOK, TracefileArrayType
        <5> QED
          BY <1>3, <5>1, <5>2 DEF Empty, RangesValid, SeqRange
      <4>2. sent <= tfa'.tf[f].seq_head
        BY <2>3, <4>1 DEF HasSeq, tracefile_array_seq_in_file, ULeq, Unset
      <4>3. tfa'.tf[f].seq_head <= received'
        BY <1>3, <4>1 DEF RangesValid
      <4> QED
        BY <1>2, <1>4, <1>10, <4>1, <4>2, <4>3
    <3> QED
      BY <1>3, <1>4, <3>1 DEF HeadAnnounces
  <2> QED
    BY <1>4, <2>1, <2>2, <2>3
<1> QED
  BY <1>2, <1>8, <1>9, <1>10 DEF NotFar

LEMMA TrackedRotate ==
    ASSUME IInv, InitPacketRotate, count > 1,
           NEW id \in Files, NEW sent \in Nat, Tracked(tfa, received, id, sent)
    PROVE  Tracked(tfa', received', id, sent)
<1> DEFINE w == tfa.file_head_write
           n == tfa'.file_head_write
<1>0. count > 0 /\ count # 1
  BY CountAssumption
<1>1. /\ tfa.seq_tail <= tfa'.seq_tail
      /\ n = NextFile(w)
      /\ received' = received /\ received \in Nat /\ received > 0
      /\ tfa.tf[w].seq_head = received - 1
      /\ tfa'.tf[n] = EmptyFile
      /\ \A f \in Files \ {n} : tfa'.tf[f] = tfa.tf[f]
  BY WriteRotationEffect
<1>2. tfa.seq_tail \in Int /\ tfa'.seq_tail \in Int
  BY <1>0, RotateKeepsIInv DEF IInv, TypeOK, TracefileArrayType
<1> SUFFICES ASSUME sent > tfa'.seq_tail
             PROVE  /\ \A f \in Files : tracefile_array_seq_in_file(tfa', f, sent) =>
                                            f \in {id, NextFile(id)}
                    /\ sent >= received => n = NextFile(id)
  BY <1>1 DEF Tracked
<1>3. sent > tfa.seq_tail
  BY <1>1, <1>2
<1>4. ASSUME NEW f \in Files, tracefile_array_seq_in_file(tfa', f, sent)
      PROVE  f \in {id, NextFile(id)}
  <2>1. f # n
    BY <1>0, <1>1, <1>4 DEF tracefile_array_seq_in_file, ULeq, EmptyFile, Unset
  <2>2. tracefile_array_seq_in_file(tfa, f, sent)
    BY <1>1, <1>4, <2>1 DEF tracefile_array_seq_in_file
  <2> QED
    BY <1>0, <1>3, <2>2 DEF Tracked
<1>5. tfa.tf[w] # EmptyFile
  BY <1>1 DEF EmptyFile, Unset
<1> QED
  BY <1>0, <1>1, <1>3, <1>4, <1>5 DEF Tracked

LEMMA TrackedFresh ==
    ASSUME NEW a, NEW rec \in Nat, Fresh(a, rec),
           NEW id, NEW sent \in Nat, sent <= rec + 1, sent > rec => id = 0
    PROVE  Tracked(a, rec, id, sent)
<1> SUFFICES ASSUME count > 0, sent > a.seq_tail
             PROVE  /\ \A f \in Files : ~tracefile_array_seq_in_file(a, f, sent)
                    /\ a.file_head_write = id
  BY DEF Tracked
<1>1. /\ a.seq_tail = rec /\ a.file_head_write = 0
      /\ a.tf[0].seq_head = rec /\ a.tf[0].seq_tail = rec
      /\ \A f \in Files \ {0} : a.tf[f] = EmptyFile
  BY Limited DEF Fresh, AtZero
<1>2. sent = rec + 1 /\ id = 0
  BY <1>1
<1> QED
  BY <1>1, <1>2, CountAssumption
  DEF tracefile_array_seq_in_file, ULeq, EmptyFile, Unset

-----------------------------------------------------------------------------
\* An index received has been committed to the array.
Committed == received > 0 => tfa.seq_tail # Unset

LEMMA StepKeepsCommitted ==
    ASSUME IInv, Committed, [Next]_vars, count # 1
    PROVE  Committed'
<1>1. /\ tfa.seq_tail \in Int /\ tfa.seq_tail >= Unset
      /\ tfa'.seq_tail \in Int /\ tfa.seq_tail <= tfa'.seq_tail
      /\ received \in Nat
  BY StepKeepsIInv DEF IInv, TypeOK, RingOrder, TracefileArrayType
<1>2. CASE received' = received
  BY <1>1, <1>2 DEF Committed, Unset
<1>3. CASE FlushIndex
  <2> DEFINE a == tracefile_array_rotate_read(tfa)
  <2>1. a \in TracefileArrayType /\ (count > 0 => HeadsInRing(a))
    BY RotateReadEffect DEF IInv, TypeOK, HeadsInRing
  <2>2. tfa' = tracefile_array_commit_seq(a, received)
    BY <1>3 DEF FlushIndex
  <2> HIDE DEF a
  <2>3. tfa'.seq_tail = IF a.seq_tail = Unset THEN received ELSE a.seq_tail
    BY <1>1, <2>1, <2>2, CommitEffect
  <2> QED
    BY <1>1, <2>3 DEF Committed, Unset
<1>4. CASE FlushCompletesRotation
  <2>1. received' = received + 1 /\ open' = FALSE
    BY <1>4 DEF FlushCompletesRotation
  <2>2. tfa' = tracefile_array_commit_seq(tracefile_array_reset(tfa), received')
    BY <1>4, <2>1 DEF FlushCompletesRotation
  <2>3. received' \in Nat
    BY <1>1, <2>1
  <2>4. open' \in BOOLEAN
    BY <2>1
  <2>5. tfa'.seq_tail = received'
    BY <2>2, <2>3, <2>4, FreshArray
  <2> QED
    BY <1>1, <2>1, <2>5 DEF Committed, Unset
<1> QED
  BY <1>2, <1>3, <1>4
  DEF Next, InitPacket, InitPacketRotate, CompleteRotation, AbandonPacket, vars
=============================================================================
