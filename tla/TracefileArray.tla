--------------------------- MODULE TracefileArray ---------------------------
(***************************************************************************)
(* The array of trace files of one relayd stream: which index sequence     *)
(* counts each file of the on-disk ring holds, the oldest and the newest   *)
(* file, and the bounds of what is retained (tracefile-array.c).           *)
(*                                                                         *)
(* Every operator takes the structure and returns it as the C function     *)
(* leaves it.  A uint64_t that the code compares with -1ULL is an integer  *)
(* here, Unset standing for -1ULL: the largest of the unsigned values.     *)
(***************************************************************************)
EXTENDS Integers

CONSTANT count          \* tfa->count; 0 when the stream has no file limit

ASSUME CountAssumption == count \in Nat

Unset == -1

Files == 0 .. count - 1

\* a <= b for uint64_t values of which Unset (-1ULL) is the largest.
ULeq(a, b) == b = Unset \/ (a # Unset /\ a <= b)

SeqRange == [seq_head : Int, seq_tail : Int]

EmptyFile == [seq_head |-> Unset, seq_tail |-> Unset]

tracefile_array_create ==
    [tf |-> [f \in Files |-> EmptyFile],
     file_head_read |-> 0, file_head_write |-> 0, file_tail |-> 0,
     seq_head |-> Unset, seq_tail |-> Unset]

\* Every field but count is given back its first value.
tracefile_array_reset(tfa) == tracefile_array_create

\* tracefile_array_file_rotate(tfa, TRACEFILE_ROTATE_READ)
tracefile_array_rotate_read(tfa) ==
    IF count = 0 THEN tfa
    ELSE [tfa EXCEPT !.file_head_read = tfa.file_head_write]

NextFile(f) == (f + 1) % count

\* Mutant: the bounds of the file that is overwritten are kept.
rotate_write_keeps_file(tfa) ==
    IF count = 0 THEN tfa
    ELSE LET head == NextFile(tfa.file_head_write)
             tail == IF head = tfa.file_tail
                     THEN NextFile(tfa.file_tail) ELSE tfa.file_tail
         IN  [tfa EXCEPT !.file_head_write = head, !.file_tail = tail,
                         !.seq_tail = IF tfa.tf[head].seq_head # Unset
                                      THEN tfa.tf[tail].seq_tail ELSE @]

\* tracefile_array_file_rotate(tfa, TRACEFILE_ROTATE_WRITE)
tracefile_array_rotate_write(tfa) ==
    IF count = 0 THEN tfa
    ELSE LET head == NextFile(tfa.file_head_write)
             tail == IF head = tfa.file_tail
                     THEN NextFile(tfa.file_tail) ELSE tfa.file_tail
             overwritten == tfa.tf[head].seq_head # Unset
         IN  [tf |-> [tfa.tf EXCEPT ![head] = EmptyFile],
              file_head_read |-> tfa.file_head_read,
              file_head_write |-> head,
              file_tail |-> tail,
              seq_head |-> tfa.seq_head,
              seq_tail |-> IF overwritten THEN tfa.tf[tail].seq_tail
                                          ELSE tfa.seq_tail]

tracefile_array_commit_seq(tfa, new_seq_head) ==
    LET overall == [tfa EXCEPT
                      !.seq_head = new_seq_head,
                      !.seq_tail = IF @ = Unset THEN new_seq_head ELSE @]
    IN  IF count = 0 THEN overall
        ELSE [overall EXCEPT
                !.tf[tfa.file_head_write] =
                    [seq_head |-> new_seq_head,
                     seq_tail |-> IF @.seq_tail = Unset
                                  THEN new_seq_head ELSE @.seq_tail]]

tracefile_array_seq_in_file(tfa, file_index, seq) ==
    \/ count = 0
    \/ /\ seq # Unset
       /\ ULeq(tfa.tf[file_index].seq_tail, seq)
       /\ ULeq(seq, tfa.tf[file_index].seq_head)

TracefileArrayType ==
    [tf : [Files -> SeqRange],
     file_head_read : Nat, file_head_write : Nat, file_tail : Nat,
     seq_head : Int, seq_tail : Int]
=============================================================================
