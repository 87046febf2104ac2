------------------------------- MODULE History -------------------------------
(***************************************************************************)
(* The history stores of internal/history.  The JSONL store is a file, and *)
(* a file is its lines: every write goes to the end of the last line, and  *)
(* a line is the sequence of pieces of records that were written into it.  *)
(* A write that is cut short (a full disk, a crash) leaves its piece       *)
(* without the newline, so the next record joins that line.  The SQLite    *)
(* store commits a record or does not; its rows are read as lines here.    *)
(***************************************************************************)
EXTENDS Sequences, Naturals

Empty == << <<>> >>

\* How far a write of a record and its newline can come.
Writes(backend) ==
  IF backend = "sqlite" THEN {"nothing", "full"}
                        ELSE {"nothing", "partial", "unterminated", "full"}

Join(file, piece) == [file EXCEPT ![Len(file)] = Append(@, piece)]

\* Faulty variant: the file is created anew instead of opened for appending.
Written_truncates(file, k, how) ==
  CASE how = "nothing"      -> file
    [] how = "partial"      -> Join(Empty, [rec |-> k, whole |-> FALSE])
    [] how = "unterminated" -> Join(Empty, [rec |-> k, whole |-> TRUE])
    [] how = "full"         -> Append(Join(Empty, [rec |-> k, whole |-> TRUE]), <<>>)

Written(file, k, how) ==
  CASE how = "nothing"      -> file
    [] how = "partial"      -> Join(file, [rec |-> k, whole |-> FALSE])
    [] how = "unterminated" -> Join(file, [rec |-> k, whole |-> TRUE])
    [] how = "full"         -> Append(Join(file, [rec |-> k, whole |-> TRUE]), <<>>)

\* All fails on the first line that is not blank and not one record.
Parses(line)   == line = <<>> \/ (Len(line) = 1 /\ line[1].whole)
Readable(file) == \A i \in DOMAIN file : Parses(file[i])

All(file) ==
  LET lines == SelectSeq(file, LAMBDA line : line # <<>>)
  IN  [i \in DOMAIN lines |-> lines[i][1].rec]

=============================================================================
