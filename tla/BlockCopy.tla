----------------------------- MODULE BlockCopy ------------------------------
(***************************************************************************)
(* libio and libraw: the loops that copy a range of a source block by      *)
(* block, IO::appendDataToFile (three of them) and                         *)
(* DefaultRaw::appendToFile, which the algorithms and the tools save with. *)
(* They are the same loop up to the block size and the place in the target.*)
(*                                                                         *)
(* A cell of a target is the address of the source cell it is a copy of.   *)
(***************************************************************************)
EXTENDS Integers, Sequences

CONSTANTS
  Size,    \* the source's Size()
  Wide     \* 2^64: uint64_t arithmetic wraps around

ASSUME DeviceAssumption == Size \in Nat /\ Wide \in Nat /\ 4 * Size < Wide

Cell  == 0 .. Size - 1
Blank == -1

Smaller(m, n) == IF m <= n THEN m ELSE n
RoundUp(m, n) == (m + n - 1) \div n

\* ReadData of n cells at a delivers all of them or throws: for none, for cells
\* behind the end, for a bad one.
Readable(a, n, bad) ==
  n > 0 /\ a + n <= Size /\ \A b \in bad : b < a \/ a + n <= b
Cells(a, n) == [i \in 1 .. n |-> a + i - 1]

\* What the loop takes for the end of the range.  A range that runs beyond the
\* source is cut to Size() - write_size, not to what is there.
to_write(a, n) == IF (a + n) % Wide > Size THEN (Size - n) % Wide ELSE n

\* The loop: rounds of a block, the last one clipped to write_size, up to the
\* first that cannot be read.  Behind the end none can.
round(a, n, block, k) == Smaller(block, n - k * block)
Fails(a, n, block, bad, k) == ~Readable(a + k * block, round(a, n, block, k), bad)
rounds_read(a, n, block, bad) ==
  CHOOSE k \in 0 .. RoundUp(Size, block) :
    /\ Fails(a, n, block, bad, k)
    /\ \A j \in 0 .. k - 1 : ~Fails(a, n, block, bad, j)

\* What is copied, and whether the loop ends by an exception.
Copied(a, n, block, bad) ==
  LET wanted == RoundUp(to_write(a, n), block)
      read   == rounds_read(a, n, block, bad)
  IN IF a >= Size THEN [count |-> 0, throws |-> FALSE]
     ELSE IF wanted <= read THEN [count |-> Smaller(wanted * block, n), throws |-> FALSE]
     ELSE [count |-> read * block, throws |-> TRUE]

\* WriteData at `position' of a target.  A gap is filled by the file system.
WriteAt(target, position, cells) ==
  [i \in 1 .. (IF position + Len(cells) > Len(target)
               THEN position + Len(cells) ELSE Len(target)) |->
     IF position < i /\ i <= position + Len(cells) THEN cells[i - position]
     ELSE IF i <= Len(target) THEN target[i] ELSE Blank]
=============================================================================
