------------------------------- MODULE Device -------------------------------
(***************************************************************************)
(* What a client of IO::IODevice may rely on: every call is one step.      *)
(* A read that returns delivers exactly the bytes under the cursor, a      *)
(* write that returns has put exactly its bytes there, and both move the   *)
(* cursor past them.  A call that throws has moved the cursor by the       *)
(* bytes it knows of and, if it is a write, left a prefix of its bytes --  *)
(* at least those -- and nothing else behind.                              *)
(***************************************************************************)
EXTENDS Integers

CONSTANTS
  Byte, Zero,  \* byte values, and the one holes are filled with
  Capacity,    \* bytes the file can have
  Sizes        \* lengths of the transfers asked for

VARIABLES
  content,  \* the bytes of the file
  length,   \* how many of them
  cursor,   \* where the next transfer starts
  reply     \* the last call: what it was, whether it returned, what it read

Cells == 0 .. Capacity - 1

\* What the file of some path may hold: zeros from its length on.
Files == {f \in [Cells -> Byte] \X (0 .. Capacity) :
            \A a \in Cells : a >= f[2] => f[1][a] = Zero}

Answer(op, ok, b) == [op |-> op, ok |-> ok, bytes |-> b]
Nothing == [i \in {} |-> Zero]

Grown(k) == IF k > 0 /\ cursor + k > length THEN cursor + k ELSE length

Overwritten(b, k) ==
  [a \in Cells |-> IF cursor <= a /\ a < cursor + k THEN b[a - cursor] ELSE content[a]]

Init ==
  /\ <<content, length>> \in Files
  /\ cursor = 0
  /\ reply = Answer("control", TRUE, Nothing)

\* A call that moves no data: open, close, seek, resize.  A resize or an open
\* that empties the file cuts the content or extends it with zeros.
Control ==
  /\ \E ok \in BOOLEAN : reply' = Answer("control", ok, Nothing)
  /\ cursor' \in Nat
  /\ length' \in 0 .. Capacity
  /\ content' = [a \in Cells |-> IF a < length' THEN content[a] ELSE Zero]

\* The object is pointed at another file.
Rename ==
  /\ reply' = Answer("rename", TRUE, Nothing)
  /\ <<content', length'>> \in Files
  /\ UNCHANGED cursor

Read(n) ==
  /\ UNCHANGED <<content, length>>
  /\ \/ /\ n > 0
        /\ cursor + n <= length
        /\ cursor' = cursor + n
        /\ reply' = Answer("read", TRUE, [i \in 0 .. n - 1 |-> content[cursor + i]])
     \/ /\ \E k \in 0 .. n : cursor' = cursor + k /\ (n > 0 => k < n)
        /\ reply' = Answer("read", FALSE, Nothing)

Write(b, n) ==
  \E k \in 0 .. n, known \in 0 .. n :
    /\ known <= k
    /\ content' = Overwritten(b, k)
    /\ length' = Grown(k)
    /\ cursor' = cursor + known
    /\ reply' = Answer("write", n > 0 /\ known = n, Nothing)

Next ==
  \/ Control
  \/ Rename
  \/ \E n \in Sizes : Read(n) \/ \E b \in [0 .. n - 1 -> Byte] : Write(b, n)

vars == <<content, length, cursor, reply>>

Spec == Init /\ [][Next]_vars
=============================================================================
