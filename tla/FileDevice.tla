----------------------------- MODULE FileDevice -----------------------------
(***************************************************************************)
(* libio: class IO::File, an IODevice over one IOEngine.  It keeps size_,  *)
(* its own idea of the length of the file: read from the OS once, in Open, *)
(* and counted up by WriteData from then on.  Size() is where the recovery *)
(* code appends (DefaultRaw::appendToFile), so what relates size_ to the   *)
(* real length decides whether recovered pieces overlap or leave gaps.     *)
(***************************************************************************)
EXTENDS IOEngine

CONSTANTS
  Offsets,  \* arguments of setPosition and setSize
  Sizes,    \* lengths of the transfers asked for
  MaxSize,  \* bound of size_ (a uint64_t)
  BadSets   \* sets of addresses the medium may have lost

ASSUME OffsetsAssumption == Offsets \subseteq Nat
ASSUME SizesAssumption   == Sizes \subseteq Nat
ASSUME MaxSizeAssumption == MaxSize \in Nat
ASSUME BadSetsAssumption == BadSets \subseteq SUBSET Addr

VARIABLES
  size_,      \* File::size_
  reply,      \* what the last call returned or threw
  covered,    \* history: since size_ was last read or set, no write began
              \* beyond size_ and none failed
  appending   \* history: every such write also began exactly at size_

fileVars == <<size_, reply, covered, appending>>
vars == <<engineVars, fileVars>>

Modes == {"OpenRead", "OpenWrite", "Create"}

Answer(op, ok, b) == [op |-> op, ok |-> ok, bytes |-> b]
ControlDone   == Answer("control", TRUE, NoBuffer)
ControlThrown == Answer("control", FALSE, NoBuffer)

\* The files a path may name.
Files == {f \in [Addr -> Byte] \X (0 .. Capacity) :
            \A a \in Addr : a >= f[2] => f[1][a] = Zero}

\* size_ is known to be the length of the file.
SizeKnown == covered' = TRUE /\ appending' = TRUE

Init ==
  /\ \E f \in Files : data = f[1] /\ eof = f[2]
  /\ bad \in BadSets
  /\ hDevice = "invalid"
  /\ bOpen = FALSE
  /\ filePtr = 0
  /\ position = 0
  /\ req = NoReq
  /\ buffer = NoBuffer
  /\ data_pos = 0
  /\ status = "idle"
  /\ size_ = 0
  /\ reply = ControlDone
  /\ covered = FALSE
  /\ appending = FALSE

-----------------------------------------------------------------------------

\* Open: a failing open throws before size_ is read.  readFileSize can fail
\* too, and then the exception leaves an open handle and the old size_.
Open(mode) ==
  /\ status = "idle"
  /\ \/ /\ OpenSucceeds(mode)
        /\ \/ size_' = eof' /\ SizeKnown /\ reply' = ControlDone
           \/ /\ covered' = FALSE /\ appending' = FALSE
              /\ reply' = ControlThrown
              /\ UNCHANGED size_
     \/ OpenFails /\ reply' = ControlThrown /\ UNCHANGED <<size_, covered, appending>>

Close ==
  /\ status = "idle"
  /\ EngineClose
  /\ reply' = ControlDone
  /\ UNCHANGED <<size_, covered, appending>>

setPosition(p) ==
  /\ status = "idle"
  /\ EngineSetPosition(p)
  /\ reply' = ControlDone
  /\ UNCHANGED <<size_, covered, appending>>

SizeNotUpdated(n) == size_
SizeAfterResize(n) == n

\* setSize: size_ is set only when the OS resized the file.
setSize(n) ==
  /\ status = "idle"
  /\ EngineSetFileSize(n)
  /\ IF CanResize(n)
     THEN size_' = SizeAfterResize(n) /\ SizeKnown /\ reply' = ControlDone
     ELSE reply' = ControlThrown /\ UNCHANGED <<size_, covered, appending>>

\* setFileName: Close, then the object names another file; size_ stays.
setFileName ==
  /\ status = "idle"
  /\ \E f \in Files : data' = f[1] /\ eof' = f[2]
  /\ hDevice' = "invalid"
  /\ bOpen' = FALSE
  /\ covered' = FALSE
  /\ appending' = FALSE
  /\ reply' = Answer("rename", TRUE, NoBuffer)
  /\ UNCHANGED <<bad, filePtr, position, req, buffer, data_pos, status, size_>>

-----------------------------------------------------------------------------

\* ReadData and WriteData: the engine's transfer, then what File does with
\* its result.  The caller's buffer holds anything before a read.
ReadData(n) ==
  /\ BeginTransfer("read", n, [i \in 0 .. n - 1 |-> Zero])
  /\ UNCHANGED fileVars

WriteData(n, b) ==
  /\ size_ + n <= MaxSize
  /\ BeginTransfer("write", n, b)
  /\ covered' = (covered /\ position <= size_)
  /\ appending' = (appending /\ position = size_)
  /\ UNCHANGED <<size_, reply>>

\* size_ += bytes_written, whether or not the bytes made the file longer.
SizeUnchanged == size_
SizeAfterWrite == size_ + data_pos

ReturnRead ==
  /\ req.op = "read"
  /\ EndTransfer
  /\ reply' = IF status = "OK" THEN Answer("read", TRUE, buffer)
                               ELSE Answer("read", FALSE, NoBuffer)
  /\ UNCHANGED <<size_, covered, appending>>

ReturnWrite ==
  /\ req.op = "write"
  /\ EndTransfer
  /\ reply' = Answer("write", status = "OK", NoBuffer)
  /\ size_' = IF status = "OK" THEN SizeAfterWrite ELSE size_
  /\ covered' = (covered /\ status # "kWriteData")
  /\ appending' = (appending /\ status # "kWriteData")

Return == ReturnRead \/ ReturnWrite

Next ==
  \/ \E mode \in Modes : Open(mode)
  \/ Close
  \/ \E p \in Offsets : setPosition(p) \/ setSize(p)
  \/ setFileName
  \/ \E n \in Sizes : ReadData(n) \/ \E b \in [0 .. n - 1 -> Byte] : WriteData(n, b)
  \/ Transfer /\ UNCHANGED fileVars
  \/ Return

Spec == Init /\ [][Next]_vars

\* The calling thread keeps running inside a call; it need not make another.
FairSpec == Spec /\ WF_vars(Transfer /\ UNCHANGED fileVars) /\ WF_vars(Return)

-----------------------------------------------------------------------------
(* Properties                                                              *)

Statuses == {"idle", "running"} \cup Results

\* Types of the engine's and the file's state.
TypeOK ==
  /\ data \in [Addr -> Byte]
  /\ eof \in 0 .. Capacity
  /\ bad \in SUBSET Addr
  /\ hDevice \in {"invalid"} \cup Access
  /\ bOpen \in BOOLEAN
  /\ filePtr \in Nat
  /\ position \in Nat
  /\ req \in [op : {"none", "read", "write"}, start : Nat, size : Nat,
              oldData : [Addr -> Byte], oldEof : 0 .. Capacity]
  /\ buffer \in [0 .. req.size - 1 -> Byte]
  /\ data_pos \in Nat
  /\ status \in Statuses
  /\ size_ \in Nat
  /\ covered \in BOOLEAN
  /\ appending \in BOOLEAN

\* File::Size() is never less than the length of the file, however writes,
\* overwrites, seeks and resizes follow each other, unless a write began
\* beyond Size() or one failed half-way (file.cpp:114 counts only what a
\* successful call wrote).  So a piece appended at Size() overlaps nothing.
SizeCoversFile == status = "idle" /\ covered => eof <= size_

\* When moreover every write began at Size(), Size() is the exact length:
\* the pieces appended by the recovery code leave no gap between them.
AppendedSizeIsExact == status = "idle" /\ appending => size_ = eof

\* Every ReadData and WriteData ends: each turn of ReadOrWriteData's loop
\* moves a byte or leaves with an error, at the end of the file, on a bad
\* address and on a full disk as well.
EveryCallReturns == status # "idle" ~> status = "idle"

\* IODevice as its clients see it: before a call has returned, the file
\* and the cursor are still those it found.
Atomic == INSTANCE Device WITH
  content <- IF status = "idle" THEN data ELSE req.oldData,
  length  <- IF status = "idle" THEN eof ELSE req.oldEof,
  cursor  <- IF status = "idle" THEN position ELSE req.start

\* File implements it: short transfers, failures in the middle and the OS
\* pointer moved by setSize are invisible through the interface.
ImplementsDevice == Atomic!Spec
=============================================================================
