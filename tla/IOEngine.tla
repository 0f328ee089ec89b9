------------------------------ MODULE IOEngine ------------------------------
(***************************************************************************)
(* libio: class IO::IOEngine, the only code of the toolkit that moves      *)
(* bytes.  A request is split into blocks of at most transfer_size_; every *)
(* block seeks, calls the operating system once and may come back short.   *)
(* The engine is driven by one thread, but a request is several OS calls   *)
(* and each of them can fail after the earlier ones have taken effect.     *)
(*                                                                         *)
(* The OS file behind the handle is part of the state: `data' and `eof'    *)
(* are its content and length, `filePtr' the pointer of the handle (which  *)
(* is not the engine's position_), `bad' the addresses of the medium that  *)
(* cannot be read or written.                                              *)
(***************************************************************************)
EXTENDS Integers

CONSTANTS
  Byte,         \* the values a byte is told apart by
  Zero,         \* the byte the file system fills holes with
  Capacity,     \* bytes the volume can give the file: then the disk is full
  TransferSize  \* IOEngine::transfer_size_

ASSUME ByteAssumption     == Zero \in Byte
ASSUME CapacityAssumption == Capacity \in Nat
ASSUME TransferAssumption == TransferSize \in Nat

VARIABLES
  data,      \* content of the OS file, Zero from eof on
  eof,       \* its length
  bad,       \* unreadable and unwritable addresses
  hDevice,   \* hDevice_: "invalid", or the access the handle gives
  bOpen,     \* bOpen_
  filePtr,   \* file pointer of the OS handle
  position,  \* position_
  req,       \* arguments of the running request, and the file before it
  buffer,    \* the caller's buffer
  data_pos,  \* bytes of the request transferred so far
  status     \* "idle", "running", or the IOErrorsType the engine returned

engineVars == <<data, eof, bad, hDevice, bOpen, filePtr, position,
                req, buffer, data_pos, status>>

Addr    == 0 .. Capacity - 1
Access  == {"read", "readwrite"}
Results == {"OK", "kWrongParam", "kReadData", "kWriteData"}

Larger(m, n) == IF m <= n THEN n ELSE m

\* The request record between two requests.
NoReq == [op |-> "none", start |-> 0, size |-> 0,
          oldData |-> [a \in Addr |-> Zero], oldEof |-> 0]

NoBuffer == [i \in {} |-> Zero]

(***************************************************************************)
(* What overwriting old from address s on with the first k bytes of b      *)
(* leaves.                                                                 *)
(***************************************************************************)
Splice(old, s, b, k) ==
  [a \in Addr |-> IF s <= a /\ a < s + k THEN b[a - s] ELSE old[a]]

-----------------------------------------------------------------------------
(* Opening, seeking, resizing                                              *)

\* ::CreateFile succeeded: OpenRead, OpenWrite and Create differ in the access
\* and in CREATE_ALWAYS emptying the file.  position_ keeps its old value.
OpenSucceeds(mode) ==
  /\ hDevice' = IF mode = "OpenRead" THEN "read" ELSE "readwrite"
  /\ bOpen' = TRUE
  /\ filePtr' = 0
  /\ data' = IF mode = "Create" THEN [a \in Addr |-> Zero] ELSE data
  /\ eof' = IF mode = "Create" THEN 0 ELSE eof
  /\ UNCHANGED <<bad, position, req, buffer, data_pos, status>>

\* ::CreateFile failed: the handle is overwritten, bOpen_ is not.
OpenFails ==
  /\ hDevice' = "invalid"
  /\ UNCHANGED <<data, eof, bad, bOpen, filePtr, position, req, buffer, data_pos, status>>

EngineClose ==
  /\ hDevice' = "invalid"
  /\ bOpen' = FALSE
  /\ UNCHANGED <<data, eof, bad, filePtr, position, req, buffer, data_pos, status>>

\* SetFilePointerEx(handle, p): nothing moves on an invalid handle.
Seek(p) == filePtr' = IF hDevice = "invalid" THEN filePtr ELSE p

EngineSetPosition(p) ==
  /\ position' = p
  /\ Seek(p)
  /\ UNCHANGED <<data, eof, bad, hDevice, bOpen, req, buffer, data_pos, status>>

\* SetFileSize moves the OS pointer and never position_; SetEndOfFile needs
\* write access and room on the volume.
CanAlwaysResize(n) == hDevice = "readwrite"
CanResize(n) == hDevice = "readwrite" /\ n <= Capacity

EngineSetFileSize(n) ==
  /\ Seek(n)
  /\ eof' = IF CanResize(n) THEN n ELSE eof
  /\ data' = IF CanResize(n) THEN [a \in Addr |-> IF a < n THEN data[a] ELSE Zero] ELSE data
  /\ UNCHANGED <<bad, hDevice, bOpen, position, req, buffer, data_pos, status>>

-----------------------------------------------------------------------------
(* ReadOrWriteData                                                         *)

calcBlockSize(current, size, block) ==
  IF current > size THEN 0
  ELSE IF current + block <= size THEN block ELSE size - current

ParamsValid(size) == size > 0 /\ TransferSize > 0

\* Entry of Read and Write, up to the loop.
BeginTransfer(op, size, b) ==
  /\ status = "idle"
  /\ req' = [op |-> op, start |-> position, size |-> size, oldData |-> data, oldEof |-> eof]
  /\ buffer' = b
  /\ data_pos' = 0
  /\ status' = IF ParamsValid(size) THEN "running" ELSE "kWrongParam"
  /\ UNCHANGED <<data, eof, bad, hDevice, bOpen, filePtr, position>>

Block == calcBlockSize(data_pos, req.size, TransferSize)

\* Where the OS call happens: setPosition(position_) at the head of the loop.
\* With the test commented out in setPosition the OS pointer would stay put.
SeekOnlyIfMoved == filePtr
SeekTarget == position

\* Bytes one OS call at address p can move before it meets a bad address or
\* the limit: the end of the file, or of the volume.
Reach(p, limit) ==
  {k \in 0 .. Block : p + k <= limit /\ \A a \in bad : ~(p <= a /\ a < p + k)}

MeetsBad(p) == \E a \in bad : p <= a /\ a < p + Block

\* read_data/write_data: an OS call that moves nothing is an error.
IgnoreZeroBytes(bResult, n) == ~bResult
CallFailed(bResult, n) == ~bResult \/ n = 0

\* The end of one iteration: data_pos and position_ advance by what the OS
\* reported; the loop leaves on an error or when the request is done.
Advance(bResult, n, error) ==
  IF CallFailed(bResult, n)
  THEN status' = error /\ UNCHANGED <<data_pos, position>>
  ELSE /\ data_pos' = data_pos + n
       /\ position' = position + n
       /\ status' = IF data_pos + n < req.size THEN "running" ELSE "OK"

\* The OS reads k bytes; at the end of the file ReadFile succeeds with none.
ReadBlock ==
  /\ status = "running" /\ req.op = "read"
  /\ LET p == SeekTarget
     IN \E ok \in BOOLEAN : \E k \in Reach(p, Larger(p, eof)) :
          /\ ok  => hDevice # "invalid" /\ (k > 0 \/ p >= eof)
          /\ ~ok => k = 0 /\ (hDevice = "invalid" \/ MeetsBad(p))
          /\ buffer' = [i \in 0 .. req.size - 1 |->
                          IF data_pos <= i /\ i < data_pos + k
                          THEN data[p + i - data_pos] ELSE buffer[i]]
          /\ filePtr' = IF hDevice = "invalid" THEN filePtr ELSE p + k
          /\ Advance(ok, k, "kReadData")
  /\ UNCHANGED <<data, eof, bad, hDevice, bOpen, req>>

\* The OS writes k bytes.  A failing WriteFile may have put some of the block
\* on the medium, which the engine does not hear of.
WriteBlock ==
  /\ status = "running" /\ req.op = "write"
  /\ LET p == SeekTarget
     IN \E ok \in BOOLEAN : \E k \in Reach(p, Larger(p, Capacity)) :
          /\ ok  => hDevice = "readwrite" /\ k > 0
          /\ ~ok => \/ hDevice # "readwrite" /\ k = 0
                    \/ hDevice = "readwrite" /\ (MeetsBad(p) \/ p + Block > Capacity)
          /\ data' = Splice(data, p, [i \in 0 .. k - 1 |-> buffer[data_pos + i]], k)
          /\ eof' = IF k > 0 THEN Larger(eof, p + k) ELSE eof
          /\ filePtr' = IF hDevice = "invalid" THEN filePtr ELSE p + k
          /\ Advance(ok, k, "kWriteData")
  /\ UNCHANGED <<bad, hDevice, bOpen, req, buffer>>

Transfer == ReadBlock \/ WriteBlock

\* ReadOrWriteData has returned to its caller.
EndTransfer ==
  /\ status \in Results
  /\ status' = "idle"
  /\ req' = NoReq
  /\ buffer' = NoBuffer
  /\ data_pos' = 0
  /\ UNCHANGED <<data, eof, bad, hDevice, bOpen, filePtr, position>>
=============================================================================
