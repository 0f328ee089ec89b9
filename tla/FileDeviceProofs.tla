-------------------------- MODULE FileDeviceProofs --------------------------
(***************************************************************************)
(* Proofs about FileDevice, for every volume, transfer size and set of     *)
(* requests: the types are respected, File::Size() covers the file, and    *)
(* File implements IODevice.                                               *)
(*                                                                         *)
(* The invariants speak of the file between two calls.  A write changes    *)
(* the file block by block while size_ is updated when it returns, so the  *)
(* induction needs to know, inside a call, how far the file can have grown *)
(* beyond what it was at the start: CallInv.                               *)
(***************************************************************************)
EXTENDS FileDevice, TLAPS

\* During a read the file is what it was.
ReadInv ==
  /\ covered => eof <= size_
  /\ appending => size_ = eof

\* During a write position_ and data_pos move together, and as long as no
\* OS call failed the file ends where it ended before or where the blocks
\* written so far end.
WriteInv ==
  /\ position = req.start + data_pos
  /\ status = "kWrongParam" => data_pos = 0
  /\ status # "kReadData"
  /\ covered =>
       /\ req.start <= size_
       /\ req.oldEof <= size_
       /\ status # "kWriteData" => eof <= Larger(req.oldEof, req.start + data_pos)
  /\ appending =>
       /\ req.start = size_
       /\ status # "kWriteData" => eof = size_ + data_pos

CallInv ==
  /\ status # "idle" /\ req.op = "read" => ReadInv
  /\ status # "idle" /\ req.op = "write" => WriteInv

IInv == TypeOK /\ SizeCoversFile /\ AppendedSizeIsExact /\ CallInv
-----------------------------------------------------------------------------
(* Lemmas about the operators of the engine                                *)

\* A block is a natural number that never passes the end of the request.
LEMMA BlockFits ==
  ASSUME NEW d \in Nat, NEW n \in Nat, NEW t \in Nat
  PROVE  /\ calcBlockSize(d, n, t) \in Nat
         /\ calcBlockSize(d, n, t) > 0 => d + calcBlockSize(d, n, t) <= n
BY DEF calcBlockSize

\* Splicing bytes into a file gives a file.
LEMMA SpliceType ==
  ASSUME NEW old \in [Addr -> Byte], NEW s \in Nat, NEW k \in Nat,
         NEW b, \A i \in 0 .. k - 1 : b[i] \in Byte
  PROVE  Splice(old, s, b, k) \in [Addr -> Byte]
BY CapacityAssumption DEF Splice, Addr

LEMMA LargerNat ==
  ASSUME NEW m \in Int, NEW n \in Int
  PROVE  /\ Larger(m, n) \in {m, n}
         /\ m <= Larger(m, n)
         /\ n <= Larger(m, n)
BY DEF Larger

LEMMA NoReqType ==
  /\ NoReq \in [op : {"none", "read", "write"}, start : Nat, size : Nat,
                oldData : [Addr -> Byte], oldEof : 0 .. Capacity]
  /\ NoBuffer \in [0 .. NoReq.size - 1 -> Byte]
<1>1. [a \in Addr |-> Zero] \in [Addr -> Byte]
  BY ByteAssumption
<1>2. 0 \in 0 .. Capacity
  BY CapacityAssumption
<1>3. NoReq.size = 0 /\ 0 .. 0 - 1 = {}
  BY DEF NoReq
<1>4. NoBuffer \in [0 .. NoReq.size - 1 -> Byte]
  BY <1>3 DEF NoBuffer
<1> QED
  BY <1>1, <1>2, <1>4 DEF NoReq

-----------------------------------------------------------------------------
(* Types                                                                   *)

LEMMA InitTypeOK == Init => TypeOK
<1> SUFFICES ASSUME Init PROVE TypeOK
  OBVIOUS
<1>1. data \in [Addr -> Byte] /\ eof \in 0 .. Capacity
  BY DEF Init, Files
<1>2. bad \in SUBSET Addr
  BY BadSetsAssumption DEF Init
<1>3. req \in [op : {"none", "read", "write"}, start : Nat, size : Nat,
               oldData : [Addr -> Byte], oldEof : 0 .. Capacity]
      /\ buffer \in [0 .. req.size - 1 -> Byte]
  BY NoReqType DEF Init
<1> QED
  BY <1>1, <1>2, <1>3 DEF Init, TypeOK, Statuses

\* The control operations, which move no data.
LEMMA ControlType ==
  ASSUME TypeOK,
         \/ \E mode \in Modes : Open(mode)
         \/ Close
         \/ \E p \in Offsets : setPosition(p) \/ setSize(p)
         \/ setFileName
  PROVE  TypeOK'
<1> USE CapacityAssumption, ByteAssumption
<1>0. [a \in Addr |-> Zero] \in [Addr -> Byte]
  OBVIOUS
<1>1. CASE \E mode \in Modes : Open(mode)
  <2> PICK mode \in Modes : Open(mode)
    BY <1>1
  <2>1. CASE OpenSucceeds(mode)
    <3>1. data' \in [Addr -> Byte] /\ eof' \in 0 .. Capacity
      BY <2>1, <1>0 DEF OpenSucceeds, TypeOK
    <3>2. hDevice' \in {"invalid"} \cup Access /\ filePtr' \in Nat /\ bOpen' \in BOOLEAN
      BY <2>1 DEF OpenSucceeds, Access
    <3>3. UNCHANGED <<bad, position, req, buffer, data_pos, status>>
      BY <2>1 DEF OpenSucceeds
    <3>4. \/ size_' = eof' /\ SizeKnown
          \/ covered' = FALSE /\ appending' = FALSE /\ UNCHANGED size_
          \/ UNCHANGED <<size_, covered, appending>>
      BY DEF Open
    <3>5. size_' \in Nat
      BY <3>1, <3>4 DEF TypeOK
    <3>6. covered' \in BOOLEAN /\ appending' \in BOOLEAN
      BY <3>4 DEF SizeKnown, TypeOK
    <3> QED
      BY <3>1, <3>2, <3>3, <3>5, <3>6 DEF TypeOK, Statuses
  <2>2. CASE OpenFails
    BY <2>2 DEF Open, OpenSucceeds, OpenFails, SizeKnown, TypeOK, Access, Statuses
  <2> QED
    BY <2>1, <2>2 DEF Open
<1>2. CASE Close
  BY <1>2 DEF Close, EngineClose, TypeOK, Statuses
<1>3. ASSUME NEW p \in Offsets, setPosition(p) PROVE TypeOK'
  BY <1>3, OffsetsAssumption DEF setPosition, EngineSetPosition, Seek, TypeOK, Statuses
<1>4. ASSUME NEW p \in Offsets, setSize(p) PROVE TypeOK'
  <2>1. p \in Nat
    BY OffsetsAssumption
  <2>2. data' \in [Addr -> Byte] /\ eof' \in 0 .. Capacity
    BY <1>4, <2>1 DEF setSize, EngineSetFileSize, CanResize, TypeOK
  <2> QED
    BY <1>4, <2>1, <2>2
       DEF setSize, EngineSetFileSize, SizeAfterResize, SizeKnown, Seek, TypeOK, Statuses
<1>5. CASE setFileName
  BY <1>5 DEF setFileName, Files, TypeOK, Statuses
<1> QED
  BY <1>1, <1>2, <1>3, <1>4, <1>5

\* Entering and leaving ReadOrWriteData.
LEMMA BeginType ==
  ASSUME TypeOK, NEW op \in {"read", "write"}, NEW n \in Sizes,
         NEW b \in [0 .. n - 1 -> Byte], BeginTransfer(op, n, b)
  PROVE  /\ req' \in [op : {"none", "read", "write"}, start : Nat, size : Nat,
                      oldData : [Addr -> Byte], oldEof : 0 .. Capacity]
         /\ buffer' \in [0 .. req'.size - 1 -> Byte]
         /\ data_pos' \in Nat
         /\ status' \in {"running", "kWrongParam"}
         /\ UNCHANGED <<data, eof, bad, hDevice, bOpen, filePtr, position>>
<1>1. n \in Nat
  BY SizesAssumption
<1>2. req' = [op |-> op, start |-> position, size |-> n, oldData |-> data, oldEof |-> eof]
  BY DEF BeginTransfer
<1>3. buffer' = b
  BY DEF BeginTransfer
<1>4. data_pos' \in Nat /\ status' \in {"running", "kWrongParam"}
      /\ UNCHANGED <<data, eof, bad, hDevice, bOpen, filePtr, position>>
  BY DEF BeginTransfer
<1> QED
  BY <1>1, <1>2, <1>3, <1>4 DEF TypeOK

LEMMA TransferArgsType ==
  ASSUME TypeOK, NEW n \in Sizes,
         ReadData(n) \/ \E b \in [0 .. n - 1 -> Byte] : WriteData(n, b)
  PROVE  TypeOK'
<1>1. CASE ReadData(n)
  <2>1. [i \in 0 .. n - 1 |-> Zero] \in [0 .. n - 1 -> Byte]
    BY ByteAssumption
  <2>2. BeginTransfer("read", n, [i \in 0 .. n - 1 |-> Zero]) /\ UNCHANGED fileVars
    BY <1>1 DEF ReadData
  <2> QED
    BY <2>1, <2>2, BeginType DEF TypeOK, Statuses, Results, fileVars
<1>2. ASSUME NEW b \in [0 .. n - 1 -> Byte], WriteData(n, b) PROVE TypeOK'
  <2>1. BeginTransfer("write", n, b) /\ UNCHANGED size_
    BY <1>2 DEF WriteData
  <2>2. covered' \in BOOLEAN /\ appending' \in BOOLEAN
    BY <1>2 DEF WriteData
  <2> QED
    BY <2>1, <2>2, BeginType DEF TypeOK, Statuses, Results
<1> QED
  BY <1>1, <1>2

\* What an iteration of the loop leaves in the counters.
LEMMA AdvanceType ==
  ASSUME TypeOK, NEW ok \in BOOLEAN, NEW k \in Nat, NEW error \in Results,
         Advance(ok, k, error)
  PROVE  data_pos' \in Nat /\ position' \in Nat /\ status' \in Statuses
BY DEF Advance, TypeOK, Statuses, Results

LEMMA ReadBlockType ==
  ASSUME TypeOK, ReadBlock
  PROVE  /\ buffer' \in [0 .. req.size - 1 -> Byte]
         /\ filePtr' \in Nat /\ data_pos' \in Nat /\ position' \in Nat
         /\ status' \in Statuses
         /\ UNCHANGED <<data, eof, bad, hDevice, bOpen, req>>
<1> PICK ok \in BOOLEAN, k \in Reach(position, Larger(position, eof)) :
      /\ buffer' = [i \in 0 .. req.size - 1 |->
                      IF data_pos <= i /\ i < data_pos + k
                      THEN data[position + i - data_pos] ELSE buffer[i]]
      /\ filePtr' = IF hDevice = "invalid" THEN filePtr ELSE position + k
      /\ Advance(ok, k, "kReadData")
  BY DEF ReadBlock, SeekTarget
<1>1. Block \in Nat
  BY BlockFits, TransferAssumption DEF Block, TypeOK
<1>2. k \in Nat /\ position + k <= Larger(position, eof)
  BY <1>1 DEF Reach
<1>3. ASSUME NEW i \in 0 .. req.size - 1, data_pos <= i, i < data_pos + k
      PROVE  data[position + i - data_pos] \in Byte
  <2>1. eof \in Nat /\ eof <= Capacity /\ data_pos \in Nat /\ position \in Nat
    BY CapacityAssumption DEF TypeOK
  <2>2. i \in Int
    OBVIOUS
  <2>3. position + k <= eof
    BY <1>2, <1>3, <2>1, <2>2 DEF Larger
  <2>4. position + i - data_pos \in Addr
    BY <1>2, <1>3, <2>1, <2>2, <2>3, CapacityAssumption DEF Addr
  <2> QED
    BY <2>4 DEF TypeOK
<1>4. buffer' \in [0 .. req.size - 1 -> Byte]
  BY <1>3 DEF TypeOK
<1>5. filePtr' \in Nat
  BY <1>2 DEF TypeOK
<1>6. data_pos' \in Nat /\ position' \in Nat /\ status' \in Statuses
  BY <1>2, AdvanceType DEF Results
<1>7. UNCHANGED <<data, eof, bad, hDevice, bOpen, req>>
  BY DEF ReadBlock
<1> QED
  BY <1>4, <1>5, <1>6, <1>7

LEMMA WriteBlockType ==
  ASSUME TypeOK, WriteBlock
  PROVE  /\ data' \in [Addr -> Byte] /\ eof' \in 0 .. Capacity
         /\ filePtr' \in Nat /\ data_pos' \in Nat /\ position' \in Nat
         /\ status' \in Statuses
         /\ UNCHANGED <<bad, hDevice, bOpen, req, buffer>>
<1> PICK ok \in BOOLEAN, k \in Reach(position, Larger(position, Capacity)) :
      /\ data' = Splice(data, position, [i \in 0 .. k - 1 |-> buffer[data_pos + i]], k)
      /\ eof' = IF k > 0 THEN Larger(eof, position + k) ELSE eof
      /\ filePtr' = IF hDevice = "invalid" THEN filePtr ELSE position + k
      /\ Advance(ok, k, "kWriteData")
  BY DEF WriteBlock, SeekTarget
<1>1. Block \in Nat /\ (Block > 0 => data_pos + Block <= req.size)
  BY BlockFits, TransferAssumption DEF Block, TypeOK
<1>2. k \in Nat /\ k <= Block /\ position + k <= Larger(position, Capacity)
  BY <1>1 DEF Reach
<1>3. data_pos \in Nat /\ position \in Nat /\ eof \in 0 .. Capacity /\ req.size \in Nat
  BY DEF TypeOK
<1>4. ASSUME NEW i \in 0 .. k - 1
      PROVE  [j \in 0 .. k - 1 |-> buffer[data_pos + j]][i] \in Byte
  <2>1. data_pos + i \in 0 .. req.size - 1
    BY <1>1, <1>2, <1>3
  <2> QED
    BY <2>1 DEF TypeOK
<1>5. data' \in [Addr -> Byte]
  BY <1>2, <1>3, <1>4, SpliceType DEF TypeOK
<1>6. eof' \in 0 .. Capacity
  BY <1>2, <1>3, CapacityAssumption DEF Larger
<1>7. filePtr' \in Nat
  BY <1>2 DEF TypeOK
<1>8. data_pos' \in Nat /\ position' \in Nat /\ status' \in Statuses
  BY <1>2, AdvanceType DEF Results
<1>9. UNCHANGED <<bad, hDevice, bOpen, req, buffer>>
  BY DEF WriteBlock
<1> QED
  BY <1>5, <1>6, <1>7, <1>8, <1>9

LEMMA TransferType ==
  ASSUME TypeOK, Transfer, UNCHANGED fileVars
  PROVE  TypeOK'
<1>1. CASE ReadBlock
  BY <1>1, ReadBlockType DEF TypeOK, fileVars
<1>2. CASE WriteBlock
  BY <1>2, WriteBlockType DEF TypeOK, fileVars
<1> QED
  BY <1>1, <1>2 DEF Transfer

LEMMA ReturnType ==
  ASSUME TypeOK, Return
  PROVE  TypeOK'
<1>1. EndTransfer
  BY DEF Return, ReturnRead, ReturnWrite
<1>2. req' = NoReq /\ buffer' = NoBuffer /\ data_pos' = 0 /\ status' = "idle"
      /\ UNCHANGED <<data, eof, bad, hDevice, bOpen, filePtr, position>>
  BY <1>1 DEF EndTransfer
<1>3. size_' = size_ \/ size_' = size_ + data_pos
  BY Zenon DEF Return, ReturnRead, ReturnWrite, SizeAfterWrite
<1>5. size_' \in Nat
  BY <1>3 DEF TypeOK
<1>4. covered' \in BOOLEAN /\ appending' \in BOOLEAN
  BY DEF Return, ReturnRead, ReturnWrite, TypeOK
<1> QED
  BY <1>2, <1>4, <1>5, NoReqType DEF TypeOK, Statuses

LEMMA NextTypeOK == TypeOK /\ [Next]_vars => TypeOK'
<1> SUFFICES ASSUME TypeOK, [Next]_vars PROVE TypeOK'
  OBVIOUS
<1>1. CASE Next
  BY <1>1, ControlType, TransferArgsType, TransferType, ReturnType DEF Next
<1>2. CASE UNCHANGED vars
  BY <1>2 DEF vars, engineVars, fileVars, TypeOK
<1> QED
  BY <1>1, <1>2

\* The types hold in every reachable state, whatever the OS calls do: the
\* buffer is indexed within the request and the file within the volume.
THEOREM TypeCorrect == Spec => []TypeOK
<1>1. Init => TypeOK
  BY InitTypeOK
<1>2. TypeOK /\ [Next]_vars => TypeOK'
  BY NextTypeOK
<1> QED
  BY <1>1, <1>2, PTL DEF Spec

-----------------------------------------------------------------------------
(* File::Size() and the length of the file                                 *)

LEMMA InitCall == Init => SizeCoversFile /\ AppendedSizeIsExact /\ CallInv
BY DEF Init, SizeCoversFile, AppendedSizeIsExact, CallInv

SizeInv == SizeCoversFile /\ AppendedSizeIsExact /\ CallInv

\* Between two calls only a resize, an open or a rename touches the length or
\* size_: either both agree afterwards or the histories are reset.
LEMMA ControlSize ==
  ASSUME IInv,
         \/ \E mode \in Modes : Open(mode)
         \/ Close
         \/ \E p \in Offsets : setPosition(p) \/ setSize(p)
         \/ setFileName
  PROVE  SizeInv'
<1>1. status = "idle" /\ status' = "idle"
  BY DEF Open, OpenSucceeds, OpenFails, Close, EngineClose, setPosition, EngineSetPosition,
         setSize, EngineSetFileSize, setFileName
<1>2. eof \in Nat /\ eof \in Int
  BY CapacityAssumption DEF IInv, TypeOK
<1>3. \/ UNCHANGED <<eof, size_, covered, appending>>
      \/ size_' = eof'
      \/ covered' = FALSE /\ appending' = FALSE
  <2>1. CASE \E mode \in Modes : Open(mode)
    BY <2>1 DEF Open, OpenFails
  <2>2. CASE Close
    BY <2>2 DEF Close, EngineClose
  <2>3. ASSUME NEW p \in Offsets, setPosition(p)
        PROVE  UNCHANGED <<eof, size_, covered, appending>>
    BY <2>3 DEF setPosition, EngineSetPosition
  <2>4. ASSUME NEW p \in Offsets, setSize(p)
        PROVE  UNCHANGED <<eof, size_, covered, appending>> \/ size_' = eof'
    BY <2>4 DEF setSize, EngineSetFileSize, SizeAfterResize
  <2>5. CASE setFileName
    BY <2>5 DEF setFileName
  <2> QED
    BY <2>1, <2>2, <2>3, <2>4, <2>5
<1>4. TypeOK'
  BY ControlType DEF IInv
<1>5. eof' <= eof'
  BY <1>4, CapacityAssumption DEF TypeOK
<1>6. SizeCoversFile' /\ AppendedSizeIsExact'
  BY <1>1, <1>3, <1>5 DEF IInv, SizeCoversFile, AppendedSizeIsExact
<1> QED
  BY <1>1, <1>6 DEF SizeInv, CallInv

LEMMA BeginSize ==
  ASSUME IInv, NEW n \in Sizes,
         ReadData(n) \/ \E b \in [0 .. n - 1 -> Byte] : WriteData(n, b)
  PROVE  SizeInv'
<1>1. status = "idle" /\ status' \in {"running", "kWrongParam"}
  BY DEF ReadData, WriteData, BeginTransfer
<1>2. UNCHANGED <<eof, position, size_>> /\ data_pos' = 0
  BY DEF ReadData, WriteData, BeginTransfer, fileVars
<1>3. /\ eof \in Nat /\ position \in Nat /\ size_ \in Nat
      /\ covered => eof <= size_
      /\ appending => size_ = eof
  BY <1>1, CapacityAssumption DEF IInv, TypeOK, SizeCoversFile, AppendedSizeIsExact
<1>4. CASE ReadData(n)
  <2>1. req'.op = "read" /\ UNCHANGED <<covered, appending>>
    BY <1>4 DEF ReadData, BeginTransfer, fileVars
  <2>2. ReadInv'
    BY <1>2, <1>3, <2>1 DEF ReadInv
  <2> QED
    BY <1>1, <2>1, <2>2 DEF SizeInv, SizeCoversFile, AppendedSizeIsExact, CallInv
<1>5. ASSUME NEW b \in [0 .. n - 1 -> Byte], WriteData(n, b) PROVE SizeInv'
  <2>1. req'.op = "write" /\ req'.start = position /\ req'.oldEof = eof
    BY <1>5 DEF WriteData, BeginTransfer
  <2>2. covered' => covered /\ position <= size_
    BY <1>5 DEF WriteData
  <2>3. appending' => appending /\ position = size_
    BY <1>5 DEF WriteData
  <2>4. covered' => /\ req'.start <= size_' /\ req'.oldEof <= size_'
                    /\ eof' <= Larger(req'.oldEof, req'.start + data_pos')
    BY <1>2, <1>3, <2>1, <2>2, LargerNat
  <2>5. appending' => req'.start = size_' /\ eof' = size_' + data_pos'
    BY <1>2, <1>3, <2>1, <2>3
  <2>6. position' = req'.start + data_pos'
    BY <1>2, <1>3, <2>1
  <2>7. WriteInv'
    BY <1>1, <1>2, <2>4, <2>5, <2>6 DEF WriteInv
  <2> QED
    BY <1>1, <2>1, <2>7 DEF SizeInv, SizeCoversFile, AppendedSizeIsExact, CallInv
<1> QED
  BY <1>4, <1>5

LEMMA ReadBlockSize ==
  ASSUME IInv, ReadBlock, UNCHANGED fileVars
  PROVE  SizeInv'
<1>1. status = "running" /\ req.op = "read" /\ UNCHANGED <<eof, req, size_, covered, appending>>
  BY DEF ReadBlock, fileVars
<1>2. ReadInv
  BY <1>1 DEF IInv, CallInv
<1>3. ReadInv'
  BY <1>1, <1>2 DEF ReadInv
<1>4. status' \in {"running", "OK", "kReadData"}
  BY DEF ReadBlock, Advance
<1> QED
  BY <1>1, <1>3, <1>4 DEF SizeInv, SizeCoversFile, AppendedSizeIsExact, CallInv

\* A block that is written ends where the counters say; after one that fails
\* nothing is known of the length, and the write returns with kWriteData.
LEMMA WriteBlockSize ==
  ASSUME IInv, WriteBlock, UNCHANGED fileVars
  PROVE  SizeInv'
<1>1. /\ status = "running" /\ req.op = "write"
      /\ UNCHANGED <<req, size_, covered, appending>>
  BY DEF WriteBlock, fileVars
<1>2. WriteInv
  BY <1>1 DEF IInv, CallInv
<1>3. /\ data_pos \in Nat /\ position \in Nat /\ eof \in Nat /\ size_ \in Nat
      /\ req.start \in Nat /\ req.oldEof \in Nat
  BY CapacityAssumption DEF IInv, TypeOK
<1>4. PICK ok \in BOOLEAN, k \in Reach(position, Larger(position, Capacity)) :
        /\ ok => k > 0
        /\ eof' = IF k > 0 THEN Larger(eof, position + k) ELSE eof
        /\ Advance(ok, k, "kWriteData")
  BY DEF WriteBlock, SeekTarget
<1>5. k \in Nat
  BY BlockFits, TransferAssumption DEF Reach, Block, IInv, TypeOK
<1>6. CASE CallFailed(ok, k)
  <2>1. status' = "kWriteData" /\ UNCHANGED <<data_pos, position>>
    BY <1>4, <1>6 DEF Advance
  <2>2. WriteInv'
    BY <1>1, <1>2, <2>1 DEF WriteInv
  <2> QED
    BY <1>1, <2>1, <2>2 DEF SizeInv, SizeCoversFile, AppendedSizeIsExact, CallInv
<1>7. CASE ~CallFailed(ok, k)
  <2>1. /\ data_pos' = data_pos + k /\ position' = position + k
        /\ status' \in {"running", "OK"}
    BY <1>4, <1>7 DEF Advance
  <2>2. k > 0 /\ eof' = Larger(eof, position + k)
    BY <1>4, <1>7 DEF CallFailed
  <2>3. position' = req'.start + data_pos'
    BY <1>1, <1>2, <1>3, <1>5, <2>1 DEF WriteInv
  <2>4. covered' => /\ req'.start <= size_' /\ req'.oldEof <= size_'
                    /\ eof' <= Larger(req'.oldEof, req'.start + data_pos')
    BY <1>1, <1>2, <1>3, <1>5, <2>1, <2>2 DEF WriteInv, Larger
  <2>5. appending' => req'.start = size_' /\ eof' = size_' + data_pos'
    BY <1>1, <1>2, <1>3, <1>5, <2>1, <2>2 DEF WriteInv, Larger
  <2>6. WriteInv'
    BY <2>1, <2>3, <2>4, <2>5 DEF WriteInv
  <2> QED
    BY <1>1, <2>1, <2>6 DEF SizeInv, SizeCoversFile, AppendedSizeIsExact, CallInv
<1> QED
  BY <1>6, <1>7

LEMMA ReturnSize ==
  ASSUME IInv, Return
  PROVE  SizeInv'
<1>1. status \in Results /\ status # "idle" /\ status' = "idle" /\ UNCHANGED eof
  BY DEF Return, ReturnRead, ReturnWrite, EndTransfer, Results
<1>2. CASE ReturnRead
  <2>1. ReadInv
    BY <1>1, <1>2 DEF IInv, CallInv, ReturnRead
  <2>2. UNCHANGED <<eof, size_, covered, appending>>
    BY <1>1, <1>2 DEF ReturnRead
  <2> QED
    BY <1>1, <2>1, <2>2 DEF SizeInv, SizeCoversFile, AppendedSizeIsExact, CallInv, ReadInv
<1>3. CASE ReturnWrite
  <2>1. WriteInv
    BY <1>1, <1>3 DEF IInv, CallInv, ReturnWrite
  <2>2. /\ data_pos \in Nat /\ eof \in Nat /\ size_ \in Nat
        /\ req.start \in Nat /\ req.oldEof \in Nat
    BY CapacityAssumption DEF IInv, TypeOK
  <2>3. (covered' => covered /\ status # "kWriteData")
        /\ (appending' => appending /\ status # "kWriteData")
    BY <1>3 DEF ReturnWrite
  <2>4. CASE status = "OK"
    <3>1. size_' = size_ + data_pos
      BY <1>3, <2>4 DEF ReturnWrite, SizeAfterWrite
    <3>2. covered' => eof' <= size_'
      BY <1>1, <2>1, <2>2, <2>3, <3>1 DEF WriteInv, Larger
    <3>3. appending' => size_' = eof'
      BY <1>1, <2>1, <2>2, <2>3, <3>1 DEF WriteInv
    <3> QED
      BY <1>1, <3>2, <3>3 DEF SizeInv, SizeCoversFile, AppendedSizeIsExact, CallInv
  <2>5. CASE status = "kWrongParam"
    <3>1. size_' = size_
      BY <1>3, <2>5, Zenon DEF ReturnWrite
    <3>2. covered' => eof' <= size_'
      BY <1>1, <2>1, <2>2, <2>3, <2>5, <3>1 DEF WriteInv, Larger
    <3>3. appending' => size_' = eof'
      BY <1>1, <2>1, <2>2, <2>3, <2>5, <3>1 DEF WriteInv
    <3> QED
      BY <1>1, <3>2, <3>3 DEF SizeInv, SizeCoversFile, AppendedSizeIsExact, CallInv
  <2>6. CASE status = "kWriteData"
    BY <1>1, <2>3, <2>6 DEF SizeInv, SizeCoversFile, AppendedSizeIsExact, CallInv
  <2> QED
    BY <1>1, <2>1, <2>4, <2>5, <2>6 DEF Results, WriteInv
<1> QED
  BY <1>2, <1>3 DEF Return

LEMMA NextIInv == IInv /\ [Next]_vars => IInv'
<1> SUFFICES ASSUME IInv, [Next]_vars PROVE IInv'
  OBVIOUS
<1>1. TypeOK'
  BY NextTypeOK DEF IInv
<1>2. SizeInv'
  <2>1. CASE Next
    BY <2>1, ControlSize, BeginSize, ReadBlockSize, WriteBlockSize, ReturnSize
       DEF Next, Transfer
  <2>2. CASE UNCHANGED vars
    BY <2>2 DEF vars, engineVars, fileVars, IInv, SizeInv, SizeCoversFile,
                AppendedSizeIsExact, CallInv, ReadInv, WriteInv
  <2> QED
    BY <2>1, <2>2
<1> QED
  BY <1>1, <1>2 DEF IInv, SizeInv

LEMMA Inductive == Spec => []IInv
<1>1. Init => IInv
  BY InitTypeOK, InitCall DEF IInv
<1>2. IInv /\ [Next]_vars => IInv'
  BY NextIInv
<1> QED
  BY <1>1, <1>2, PTL DEF Spec

\* For every volume, transfer size and pattern of failures: between two calls
\* the file is never longer than File::Size(), so appending at Size() overlaps
\* nothing, as long as no write started beyond Size() and none failed.
THEOREM SizeCoversFileAlways == Spec => []SizeCoversFile
<1>1. IInv => SizeCoversFile
  BY DEF IInv
<1> QED
  BY <1>1, Inductive, PTL

\* And when every write started at Size(), Size() is exactly the length.
THEOREM AppendedSizeIsExactAlways == Spec => []AppendedSizeIsExact
<1>1. IInv => AppendedSizeIsExact
  BY DEF IInv
<1> QED
  BY <1>1, Inductive, PTL

-----------------------------------------------------------------------------
(* File implements IODevice: every step of FileDevice is a step of Device  *)
(* or invisible, for all constants.                                        *)
(*                                                                         *)
(* A call begins and runs behind the mapping and becomes visible when it   *)
(* returns, so the proof needs the whole effect of the call so far: what   *)
(* the buffer of a read holds (Delivered), and which prefix of its bytes a *)
(* write has put on the medium (Stored), of which the engine may know less *)
(* than there is when an OS call failed.                                   *)


HolesAreZero == \A a \in Addr : a >= eof => data[a] = Zero

\* The counters of a transfer and its outcome.
Progress ==
  /\ req.op \in {"read", "write"}
  /\ req.size \in Sizes
  /\ position = req.start + data_pos
  /\ data_pos <= req.size
  /\ status = "OK"  => req.size > 0 /\ data_pos = req.size
  /\ status # "OK"  => req.size = 0 \/ data_pos < req.size
  /\ status = "running" => req.size > 0

Delivered ==
  /\ data = req.oldData /\ eof = req.oldEof
  /\ data_pos > 0 => req.start + data_pos <= eof
  /\ \A i \in 0 .. data_pos - 1 : buffer[i] = data[req.start + i]

Stored(k) ==
  /\ data_pos <= k
  /\ data = Splice(req.oldData, req.start, buffer, k)
  /\ eof = IF k > 0 /\ req.start + k > req.oldEof THEN req.start + k ELSE req.oldEof
  /\ status # "kWriteData" => k = data_pos

DataInv ==
  /\ HolesAreZero
  /\ status # "idle" =>
       /\ Progress
       /\ req.op = "read" => Delivered
       /\ req.op = "write" => \E k \in 0 .. req.size : Stored(k)
-----------------------------------------------------------------------------
(* DataInv is an invariant                                                 *)

LEMMA InitData == Init => DataInv
BY DEF Init, Files, DataInv, HolesAreZero

\* A control operation leaves zeros behind the end of the file.
LEMMA ControlData ==
  ASSUME TypeOK, DataInv,
         \/ \E mode \in Modes : Open(mode)
         \/ Close
         \/ \E p \in Offsets : setPosition(p) \/ setSize(p)
         \/ setFileName
  PROVE  DataInv'
<1>1. status' = "idle"
  BY DEF Open, OpenSucceeds, OpenFails, Close, EngineClose, setPosition, EngineSetPosition,
         setSize, EngineSetFileSize, setFileName
<1>2. HolesAreZero'
  <2>1. ASSUME UNCHANGED <<data, eof>> PROVE HolesAreZero'
    BY <2>1 DEF DataInv, HolesAreZero
  <2>2. ASSUME NEW n \in Int, eof' = n,
               data' = [a \in Addr |-> IF a < n THEN data[a] ELSE Zero]
        PROVE  HolesAreZero'
    BY <2>2, CapacityAssumption DEF HolesAreZero, Addr
  <2>3. ASSUME NEW mode \in Modes, Open(mode) PROVE HolesAreZero'
    <3>1. CASE data' = [a \in Addr |-> Zero]
      BY <3>1 DEF HolesAreZero
    <3>2. CASE UNCHANGED <<data, eof>>
      BY <3>2, <2>1
    <3> QED
      BY <2>3, <3>1, <3>2 DEF Open, OpenSucceeds, OpenFails
  <2>4. CASE Close
    BY <2>4, <2>1 DEF Close, EngineClose
  <2>5. ASSUME NEW p \in Offsets, setPosition(p) PROVE HolesAreZero'
    BY <2>5, <2>1 DEF setPosition, EngineSetPosition
  <2>6. ASSUME NEW p \in Offsets, setSize(p) PROVE HolesAreZero'
    <3>1. p \in Int
      BY OffsetsAssumption
    <3>2. CASE CanResize(p)
      BY <2>6, <3>1, <3>2, <2>2 DEF setSize, EngineSetFileSize
    <3>3. CASE ~CanResize(p)
      BY <2>6, <3>3, <2>1 DEF setSize, EngineSetFileSize
    <3> QED
      BY <3>2, <3>3
  <2>7. CASE setFileName
    BY <2>7 DEF setFileName, Files, HolesAreZero
  <2> QED
    BY <2>3, <2>4, <2>5, <2>6, <2>7
<1> QED
  BY <1>1, <1>2 DEF DataInv

LEMMA SpliceNothing ==
  ASSUME NEW old \in [Addr -> Byte], NEW s \in Nat, NEW b
  PROVE  Splice(old, s, b, 0) = old
BY CapacityAssumption DEF Splice, Addr

LEMMA BeginData ==
  ASSUME TypeOK, DataInv, NEW op \in {"read", "write"}, NEW n \in Sizes,
         NEW b \in [0 .. n - 1 -> Byte], BeginTransfer(op, n, b)
  PROVE  DataInv'
<1>1. n \in Nat /\ position \in Nat /\ eof \in Nat
  BY SizesAssumption, CapacityAssumption DEF TypeOK
<1>2. /\ req' = [op |-> op, start |-> position, size |-> n, oldData |-> data, oldEof |-> eof]
      /\ data_pos' = 0 /\ buffer' = b
      /\ status' = IF ParamsValid(n) THEN "running" ELSE "kWrongParam"
      /\ UNCHANGED <<data, eof, position>>
  BY DEF BeginTransfer
<1>3. HolesAreZero'
  BY <1>2 DEF DataInv, HolesAreZero
<1>4. Progress'
  BY <1>1, <1>2 DEF Progress, ParamsValid
<1>5. Delivered'
  BY <1>1, <1>2 DEF Delivered
<1>6. Stored(0)'
  <2>1. Splice(data, position, b, 0) = data
    BY <1>1, SpliceNothing DEF TypeOK
  <2> QED
    BY <1>1, <1>2, <2>1 DEF Stored
<1>7. 0 \in 0 .. req'.size
  BY <1>1, <1>2
<1> QED
  BY <1>3, <1>4, <1>5, <1>6, <1>7 DEF DataInv

\* The counters after an iteration in which the OS moved k bytes.
LEMMA AdvanceProgress ==
  ASSUME TypeOK, Progress, status = "running", UNCHANGED req,
         NEW ok \in BOOLEAN, NEW k \in Nat, k > 0 => data_pos + k <= req.size,
         NEW error \in {"kReadData", "kWriteData"}, Advance(ok, k, error)
  PROVE  /\ Progress'
         /\ CallFailed(ok, k)  => data_pos' = data_pos /\ status' = error
         /\ ~CallFailed(ok, k) => /\ data_pos' = data_pos + k /\ ok /\ k > 0
                                  /\ status' \in {"running", "OK"}
<1>0. data_pos \in Nat /\ position \in Nat /\ req.size \in Nat /\ req.start \in Nat
  BY DEF TypeOK
<1>1. CASE CallFailed(ok, k)
  <2>1. UNCHANGED <<data_pos, position>> /\ status' = error
    BY <1>1 DEF Advance
  <2> QED
    BY <1>0, <1>1, <2>1 DEF Progress
<1>2. CASE ~CallFailed(ok, k)
  <2>1. /\ data_pos' = data_pos + k /\ position' = position + k
        /\ status' = IF data_pos + k < req.size THEN "running" ELSE "OK"
    BY <1>2 DEF Advance
  <2>2. ok /\ k > 0 /\ data_pos + k <= req.size
    BY <1>2 DEF CallFailed
  <2>3. /\ req.op \in {"read", "write"} /\ req.size \in Sizes /\ req.size > 0
        /\ position = req.start + data_pos
    BY DEF Progress
  <2>4. position' = req.start + data_pos' /\ data_pos' <= req.size
    BY <1>0, <2>1, <2>2, <2>3
  <2>5. CASE data_pos + k < req.size
    BY <1>0, <1>2, <2>1, <2>2, <2>3, <2>4, <2>5 DEF Progress
  <2>6. CASE data_pos + k = req.size
    BY <1>0, <1>2, <2>1, <2>2, <2>3, <2>4, <2>6 DEF Progress
  <2>7. data_pos + k < req.size \/ data_pos + k = req.size
    BY <1>0, <2>2
  <2> QED
    BY <2>5, <2>6, <2>7, Zenon
<1> QED
  BY <1>1, <1>2

LEMMA ReadBlockData ==
  ASSUME TypeOK, DataInv, ReadBlock
  PROVE  DataInv'
<1> PICK ok \in BOOLEAN, k \in Reach(position, Larger(position, eof)) :
      /\ ~ok => k = 0
      /\ buffer' = [i \in 0 .. req.size - 1 |->
                      IF data_pos <= i /\ i < data_pos + k
                      THEN data[position + i - data_pos] ELSE buffer[i]]
      /\ Advance(ok, k, "kReadData")
  BY DEF ReadBlock, SeekTarget
<1>1. /\ status = "running" /\ req.op = "read" /\ UNCHANGED <<data, eof, req>>
  BY DEF ReadBlock
<1>2. Progress /\ Delivered /\ HolesAreZero
  BY <1>1 DEF DataInv
<1>3. /\ data_pos \in Nat /\ position \in Nat /\ eof \in Nat /\ req.size \in Nat
      /\ req.start \in Nat
  BY CapacityAssumption DEF TypeOK
<1>4. Block \in Nat /\ (Block > 0 => data_pos + Block <= req.size)
  BY BlockFits, TransferAssumption, <1>3 DEF Block
<1>5. k \in Nat /\ k <= Block /\ position + k <= Larger(position, eof)
  BY <1>4 DEF Reach
<1>6. k > 0 => data_pos + k <= req.size /\ position + k <= eof
  BY <1>3, <1>4, <1>5 DEF Larger
<1>7. /\ Progress'
      /\ CallFailed(ok, k)  => data_pos' = data_pos
      /\ ~CallFailed(ok, k) => data_pos' = data_pos + k /\ k > 0
  BY <1>1, <1>2, <1>5, <1>6, AdvanceProgress
<1>8. position = req.start + data_pos
  BY <1>2 DEF Progress
<1>9. data_pos' = data_pos + k
  BY <1>3, <1>5, <1>7 DEF CallFailed
<1>10. data_pos' > 0 => req'.start + data_pos' <= eof'
  BY <1>1, <1>2, <1>3, <1>5, <1>6, <1>8, <1>9 DEF Delivered
<1>11. ASSUME NEW i \in 0 .. data_pos' - 1 PROVE buffer'[i] = data'[req'.start + i]
  <2>1. i \in Nat /\ i < data_pos + k /\ i \in 0 .. req.size - 1
    BY <1>2, <1>3, <1>5, <1>6, <1>9 DEF Progress
  <2>2. CASE i < data_pos
    <3>1. i \in 0 .. data_pos - 1
      BY <1>3, <2>1, <2>2
    <3>2. buffer[i] = data[req.start + i]
      BY <1>2, <3>1 DEF Delivered
    <3>3. buffer'[i] = buffer[i]
      BY <1>3, <2>1, <2>2
    <3> QED
      BY <1>1, <3>2, <3>3
  <2>3. CASE data_pos <= i
    <3>1. buffer'[i] = data[position + i - data_pos]
      BY <2>1, <2>3
    <3>2. position + i - data_pos = req.start + i
      BY <1>3, <1>8, <2>1
    <3> QED
      BY <1>1, <3>1, <3>2
  <2> QED
    BY <1>3, <2>1, <2>2, <2>3
<1>12. Delivered'
  BY <1>1, <1>2, <1>10, <1>11 DEF Delivered
<1>13. HolesAreZero'
  BY <1>1, <1>2 DEF HolesAreZero
<1> QED
  BY <1>1, <1>7, <1>12, <1>13 DEF DataInv

LEMMA WriteBlockData ==
  ASSUME TypeOK, DataInv, WriteBlock
  PROVE  DataInv'
<1> PICK ok \in BOOLEAN, k \in Reach(position, Larger(position, Capacity)) :
      /\ data' = Splice(data, position, [i \in 0 .. k - 1 |-> buffer[data_pos + i]], k)
      /\ eof' = IF k > 0 THEN Larger(eof, position + k) ELSE eof
      /\ Advance(ok, k, "kWriteData")
  BY DEF WriteBlock, SeekTarget
<1>1. /\ status = "running" /\ req.op = "write" /\ UNCHANGED <<req, buffer>>
  BY DEF WriteBlock
<1>2. Progress /\ HolesAreZero
  BY <1>1 DEF DataInv
<1>3. /\ data_pos \in Nat /\ position \in Nat /\ eof \in Nat /\ req.size \in Nat
      /\ req.start \in Nat /\ req.oldEof \in Nat /\ req.oldData \in [Addr -> Byte]
  BY CapacityAssumption DEF TypeOK
<1>4. Stored(data_pos)
  BY <1>1 DEF DataInv, Stored
<1>5. Block \in Nat /\ (Block > 0 => data_pos + Block <= req.size)
  BY BlockFits, TransferAssumption, <1>3 DEF Block
<1>6. k \in Nat /\ (k > 0 => data_pos + k <= req.size)
  BY <1>3, <1>5 DEF Reach
<1>7. position = req.start + data_pos /\ data_pos <= req.size
  BY <1>2 DEF Progress
<1>8. /\ Progress'
      /\ CallFailed(ok, k)  => data_pos' = data_pos /\ status' = "kWriteData"
      /\ ~CallFailed(ok, k) => data_pos' = data_pos + k
  BY <1>1, <1>2, <1>6, AdvanceProgress
<1> DEFINE m == data_pos + k
<1>9. data' = Splice(req.oldData, req.start, buffer, m)
  <2>1. data = Splice(req.oldData, req.start, buffer, data_pos)
    BY <1>4 DEF Stored
  <2>2. ASSUME NEW a \in Addr
        PROVE  data'[a] = IF req.start <= a /\ a < req.start + m THEN buffer[a - req.start]
                                                                ELSE req.oldData[a]
    <3>0. a \in Nat
      BY CapacityAssumption DEF Addr
    <3>1. CASE position <= a /\ a < position + k
      <4>1. a - position \in 0 .. k - 1
        BY <1>3, <1>6, <3>0, <3>1
      <4>3. data_pos + (a - position) = a - req.start
        BY <1>3, <1>7, <3>0
      <4>4. req.start <= a /\ a < req.start + m
        BY <1>3, <1>6, <1>7, <3>0, <3>1
      <4>2. data'[a] = buffer[data_pos + (a - position)]
        BY <3>1, <4>1 DEF Splice
      <4> QED
        BY <4>2, <4>3, <4>4
    <3>2. CASE ~(position <= a /\ a < position + k)
      <4>1. data'[a] = data[a]
        BY <3>2 DEF Splice
      <4>2. data[a] = IF req.start <= a /\ a < req.start + data_pos THEN buffer[a - req.start]
                                                                    ELSE req.oldData[a]
        BY <2>1 DEF Splice
      <4>3. (req.start <= a /\ a < req.start + m) <=> (req.start <= a /\ a < req.start + data_pos)
        BY <1>3, <1>6, <1>7, <3>0, <3>2
      <4> QED
        BY <4>1, <4>2, <4>3
    <3> QED
      BY <3>1, <3>2
  <2>3. data' = [a \in Addr |-> data'[a]]
    BY DEF Splice
  <2> HIDE DEF m
  <2> QED
    BY <2>2, <2>3 DEF Splice
<1>10. eof' = IF m > 0 /\ req.start + m > req.oldEof THEN req.start + m ELSE req.oldEof
  <2>1. eof = IF data_pos > 0 /\ req.start + data_pos > req.oldEof
              THEN req.start + data_pos ELSE req.oldEof
    BY <1>4 DEF Stored
  <2>2. CASE k = 0
    BY <1>3, <2>1, <2>2
  <2>3. CASE k > 0
    <3>1. m > 0 /\ req.start + m = position + k /\ req.start + data_pos <= req.start + m
      BY <1>3, <1>6, <1>7, <2>3
    <3>2. eof' = Larger(eof, position + k)
      BY <1>3, <2>3
    <3> HIDE DEF m
    <3> QED
      BY <1>3, <1>6, <2>1, <3>1, <3>2 DEF Larger
  <2> QED
    BY <1>6, <2>2, <2>3
<1>11. ASSUME NEW n \in Nat, n = m PROVE Stored(n)'
  <2>1. data_pos' <= n /\ (status' # "kWriteData" => n = data_pos')
    BY <1>3, <1>6, <1>8, <1>11
  <2>2. data' = Splice(req'.oldData, req'.start, buffer', n)
    BY <1>1, <1>9, <1>11
  <2>3. eof' = IF n > 0 /\ req'.start + n > req'.oldEof THEN req'.start + n ELSE req'.oldEof
    BY <1>1, <1>10, <1>11
  <2> QED
    BY <2>1, <2>2, <2>3 DEF Stored
<1>12. m \in Nat /\ m \in 0 .. req'.size
  BY <1>1, <1>3, <1>6, <1>7
<1>14. \E n \in 0 .. req'.size : Stored(n)'
  BY <1>11, <1>12
<1>13. HolesAreZero'
  <2> SUFFICES ASSUME NEW a \in Addr, a >= eof' PROVE data'[a] = Zero
    BY DEF HolesAreZero
  <2>1. a \in Nat
    BY CapacityAssumption DEF Addr
  <2>2. a >= eof /\ ~(position <= a /\ a < position + k)
    BY <1>3, <1>6, <2>1 DEF Larger
  <2>3. data'[a] = data[a]
    BY <2>2 DEF Splice
  <2> QED
    BY <1>2, <2>2, <2>3 DEF HolesAreZero
<1> QED
  BY <1>1, <1>8, <1>13, <1>14 DEF DataInv

LEMMA NextData == TypeOK /\ DataInv /\ [Next]_vars => DataInv'
<1> SUFFICES ASSUME TypeOK, DataInv, [Next]_vars PROVE DataInv'
  OBVIOUS
<1>1. ASSUME NEW n \in Sizes, ReadData(n) PROVE DataInv'
  <2>1. [i \in 0 .. n - 1 |-> Zero] \in [0 .. n - 1 -> Byte]
    BY ByteAssumption
  <2> QED
    BY <1>1, <2>1, BeginData DEF ReadData
<1>2. ASSUME NEW n \in Sizes, NEW b \in [0 .. n - 1 -> Byte], WriteData(n, b) PROVE DataInv'
  BY <1>2, BeginData DEF WriteData
<1>3. CASE Return
  BY <1>3 DEF Return, ReturnRead, ReturnWrite, EndTransfer, DataInv, HolesAreZero
<1>4. CASE UNCHANGED vars
  BY <1>4 DEF vars, engineVars, fileVars, DataInv, HolesAreZero, Progress, Delivered, Stored
<1> QED
  BY <1>1, <1>2, <1>3, <1>4, ControlData, ReadBlockData, WriteBlockData DEF Next, Transfer

\* Inside a call the buffer of a read holds what the file holds there, and a
\* write has stored a prefix of its bytes -- all it reports, perhaps more --
\* and changed nothing else; behind the end of the file there are zeros.
THEOREM DataIsWhereItBelongs == Spec => [](TypeOK /\ DataInv)
<1>1. Init => TypeOK /\ DataInv
  BY InitTypeOK, InitData
<1>2. TypeOK /\ DataInv /\ [Next]_vars => (TypeOK /\ DataInv)'
  BY NextTypeOK, NextData
<1> QED
  BY <1>1, <1>2, PTL DEF Spec

-----------------------------------------------------------------------------
(* The steps of Device                                                     *)

\* Outside a call the client sees the file itself, inside one what the call found.
LEMMA SeenWhenIdle ==
  /\ status = "idle" => Atomic!vars = <<data, eof, position, reply>>
  /\ status # "idle" => Atomic!vars = <<req.oldData, req.oldEof, req.start, reply>>
BY DEF Atomic!vars

LEMMA SameFiles == Files = Atomic!Files
BY DEF Files, Atomic!Files, Addr, Atomic!Cells

LEMMA InitRefines == Init => Atomic!Init
<1> SUFFICES ASSUME Init PROVE Atomic!Init
  OBVIOUS
<1>1. PICK f \in Files : data = f[1] /\ eof = f[2]
  BY DEF Init
<1>2. <<data, eof>> \in Files
  BY <1>1 DEF Files
<1> QED
  BY <1>2, SameFiles
     DEF Init, Atomic!Init, ControlDone, Answer, Atomic!Answer, NoBuffer, Atomic!Nothing

\* A call that moves no data is a step of the client's Control, a rename one
\* of its Rename.
LEMMA ControlRefines ==
  ASSUME TypeOK, DataInv,
         \/ \E mode \in Modes : Open(mode)
         \/ Close
         \/ \E p \in Offsets : setPosition(p) \/ setSize(p)
  PROVE  Atomic!Control
<1>1. /\ status = "idle" /\ status' = "idle"
      /\ reply' = ControlDone \/ reply' = ControlThrown
  BY DEF Open, OpenSucceeds, OpenFails, Close, EngineClose, setPosition, EngineSetPosition,
         setSize, EngineSetFileSize
<1>2. TypeOK'
  BY ControlType
<1>3. data' = [a \in Addr |-> IF a < eof' THEN data[a] ELSE Zero]
  <2>1. ASSUME UNCHANGED <<data, eof>>
        PROVE  data' = [a \in Addr |-> IF a < eof' THEN data[a] ELSE Zero]
    <3>1. ASSUME NEW a \in Addr PROVE data[a] = IF a < eof THEN data[a] ELSE Zero
      BY CapacityAssumption DEF DataInv, HolesAreZero, TypeOK, Addr
    <3>2. data = [a \in Addr |-> data[a]]
      BY DEF TypeOK
    <3> QED
      BY <2>1, <3>1, <3>2
  <2>2. ASSUME NEW mode \in Modes, Open(mode)
        PROVE  data' = [a \in Addr |-> IF a < eof' THEN data[a] ELSE Zero]
    <3>1. CASE data' = [a \in Addr |-> Zero] /\ eof' = 0
      BY <3>1, CapacityAssumption DEF Addr
    <3> QED
      BY <2>1, <2>2, <3>1 DEF Open, OpenSucceeds, OpenFails
  <2>3. CASE Close
    BY <2>1, <2>3 DEF Close, EngineClose
  <2>4. ASSUME NEW p \in Offsets, setPosition(p) \/ setSize(p)
        PROVE  data' = [a \in Addr |-> IF a < eof' THEN data[a] ELSE Zero]
    <3>1. CASE UNCHANGED <<data, eof>>
      BY <2>1, <3>1
    <3>2. CASE eof' = p /\ data' = [a \in Addr |-> IF a < p THEN data[a] ELSE Zero]
      BY <3>2
    <3> QED
      BY <2>4, <3>1, <3>2 DEF setPosition, EngineSetPosition, setSize, EngineSetFileSize
  <2> QED
    BY <2>2, <2>3, <2>4
<1>4. eof' \in 0 .. Capacity /\ position' \in Nat
  BY <1>2 DEF TypeOK
<1>5. \E ok \in BOOLEAN : reply' = Atomic!Answer("control", ok, Atomic!Nothing)
  BY <1>1 DEF ControlDone, ControlThrown, Answer, Atomic!Answer, NoBuffer, Atomic!Nothing
<1> QED
  BY <1>1, <1>3, <1>4, <1>5 DEF Atomic!Control, Atomic!Cells, Addr

LEMMA RenameRefines ==
  ASSUME setFileName
  PROVE  Atomic!Rename
<1>1. PICK f \in Files : data' = f[1] /\ eof' = f[2]
  BY DEF setFileName
<1>2. <<data', eof'>> \in Files
  BY <1>1 DEF Files
<1>3. status = "idle" /\ status' = "idle" /\ position' = position
      /\ reply' = Answer("rename", TRUE, NoBuffer)
  BY DEF setFileName
<1> QED
  BY <1>2, <1>3, SameFiles DEF Atomic!Rename, Answer, Atomic!Answer, NoBuffer, Atomic!Nothing

\* A call is invisible until it returns.
LEMMA BeginRefines ==
  ASSUME NEW n \in Sizes, ReadData(n) \/ \E b \in [0 .. n - 1 -> Byte] : WriteData(n, b)
  PROVE  UNCHANGED Atomic!vars
<1>1. /\ status = "idle" /\ status' # "idle" /\ reply' = reply
      /\ req'.start = position /\ req'.oldData = data /\ req'.oldEof = eof
  BY DEF ReadData, WriteData, BeginTransfer, fileVars
<1> QED
  BY <1>1 DEF Atomic!vars

LEMMA TransferRefines ==
  ASSUME Transfer, UNCHANGED fileVars
  PROVE  UNCHANGED Atomic!vars
<1>1. status # "idle" /\ UNCHANGED <<req, reply>>
  BY DEF Transfer, ReadBlock, WriteBlock, fileVars
<1>2. status' # "idle"
  BY DEF Transfer, ReadBlock, WriteBlock, Advance
<1> QED
  BY <1>1, <1>2 DEF Atomic!vars

LEMMA ReadRefines ==
  ASSUME TypeOK, DataInv, ReturnRead
  PROVE  req.size \in Sizes /\ Atomic!Read(req.size)
<1>1. /\ status # "idle" /\ status' = "idle"
      /\ UNCHANGED <<data, eof, position>>
      /\ req.op = "read"
  BY DEF ReturnRead, EndTransfer, Results
<1>2. Progress /\ Delivered
  BY <1>1 DEF DataInv
<1>3. data_pos \in Nat /\ req.start \in Nat /\ req.size \in Nat /\ eof \in Int
  BY CapacityAssumption DEF TypeOK
<1>4. CASE status = "OK"
  <2>1. req.size > 0 /\ data_pos = req.size /\ position = req.start + req.size
    BY <1>2, <1>4 DEF Progress
  <2>2. req.start + req.size <= req.oldEof
    BY <1>2, <2>1 DEF Delivered
  <2>3. buffer = [i \in 0 .. req.size - 1 |-> req.oldData[req.start + i]]
    BY <1>2, <2>1 DEF Delivered, TypeOK
  <2>4. reply' = Answer("read", TRUE, buffer)
    BY <1>4 DEF ReturnRead
  <2> QED
    BY <1>1, <1>2, <2>1, <2>2, <2>3, <2>4
       DEF Atomic!Read, Answer, Atomic!Answer, Delivered, Progress
<1>5. CASE status # "OK"
  <2>1. position = req.start + data_pos /\ data_pos \in 0 .. req.size
        /\ (req.size > 0 => data_pos < req.size)
    BY <1>2, <1>3, <1>5 DEF Progress
  <2>2. reply' = Answer("read", FALSE, NoBuffer)
    BY <1>5 DEF ReturnRead
  <2> QED
    BY <1>1, <1>2, <2>1, <2>2
       DEF Atomic!Read, Answer, Atomic!Answer, NoBuffer, Atomic!Nothing, Delivered, Progress
<1> QED
  BY <1>4, <1>5

LEMMA WriteRefines ==
  ASSUME TypeOK, DataInv, ReturnWrite
  PROVE  /\ req.size \in Sizes
         /\ buffer \in [0 .. req.size - 1 -> Byte]
         /\ Atomic!Write(buffer, req.size)
<1>1. /\ status # "idle" /\ status' = "idle"
      /\ UNCHANGED <<data, eof, position>>
      /\ req.op = "write"
  BY DEF ReturnWrite, EndTransfer, Results
<1>2. Progress
  BY <1>1 DEF DataInv
<1>3. PICK k \in 0 .. req.size : Stored(k)
  BY <1>1 DEF DataInv
<1>4. data_pos \in Nat /\ req.start \in Nat /\ req.size \in Nat
  BY DEF TypeOK
<1>5. data_pos \in 0 .. req.size /\ data_pos <= k
  BY <1>2, <1>3, <1>4 DEF Progress, Stored
<1>6. data = [a \in Addr |-> IF req.start <= a /\ a < req.start + k THEN buffer[a - req.start]
                                                                 ELSE req.oldData[a]]
  BY <1>3 DEF Stored, Splice
<1>7. eof = IF k > 0 /\ req.start + k > req.oldEof THEN req.start + k ELSE req.oldEof
  BY <1>3 DEF Stored
<1>8. (status = "OK") <=> (req.size > 0 /\ data_pos = req.size)
  BY <1>2, <1>4 DEF Progress
<1>9. reply' = Answer("write", req.size > 0 /\ data_pos = req.size, NoBuffer)
  <2>1. reply' = Answer("write", status = "OK", NoBuffer)
    BY DEF ReturnWrite
  <2>2. (status = "OK") = (req.size > 0 /\ data_pos = req.size)
    BY <1>8, Zenon
  <2> QED
    BY <2>1, <2>2, Zenon
<1>10. position' = req.start + data_pos
  BY <1>1, <1>2 DEF Progress
<1>11. Atomic!Write(buffer, req.size)
  <2>1. data' = Atomic!Overwritten(buffer, k) /\ eof' = Atomic!Grown(k)
    BY <1>1, <1>6, <1>7 DEF Atomic!Overwritten, Atomic!Grown, Atomic!Cells, Addr
  <2>2. reply' = Atomic!Answer("write", req.size > 0 /\ data_pos = req.size, Atomic!Nothing)
    BY <1>9, Zenon DEF Answer, Atomic!Answer, NoBuffer, Atomic!Nothing
  <2> QED
    BY <1>1, <1>3, <1>5, <1>10, <2>1, <2>2, Zenon DEF Atomic!Write
<1> QED
  BY <1>2, <1>11 DEF Progress, TypeOK

LEMMA NextRefines ==
  ASSUME TypeOK, DataInv, [Next]_vars
  PROVE  [Atomic!Next]_(Atomic!vars)
<1>1. CASE \/ \E mode \in Modes : Open(mode)
           \/ Close
           \/ \E p \in Offsets : setPosition(p) \/ setSize(p)
  BY <1>1, ControlRefines DEF Atomic!Next
<1>2. CASE setFileName
  BY <1>2, RenameRefines DEF Atomic!Next
<1>3. CASE \E n \in Sizes : ReadData(n) \/ \E b \in [0 .. n - 1 -> Byte] : WriteData(n, b)
  BY <1>3, BeginRefines
<1>4. CASE Transfer /\ UNCHANGED fileVars
  BY <1>4, TransferRefines
<1>5. CASE Return
  BY <1>5, ReadRefines, WriteRefines, Zenon DEF Return, Atomic!Next
<1>6. CASE UNCHANGED vars
  BY <1>6 DEF vars, engineVars, fileVars, Atomic!vars
<1> QED
  BY <1>1, <1>2, <1>3, <1>4, <1>5, <1>6 DEF Next

\* IO::File keeps the promise of IODevice for every volume, request and
\* pattern of short transfers and failures: a call that returns did all of
\* its work at one moment, a call that throws did a prefix of it.
THEOREM FileImplementsDevice == Spec => ImplementsDevice
<1>1. Init => Atomic!Init
  BY InitRefines
<1>2. TypeOK /\ DataInv /\ [Next]_vars => [Atomic!Next]_(Atomic!vars)
  BY NextRefines
<1> QED
  BY <1>1, <1>2, DataIsWhereItBelongs, PTL DEF Spec, ImplementsDevice, Atomic!Spec

=============================================================================
