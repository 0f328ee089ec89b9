----------------------------- MODULE DiskDevice -----------------------------
(***************************************************************************)
(* libio: class IO::DiskDevice, an IODevice over an IOEngine whose handle  *)
(* is a physical drive.  The drive moves whole sectors only, so a read     *)
(* that is not aligned is rounded: the position goes back to the start of  *)
(* its sector, whole sectors are read into a block of their own, and the   *)
(* bytes asked for are copied out of it.  Writes are not rounded.          *)
(*                                                                         *)
(* `data' is the content of the drive and Capacity its size: eof never     *)
(* moves.                                                                  *)
(***************************************************************************)
EXTENDS IOEngine

CONSTANTS
  SectorSize,  \* physical_drive_->getBytesPerSector()
  Offsets,     \* arguments of setPosition
  Sizes,       \* lengths of the transfers asked for
  Disks,       \* contents of the drive
  BadSets      \* sets of addresses the drive has lost

ASSUME SectorAssumption ==
  /\ SectorSize \in Nat \ {0}
  /\ Capacity % SectorSize = 0
  /\ TransferSize % SectorSize = 0
ASSUME InputAssumption ==
  /\ Offsets \subseteq Nat
  /\ Sizes \subseteq Nat
  /\ Disks \subseteq [Addr -> Byte]
  /\ BadSets \subseteq SUBSET Addr

VARIABLES
  call,   \* arguments of the running call, and where the device was
  reply   \* the last call and how it ended; cleared when the next begins

vars == <<engineVars, call, reply>>

NoCall == [op |-> "none", at |-> 0, size |-> 0]
NoReply == [call |-> NoCall, ok |-> TRUE, bytes |-> NoBuffer]
Answer(ok, b) == [call |-> call, ok |-> ok, bytes |-> b]

isMultiple(n, m) == n % m = 0

\* The drive belongs to the disk reading tools alone: nobody else writes it.
Init ==
  /\ data \in Disks
  /\ eof = Capacity
  /\ bad \in BadSets
  /\ hDevice = "invalid"
  /\ bOpen = FALSE
  /\ filePtr = 0
  /\ position = 0
  /\ req = NoReq
  /\ buffer = NoBuffer
  /\ data_pos = 0
  /\ status = "idle"
  /\ call = NoCall
  /\ reply = NoReply

Quiet == status = "idle" /\ call = NoCall

\* OpenPhysicalDrive gives read and write access whatever mode is asked for.
Open ==
  /\ Quiet
  /\ OpenSucceeds("OpenWrite") \/ OpenFails
  /\ reply' = NoReply
  /\ UNCHANGED call

Close ==
  /\ Quiet
  /\ EngineClose
  /\ reply' = NoReply
  /\ UNCHANGED call

setPosition(p) ==
  /\ Quiet
  /\ EngineSetPosition(p)
  /\ reply' = NoReply
  /\ UNCHANGED call

-----------------------------------------------------------------------------
(* ReadData, WriteData                                                     *)

Aligned(p, n) == isMultiple(p, SectorSize) /\ isMultiple(n, SectorSize)

\* The sectors an unaligned read covers: one more than it needs when it ends
\* where a sector does.
sector_to_read(p, n) == ((p % SectorSize) + n) \div SectorSize + 1
align_offset(p) == (p \div SectorSize) * SectorSize

Temp(n) == [i \in 0 .. n - 1 |-> Zero]

ReadData(n) ==
  /\ Quiet
  /\ call' = [op |-> "read", at |-> position, size |-> n]
  /\ IF Aligned(position, n)
     THEN BeginTransfer("read", n, Temp(n))
     ELSE EngineSetPosition(align_offset(position))
  /\ reply' = NoReply

\* ReadDataNotAligned goes on: ReadBlock into temp_data.
ReadDataNotAligned ==
  /\ call.op = "read" /\ ~Aligned(call.at, call.size)
  /\ req = NoReq
  /\ LET n == sector_to_read(call.at, call.size) * SectorSize
     IN BeginTransfer("read", n, Temp(n))
  /\ UNCHANGED <<call, reply>>

WriteData(n, b) ==
  /\ Quiet
  /\ call' = [op |-> "write", at |-> position, size |-> n]
  /\ BeginTransfer("write", n, b)
  /\ reply' = NoReply

\* The OS on a drive: whole sectors at the start of a sector, or an error.
\* It may also refuse a block that ends beyond the drive.
Accepted == isMultiple(position, SectorSize) /\ isMultiple(Block, SectorSize)
Refused ==
  /\ status = "running"
  /\ ~Accepted \/ position + Block > Capacity
  /\ Advance(FALSE, 0, IF req.op = "read" THEN "kReadData" ELSE "kWriteData")
  /\ UNCHANGED <<data, eof, bad, hDevice, bOpen, filePtr, req, buffer>>

DriveTransfer ==
  /\ \/ Accepted /\ Transfer /\ isMultiple(data_pos', SectorSize)
     \/ Refused
  /\ UNCHANGED <<call, reply>>

\* The bytes asked for are copied out of temp_data, from data_start on.
FromTheStart(at) == 0
data_start(at) == at % SectorSize
CopiedOut(at, n) == [i \in 0 .. n - 1 |-> buffer[data_start(at) + i]]

ReturnRead ==
  /\ call.op = "read"
  /\ EndTransfer
  /\ reply' = IF status # "OK" THEN Answer(FALSE, NoBuffer)
              ELSE Answer(TRUE, CopiedOut(call.at, call.size))
  /\ call' = NoCall

ReturnWrite ==
  /\ call.op = "write"
  /\ EndTransfer
  /\ reply' = Answer(status = "OK", buffer)
  /\ call' = NoCall

Next ==
  \/ Open \/ Close
  \/ \E p \in Offsets : setPosition(p)
  \/ \E n \in Sizes : ReadData(n) \/ \E b \in [0 .. n - 1 -> {Zero}] : WriteData(n, b)
  \/ ReadDataNotAligned
  \/ DriveTransfer
  \/ ReturnRead \/ ReturnWrite

Spec == Init /\ [][Next]_vars

-----------------------------------------------------------------------------
(* Properties                                                              *)

Covered(from, to) == {a \in Addr : from <= a /\ a < to}

\* Types of the device's state; a drive neither grows nor shrinks.
TypeOK ==
  /\ data \in [Addr -> Byte]
  /\ eof = Capacity
  /\ hDevice \in {"invalid"} \cup Access
  /\ {filePtr, position, data_pos} \subseteq Nat
  /\ buffer \in [0 .. req.size - 1 -> Byte]
  /\ status \in {"idle", "running"} \cup Results
  /\ call \in [op : {"none", "read", "write"}, at : Nat, size : Nat]
  /\ reply.ok => reply.bytes \in [0 .. reply.call.size - 1 -> Byte]

\* A read that returns has delivered the bytes of the drive at the position
\* where the device was, however they lie across sectors, blocks and short
\* transfers, and has left the position behind them: exactly there if it was
\* aligned, else at the next sector boundary after them.
DeliversWhatWasAsked ==
  reply.ok /\ reply.call.op = "read" /\ Quiet =>
    LET end == reply.call.at + reply.call.size
    IN /\ \A i \in 0 .. reply.call.size - 1 : reply.bytes[i] = data[reply.call.at + i]
       /\ position = IF Aligned(reply.call.at, reply.call.size) THEN end
                     ELSE align_offset(end) + SectorSize

\* No read reaches the drive unaligned, in its first block or a later one:
\* what ReadData does not round is whole sectors already.
ReadsWholeSectors == status = "running" /\ req.op = "read" => Accepted

\* A read inside an open drive, of some bytes by an engine that has a transfer
\* size, fails only on a lost byte among those the drive is asked for, which for
\* an unaligned read are the sectors it touches and sometimes the next, or when
\* it is unaligned and ends with the drive: the sector it is rounded up to is
\* not there (diskdevice.cpp:86).
ServedInsideDrive ==
  LET at    == reply.call.at
      end   == at + reply.call.size
      asked == IF Aligned(at, reply.call.size) THEN Covered(at, end)
               ELSE Covered(align_offset(at), align_offset(end) + SectorSize)
  IN ~reply.ok /\ reply.call.op = "read" /\ hDevice # "invalid"
       /\ ParamsValid(reply.call.size) /\ end <= Capacity
       => \/ asked \cap bad # {}
          \/ ~Aligned(at, reply.call.size) /\ end = Capacity

\* A write that returns has put all its bytes in whole sectors at its position;
\* one that is not aligned never does, because WriteData does not round.
WrittenOrRefused ==
  reply.call.op = "write" /\ reply.ok =>
    /\ Aligned(reply.call.at, reply.call.size)
    /\ \A i \in 0 .. reply.call.size - 1 : data[reply.call.at + i] = reply.bytes[i]

\* A read is right in every respect: its bytes, the place it leaves the device
\* at, what it asks of the drive, and when it is refused (DiskDevice::ReadData).
ReadsAreRight == TypeOK /\ DeliversWhatWasAsked /\ ReadsWholeSectors /\ ServedInsideDrive
=============================================================================
