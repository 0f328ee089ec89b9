-------------------------- MODULE DiskDeviceProofs --------------------------
(***************************************************************************)
(* Proofs about DiskDevice, for every drive, sector size and transfer      *)
(* size: what a read delivers, where it leaves the device, what it asks of *)
(* the drive and when it is refused; and what a write that returns has put *)
(* on the drive.                                                           *)
(*                                                                         *)
(* The invariant follows a call: at rest, between the rounding of the      *)
(* position and the read of whole sectors, or while the engine moves       *)
(* blocks.  What was moved so far is on both sides the same, and a read    *)
(* that has failed has a reason.                                           *)
(***************************************************************************)
EXTENDS DiskDevice, TLAPS

\* What the drive is asked for in a read: whole sectors.
From(c)   == IF Aligned(c.at, c.size) THEN c.at ELSE align_offset(c.at)
Length(c) == IF Aligned(c.at, c.size) THEN c.size
             ELSE sector_to_read(c.at, c.size) * SectorSize

AtRest ==
  call = NoCall /\ status = "idle" /\ req = NoReq /\ buffer = NoBuffer /\ data_pos = 0

Rounded ==
  /\ call.op = "read" /\ ~Aligned(call.at, call.size) /\ position = align_offset(call.at)
  /\ status = "idle" /\ req = NoReq /\ buffer = NoBuffer /\ data_pos = 0
  /\ reply = NoReply

\* The first data_pos bytes of the request are moved, and lie on the drive.
Progress ==
  /\ status \in {"running"} \cup Results
  /\ req.start \in Nat /\ req.size \in Nat
  /\ data_pos <= req.size /\ position = req.start + data_pos
  /\ isMultiple(data_pos, SectorSize)
  /\ data_pos > 0 => position <= Capacity
  /\ \A i \in 0 .. data_pos - 1 : buffer[i] = data[req.start + i]
  /\ status = "running" => data_pos < req.size /\ TransferSize > 0
  /\ status = "OK" => data_pos = req.size /\ data_pos > 0

\* Why a read fails.
Excused ==
  \/ hDevice = "invalid"
  \/ ~ParamsValid(req.size)
  \/ \E a \in bad : req.start <= a /\ a < req.start + req.size
  \/ req.start + req.size > Capacity

Reading ==
  /\ call.op = "read" /\ req.op = "read" /\ reply = NoReply
  /\ req.start = From(call) /\ req.size = Length(call)
  /\ Progress
  /\ status \notin {"running", "OK"} => Excused

Writing ==
  /\ call.op = "write" /\ req.op = "write" /\ reply = NoReply
  /\ req.start = call.at /\ req.size = call.size
  /\ Progress
  /\ data_pos > 0 => isMultiple(req.start, SectorSize)

IInv ==
  /\ TypeOK /\ bad \in SUBSET Addr
  /\ AtRest \/ Rounded \/ Reading \/ Writing
  /\ DeliversWhatWasAsked /\ ServedInsideDrive /\ WrittenOrRefused

-----------------------------------------------------------------------------
(* Arithmetic                                                              *)

\* What the quotient and the remainder of natural numbers are.
LEMMA Division ==
  ASSUME NEW a \in Nat, NEW b \in Nat \ {0}
  PROVE  a \div b \in Nat /\ a % b \in 0 .. b - 1 /\ a = b * (a \div b) + (a % b)
OBVIOUS

\* The smaller of two multiples of b is at least b less.
LEMMA OneLess ==
  ASSUME NEW m \in Int, NEW n \in Int, NEW b \in Nat \ {0}, m < n
  PROVE  m * b + b <= n * b
OBVIOUS

\* A number written as a multiple of b and a rest has them as its quotient
\* and remainder.
LEMMA Quotient ==
  ASSUME NEW b \in Nat \ {0}, NEW q \in Nat, NEW j \in 0 .. b - 1
  PROVE  (q * b + j) \div b = q /\ (q * b + j) % b = j
<1> DEFINE a == q * b + j
           d == a \div b
           m == a % b
<1>1. a \in Nat
  OBVIOUS
<1>2. d \in Nat /\ m \in 0 .. b - 1 /\ a = b * d + m
  BY <1>1, Division
<1>3. d * b = b * d
  BY <1>2
<1>4. a = q * b + j
  OBVIOUS
<1> HIDE DEF a, d, m
<1>5. CASE d < q
  BY <1>2, <1>3, <1>4, <1>5, OneLess
<1>6. CASE q < d
  BY <1>2, <1>3, <1>4, <1>6, OneLess
<1> QED
  BY <1>2, <1>3, <1>4, <1>5, <1>6 DEF a, d, m

\* A number without remainder is a multiple.
LEMMA Multiple ==
  ASSUME NEW a \in Nat, NEW b \in Nat \ {0}
  PROVE  /\ a % b = 0 => a \div b \in Nat /\ a = (a \div b) * b
         /\ \A q \in Nat : a = q * b => a % b = 0
<1>1. ASSUME a % b = 0 PROVE a \div b \in Nat /\ a = (a \div b) * b
  <2>1. a \div b \in Nat /\ a = b * (a \div b) + 0
    BY <1>1, Division
  <2> HIDE DEF Division
  <2> QED
    BY <2>1
<1>2. ASSUME NEW q \in Nat, a = q * b PROVE a % b = 0
  <2>1. 0 \in 0 .. b - 1 /\ a = q * b + 0
    BY <1>2
  <2> QED
    BY <2>1, Quotient
<1> QED
  BY <1>1, <1>2

\* Multiples of b add up to one.
LEMMA SumOfMultiples ==
  ASSUME NEW a \in Nat, NEW c \in Nat, NEW b \in Nat \ {0}, a % b = 0, c % b = 0
  PROVE  (a + c) % b = 0
<1>1. PICK p \in Nat : a = p * b
  BY Multiple
<1>2. PICK q \in Nat : c = q * b
  BY Multiple
<1>3. a + c = (p + q) * b /\ a + c \in Nat /\ p + q \in Nat
  BY <1>1, <1>2
<1> QED
  BY <1>3, Multiple

\* Multiples of b that differ are b apart; so are a multiple and a sum of two.
LEMMA MultiplesApart ==
  ASSUME NEW a \in Nat, NEW c \in Nat, NEW b \in Nat \ {0}, a % b = 0, c % b = 0, a < c
  PROVE  a + b <= c /\ (c - a) % b = 0
<1>1. PICK p \in Nat : a = p * b
  BY Multiple
<1>2. PICK q \in Nat : c = q * b
  BY Multiple
<1>3. p < q
  <2>1. CASE q < p
    BY <1>1, <1>2, <2>1, OneLess
  <2>2. CASE q = p
    BY <1>1, <1>2, <2>2
  <2> QED
    BY <2>1, <2>2
<1>4. a + b <= c
  BY <1>1, <1>2, <1>3, OneLess
<1>5. c - a = (q - p) * b /\ q - p \in Nat
  BY <1>1, <1>2, <1>3
<1> QED
  BY <1>4, <1>5, Multiple

\* The sectors of s bytes around n bytes at a: the first starts at f, together
\* they have l bytes, and the last of the n bytes lies in the one at e or before.
SectorsAround(a, n, s, f, l, e) ==
  /\ f = (a \div s) * s
  /\ l = (((a % s) + n) \div s + 1) * s
  /\ e = ((a + n) \div s) * s

\* Where an unaligned read of n bytes at a ends is in the last sector it is
\* rounded up to.
LEMMA Rounding ==
  ASSUME NEW a \in Nat, NEW n \in Nat, NEW s \in Nat \ {0}, NEW f, NEW l, NEW e,
         SectorsAround(a, n, s, f, l, e)
  PROVE  /\ f \in Nat /\ f % s = 0 /\ l \in Nat /\ l % s = 0
         /\ f + (a % s) = a /\ a % s \in Nat /\ (a % s) + n < l
         /\ a + n < f + l
         /\ f + l = e + s
<1> DEFINE q == a \div s
           r == a % s
           p == (r + n) \div s
           m == (r + n) % s
<1>1. q \in Nat /\ r \in 0 .. s - 1 /\ a = s * q + r
  BY Division
<1>2. r + n \in Nat
  BY <1>1
<1>3. p \in Nat /\ m \in 0 .. s - 1 /\ r + n = s * p + m
  BY <1>2, Division
<1>4. q * s \in Nat /\ p * s \in Nat /\ (p + 1) * s \in Nat /\ (p + 1) * s = p * s + s
      /\ s * q = q * s /\ s * p = p * s /\ (q + p) * s = q * s + p * s
  BY <1>1, <1>3
<1> HIDE DEF q, r, p, m
<1>5. (q * s) % s = 0 /\ ((p + 1) * s) % s = 0
  BY <1>1, <1>3, <1>4, Multiple
<1>6. a + n = (q + p) * s + m /\ q + p \in Nat
  BY <1>1, <1>3, <1>4
<1>7. (a + n) \div s = q + p
  BY <1>3, <1>6, Quotient
<1>8. q * s + (p + 1) * s = (q + p) * s + s
  BY <1>4
<1>9. r + n < (p + 1) * s /\ a + n < q * s + (p + 1) * s
  BY <1>1, <1>3, <1>4, <1>6, <1>8
<1>10. q * s + r = a /\ r \in Nat
  BY <1>1, <1>4
<1>11. f = q * s /\ l = (p + 1) * s /\ e = (q + p) * s
  BY <1>7 DEF SectorsAround, q, r, p
<1>12. r = a % s
  BY DEF r
<1> QED
  BY <1>4, <1>5, <1>8, <1>9, <1>10, <1>11, <1>12

-----------------------------------------------------------------------------
(* Constants and types                                                     *)

\* What the assumptions say of the drive.
LEMMA Drive ==
  /\ SectorSize \in Nat \ {0} /\ Capacity \in Nat /\ TransferSize \in Nat
  /\ Capacity % SectorSize = 0 /\ TransferSize % SectorSize = 0
  /\ Zero \in Byte
BY SectorAssumption, CapacityAssumption, TransferAssumption, ByteAssumption

\* The state, one fact each.
LEMMA Typed ==
  ASSUME TypeOK
  PROVE  /\ data \in [Addr -> Byte] /\ eof = Capacity
         /\ filePtr \in Nat /\ position \in Nat /\ data_pos \in Nat
         /\ buffer \in [0 .. req.size - 1 -> Byte]
         /\ call.at \in Nat /\ call.size \in Nat
BY DEF TypeOK

\* The sector a place lies in starts at a multiple of the sector size.
LEMMA SectorStart ==
  ASSUME NEW a \in Nat
  PROVE  /\ align_offset(a) \in Nat /\ align_offset(a) % SectorSize = 0
         /\ align_offset(a) <= a
<1>1. SectorSize \in Nat \ {0}
  BY Drive
<1>2. PICK q \in Nat, r \in Nat : q = a \div SectorSize /\ a = SectorSize * q + r
  BY <1>1, Division
<1>3. q * SectorSize \in Nat /\ q * SectorSize <= a
  BY <1>1, <1>2
<1>4. (q * SectorSize) % SectorSize = 0
  BY <1>1, <1>3, Multiple
<1> QED
  BY <1>2, <1>3, <1>4 DEF align_offset

\* What the engine is asked for, for a read, is whole sectors.
LEMMA RangeTyped ==
  ASSUME NEW c, c.at \in Nat, c.size \in Nat
  PROVE  /\ From(c) \in Nat /\ Length(c) \in Nat
         /\ From(c) % SectorSize = 0 /\ Length(c) % SectorSize = 0
<1>1. CASE Aligned(c.at, c.size)
  BY <1>1 DEF From, Length, Aligned, isMultiple
<1>2. CASE ~Aligned(c.at, c.size)
  <2> DEFINE f == align_offset(c.at)
             l == sector_to_read(c.at, c.size) * SectorSize
  <2>1. f \in Nat /\ f % SectorSize = 0 /\ l \in Nat /\ l % SectorSize = 0
    <3>1. PICK at \in Nat, n \in Nat : at = c.at /\ n = c.size
      OBVIOUS
    <3>2. SectorsAround(at, n, SectorSize, f, l, align_offset(at + n))
      BY <3>1 DEF align_offset, sector_to_read, SectorsAround
    <3> HIDE DEF f, l
    <3>3. SectorSize \in Nat \ {0}
      BY Drive
    <3> QED
      BY <3>2, <3>3, Rounding
  <2> HIDE DEF f, l
  <2>2. From(c) = f /\ Length(c) = l
    BY <1>2 DEF From, Length, f, l
  <2> QED
    BY <2>1, <2>2
<1> QED
  BY <1>1, <1>2

\* A block of the engine.
LEMMA Blocks ==
  ASSUME data_pos \in Nat, req.size \in Nat, data_pos < req.size, TransferSize > 0
  PROVE  /\ Block \in 1 .. req.size - data_pos
         /\ req.size % SectorSize = 0 /\ data_pos % SectorSize = 0 => Block % SectorSize = 0
<1>1. Block = IF data_pos + TransferSize <= req.size THEN TransferSize ELSE req.size - data_pos
  BY DEF Block, calcBlockSize
<1>2. Block \in 1 .. req.size - data_pos
  BY <1>1, Drive
<1>3. ASSUME req.size % SectorSize = 0, data_pos % SectorSize = 0
      PROVE  (req.size - data_pos) % SectorSize = 0
  BY <1>3, Drive, MultiplesApart
<1> QED
  BY <1>1, <1>2, <1>3, Drive

\* No request is one of no bytes.
LEMMA NoReqType == NoReq.op = "none" /\ NoReq.start = 0 /\ NoReq.size = 0
BY DEF NoReq

\* An empty request needs no buffer.
LEMMA NoBufferType == NoBuffer \in [0 .. NoReq.size - 1 -> Byte]
<1>1. 0 .. NoReq.size - 1 = {}
  BY NoReqType
<1> QED
  BY <1>1 DEF NoBuffer

\* Before a call has ended there is nothing to be right about.
LEMMA NoReplyYet ==
  ASSUME reply' = NoReply
  PROVE  /\ DeliversWhatWasAsked' /\ ServedInsideDrive' /\ WrittenOrRefused'
         /\ reply'.ok => reply'.bytes \in [0 .. reply'.call.size - 1 -> Byte]
<1>1. reply'.ok = TRUE /\ reply'.call.op = "none" /\ reply'.call.size = 0 /\ reply'.bytes = NoBuffer
  BY DEF NoReply, NoCall
<1>2. 0 .. reply'.call.size - 1 = {}
  BY <1>1
<1>3. NoBuffer \in [{} -> Byte]
  BY DEF NoBuffer
<1> QED
  BY <1>1, <1>2, <1>3 DEF DeliversWhatWasAsked, ServedInsideDrive, WrittenOrRefused

\* A new device is at rest.
LEMMA InitInv == Init => IInv
<1> SUFFICES ASSUME Init PROVE IInv
  OBVIOUS
<1>1. reply.ok = TRUE /\ reply.call.op = "none" /\ reply.call.size = 0 /\ reply.bytes = NoBuffer
      /\ call = NoCall
  BY DEF Init, NoReply, NoCall
<1>2. call \in [op : {"none", "read", "write"}, at : Nat, size : Nat]
  BY <1>1 DEF NoCall
<1>3. data \in [Addr -> Byte] /\ bad \in SUBSET Addr
  BY InputAssumption DEF Init
<1>4. TypeOK
  <2>1. reply.bytes \in [0 .. reply.call.size - 1 -> Byte]
    BY <1>1, NoBufferType, NoReqType
  <2>2. buffer \in [0 .. req.size - 1 -> Byte]
    BY NoBufferType DEF Init
  <2> QED
    BY <1>2, <1>3, <2>1, <2>2 DEF Init, TypeOK
<1>5. AtRest
  BY DEF Init, AtRest
<1> QED
  BY <1>1, <1>3, <1>4, <1>5 DEF IInv, DeliversWhatWasAsked, ServedInsideDrive, WrittenOrRefused

-----------------------------------------------------------------------------
(* Opening, closing, positioning                                           *)

\* Opening, closing and seeking happen at rest and leave the drive alone.
LEMMA Control ==
  ASSUME IInv, Open \/ Close \/ \E p \in Offsets : setPosition(p)
  PROVE  IInv'
<1>1. AtRest
  BY DEF IInv, Rounded, Reading, Writing, Open, Close, setPosition, Quiet, NoCall
<1>2. /\ UNCHANGED <<data, eof, bad, req, buffer, data_pos, status, call>>
      /\ reply' = NoReply
      /\ position' \in Nat /\ filePtr' \in Nat /\ hDevice' \in {"invalid"} \cup Access
  <2>1. /\ data \in [Addr -> Byte] /\ position \in Nat /\ filePtr \in Nat
        /\ hDevice \in {"invalid"} \cup Access
    BY DEF IInv, TypeOK
  <2>2. CASE Open
    BY <2>1, <2>2 DEF Open, OpenSucceeds, OpenFails, Access
  <2>3. CASE Close
    BY <2>1, <2>3 DEF Close, EngineClose, Access
  <2>4. ASSUME NEW p \in Offsets, setPosition(p)
        PROVE  /\ UNCHANGED <<data, eof, bad, req, buffer, data_pos, status, call>>
               /\ reply' = NoReply
               /\ position' \in Nat /\ filePtr' \in Nat /\ hDevice' \in {"invalid"} \cup Access
    BY <2>1, <2>4, InputAssumption DEF setPosition, EngineSetPosition, Seek
  <2> QED
    BY <2>2, <2>3, <2>4
<1>3. TypeOK'
  <2>1. TypeOK
    BY DEF IInv
  <2> QED
    BY <1>2, <2>1, NoReplyYet DEF TypeOK
<1>4. AtRest'
  BY <1>1, <1>2 DEF AtRest
<1> QED
  BY <1>2, <1>3, <1>4, NoReplyYet DEF IInv

-----------------------------------------------------------------------------
(* A call begins                                                           *)

\* The engine begins a request of n bytes.
LEMMA Begins ==
  ASSUME IInv, req = NoReq,
         NEW op \in {"read", "write"}, NEW n \in Nat, NEW b \in [0 .. n - 1 -> Byte],
         BeginTransfer(op, n, b), reply' = NoReply,
         call' \in [op : {"none", "read", "write"}, at : Nat, size : Nat]
  PROVE  /\ TypeOK' /\ Progress' /\ data_pos' = 0
         /\ req'.op = op /\ req'.start = position /\ req'.size = n
         /\ status' \notin {"running", "OK"} => Excused'
         /\ bad' \in SUBSET Addr
<1>1. /\ req' = [op |-> op, start |-> position, size |-> n, oldData |-> data, oldEof |-> eof]
      /\ buffer' = b /\ data_pos' = 0
      /\ status' = IF ParamsValid(n) THEN "running" ELSE "kWrongParam"
      /\ UNCHANGED <<data, eof, bad, hDevice, bOpen, filePtr, position>>
  BY DEF BeginTransfer
<1>2. req'.op = op /\ req'.start = position /\ req'.size = n
  BY <1>1
<1>3. TypeOK /\ bad \in SUBSET Addr
  BY DEF IInv
<1>4. position \in Nat
  BY <1>3, Typed
<1>5. TypeOK'
  <2>1. buffer' \in [0 .. req'.size - 1 -> Byte]
    BY <1>1, <1>2
  <2>2. status' \in {"idle", "running"} \cup Results
    BY <1>1 DEF Results
  <2> QED
    BY <1>1, <1>3, <2>1, <2>2, NoReplyYet DEF TypeOK
<1>6. 0 % SectorSize = 0
  <2>1. 0 * SectorSize = 0
    BY Drive
  <2> QED
    BY <2>1, Drive, Multiple
<1>7. Progress'
  BY <1>1, <1>2, <1>4, <1>6, Drive DEF Progress, isMultiple, ParamsValid, Results
<1>8. status' \notin {"running", "OK"} => Excused'
  BY <1>1, <1>2 DEF Excused, ParamsValid
<1> QED
  BY <1>1, <1>2, <1>3, <1>5, <1>7, <1>8

\* The block an unaligned read goes into has a byte at each place.
LEMMA TempTyped ==
  ASSUME NEW n \in Nat
  PROVE  Temp(n) \in [0 .. n - 1 -> Byte]
BY Drive DEF Temp

\* ReadData starts the transfer, or rounds the position first.
LEMMA ReadBegins ==
  ASSUME IInv, NEW n \in Sizes, ReadData(n)
  PROVE  IInv'
<1>1. /\ Quiet /\ call' = [op |-> "read", at |-> position, size |-> n] /\ reply' = NoReply
  BY DEF ReadData
<1>2. AtRest
  BY <1>1 DEF IInv, Rounded, Reading, Writing, Quiet, NoCall
<1>3. TypeOK /\ bad \in SUBSET Addr /\ n \in Nat /\ position \in Nat
  BY InputAssumption, Typed DEF IInv
<1>4. /\ call' \in [op : {"none", "read", "write"}, at : Nat, size : Nat]
      /\ call'.op = "read" /\ call'.at = position /\ call'.size = n
  BY <1>1, <1>3
<1>5. CASE Aligned(position, n)
  <2>1. BeginTransfer("read", n, Temp(n)) /\ req = NoReq
    BY <1>2, <1>5 DEF ReadData, AtRest
  <2>2. /\ TypeOK' /\ Progress'
        /\ req'.op = "read" /\ req'.start = position /\ req'.size = n
        /\ status' \notin {"running", "OK"} => Excused'
        /\ bad' \in SUBSET Addr
    BY <1>1, <1>3, <1>4, <2>1, TempTyped, Begins
  <2>3. From(call') = position /\ Length(call') = n
    BY <1>4, <1>5 DEF From, Length
  <2>4. Reading'
    BY <1>1, <1>4, <2>2, <2>3 DEF Reading
  <2> QED
    BY <1>1, <2>2, <2>4, NoReplyYet DEF IInv
<1>6. CASE ~Aligned(position, n)
  <2>1. EngineSetPosition(align_offset(position))
    BY <1>6 DEF ReadData
  <2>2. align_offset(position) \in Nat
    BY <1>3, Drive, Rounding DEF align_offset
  <2>3. /\ position' = align_offset(position) /\ filePtr' \in Nat
        /\ UNCHANGED <<data, eof, bad, hDevice, bOpen, req, buffer, data_pos, status>>
    BY <1>3, <2>1, <2>2, Typed DEF EngineSetPosition, Seek
  <2>4. TypeOK'
    BY <1>3, <1>4, <1>1, <2>2, <2>3, NoReplyYet DEF TypeOK
  <2>5. Rounded'
    BY <1>1, <1>2, <1>4, <1>6, <2>3 DEF Rounded, AtRest
  <2> QED
    BY <1>1, <1>3, <2>3, <2>4, <2>5, NoReplyYet DEF IInv
<1> QED
  BY <1>5, <1>6

\* ReadDataNotAligned starts its transfer at the rounded position.
LEMMA ReadGoesOn ==
  ASSUME IInv, ReadDataNotAligned
  PROVE  IInv'
<1> DEFINE n == sector_to_read(call.at, call.size) * SectorSize
<1>1. /\ call.op = "read" /\ ~Aligned(call.at, call.size) /\ req = NoReq
      /\ BeginTransfer("read", n, Temp(n)) /\ UNCHANGED <<call, reply>>
  BY DEF ReadDataNotAligned
<1>2. Rounded
  BY <1>1, NoReqType DEF IInv, AtRest, NoCall, Reading, Writing
<1>3. /\ position = From(call) /\ n = Length(call) /\ reply' = NoReply
      /\ call \in [op : {"none", "read", "write"}, at : Nat, size : Nat]
  BY <1>1, <1>2 DEF Rounded, From, Length, IInv, TypeOK
<1>4. n \in Nat
  BY <1>3, RangeTyped
<1> HIDE DEF n
<1>5. /\ TypeOK' /\ Progress'
      /\ req'.op = "read" /\ req'.start = position /\ req'.size = n
      /\ status' \notin {"running", "OK"} => Excused'
      /\ bad' \in SUBSET Addr
  BY <1>1, <1>3, <1>4, TempTyped, Begins
<1>6. Reading'
  BY <1>1, <1>3, <1>5 DEF Reading
<1> QED
  BY <1>3, <1>5, <1>6, NoReplyYet DEF IInv

\* WriteData starts the transfer where the device is.
LEMMA WriteBegins ==
  ASSUME IInv, NEW n \in Sizes, NEW b \in [0 .. n - 1 -> {Zero}], WriteData(n, b)
  PROVE  IInv'
<1>1. /\ Quiet /\ call' = [op |-> "write", at |-> position, size |-> n] /\ reply' = NoReply
      /\ BeginTransfer("write", n, b)
  BY DEF WriteData
<1>2. AtRest
  BY <1>1 DEF IInv, Rounded, Reading, Writing, Quiet, NoCall
<1>3. TypeOK /\ bad \in SUBSET Addr /\ n \in Nat /\ position \in Nat
  BY InputAssumption, Typed DEF IInv
<1>4. /\ call' \in [op : {"none", "read", "write"}, at : Nat, size : Nat]
      /\ call'.op = "write" /\ call'.at = position /\ call'.size = n
  BY <1>1, <1>3
<1>5. b \in [0 .. n - 1 -> Byte]
  BY Drive
<1>6. /\ TypeOK' /\ Progress' /\ data_pos' = 0
      /\ req'.op = "write" /\ req'.start = position /\ req'.size = n
      /\ bad' \in SUBSET Addr
  BY <1>1, <1>2, <1>3, <1>4, <1>5, Begins DEF AtRest
<1>7. Writing'
  BY <1>1, <1>4, <1>6 DEF Writing
<1> QED
  BY <1>1, <1>6, <1>7, NoReplyYet DEF IInv

-----------------------------------------------------------------------------
(* Blocks are moved                                                        *)

\* What a block finds, one fact each.
LEMMA Running ==
  ASSUME IInv, Progress, status = "running"
  PROVE  /\ req.start \in Nat /\ req.size \in Nat /\ data_pos \in Nat /\ data_pos < req.size
         /\ position \in Nat /\ position = req.start + data_pos
         /\ Block \in Nat /\ 1 <= Block /\ data_pos + Block <= req.size
         /\ req.size % SectorSize = 0 => Block % SectorSize = 0
         /\ data_pos % SectorSize = 0
         /\ data \in [Addr -> Byte] /\ eof = Capacity /\ bad \in SUBSET Addr
         /\ buffer \in [0 .. req.size - 1 -> Byte]
         /\ \A i \in 0 .. data_pos - 1 : buffer[i] = data[req.start + i]
         /\ data_pos > 0 => position <= Capacity
<1>1. TypeOK /\ bad \in SUBSET Addr
  BY DEF IInv
<1>2. /\ req.start \in Nat /\ req.size \in Nat /\ data_pos \in Nat /\ data_pos < req.size
      /\ TransferSize > 0 /\ data_pos % SectorSize = 0
  BY <1>1, Typed DEF Progress, isMultiple
<1>3. /\ Block \in 1 .. req.size - data_pos
      /\ req.size % SectorSize = 0 => Block % SectorSize = 0
  BY <1>2, Blocks
<1>4. Block \in Nat /\ 1 <= Block /\ data_pos + Block <= req.size
  BY <1>2, <1>3
<1> QED
  BY <1>1, <1>2, <1>3, <1>4, Typed DEF Progress

\* A step of the engine that moves k bytes, on which buffer and drive agree.
LEMMA Advanced ==
  ASSUME IInv, Progress, status = "running", UNCHANGED req,
         NEW k \in Nat, k > 0, k <= Block, position + k <= Capacity,
         isMultiple(data_pos', SectorSize),
         data_pos' = data_pos + k, position' = position + k,
         status' = IF data_pos + k < req.size THEN "running" ELSE "OK",
         \A i \in 0 .. data_pos + k - 1 : buffer'[i] = data'[req.start + i]
  PROVE  Progress' /\ status' \in {"running", "OK"}
<1>1. /\ req.start \in Nat /\ req.size \in Nat /\ data_pos \in Nat /\ data_pos < req.size
      /\ position \in Nat /\ position = req.start + data_pos
      /\ Block \in Nat /\ data_pos + Block <= req.size
  BY Running
<1>2. TransferSize > 0
  BY DEF Progress
<1>3. /\ data_pos' <= req.size /\ position' = req.start + data_pos' /\ data_pos' > 0
      /\ position' <= Capacity
      /\ status' = "running" => data_pos' < req.size
      /\ status' = "OK" => data_pos' = req.size
      /\ status' \in {"running", "OK"}
  BY <1>1
<1> QED
  BY <1>1, <1>2, <1>3 DEF Progress, Results

\* A step of the engine that moves nothing.
LEMMA Failed ==
  ASSUME IInv, Progress, status = "running", UNCHANGED <<req, data_pos, position>>,
         status' \in {"kReadData", "kWriteData"},
         \A i \in 0 .. data_pos - 1 : buffer'[i] = data'[req.start + i]
  PROVE  Progress'
BY DEF Progress, Results

\* A block of a read puts the bytes of the drive behind those in the buffer.
LEMMA BlockIsRead ==
  ASSUME IInv, Reading, ReadBlock, isMultiple(data_pos', SectorSize), UNCHANGED <<call, reply>>
  PROVE  IInv'
<1> DEFINE p == position
<1>1. Progress /\ status = "running" /\ TypeOK
  BY DEF Reading, ReadBlock, IInv
<1>2. PICK ok \in BOOLEAN, k \in Reach(p, Larger(p, eof)) :
        /\ ok  => hDevice # "invalid" /\ (k > 0 \/ p >= eof)
        /\ ~ok => k = 0 /\ (hDevice = "invalid" \/ MeetsBad(p))
        /\ buffer' = [i \in 0 .. req.size - 1 |->
                        IF data_pos <= i /\ i < data_pos + k
                        THEN data[p + i - data_pos] ELSE buffer[i]]
        /\ filePtr' = IF hDevice = "invalid" THEN filePtr ELSE p + k
        /\ Advance(ok, k, "kReadData")
  BY DEF ReadBlock, SeekTarget
<1>3. UNCHANGED <<data, eof, bad, hDevice, bOpen, req>>
  BY DEF ReadBlock
<1>4. /\ req.start \in Nat /\ req.size \in Nat /\ data_pos \in Nat /\ data_pos < req.size
      /\ p \in Nat /\ p = req.start + data_pos
      /\ Block \in Nat /\ 1 <= Block /\ data_pos + Block <= req.size
      /\ data \in [Addr -> Byte] /\ eof = Capacity /\ bad \in SUBSET Addr
      /\ buffer \in [0 .. req.size - 1 -> Byte]
      /\ \A i \in 0 .. data_pos - 1 : buffer[i] = data[req.start + i]
  BY <1>1, Running
<1>5. Capacity \in Nat
  BY Drive
<1>6. k \in Nat /\ k <= Block /\ (k > 0 => p + k <= Capacity)
  BY <1>4, <1>5 DEF Reach, Larger
<1>7. buffer' \in [0 .. req.size - 1 -> Byte]
  <2> SUFFICES ASSUME NEW i \in 0 .. req.size - 1, data_pos <= i, i < data_pos + k
               PROVE  data[p + i - data_pos] \in Byte
    BY <1>2, <1>4
  <2>1. p + i - data_pos \in Addr
    <3>1. p \in Nat /\ data_pos \in Nat /\ i \in Nat
      BY <1>4
    <3>2. k > 0 /\ i - data_pos < k /\ 0 <= i - data_pos
      BY <1>6, <3>1
    <3>3. p + k <= Capacity
      BY <1>6, <3>2
    <3> HIDE DEF p
    <3> QED
      BY <1>5, <1>6, <3>1, <3>2, <3>3 DEF Addr
  <2> QED
    BY <1>4, <2>1
<1>8. \A i \in 0 .. data_pos + k - 1 : buffer'[i] = data'[req.start + i]
  <2> SUFFICES ASSUME NEW i \in 0 .. data_pos + k - 1 PROVE buffer'[i] = data[req.start + i]
    BY <1>3
  <2>1. i \in 0 .. req.size - 1
    BY <1>4, <1>6
  <2>2. CASE i < data_pos
    <3>1. buffer'[i] = buffer[i]
      BY <1>2, <1>4, <2>1, <2>2
    <3>2. i \in 0 .. data_pos - 1
      BY <1>4, <2>1, <2>2
    <3> QED
      BY <1>4, <3>1, <3>2
  <2>3. CASE data_pos <= i
    <3>1. i < data_pos + k
      BY <1>4, <1>6
    <3>2. buffer'[i] = data[p + i - data_pos]
      BY <1>2, <2>1, <2>3, <3>1
    <3>3. p + i - data_pos = req.start + i
      BY <1>4, <2>1
    <3> QED
      BY <3>2, <3>3
  <2> QED
    BY <1>4, <2>1, <2>2, <2>3
<1> HIDE DEF p
<1>9. filePtr' \in Nat
  BY <1>1, <1>2, <1>4, <1>6, Typed
<1>10. /\ Progress'
       /\ data_pos' \in Nat /\ position' \in Nat
       /\ status' \in {"running", "OK", "kReadData"}
       /\ status' \notin {"running", "OK"} => Excused'
  <2>1. CASE ok /\ k > 0
    <3>1. /\ data_pos' = data_pos + k /\ position' = position + k
          /\ status' = IF data_pos + k < req.size THEN "running" ELSE "OK"
      BY <1>2, <1>6, <2>1 DEF Advance, CallFailed
    <3>2. Progress' /\ status' \in {"running", "OK"}
      BY <1>1, <1>3, <1>6, <1>8, <2>1, <3>1, Advanced DEF p
    <3> QED
      BY <1>4, <1>6, <3>1, <3>2 DEF p
  <2>2. CASE ~(ok /\ k > 0)
    <3>0. k = 0
      BY <1>2, <1>6, <2>2
    <3>1. status' = "kReadData" /\ UNCHANGED <<data_pos, position>>
      BY <1>2, <3>0 DEF Advance, CallFailed
    <3>2. Progress'
      BY <1>1, <1>3, <1>4, <1>8, <3>0, <3>1, Failed
    <3>3. Excused
      <4>1. CASE hDevice = "invalid"
        BY <4>1 DEF Excused
      <4>2. CASE ok
        <5>1. p >= Capacity
          BY <1>2, <1>4, <3>0, <4>2
        <5>2. req.start + req.size > Capacity
          BY <1>4, <1>5, <5>1
        <5> QED
          BY <5>2 DEF Excused
      <4>3. CASE MeetsBad(p)
        <5>1. PICK a \in bad : p <= a /\ a < p + Block
          BY <4>3 DEF MeetsBad
        <5>2. a \in Nat
          BY <1>4, <1>5 DEF Addr
        <5>3. req.start <= a /\ a < req.start + req.size
          BY <1>4, <5>1, <5>2
        <5> QED
          BY <5>3 DEF Excused
      <4> QED
        BY <1>2, <4>1, <4>2, <4>3
    <3>4. Excused'
      BY <1>3, <3>3 DEF Excused
    <3> QED
      BY <1>4, <3>1, <3>2, <3>4 DEF p
  <2> QED
    BY <2>1, <2>2
<1>11. TypeOK'
  BY <1>1, <1>3, <1>7, <1>9, <1>10 DEF TypeOK, Results
<1>12. Reading' /\ reply' = NoReply
  BY <1>3, <1>10 DEF Reading, From, Length
<1> QED
  BY <1>3, <1>4, <1>11, <1>12, NoReplyYet DEF IInv

\* A block of a write puts the bytes of the buffer behind those on the drive,
\* and leaves those where they are.
LEMMA BlockIsWritten ==
  ASSUME IInv, Writing, Accepted, WriteBlock, isMultiple(data_pos', SectorSize),
         UNCHANGED <<call, reply>>
  PROVE  IInv'
<1> DEFINE p == position
<1>1. Progress /\ status = "running" /\ TypeOK
  BY DEF Writing, WriteBlock, IInv
<1>2. PICK ok \in BOOLEAN, k \in Reach(p, Larger(p, Capacity)) :
        /\ ok  => hDevice = "readwrite" /\ k > 0
        /\ data' = Splice(data, p, [i \in 0 .. k - 1 |-> buffer[data_pos + i]], k)
        /\ eof' = IF k > 0 THEN Larger(eof, p + k) ELSE eof
        /\ filePtr' = IF hDevice = "invalid" THEN filePtr ELSE p + k
        /\ Advance(ok, k, "kWriteData")
  BY DEF WriteBlock, SeekTarget
<1>3. UNCHANGED <<bad, hDevice, bOpen, req, buffer>>
  BY DEF WriteBlock
<1>4. /\ req.start \in Nat /\ req.size \in Nat /\ data_pos \in Nat /\ data_pos < req.size
      /\ p \in Nat /\ p = req.start + data_pos
      /\ Block \in Nat /\ 1 <= Block /\ data_pos + Block <= req.size
      /\ data_pos % SectorSize = 0
      /\ data \in [Addr -> Byte] /\ eof = Capacity /\ bad \in SUBSET Addr
      /\ buffer \in [0 .. req.size - 1 -> Byte]
      /\ \A i \in 0 .. data_pos - 1 : buffer[i] = data[req.start + i]
      /\ data_pos > 0 => p <= Capacity
  BY <1>1, Running
<1>5. Capacity \in Nat
  BY Drive
<1>6. k \in Nat /\ k <= Block /\ (k > 0 => p + k <= Capacity)
  BY <1>4, <1>5 DEF Reach, Larger
<1>s. /\ p \in Nat /\ k \in Nat /\ data_pos \in Nat /\ req.start \in Nat /\ req.size \in Nat
      /\ p = req.start + data_pos /\ data_pos + k <= req.size
      /\ k > 0 => p + k <= Capacity
      /\ \A a : a \in Addr <=> a \in Nat /\ a < Capacity
  BY <1>4, <1>5, <1>6 DEF Addr
<1>7. data' = [a \in Addr |-> IF p <= a /\ a < p + k THEN buffer[data_pos + (a - p)] ELSE data[a]]
  <2>1. \A a \in Addr : p <= a /\ a < p + k => a - p \in 0 .. k - 1
    BY <1>s
  <2> QED
    BY <1>2, <2>1 DEF Splice
<1>8. data' \in [Addr -> Byte]
  <2> SUFFICES ASSUME NEW a \in Addr, p <= a, a < p + k PROVE buffer[data_pos + (a - p)] \in Byte
    BY <1>4, <1>7
  <2>1. data_pos + (a - p) \in 0 .. req.size - 1
    BY <1>s
  <2> QED
    BY <1>4, <2>1
<1>9. \A i \in 0 .. data_pos + k - 1 : buffer'[i] = data'[req.start + i]
  <2> SUFFICES ASSUME NEW i \in 0 .. data_pos + k - 1 PROVE buffer[i] = data'[req.start + i]
    BY <1>3
  <2>1. i \in Nat
    BY <1>4, <1>6
  <2>2. CASE i < data_pos
    <3>1. i \in 0 .. data_pos - 1 /\ req.start + i \in Addr /\ ~(p <= req.start + i)
      BY <1>4, <1>5, <2>1, <2>2 DEF Addr
    <3>2. data'[req.start + i] = data[req.start + i]
      BY <1>7, <3>1
    <3> QED
      BY <1>4, <3>1, <3>2
  <2>3. CASE data_pos <= i
    <3>1. /\ p <= req.start + i /\ req.start + i < p + k /\ req.start + i \in Addr
          /\ data_pos + ((req.start + i) - p) = i
      BY <1>s, <1>5, <2>1, <2>3
    <3>2. data'[req.start + i] = buffer[data_pos + ((req.start + i) - p)]
      BY <1>7, <3>1
    <3> QED
      BY <3>1, <3>2
  <2> QED
    BY <1>4, <2>1, <2>2, <2>3
<1>10. eof' = Capacity
  BY <1>2, <1>4, <1>5, <1>6 DEF Larger
<1> HIDE DEF p
<1>11. filePtr' \in Nat
  BY <1>1, <1>2, <1>4, <1>6, Typed
<1>12. /\ Progress'
       /\ data_pos' \in Nat /\ position' \in Nat
       /\ status' \in {"running", "OK", "kWriteData"}
  <2>1. CASE ok
    <3>1. /\ data_pos' = data_pos + k /\ position' = position + k
          /\ status' = IF data_pos + k < req.size THEN "running" ELSE "OK"
      BY <1>2, <1>6, <2>1 DEF Advance, CallFailed
    <3>2. Progress' /\ status' \in {"running", "OK"}
      BY <1>1, <1>2, <1>3, <1>6, <1>9, <2>1, <3>1, Advanced DEF p
    <3> QED
      BY <1>4, <1>6, <3>1, <3>2 DEF p
  <2>2. CASE ~ok
    <3>1. status' = "kWriteData" /\ UNCHANGED <<data_pos, position>>
      BY <1>2, <2>2 DEF Advance, CallFailed
    <3>2. \A i \in 0 .. data_pos - 1 : buffer'[i] = data'[req.start + i]
      <4>1. \A i \in 0 .. data_pos - 1 : i \in 0 .. data_pos + k - 1
        BY <1>4, <1>6
      <4> QED
        BY <1>9, <4>1
    <3>3. Progress'
      BY <1>1, <1>3, <3>1, <3>2, Failed
    <3> QED
      BY <1>4, <3>1, <3>3 DEF p
  <2> QED
    BY <2>1, <2>2
<1>13. TypeOK'
  BY <1>1, <1>3, <1>4, <1>8, <1>10, <1>11, <1>12 DEF TypeOK, Results
<1>14. isMultiple(req.start, SectorSize)
  <2>1. CASE data_pos = 0
    <3>1. position = req.start
      BY <1>4, <2>1 DEF p
    <3> QED
      BY <3>1 DEF Accepted
  <2>2. CASE data_pos > 0
    BY <2>2 DEF Writing
  <2> QED
    BY <1>4, <2>1, <2>2
<1>15. Writing' /\ reply' = NoReply
  BY <1>3, <1>12, <1>14 DEF Writing
<1> QED
  BY <1>3, <1>4, <1>13, <1>15, NoReplyYet DEF IInv

-----------------------------------------------------------------------------
(* The drive refuses, and the call returns                                 *)

\* An unaligned read is rounded down and up to the sectors around it.
LEMMA UnalignedRange ==
  ASSUME NEW c, NEW at \in Nat, NEW n \in Nat, c.at = at, c.size = n, ~Aligned(at, n)
  PROVE  /\ From(c) + (at % SectorSize) = at /\ at % SectorSize \in Nat
         /\ (at % SectorSize) + n < Length(c)
         /\ From(c) + Length(c) = align_offset(at + n) + SectorSize
<1>1. From(c) = align_offset(at) /\ Length(c) = sector_to_read(at, n) * SectorSize
  BY DEF From, Length
<1>2. /\ align_offset(at) + (at % SectorSize) = at /\ at % SectorSize \in Nat
      /\ (at % SectorSize) + n < sector_to_read(at, n) * SectorSize
      /\ align_offset(at) + sector_to_read(at, n) * SectorSize
           = align_offset(at + n) + SectorSize
  <2> DEFINE f == (at \div SectorSize) * SectorSize
             l == (((at % SectorSize) + n) \div SectorSize + 1) * SectorSize
             e == ((at + n) \div SectorSize) * SectorSize
  <2>1. SectorSize \in Nat \ {0}
    BY Drive
  <2>2. f = align_offset(at) /\ l = sector_to_read(at, n) * SectorSize /\ e = align_offset(at + n)
    BY DEF align_offset, sector_to_read
  <2>3. SectorsAround(at, n, SectorSize, f, l, e)
    BY DEF SectorsAround
  <2> HIDE DEF f, l, e
  <2>4. /\ f + (at % SectorSize) = at /\ at % SectorSize \in Nat
        /\ (at % SectorSize) + n < l /\ f + l = e + SectorSize
    BY <2>1, <2>3, Rounding
  <2> QED
    BY <2>2, <2>4
<1> QED
  BY <1>1, <1>2

\* A read asks for whole sectors, in every block.
LEMMA ReadsAccepted ==
  ASSUME IInv, Reading, status = "running"
  PROVE  Accepted
<1>1. /\ req.start \in Nat /\ req.size \in Nat /\ data_pos \in Nat
      /\ position = req.start + data_pos
      /\ req.size % SectorSize = 0 => Block % SectorSize = 0
      /\ data_pos % SectorSize = 0
  BY Running DEF Reading
<1>2. call.at \in Nat /\ call.size \in Nat
  BY Typed DEF IInv
<1>3. req.start % SectorSize = 0 /\ req.size % SectorSize = 0
  BY <1>2, RangeTyped DEF Reading
<1>4. position % SectorSize = 0
  BY <1>1, <1>3, Drive, SumOfMultiples
<1> QED
  BY <1>1, <1>3, <1>4 DEF Accepted, isMultiple

\* A refused block ends the call.  A read is refused only beyond the drive.
LEMMA Refusal ==
  ASSUME IInv, Reading \/ Writing, Refused, UNCHANGED <<call, reply>>
  PROVE  IInv'
<1>1. /\ status = "running" /\ (~Accepted \/ position + Block > Capacity)
      /\ UNCHANGED <<data, eof, bad, hDevice, bOpen, filePtr, req, buffer, data_pos, position>>
      /\ status' = IF req.op = "read" THEN "kReadData" ELSE "kWriteData"
  BY DEF Refused, Advance, CallFailed
<1>2. Progress /\ TypeOK /\ bad \in SUBSET Addr /\ reply' = NoReply
  BY DEF Reading, Writing, IInv
<1>3. /\ req.start \in Nat /\ req.size \in Nat /\ data_pos \in Nat
      /\ position \in Nat /\ position = req.start + data_pos
      /\ Block \in Nat /\ data_pos + Block <= req.size
      /\ \A i \in 0 .. data_pos - 1 : buffer[i] = data[req.start + i]
  BY <1>1, <1>2, Running
<1>4. Progress'
  BY <1>1, <1>2, <1>3, Failed
<1>5. TypeOK'
  BY <1>1, <1>2 DEF TypeOK, Results
<1>6. CASE Reading
  <2>1. position + Block > Capacity
    BY <1>1, <1>6, ReadsAccepted
  <2>2. req.start + req.size > Capacity
    BY <1>3, <2>1, Drive
  <2>3. Excused'
    BY <1>1, <2>2 DEF Excused
  <2>4. Reading'
    BY <1>1, <1>4, <1>6, <2>3 DEF Reading, From, Length
  <2> QED
    BY <1>1, <1>2, <1>5, <2>4, NoReplyYet DEF IInv
<1>7. CASE Writing
  <2>1. Writing'
    BY <1>1, <1>4, <1>7 DEF Writing
  <2> QED
    BY <1>1, <1>2, <1>5, <2>1, NoReplyYet DEF IInv
<1> QED
  BY <1>6, <1>7

\* What the call leaves at rest.
LEMMA Returns ==
  ASSUME IInv, EndTransfer, call' = NoCall,
         reply'.ok => reply'.bytes \in [0 .. reply'.call.size - 1 -> Byte]
  PROVE  /\ TypeOK' /\ AtRest' /\ bad' \in SUBSET Addr
         /\ UNCHANGED <<data, bad, hDevice, position>>
<1>1. /\ status' = "idle" /\ req' = NoReq /\ buffer' = NoBuffer /\ data_pos' = 0
      /\ UNCHANGED <<data, eof, bad, hDevice, bOpen, filePtr, position>>
  BY DEF EndTransfer
<1>2. TypeOK /\ bad \in SUBSET Addr
  BY DEF IInv
<1>3. buffer' \in [0 .. req'.size - 1 -> Byte]
  BY <1>1, NoBufferType
<1>4. call' \in [op : {"none", "read", "write"}, at : Nat, size : Nat]
  BY DEF NoCall
<1>5. TypeOK'
  BY <1>1, <1>2, <1>3, <1>4 DEF TypeOK
<1> QED
  BY <1>1, <1>2, <1>5 DEF AtRest

\* What a read answers is right: DiskDevice::ReadData.
LEMMA ReadReturns ==
  ASSUME IInv, ReturnRead
  PROVE  IInv'
<1> DEFINE at == call.at
           n == call.size
<1>1. /\ call.op = "read" /\ EndTransfer /\ status \in Results /\ call' = NoCall
      /\ reply' = IF status # "OK" THEN Answer(FALSE, NoBuffer)
                  ELSE Answer(TRUE, CopiedOut(call.at, call.size))
  BY DEF ReturnRead, EndTransfer
<1>2. Reading
  BY <1>1 DEF IInv, AtRest, Rounded, Writing, NoCall, Results
<1>3. /\ req.start = From(call) /\ req.size = Length(call) /\ Progress
      /\ status \notin {"running", "OK"} => Excused
  BY <1>2 DEF Reading
<1>4. /\ req.start \in Nat /\ req.size \in Nat /\ data_pos \in Nat
      /\ data_pos <= req.size /\ position = req.start + data_pos
      /\ \A i \in 0 .. data_pos - 1 : buffer[i] = data[req.start + i]
      /\ status = "OK" => data_pos = req.size
      /\ at \in Nat /\ n \in Nat
      /\ buffer \in [0 .. req.size - 1 -> Byte]
      /\ bad \in SUBSET Addr
  BY <1>3, Typed DEF Progress, IInv
<1>5. reply'.call = call /\ reply'.ok = (status = "OK")
  BY <1>1 DEF Answer
<1>6. SectorSize \in Nat \ {0} /\ Capacity \in Nat /\ Capacity % SectorSize = 0
  BY Drive
<1>7. CASE status = "OK"
  <2>1. reply'.bytes = [i \in 0 .. n - 1 |-> buffer[(at % SectorSize) + i]]
    BY <1>1, <1>7 DEF Answer, CopiedOut, data_start
  <2>2. /\ at % SectorSize \in Nat
        /\ req.start + (at % SectorSize) = at /\ (at % SectorSize) + n <= req.size
        /\ position = IF Aligned(at, n) THEN at + n ELSE align_offset(at + n) + SectorSize
    <3>1. CASE Aligned(at, n)
      <4>1. req.start = at /\ req.size = n /\ at % SectorSize = 0
        BY <1>3, <3>1 DEF From, Length, Aligned, isMultiple
      <4> QED
        BY <1>4, <1>7, <3>1, <4>1
    <3>2. CASE ~Aligned(at, n)
      <4>1. /\ req.start + (at % SectorSize) = at /\ at % SectorSize \in Nat
            /\ (at % SectorSize) + n < req.size
            /\ req.start + req.size = align_offset(at + n) + SectorSize
        BY <1>3, <1>4, <3>2, UnalignedRange
      <4> QED
        BY <1>4, <1>7, <3>2, <4>1
    <3> QED
      BY <3>1, <3>2
  <2> HIDE DEF at, n
  <2>3. ASSUME NEW i \in 0 .. n - 1
        PROVE  /\ buffer[(at % SectorSize) + i] \in Byte
               /\ buffer[(at % SectorSize) + i] = data[at + i]
    <3> DEFINE j == (at % SectorSize) + i
    <3>1. j \in 0 .. req.size - 1 /\ j \in 0 .. data_pos - 1
      BY <1>4, <1>7, <2>2
    <3>2. req.start + j = at + i
      BY <1>4, <2>2
    <3> HIDE DEF j
    <3>3. buffer[j] \in Byte /\ buffer[j] = data[req.start + j]
      BY <1>4, <3>1
    <3> QED
      BY <3>2, <3>3 DEF j
  <2>4. reply'.bytes \in [0 .. n - 1 -> Byte]
    BY <2>1, <2>3
  <2>5. TypeOK' /\ AtRest' /\ bad' \in SUBSET Addr /\ UNCHANGED <<data, position>>
    BY <1>1, <1>5, <2>4, Returns DEF n
  <2>6. DeliversWhatWasAsked'
    <3>1. \A i \in 0 .. n - 1 : reply'.bytes[i] = data'[at + i]
      BY <2>1, <2>3, <2>5
    <3>2. position' = IF Aligned(at, n) THEN at + n ELSE align_offset(at + n) + SectorSize
      BY <2>2, <2>5
    <3> QED
      BY <1>5, <3>1, <3>2 DEF DeliversWhatWasAsked, at, n
  <2>7. ServedInsideDrive' /\ WrittenOrRefused'
    BY <1>1, <1>5, <1>7 DEF ServedInsideDrive, WrittenOrRefused
  <2> QED
    BY <2>5, <2>6, <2>7 DEF IInv
<1>8. CASE status # "OK"
  <2>1. TypeOK' /\ AtRest' /\ bad' \in SUBSET Addr /\ UNCHANGED <<bad, hDevice>>
    BY <1>1, <1>5, <1>8, Returns
  <2>2. Excused
    BY <1>1, <1>3, <1>8 DEF Results
  <2> HIDE DEF at, n
  <2>3. ASSUME hDevice # "invalid", ParamsValid(n), at + n <= Capacity
        PROVE  \/ (IF Aligned(at, n) THEN Covered(at, at + n)
                   ELSE Covered(align_offset(at), align_offset(at + n) + SectorSize)) \cap bad # {}
               \/ ~Aligned(at, n) /\ at + n = Capacity
    <3>1. CASE Aligned(at, n)
      <4>1. req.start = at /\ req.size = n
        BY <1>3, <3>1 DEF From, Length, at, n
      <4>2. PICK a \in bad : at <= a /\ a < at + n
        BY <1>4, <1>6, <2>2, <2>3, <4>1 DEF Excused
      <4>3. a \in Covered(at, at + n)
        BY <1>4, <4>2 DEF Covered
      <4> QED
        BY <3>1, <4>3
    <3>2. CASE ~Aligned(at, n)
      <4>1. /\ req.start + (at % SectorSize) = at /\ at % SectorSize \in Nat
            /\ (at % SectorSize) + n < req.size
            /\ req.start + req.size = align_offset(at + n) + SectorSize
        BY <1>3, <1>4, <3>2, UnalignedRange DEF at, n
      <4>2. req.start = align_offset(at)
        BY <1>3, <3>2 DEF From, at, n
      <4>3. ParamsValid(req.size)
        BY <1>4, <2>3, <4>1 DEF ParamsValid
      <4>4. CASE req.start + req.size > Capacity
        <5> DEFINE f == align_offset(at + n)
        <5>1. f \in Nat /\ f % SectorSize = 0 /\ f <= at + n
          <6>1. at + n \in Nat
            BY <1>4
          <6> QED
            BY <6>1, SectorStart
        <5>2. f + SectorSize > Capacity
          BY <4>1, <4>4
        <5> HIDE DEF f
        <5>3. ~(f < Capacity)
          <6> SUFFICES ASSUME f < Capacity PROVE FALSE
            OBVIOUS
          <6>1. f + SectorSize <= Capacity
            BY <1>6, <5>1, MultiplesApart
          <6> QED
            BY <1>6, <5>1, <5>2, <6>1
        <5>4. at + n = Capacity
          BY <1>4, <1>6, <2>3, <5>1, <5>3
        <5> QED
          BY <3>2, <5>4
      <4>5. ASSUME NEW a \in bad, req.start <= a, a < req.start + req.size
            PROVE  (IF Aligned(at, n) THEN Covered(at, at + n)
                    ELSE Covered(align_offset(at), align_offset(at + n) + SectorSize)) \cap bad # {}
        <5>1. a \in Covered(align_offset(at), align_offset(at + n) + SectorSize)
          BY <1>4, <4>1, <4>2, <4>5 DEF Covered
        <5> QED
          BY <3>2, <5>1
      <4> QED
        BY <2>2, <2>3, <4>3, <4>4, <4>5 DEF Excused
    <3> QED
      BY <3>1, <3>2
  <2>4. ServedInsideDrive'
    BY <1>5, <2>1, <2>3 DEF ServedInsideDrive, at, n
  <2>5. DeliversWhatWasAsked' /\ WrittenOrRefused'
    BY <1>5, <1>8 DEF DeliversWhatWasAsked, WrittenOrRefused
  <2> QED
    BY <2>1, <2>4, <2>5 DEF IInv
<1> QED
  BY <1>7, <1>8

\* What a write answers is right: DiskDevice::WriteData.
LEMMA WriteReturns ==
  ASSUME IInv, ReturnWrite
  PROVE  IInv'
<1>1. /\ call.op = "write" /\ EndTransfer /\ status \in Results /\ call' = NoCall
      /\ reply' = Answer(status = "OK", buffer)
  BY DEF ReturnWrite, EndTransfer
<1>2. Writing
  BY <1>1 DEF IInv, AtRest, Rounded, Reading, NoCall, Results
<1>3. /\ req.start = call.at /\ req.size = call.size
      /\ \A i \in 0 .. data_pos - 1 : buffer[i] = data[req.start + i]
      /\ isMultiple(data_pos, SectorSize)
      /\ status = "OK" => data_pos = req.size /\ data_pos > 0
      /\ data_pos > 0 => isMultiple(req.start, SectorSize)
      /\ buffer \in [0 .. req.size - 1 -> Byte]
  BY <1>2, Typed DEF Writing, Progress, IInv
<1>4. reply'.call = call /\ reply'.ok = (status = "OK") /\ reply'.bytes = buffer
  BY <1>1 DEF Answer
<1>5. TypeOK' /\ AtRest' /\ bad' \in SUBSET Addr /\ UNCHANGED data
  BY <1>1, <1>3, <1>4, Returns
<1>6. WrittenOrRefused'
  BY <1>3, <1>4, <1>5 DEF WrittenOrRefused, Aligned
<1>7. DeliversWhatWasAsked' /\ ServedInsideDrive'
  BY <1>1, <1>4 DEF DeliversWhatWasAsked, ServedInsideDrive
<1> QED
  BY <1>5, <1>6, <1>7 DEF IInv

-----------------------------------------------------------------------------
(* The theorems                                                            *)

\* Every step of the device preserves the invariant.
LEMMA InvStep == IInv /\ [Next]_vars => IInv'
<1> SUFFICES ASSUME IInv, [Next]_vars PROVE IInv'
  OBVIOUS
<1>1. CASE Open \/ Close \/ \E p \in Offsets : setPosition(p)
  BY <1>1, Control
<1>2. ASSUME NEW n \in Sizes, ReadData(n) PROVE IInv'
  BY <1>2, ReadBegins
<1>3. ASSUME NEW n \in Sizes, NEW b \in [0 .. n - 1 -> {Zero}], WriteData(n, b) PROVE IInv'
  BY <1>3, WriteBegins
<1>4. CASE ReadDataNotAligned
  BY <1>4, ReadGoesOn
<1>5. CASE DriveTransfer
  <2>1. Reading \/ Writing
    BY <1>5 DEF IInv, AtRest, Rounded, DriveTransfer, Refused, Transfer, ReadBlock, WriteBlock
  <2>2. CASE Accepted /\ Transfer /\ isMultiple(data_pos', SectorSize)
    <3>1. CASE ReadBlock
      <4>1. Reading
        BY <2>1, <3>1 DEF ReadBlock, Writing
      <4> QED
        BY <1>5, <2>2, <3>1, <4>1, BlockIsRead DEF DriveTransfer
    <3>2. CASE WriteBlock
      <4>1. Writing
        BY <2>1, <3>2 DEF WriteBlock, Reading
      <4> QED
        BY <1>5, <2>2, <3>2, <4>1, BlockIsWritten DEF DriveTransfer
    <3> QED
      BY <2>2, <3>1, <3>2 DEF Transfer
  <2>3. CASE Refused
    BY <1>5, <2>1, <2>3, Refusal DEF DriveTransfer
  <2> QED
    BY <1>5, <2>2, <2>3 DEF DriveTransfer
<1>6. CASE ReturnRead
  BY <1>6, ReadReturns
<1>7. CASE ReturnWrite
  BY <1>7, WriteReturns
<1>8. CASE UNCHANGED vars
  BY <1>8 DEF vars, engineVars, IInv, TypeOK, AtRest, Rounded, Reading, Writing, Progress,
     Excused, From, Length, DeliversWhatWasAsked, ServedInsideDrive, WrittenOrRefused, Quiet
<1> QED
  BY <1>1, <1>2, <1>3, <1>4, <1>5, <1>6, <1>7, <1>8 DEF Next

\* A read delivers the bytes of the drive at the device's position, leaves the
\* position behind them, asks for whole sectors, and fails only for a reason
\* (DiskDevice::ReadData).
THEOREM ReadsServed == Spec => []ReadsAreRight
<1>1. ASSUME IInv PROVE ReadsAreRight
  <2>1. TypeOK /\ DeliversWhatWasAsked /\ ServedInsideDrive
    BY <1>1 DEF IInv
  <2>2. ReadsWholeSectors
    BY <1>1, ReadsAccepted DEF ReadsWholeSectors, IInv, AtRest, Rounded, Writing
  <2> QED
    BY <2>1, <2>2 DEF ReadsAreRight
<1> QED
  BY <1>1, InitInv, InvStep, PTL DEF Spec

\* A write that returns has put all its bytes in whole sectors at its position;
\* one that is not aligned never does (DiskDevice::WriteData).
THEOREM WritesServed == Spec => []WrittenOrRefused
<1>1. IInv => WrittenOrRefused
  BY DEF IInv
<1> QED
  BY <1>1, InitInv, InvStep, PTL DEF Spec
=============================================================================
