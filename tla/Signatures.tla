----------------------------- MODULE Signatures -----------------------------
(***************************************************************************)
(* libjsonreader and FileStruct, HeaderBase, RawFactoryManager of libraw:  *)
(* from the signature files to the algorithm for a header.  The formats of *)
(* the files become FileStructs, one header after the other; a block of    *)
(* the device belongs to the first format all of whose headers it has; the *)
(* name of its algorithm is looked up among the registered ones.           *)
(*                                                                         *)
(* Texts are sequences of bytes.  Hexadecimal digits are given as the      *)
(* bytes they stand for, and whether their number is odd.                  *)
(***************************************************************************)
EXTENDS BlockCopy, SequencesExt

CONSTANTS
  Byte,         \* the bytes that texts and blocks are made of
  Registered,   \* names in the RawFactoryManager
  Images        \* signature files and a device each

\* An entry of the array "header": not an object, an object without text, or one
\* with a text or digits, and an offset (0 when it is missing).
EntryKind == {"no object", "no text", "textdata", "hexdata"}
Entry == [kind : EntryKind, bytes : Seq(Byte), odd : BOOLEAN, offset : Nat]

ASSUME SignaturesAssumption ==
  \A image \in Images :
    /\ image.start \in Cell
    /\ image.formats \in Seq([algorithm : STRING, header : Seq(Entry)])
    /\ image.block \in Seq(Byte)

VARIABLES
  source,      \* the signature files and the device
  pc,          \* where the program is, or how it ended
  next,        \* <<format, entry>> of the files that is read next
  headers,     \* headers_ of the format being read
  base,        \* listHeaders_: the formats read
  algorithm    \* the algorithm of the format found

sigVars == <<source, pc, next, headers, base, algorithm>>

SigInit ==
  /\ source \in Images
  /\ pc = "load"
  /\ next = <<1, 1>>
  /\ headers = <<>>
  /\ base = <<>>
  /\ algorithm = "none"

-----------------------------------------------------------------------------

\* JsonToDataArray.  An odd number of digits yields no byte at all.
JsonToDataArray(entry) ==
  IF entry.kind = "hexdata" /\ entry.odd THEN <<>> ELSE entry.bytes

\* SignatureOffset::findSignature.  What is not there to be compared is behind
\* the data, and may or may not be equal.
Agrees(signature, data, offset) ==
  /\ Len(data) >= Len(signature)
  /\ \A i \in DOMAIN signature : offset + i <= Len(data) => data[offset + i] = signature[i]
Overruns(signature, data, offset) == offset + Len(signature) > Len(data)
MayFind(header, data) ==
  {\E k \in DOMAIN header.signatures :
     /\ Agrees(header.signatures[k], data, header.offset)
     /\ ~Overruns(header.signatures[k], data, header.offset) \/ behind :
   behind \in BOOLEAN}

\* addHeader.  A signature is taken for known when one that is there is found in
\* it, at the offset in it that is the offset in the file.  No signature, no
\* bytes: but the offset is kept.
Signature(bytes) == IF bytes = <<>> THEN <<>> ELSE <<bytes>>
AddHeader(bytes, offset) ==
  LET same == SelectInSeq(headers, LAMBDA h : h.offset = offset)
  IN IF same = 0
     THEN headers' = Append(headers, [offset |-> offset, signatures |-> Signature(bytes)])
     ELSE \E known \in MayFind(headers[same], bytes) :
            headers' = IF known THEN headers
                       ELSE [headers EXCEPT ![same].signatures = @ \o Signature(bytes)]

\* ReadHadersOffset and toRAWFileStruct, one header.  An object without a text
\* ends the array.
format == source.formats[next[1]]
ReadEntry ==
  /\ pc = "load"
  /\ next[1] \in DOMAIN source.formats /\ next[2] \in DOMAIN format.header
  /\ LET entry == format.header[next[2]]
     IN /\ next' = <<next[1], IF entry.kind = "no text" THEN Len(format.header) + 1
                              ELSE next[2] + 1>>
        /\ IF entry.kind \in {"no text", "no object"} THEN UNCHANGED headers
           ELSE AddHeader(JsonToDataArray(entry), entry.offset)
  /\ UNCHANGED <<source, pc, base, algorithm>>

AddFileFormat ==
  /\ pc = "load"
  /\ next[1] \in DOMAIN source.formats /\ next[2] \notin DOMAIN format.header
  /\ base' = Append(base, [algorithm |-> format.algorithm, headers |-> headers])
  /\ headers' = <<>>
  /\ next' = <<next[1] + 1, 1>>
  /\ UNCHANGED <<source, pc, algorithm>>

\* HeaderBase::find: every header of the format, by one of its signatures.
IsAt(signature, offset) ==
  \A i \in DOMAIN signature : source.block[offset + i] = signature[i]
findSignature(header) ==
  \E k \in DOMAIN header.signatures : IsAt(header.signatures[k], header.offset)
compareWithAnyHeader(file_struct) ==
  \E k \in DOMAIN file_struct.headers : findSignature(file_struct.headers[k])
compareWithAllHeaders(file_struct) ==
  \A k \in DOMAIN file_struct.headers : findSignature(file_struct.headers[k])

\* The algorithm is that of the factory, or StandartRaw.
Find ==
  /\ pc = "load" /\ next[1] \notin DOMAIN source.formats
  /\ LET found == SelectInSeq(base, compareWithAllHeaders)
     IN /\ algorithm' = IF found = 0 THEN "none" ELSE base[found].algorithm
        /\ pc' = IF found = 0 THEN "no header"
                 ELSE IF base[found].algorithm \in Registered THEN "specify" ELSE "standard"
  /\ UNCHANGED <<source, next, headers, base>>

SigNext == ReadEntry \/ AddFileFormat \/ Find

-----------------------------------------------------------------------------
(* Properties                                                              *)

\* What a signature file says is what is recognised: a block that has, for each
\* offset of a format, one of the texts given for it.  A format is missed only
\* where a second text is given for an offset other than 0, which may be taken
\* for known (filestruct.h:138), or where a header has no bytes, which no block
\* has.  A block is never taken for a file of a format without one of its texts.
Given(k) == source.formats[k].header
Texts(k) ==
  {i \in DOMAIN Given(k) :
     Given(k)[i].kind # "no object" /\ \A j \in 1 .. i : Given(k)[j].kind # "no text"}
Listed(k) ==
  \A i \in Texts(k) : \E j \in Texts(k) :
    LET e == Given(k)[j]
    IN e.offset = Given(k)[i].offset /\ JsonToDataArray(e) # <<>> /\ IsAt(e.bytes, e.offset)
Doubtful(k) ==
  \E i, j \in Texts(k) :
    i < j /\ Given(k)[i].offset = Given(k)[j].offset /\ Given(k)[j].offset # 0
HeadersRecognised ==
  \A k \in DOMAIN base :
    LET found == compareWithAllHeaders(base[k])
    IN /\ found => Listed(k)
       /\ Listed(k) /\ ~Doubtful(k) => found
=============================================================================
