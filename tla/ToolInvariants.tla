--------------------------- MODULE ToolInvariants ---------------------------
(* What the loops of BlockTools and Searches keep at each of their turns, from *)
(* which the properties follow when they end (ConsoleProofs).  DealInv, ClaimInv *)
(* and RepairInv say of the pages read so far what a property says of all, over *)
(* LoopInv; each search has an invariant of its own, over KindInv.               *)
EXTENDS Searches

\* The tools by what a turn of their loops reads.
OnePage == {"splitToFiles", "splitByPages", "splitByPage", "saveOnlyWithID",
            "saveByPageNumber", "createManyExcelFiles", "modify_mft_by_id",
            "SaveImage", "writeImageFiles", "replaceBadMarkerToNulls",
            "replaceBadsFromOtherFile", "xorWithBlock"}
OfAFolder == {"SaveImage", "writeImageFiles"}
OfTwo == {"replaceBadsFromOtherFile", "yaffsPageNumberModify", "xor_files", "xorWithBlock"}

\* A loop stays in its file and leaves it only where no more can be read, or at
\* what is no number; the files that splitToFiles writes to are open while it
\* runs.
NoHeaderNumber == k + 3 <= Len(Pages) /\ page.good /\ page.id = NoNumber
LoopInv ==
  /\ job \in Jobs /\ file \in DOMAIN job.files /\ k \in Nat
  /\ status \in {"opening", "running", "done", "thrown"}
  /\ DOMAIN out = 0 .. MaxTargets - 1
  /\ job.tool \notin OfAFolder => file = 1
  /\ status = "opening" =>
       job.tool = "splitToFiles" /\ \A t \in DOMAIN out : out[t] = <<>>
  /\ status # "opening" =>
       /\ k <= Len(Pages)
       /\ job.tool = "splitToFiles" => 0 .. MaxFiles - 1 \subseteq open
  /\ Ended =>
       /\ job.tool \in OnePage /\ ~ NoPlace => k = Len(Pages)
       /\ job.tool = "saveXVA" /\ ~ NoHeaderNumber => k + 3 > Len(Pages)
       /\ job.tool = "yaffsPageNumberModify" => k + Block > Len(Pages) \/ k + Block > Len(Source(2))
       /\ job.tool = "xor_files" => k = Len(Pages) \/ k >= Len(Source(2))

\* The cells that have been read.
ReadSoFar == (UNION {{f} \X Numbers(f) : f \in 1 .. file - 1}) \cup ({file} \X First(k))

\* The last of the cells read so far that claims a place has it; imageMap_ has the
\* ids whose good page was seen; no block of saveXVA ends behind the loop.
ClaimInv ==
  /\ job.tool = "modify_mft_by_id" /\ NoProductWraps => EntriesPlaced(ReadSoFar)
  /\ job.tool = "SaveImage" =>
       /\ ImagePlaced(ReadSoFar)
       /\ memo \in Seq(Nat)
       /\ {memo[i] : i \in DOMAIN memo} = {At(c).id : c \in {c \in ReadSoFar : At(c).id < ImagePages /\ At(c).good}}
  /\ job.tool = "writeImageFiles" => FilesPlaced(ReadSoFar)
  /\ job.tool = "saveXVA" /\ WholeBlocks =>
       /\ BlocksPlaced(ReadSoFar)
       /\ \A i \in First(k) : At(<<1, i>>).id # NoId => i + 3 <= k

\* The number of the last page that saveByPageNumber has taken.
TakenUpTo(n) == IF n = 0 THEN IdAt(0) ELSE (IdAt(0) + n) % DWord

\* The targets have what they should of the pages that have been read.
DealInv ==
  status # "opening" =>
    /\ job.tool = "splitToFiles" => Dealt(k)
    /\ job.tool = "splitByPages" => DealtInTurn(k)
    /\ job.tool = "splitByPage" => Doubled(k)
    /\ job.tool = "saveOnlyWithID" => Selected(k)
    /\ job.tool = "saveByPageNumber" =>
         Followed(k) /\ IsFiniteSet(DOMAIN out[0]) /\ memo = IF k = 0 THEN <<>> ELSE <<TakenUpTo(Taken)>>
    /\ job.tool = "createManyExcelFiles" =>
         Foldered(k) /\ IsFiniteSet(FilesMade) /\ Cardinality(FilesMade) = Cardinality(GoodPages(k))
    /\ job.tool = "replaceBadMarkerToNulls" => Nulled(k)

-----------------------------------------------------------------------------
\* What xorWithBlock has written, and what its buffer holds.
BlockCombined ==
  /\ CombinedWithBlock(k)
  /\ k < Len(Source(1)) =>
       /\ k % Block = 0 /\ DOMAIN out[0] = First(k)
       /\ k > 0 => memo # <<>> /\ k >= Block /\ \A i \in First(Block) : memo[i + 1] = out[0][k - Block + i]

\* The records fixDBF has kept, and what it writes of them into the header.
Fixed ==
  /\ FileSize <= DWord => Lists(out[0], GoodPages(k))
  /\ k <= FollowedRecords \/ k = 0
  /\ Ended =>
       /\ GoodPages(k) = GoodPages(FollowedRecords)
       /\ GoodPages(k) # {} /\ FileSize < DWord =>
            memo = <<Cardinality(GoodPages(k)), HeaderSize + Cardinality(GoodPages(k)) * RecordSize + 1>>

\* What the repairing tools have left of the pages read so far.
RepairInv ==
  /\ job.tool = "replaceBadsFromOtherFile" => Repaired(k)
  /\ job.tool = "yaffsPageNumberModify" => MarkersAgree(k) /\ LargestOnly(k) /\ k % Block = 0
  /\ job.tool = "xor_files" => Combined(k) /\ k <= Len(Source(2))
  /\ job.tool = "xorWithBlock" => BlockCombined
  /\ job.tool = "fixDBF" => Fixed

-----------------------------------------------------------------------------
\* A job is a search's or another tool's, for all of its run.
KindInv ==
  \/ job \in Searched /\ status \in {"searching", "done", "thrown"}
  \/ job \in Jobs /\ status \in {"opening", "running", "done", "thrown"}

\* A circular search has found nothing until it ends, with the first match.
CircleInv ==
  job \in Searched /\ job.tool = "searchCircle" =>
    /\ file = 1 /\ DOMAIN out = 0 .. MaxTargets - 1
    /\ status = "searching" => out[0] = <<>>
    /\ status = "done" /\ (job.at[3] - job.at[1]) % Grid = 0 => FirstMatch

\* A file that has been closed since an extent of its depth was noted has been
\* closed by a deeper one.
ClosedFile(d) == \A x \in OfDepth(k, d) : \E y \in Extents(k) : x < y /\ Deepens(y)

\* Each extent found so far has its line in the file of its depth, or that file was
\* closed and made anew by a deeper one.
DepthInv ==
  job \in Searched /\ job.tool = "searchExtents" =>
    /\ file = 1 /\ DOMAIN out = 0 .. MaxTargets - 1
    /\ k \in Nat /\ job.at[1] <= k /\ (k - job.at[1]) % Grid = 0
    /\ memo \in Seq(Nat)
    /\ \A d \in 0 .. MaxDepth :
         /\ d + 1 \in DOMAIN memo => memo[d + 1] = Cardinality(OfDepth(k, d))
         /\ d + 1 \notin DOMAIN memo => OfDepth(k, d) = {}
         /\ d \notin open => ClosedFile(d)
    /\ \A x \in Extents(k) : Id(x) < Len(memo)
    /\ Len(memo) > 0 => \E x \in Extents(k) : Id(x) = Len(memo) - 1
    /\ DepthsNoted(k)
    /\ status = "done" => DepthsNoted(Len(Pages))

\* The pieces so far lie between neighbouring markers.
PieceInv ==
  job \in Searched /\ job.tool = "saveToFile" =>
    /\ file = 1 /\ DOMAIN out = 0 .. MaxTargets - 1
    /\ Size0 \in Nat /\ DOMAIN out[0] = First(Size0)
    /\ memo = <<>> => Size0 = 0
    /\ memo # <<>> => memo[1] \in Nat
    /\ Size0 > 0 => memo[1] = out[0][Size0 - 1][2] + MarkData
    /\ PiecesBetween
    /\ status = "done" /\ Size0 > 0 => NoneBehind(out[0][Size0 - 1][2] + MarkData)

\* Each place has the last extent so far that the inode's list puts there.
InodeInv ==
  job \in Searched /\ job.tool = "saveByVxFSInode" =>
    /\ file = 1 /\ DOMAIN out = 0 .. MaxTargets - 1
    /\ k \in 0 .. Len(Source(2)) /\ FromInode(k)
    /\ status = "done" => k = Len(Source(2))

\* The places that four of the searches note.
NotedInv == CircleInv /\ DepthInv /\ PieceInv /\ InodeInv

\* The files tested so far are renamed and named as the property says of all.
TestInv ==
  job \in Searched /\ job.tool = "testSigantures" =>
    /\ file = 1 /\ DOMAIN out = 0 .. MaxTargets - 1
    /\ Size0 \in Nat /\ DOMAIN out[0] = First(Size0)
    /\ k \in 0 .. Len(Pages)
    /\ memo \in Seq({job.at[i] : i \in DOMAIN job.at})
    /\ Tested(k)
    /\ \A i \in Unsigned : i > k
    /\ status = "thrown" => k + 1 \in Unsigned
    /\ status = "done" => k = Len(Pages)

\* The chunks done so far have the most frequent byte at each place of the key.
KeyInv ==
  job \in Searched /\ job.tool = "Analize" =>
    /\ DOMAIN out = 0 .. MaxTargets - 1
    /\ file \in 1 .. Chunks + 1
    /\ KeyIs(0 .. (IF file <= Chunks THEN chunk_size * (file - 1) ELSE XorSize) - 1)
    /\ status = "searching" => file <= Chunks
    /\ status = "done" => file = Chunks + 1

\* The verdicts of the two.
VerdictInv == KeyInv /\ TestInv

\* What is copied so far is a chain, and what is left of the list all the rest.
Copied == {out[0][x][3] : x \in DOMAIN out[0]}

ChainInv ==
  job \in Searched /\ job.tool = "searchExtends" =>
    /\ file = 1 /\ DOMAIN out = 0 .. MaxTargets - 1
    /\ Size0 \in Nat /\ DOMAIN out[0] = First(Size0)
    /\ Chained
    /\ memo = <<>> => Size0 = 0
    /\ memo # <<>> =>
         /\ memo[1] = {i \in 2 .. Len(job.at) : job.at[i] \notin Copied}
         /\ Size0 = 0 => memo[2] = 0 /\ memo[3] = job.at[1]
         /\ Size0 > 0 /\ status = "searching" =>
              /\ memo[2] = out[0][Size0 - 1][1] + out[0][Size0 - 1][2] /\ out[0][Size0 - 1][2] # 0
              /\ memo[3] \in InTheList \ Copied /\ Starts(memo[3]) = memo[2]
    /\ status = "done" => NoneGoesOn

\* No place lies in front of the loop, and the parts done are found exactly.
PartInv ==
  job \in Searched /\ job.tool = "findFilesWithOffsets" =>
    /\ DOMAIN out = 0 .. MaxTargets - 1 /\ Size0 \in Nat /\ DOMAIN out[0] = First(Size0)
    /\ file \in 1 .. PartCount + 1
    /\ \A c \in Cells : c[1] \in 1 .. file - 1
    /\ \A f \in 1 .. file - 1 : PartFound(f)
    /\ k \in 0 .. Len(Pages) /\ (k % Block = 0 \/ k = Len(Pages))
    /\ \A p \in Places(file) : p >= k
    /\ status = "done" => file = PartCount + 1

\* The pages in front of n that lie in a full block and have one of the ids.
PagesWith(n, ids) == {x \in InFullBlock : x < n /\ Id(x) \in ids}

\* The indexes and media data in front of the loop, then the pairs compared so far.
PairInv ==
  job \in Searched /\ job.tool = "saveQtFragment" =>
    /\ file = 1
    /\ DOMAIN out = 0 .. MaxTargets - 1 /\ Size0 \in Nat /\ DOMAIN out[0] = First(Size0)
    /\ k \in 0 .. Len(Pages) /\ (k % Block = 0 \/ k = Len(Pages))
    /\ Noted(1) = PagesWith(k, {1}) /\ Noted(2) = PagesWith(k, {2, 3})
    /\ Noted(3) \subseteq Pairs /\ (k < Len(Pages) => Noted(3) = {})
    /\ \A p \in Noted(3) : Throwing(p[1], p[2]) = {}
    /\ Cells = {p \in Noted(3) : isContinue(p[1], p[2])}
    /\ IsFiniteSet(Cells) /\ Cardinality(Cells) = Size0
    /\ status = "done" => k = Len(Pages) /\ Pairs = Noted(3)

\* The three that put things together.
FollowInv == ChainInv /\ PartInv /\ PairInv

\* A tool that goes through blocks keeps its invariants beside the searches.
BlockToolInv == job \in Jobs => LoopInv /\ DealInv /\ ClaimInv /\ RepairInv
=============================================================================
