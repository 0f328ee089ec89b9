----------------------------- MODULE BlockTools -----------------------------
(* consoleapp: the tools that go through a dump page by page and build an     *)
(* image from it: fix_dbf, ReplaceBads, FleshCollector, FileOffsetWriter and   *)
(* XorAnalyzer.  A main calls one of them and names the others in comments.     *)
(*                                                                               *)
(* A page has an id (a page number, a marker, an entry's or a block's number)     *)
(* and is good or not (has its signature, is not marked unreadable); what else    *)
(* it holds is named by its place, <<file, number>>.  Most tools read whole       *)
(* pages: an incomplete one at the end of a dump makes ReadData throw.            *)
EXTENDS Integers, Sequences, FiniteSets, FiniteSetsExt

CONSTANTS
    Jobs,        \* runs: [tool, files (sequences of pages), at, tail]
    MaxFiles,    \* splitToFiles: target files
    Wanted,      \* saveOnlyWithID: idToCMP
    ImagePages,  \* FleshCollector: maxImageSize_, in pages
    EntrySize, DWord,   \* modify_mft_by_id: an entry's size, and 2^32
    Block,       \* pages (or sectors) in a block that is read at once
    ModCount,    \* createManyExcelFiles: files in a folder
    DataBlocks,  \* saveXVA: blocks of the target
    RecordSize, HeaderSize,  \* fixDBF: of a record and of the header, in bytes
    MaxTargets   \* bound: files or folders that a tool writes to

NoId == 99         \* a marker of FF bytes; a name that has no number
NoNumber == 98     \* a name in whose place for a number stoll or substr throws
Nulls == <<0, 0>>

ASSUME BlockToolsAssumption ==
    /\ {MaxFiles, ImagePages, EntrySize, DWord, Block, ModCount, DataBlocks,
        RecordSize, HeaderSize, MaxTargets} \subseteq Nat \ {0}
    /\ EntrySize > 1 /\ DWord % EntrySize = 0
    /\ Wanted \in Nat /\ DataBlocks <= NoNumber
    /\ MaxFiles <= MaxTargets /\ 3 <= MaxTargets

\* What a main passes on: files of pages, the second file of the tools that
\* compare two, a place for each file where places come from names.  A table has
\* fewer than 2^32 records: fixDBF counts its turns in 32 bits.
ASSUME JobsAssumption ==
    \A j \in Jobs :
        /\ j.files \in Seq(Seq([id : Nat, good : BOOLEAN])) /\ j.files # <<>>
        /\ j.tail \in BOOLEAN
        /\ j.tool \in {"replaceBadsFromOtherFile", "yaffsPageNumberModify", "xor_files",
                        "xorWithBlock"} => Len(j.files) = 2
        /\ j.tool = "xorWithBlock" => j.files[2] # <<>>
        /\ j.tool = "writeImageFiles" => j.at \in Seq(Nat) /\ Len(j.at) = Len(j.files)
        /\ j.tool = "createManyExcelFiles" => Len(j.files[1]) <= MaxTargets * ModCount
        /\ j.tool = "fixDBF" => Len(j.files[1]) < DWord

VARIABLES
    job,
    open,      \* splitToFiles: files of the vector whose engine is open
    file, k,   \* the source file and the page the loop is at
    out,       \* target -> position -> the page that lies there
    memo,      \* what the loop remembers from turn to turn
    status     \* opening, running, done, thrown

toolVars == <<job, open, file, k, out, memo, status>>

BlockInit ==
    /\ job \in Jobs
    /\ open = {}
    /\ file = 1 /\ k = 0
    /\ out = [t \in 0 .. MaxTargets - 1 |-> << >>]
    /\ memo = <<>>
    /\ status = IF job.tool = "splitToFiles" THEN "opening" ELSE "running"

Source(f) == job.files[f]
Pages == Source(file)
page == Pages[k + 1]
here == <<file, k>>

Put(o, t, position, cell) ==
    [o EXCEPT ![t] = [x \in DOMAIN o[t] \cup {position} |->
                        IF x = position THEN cell ELSE o[t][x]]]
Add(o, t, cell) == Put(o, t, Cardinality(DOMAIN o[t]), cell)
PutAll(o, t, from, cells) ==
    [o EXCEPT ![t] = [x \in DOMAIN o[t] \cup (from .. from + Len(cells) - 1) |->
                        IF x - from + 1 \in DOMAIN cells THEN cells[x - from + 1] ELSE o[t][x]]]

\* One turn of a loop that reads n pages at once.
Runs(tool) == status = "running" /\ job.tool = tool
More == k < Len(Pages) \/ (k = Len(Pages) /\ job.tail)
Whole(n) == k + n <= Len(Pages)
Turn(tool, n, o, m) ==
    /\ Runs(tool) /\ k < Len(Pages) /\ Whole(n)
    /\ out' = o /\ memo' = m /\ k' = k + n
    /\ UNCHANGED <<job, open, file, status>>

\* Pages the tools read at once.
Step == CASE job.tool = "yaffsPageNumberModify" -> Block
          [] job.tool = "saveXVA" -> 3
          [] OTHER -> 1

\* Reads must be filled, a file that is written to must be open, and a file's
\* name must give a place.
MayGoOn ==
    /\ Whole(Step)
    /\ job.tool = "writeImageFiles" => job.at[file] # NoNumber
    /\ job.tool = "yaffsPageNumberModify" => k + Block <= Len(Source(2))
    /\ job.tool = "splitToFiles" /\ page.id < MaxFiles => page.id \in open

NoPlace == job.tool = "writeImageFiles" /\ job.at[file] = NoNumber
EndsByException ==
    /\ status = "running" /\ (More \/ NoPlace) /\ ~ MayGoOn
    /\ status' = "thrown"
    /\ UNCHANGED <<job, open, file, k, out, memo>>

\* FleshCollector and FileOffsetWriter go on with the next file of a folder.
LoopEnds ==
    /\ status = "running" /\ ~ More /\ ~ NoPlace
    /\ IF job.tool \in {"SaveImage", "writeImageFiles"} /\ file < Len(job.files)
         THEN file' = file + 1 /\ k' = 0 /\ status' = status
         ELSE status' = "done" /\ UNCHANGED <<file, k>>
    /\ UNCHANGED <<job, open, out, memo>>

-----------------------------------------------------------------------------
\* Pages dealt out to files

\* The files get into a vector: a copy shares the engine of the temporary it
\* is made from, whose destructor closes it, as the vector's growth closes the
\* engines of all that are moved.  They are opened when all are there.
AfterDestructor(S, n) == S \ (0 .. n)
KeepsOpen(S) == S
OpensAll(S) == S \cup 0 .. MaxFiles - 1

EmplaceFile ==
    /\ status = "opening" /\ k < MaxFiles
    /\ open' = AfterDestructor(open, k) /\ k' = k + 1
    /\ UNCHANGED <<job, file, out, memo, status>>

OpenFiles ==
    /\ status = "opening" /\ k = MaxFiles
    /\ open' = OpensAll(open)
    /\ k' = 0 /\ status' = "running"
    /\ UNCHANGED <<job, file, out, memo>>

splitToFiles ==
    /\ Runs("splitToFiles") /\ MayGoOn
    /\ Turn("splitToFiles", 1,
            IF page.id < MaxFiles THEN Add(out, page.id, here) ELSE out, memo)

splitByPages == Turn("splitByPages", 1, Add(out, k % 3, here), memo)

splitByPage == Turn("splitByPage", 1, Add(Add(out, 0, here), 1, here), memo)

saveOnlyWithID ==
    Turn("saveOnlyWithID", 1, IF page.id = Wanted THEN Add(out, 0, here) ELSE out, memo)

\* The first page only gives the number to go on from, which has 32 bits.
saveByPageNumber ==
    LET follows == memo # <<>> /\ page.id = (memo[1] + 1) % DWord
    IN  Turn("saveByPageNumber", 1,
             IF follows THEN Add(out, 0, here) ELSE out,
             IF follows \/ memo = <<>> THEN <<page.id>> ELSE memo)

\* Every ModCount-th file begins a folder; empty clusters make no file.
FilesMade == UNION {{t} \X DOMAIN out[t] : t \in DOMAIN out}
createManyExcelFiles ==
    Turn("createManyExcelFiles", 1,
         IF page.good THEN Add(out, Cardinality(FilesMade) \div ModCount, here) ELSE out, memo)

-----------------------------------------------------------------------------
\* Pages put where their number says

\* modify_mft_by_id, with 32-bit products.
IdPosition(id) == ((id * EntrySize) % DWord) \div EntrySize
modify_mft_by_id ==
    Turn("modify_mft_by_id", 1,
         IF page.good /\ (page.id * 2) % DWord < Len(Pages) * EntrySize
           THEN Put(out, 0, IdPosition(page.id), here) ELSE out,
         memo)

\* FleshCollector::SaveImage; memo is imageMap_.
AlwaysWrites(id, good) == TRUE
WritesImage(id, good) == good \/ \A i \in DOMAIN memo : memo[i] # id
SaveImage ==
    Turn("SaveImage", 1,
         IF page.id < ImagePages /\ WritesImage(page.id, page.good)
           THEN Put(out, 0, page.id, here) ELSE out,
         IF page.id < ImagePages /\ page.good THEN Append(memo, page.id) ELSE memo)

\* FileOffsetWriter: the number in a file's name is its place.  Where something
\* else is behind the name's first letters that is 0; where nothing is, it throws.
fileNameToOffset(f) == IF job.at[f] = NoId THEN 0 ELSE job.at[f]
writeImageFiles ==
    /\ ~ NoPlace
    /\ Turn("writeImageFiles", 1, Put(out, 0, fileNameToOffset(file) + k, here), memo)

\* A block is a header, the data and an end.  At something else the tool looks
\* for a header on the sectors it has read, and goes on from there.  A header
\* without a number ends the program.
HeaderIn(i) == Pages[k + i + 1].id # NoId
Resync == {i \in 1 .. 2 : HeaderIn(i)}
AfterChunk == IF Resync = {} THEN 3 ELSE Min(Resync)
saveXVA ==
    /\ Runs("saveXVA") /\ Whole(3)
    /\ \/ /\ page.good /\ page.id = NoId
          /\ Turn("saveXVA", AfterChunk, out, memo)
       \/ /\ page.good /\ page.id = NoNumber
          /\ status' = "thrown"
          /\ UNCHANGED <<job, open, file, k, out, memo>>
       \/ /\ ~ page.good \/ page.id \notin {NoId, NoNumber}
          /\ Turn("saveXVA", 3,
                  IF page.good /\ page.id < DataBlocks THEN Put(out, 0, page.id, <<file, k + 1>>) ELSE out,
                  memo)

-----------------------------------------------------------------------------
\* Pages replaced

replaceBadMarkerToNulls ==
    Turn("replaceBadMarkerToNulls", 1, Add(out, 0, IF page.good THEN here ELSE Nulls), memo)

\* replaceBadsFromOtherFile reads blocks from both files; the other one may be
\* shorter.
Clipped(f) == Min({Block, Len(Source(f)) - k})
AllRead == Clipped(1)
cmp_bytes == IF k < Len(Source(2)) THEN Min({Clipped(1), Clipped(2)}) ELSE 0
Replaced(i) == IF i < cmp_bytes /\ ~ Pages[k + i + 1].good THEN <<2, k + i>> ELSE <<1, k + i>>
replaceBadsFromOtherFile ==
    Turn("replaceBadsFromOtherFile", Clipped(1),
         PutAll(out, 0, Cardinality(DOMAIN out[0]), [i \in 1 .. Clipped(1) |-> Replaced(i - 1)]),
         memo)

\* calcPopularValue counts from 0 and never raises the count to beat: the
\* largest id that is there twice.  (The blocks before a start offset are copied
\* as they are.)
Twice == {id \in {Pages[k + i].id : i \in 1 .. Block} \ {NoId} :
            Cardinality({i \in 1 .. Block : Pages[k + i].id = id}) > 1}
calcPopularValue == IF Twice = {} THEN 0 ELSE Max(Twice)
FromNext(i) == Pages[k + i + 1].id # calcPopularValue /\ Source(2)[k + i + 1].id = calcPopularValue
yaffsPageNumberModify ==
    /\ Runs("yaffsPageNumberModify") /\ MayGoOn
    /\ Turn("yaffsPageNumberModify", Block,
            PutAll(out, 0, k, [i \in 1 .. Block |-> <<IF FromNext(i - 1) THEN 2 ELSE 1, k + i - 1>>]),
            memo)

-----------------------------------------------------------------------------
\* XOR: a cell of the target is the set of cells that are combined in it.

\* xor_files, as far as the shorter file goes.
xor_files ==
    /\ Runs("xor_files")
    /\ \/ /\ k < Len(Source(2))
          /\ Turn("xor_files", 1, Add(out, 0, {here, <<2, k>>}), memo)
       \/ /\ k >= Len(Source(2)) /\ k < Len(Pages)
          /\ status' = "done"
          /\ UNCHANGED <<job, open, file, k, out, memo>>

\* xorWithBlock writes a whole buffer each time: behind a clipped last block
\* lies what the buffer held before (memo).
XorCell(i, n, m) == IF i < n THEN {<<1, k + i>>, <<2, i % Len(Source(2))>>} ELSE m[i + 1]
xorWithBlock ==
    LET n == Clipped(1)
        old == IF memo = <<>> THEN [i \in 1 .. Block |-> {}] ELSE memo
        new == [i \in 1 .. Block |-> XorCell(i - 1, n, old)]
    IN  Turn("xorWithBlock", n, PutAll(out, 0, k, new), new)

-----------------------------------------------------------------------------
\* fixDBF keeps the records without a zero byte and counts them anew, with
\* 32-bit numbers.  A page is a record, and tail says that something follows.
\* Its offsets have 32 bits, too: in a larger table they begin again in front,
\* where what is read may be parts of two records.  The number of turns, of 64
\* bits, ends the loop; out[0] is what is written, in that order.
FileSize == HeaderSize + Len(Pages) * RecordSize + (IF job.tail THEN 1 ELSE 0)
record_offset(n) == (HeaderSize + n * RecordSize) % DWord
Mixed == <<0, 1>>
RecordsAt(place) ==
    LET there == {i \in 0 .. Len(Pages) - 1 : HeaderSize + i * RecordSize = place}
    IN  IF there # {} THEN {[cell |-> <<1, i>>, nulls |-> ~ Pages[i + 1].good] : i \in there}
                      ELSE {[cell |-> Mixed, nulls |-> b] : b \in BOOLEAN}
CountFrom(size) == (((size - HeaderSize - 1) % DWord) \div RecordSize + 1) % DWord
tmp_size == Max({HeaderSize} \cup {record_offset(n) + RecordSize : n \in DOMAIN out[0]})
fixDBF ==
    /\ Runs("fixDBF")
    /\ \/ /\ HeaderSize + (k + 1) * RecordSize < FileSize
          /\ \E record \in RecordsAt(record_offset(k)) :
               out' = IF record.nulls THEN out ELSE Add(out, 0, record.cell)
          /\ k' = k + 1
          /\ UNCHANGED <<memo, status>>
       \/ /\ ~ (HeaderSize + (k + 1) * RecordSize < FileSize)
          /\ LET numRecords == CountFrom(tmp_size)
             IN  memo' = <<numRecords, (HeaderSize + numRecords * RecordSize + 1) % DWord>>
          /\ status' = "done"
          /\ UNCHANGED <<out, k>>
    /\ UNCHANGED <<job, open, file>>

BlockNext ==
    \/ EmplaceFile \/ OpenFiles \/ splitToFiles
    \/ splitByPages \/ splitByPage \/ saveOnlyWithID \/ saveByPageNumber
    \/ createManyExcelFiles
    \/ modify_mft_by_id \/ SaveImage \/ writeImageFiles \/ saveXVA
    \/ replaceBadMarkerToNulls \/ replaceBadsFromOtherFile \/ yaffsPageNumberModify
    \/ xor_files \/ xorWithBlock
    \/ fixDBF
    \/ job.tool # "fixDBF" /\ (EndsByException \/ LoopEnds)

BlockSpec == BlockInit /\ [][BlockNext]_toolVars

-----------------------------------------------------------------------------
\* Properties, of what there is when a tool ends.  Each is made of operators
\* that say it of the pages or cells that have been read.

Ended == status \in {"done", "thrown"}
Is(tool) == Ended /\ job.tool = tool
Numbers(f) == 0 .. Len(Source(f)) - 1
At(cell) == Source(cell[1])[cell[2] + 1]
Read == UNION {{f} \X Numbers(f) : f \in 1 .. file}
First(n) == 0 .. n - 1

\* The pages of the first file with the numbers S, as a target has them: each
\* once, and in their order.
Lists(list, S) ==
    /\ DOMAIN list = First(Cardinality(S))
    /\ {list[x] : x \in DOMAIN list} = {<<1, i>> : i \in S}
    /\ \A x, y \in DOMAIN list : x < y => list[x][2] < list[y][2]

Dealt(n) == \A t \in 0 .. MaxFiles - 1 : Lists(out[t], {i \in First(n) : At(<<1, i>>).id = t})
DealtInTurn(n) == \A t \in 0 .. 2 : Lists(out[t], {i \in First(n) : i % 3 = t})
Doubled(n) == \A t \in 0 .. 1 : Lists(out[t], First(n))
Selected(n) == Lists(out[0], {i \in First(n) : At(<<1, i>>).id = Wanted})

\* A page is taken if its number follows on, in 32 bits, and none is missed that
\* does.
IdAt(i) == At(<<1, i>>).id
Taken == Cardinality(DOMAIN out[0])
LastTaken == IF Taken = 0 THEN 0 ELSE out[0][Taken - 1][2]
Followed(n) ==
    /\ DOMAIN out[0] = First(Taken)
    /\ \A x \in DOMAIN out[0] :
         \E i \in First(n) : out[0][x] = <<1, i>> /\ IdAt(i) = (IdAt(0) + x + 1) % DWord
    /\ \A x, y \in DOMAIN out[0] : x < y => out[0][x][2] < out[0][y][2]
    /\ \A i \in First(n) : i > LastTaken => IdAt(i) # (IdAt(0) + Taken + 1) % DWord

\* A good page's file comes behind those of the good pages in front of it, in
\* folders of ModCount.
GoodPages(n) == {i \in First(n) : At(<<1, i>>).good}
Foldered(n) ==
    /\ \A t \in DOMAIN out :
         DOMAIN out[t] = {x \in First(ModCount) : t * ModCount + x < Cardinality(GoodPages(n))}
    /\ \A i \in GoodPages(n) :
         LET rank == Cardinality(GoodPages(i))
         IN  out[rank \div ModCount][rank % ModCount] = <<1, i>>

Nulled(n) == out[0] = [x \in First(n) |-> IF At(<<1, x>>).good THEN <<1, x>> ELSE Nulls]

\* Each whole page of a dump comes once, and in its order, into the target it
\* belongs to and into no other, whether the dump ends with a whole page or
\* the tool by an exception; saveByPageNumber takes a page only if its number
\* follows on, and misses none that does; createManyExcelFiles fills a folder
\* before it begins the next (splitToFiles, splitByPage, splitByPages,
\* saveOnlyWithID, saveByPageNumber, createManyExcelFiles,
\* replaceBadMarkerToNulls).
PagesToTheirTargets ==
    /\ Is("splitToFiles") => Dealt(Len(Pages))
    /\ Is("splitByPages") => DealtInTurn(Len(Pages))
    /\ Is("splitByPage") => Doubled(Len(Pages))
    /\ Is("saveOnlyWithID") => Selected(Len(Pages))
    /\ Is("saveByPageNumber") => Followed(Len(Pages))
    /\ Is("createManyExcelFiles") => Foldered(Len(Pages))
    /\ Is("replaceBadMarkerToNulls") => Nulled(Len(Pages))

Before(c, d) == c[1] < d[1] \/ (c[1] = d[1] /\ c[2] < d[2])
LastOf(S) == CHOOSE c \in S : \A d \in S : ~ Before(c, d)
HasBeenSet(S, x) == x \in DOMAIN out[0] <=> S # {}

EntriesOf(C, id) == {c \in C : At(c).good /\ At(c).id = id /\ 2 * id < Len(Pages) * EntrySize}
EntriesPlaced(C) ==
    \A id \in 0 .. DWord \div EntrySize :
        LET S == EntriesOf(C, id)
        IN  HasBeenSet(S, id) /\ (S # {} => out[0][id] = LastOf(S))

PagesOf(C, id) == {c \in C : At(c).id = id /\ id < ImagePages}
GoodOf(S) == {c \in S : At(c).good}
ImagePlaced(C) ==
    \A id \in 0 .. ImagePages :
        LET S == PagesOf(C, id)
        IN  /\ HasBeenSet(S, id)
            /\ S # {} => out[0][id] = LastOf(IF GoodOf(S) # {} THEN GoodOf(S) ELSE S)

PlaceOf(c) == c[2] + (IF job.at[c[1]] = NoId THEN 0 ELSE job.at[c[1]])
Named(C) == {c \in C : job.at[c[1]] # NoNumber}
FilesPlaced(C) ==
    \A x \in DOMAIN out[0] \cup {PlaceOf(c) : c \in Named(C)} :
        LET S == {c \in Named(C) : PlaceOf(c) = x}
        IN  HasBeenSet(S, x) /\ (S # {} => out[0][x] = LastOf(S))

BlocksOf(C, id) == {c \in C : At(c).id = id /\ id < DataBlocks /\ c[2] + 3 <= Len(Pages)}
BlocksPlaced(C) ==
    \A id \in 0 .. DataBlocks :
        LET S == BlocksOf(C, id)
        IN  HasBeenSet(S, id) /\ (S # {} => out[0][id] = <<1, LastOf(S)[2] + 1>>)

NoProductWraps == \A i \in Numbers(1) : At(<<1, i>>).id < DWord \div EntrySize
WholeBlocks ==
    /\ \A i \in Numbers(1) : At(<<1, i>>).good /\ At(<<1, i>>).id # NoNumber
    /\ \A i, j \in Numbers(1) :
         At(<<1, i>>).id # NoId /\ At(<<1, j>>).id # NoId /\ i < j => i + 3 <= j

\* Where several pages claim a place, the last one has it, for FleshCollector
\* the last good one if there is any; every claimed place is filled, and no
\* other, in whatever order the pages come and whatever lies between them
\* (modify_mft_by_id while no number is so large that its product wraps;
\* SaveImage; writeImageFiles, up to a name that throws; saveXVA while nothing is
\* marked unreadable and every header has its number).
LastClaimHolds ==
    /\ Is("modify_mft_by_id") /\ NoProductWraps => EntriesPlaced(Read)
    /\ Is("SaveImage") => ImagePlaced(Read)
    /\ Is("writeImageFiles") => FilesPlaced(Read)
    /\ Is("saveXVA") /\ WholeBlocks => BlocksPlaced(Read)

\* A sector that is marked unreadable is the other file's, as far as that goes.
Repaired(n) ==
    out[0] = [x \in First(n) |->
                IF ~ At(<<1, x>>).good /\ x \in Numbers(2) THEN <<2, x>> ELSE <<1, x>>]

\* A page that lacks the one marker the others of its block share is the other
\* file's, if it has the marker there.
SameBlock(x, n) == {i \in First(n) : i \div Block = x \div Block}
WithId(S, id) == {i \in S : At(<<1, i>>).id = id}
Shared(S, id) ==
    /\ 2 * Cardinality(WithId(S, id)) > Block /\ Cardinality(WithId(S, id)) > 1
    /\ \A i, j \in S \ WithId(S, id) : i # j => At(<<1, i>>).id # At(<<1, j>>).id
MarkersAgree(n) ==
    /\ DOMAIN out[0] = First(n)
    /\ \A x \in First(n) : \A id \in 1 .. NoId - 1 :
         Shared(SameBlock(x, n), id) =>
           out[0][x] = IF At(<<1, x>>).id # id /\ At(<<2, x>>).id = id THEN <<2, x>> ELSE <<1, x>>

\* Whatever else the markers of a block are, a page is the other file's only if
\* that has there the largest marker the block has more than once, 0 if there is
\* none, and the damaged page lacks it.
Repeated(S) == {id \in {IdAt(i) : i \in S} \ {NoId} : Cardinality(WithId(S, id)) > 1}
LargestOnly(n) ==
    \A x \in First(n) :
        \/ out[0][x] = <<1, x>>
        \/ LET marker == At(<<2, x>>).id
               repeated == Repeated(SameBlock(x, n))
           IN  /\ out[0][x] = <<2, x>> /\ IdAt(x) # marker
               /\ marker \in repeated \cup {0} /\ \A id \in repeated : id <= marker

Combined(n) == out[0] = [x \in First(n) |-> {<<1, x>>, <<2, x>>}]

CombinedWithBlock(n) ==
    /\ First(n) \subseteq DOMAIN out[0]
    /\ Block % Len(Source(2)) = 0 =>
         \A x \in First(n) : out[0][x] = {<<1, x>>, <<2, x % Len(Source(2))>>}
    /\ \A x \in DOMAIN out[0] \ First(n) : x >= Block => out[0][x] = out[0][x - Block]

\* A repaired image is as long as the damaged one and differs from it only
\* where that is marked unreadable and the other one goes on; or, with yaffs
\* pages, only where a page lacks the largest marker that comes twice in its
\* block and the other file's has it.  If the pages of a block share one marker
\* and no other comes twice, that mends all that can be mended; of two markers
\* that come twice the larger one wins, also where it is the damage.  A XOR has
\* every byte of both sources where it belongs, up to the end of the shorter
\* one, or of the image, behind which only what was left in the buffer follows
\* (replaceBadsFromOtherFile, yaffsPageNumberModify, xor_files, xorWithBlock).
RepairsOnlyDamage ==
    /\ Is("replaceBadsFromOtherFile") => Repaired(Len(Pages))
    /\ Is("yaffsPageNumberModify") =>
         /\ MarkersAgree(k) /\ LargestOnly(k)
         /\ k % Block = 0 /\ (k + Block > Len(Pages) \/ k + Block > Len(Source(2)))
    /\ Is("xor_files") => Combined(Min({Len(Source(1)), Len(Source(2))}))
    /\ Is("xorWithBlock") => CombinedWithBlock(Len(Pages))

\* A table of less than 4 GB that was fixed has as many records as its header
\* says, and ends behind them: every record without a zero byte that something
\* follows.  With none left the 32-bit count wraps around, and what the header
\* says is wrong; of a larger table records are read again, and nothing is said
\* (fixDBF).
FollowedRecords == IF job.tail THEN Len(Pages) ELSE Len(Pages) - 1
FixedBaseCounts ==
    Is("fixDBF") =>
        LET good == GoodPages(FollowedRecords)
        IN  /\ FileSize <= DWord => Lists(out[0], good)
            /\ good # {} /\ FileSize < DWord =>
                 memo = <<Cardinality(good), HeaderSize + Cardinality(good) * RecordSize + 1>>

\* What the repairing tools leave: images with another's pages only where they
\* are taken for damaged, and tables with the undamaged records (replaceBads_main.cpp,
\* dbf.h:36).
RepairsAreRight == RepairsOnlyDamage /\ FixedBaseCounts
=============================================================================
