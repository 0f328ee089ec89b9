------------------------------ MODULE Searches ------------------------------
(* consoleapp, signaturetestconsole and the ext4 tools: the searches.  One     *)
(* goes through an image and notes where something lies, the next starts from   *)
(* the notes: extents of ext4 and how they follow one another, parts of a file   *)
(* that are somewhere on a list of offsets, the two halves of a video,            *)
(* compressed blocks, the key of a XOR; and the test of a folder's signatures.     *)
(*                                                                                  *)
(* A page stands for what one comparison looks at: a sector, a block, a byte or a    *)
(* file of the folder.  A read that the device does not fill throws.                  *)
EXTENDS BlockTools

CONSTANTS
    Searched,      \* runs, as in Jobs
    Grid,          \* DataFinder: search_size_, in pages
    MaxDepth,      \* searchExtents: max_depth
    NumCmp, MaxSize,  \* saveQtFragment: NUM_CMP, and MAX_SIZE_256 in pages
    MarkSize, MarkData,  \* Acronis: a marker's length, and where its data begins
    XorSize, Chunks, CountMod,  \* XorAnalyzer: key, chunks, 2^16
    ExtensionsMap, \* extensionsMap_: the formats of an extension
    SignBase       \* headerBase_: formats that are known

ASSUME SearchesAssumption ==
    /\ {Grid, NumCmp, MarkSize, MarkData, XorSize, Chunks, CountMod} \subseteq Nat \ {0}
    /\ Block % Grid = 0 /\ MaxSize \in Nat
    /\ MaxDepth \in 0 .. MaxTargets - 1
    /\ MarkSize < Block /\ Chunks <= XorSize
    /\ \A ext \in DOMAIN ExtensionsMap : ExtensionsMap[ext] \in Seq(Nat)

SearchTools == {"searchCircle", "searchExtents", "searchExtends", "findFilesWithOffsets",
                "saveQtFragment", "saveToFile", "Analize", "testSigantures", "saveByVxFSInode"}

\* A main calls one tool.  at holds places in the image or, where a file, an
\* entry or an extent has one, their list.
IsList(s) == s \in Seq({s[i] : i \in DOMAIN s})
ASSUME SearchedAssumption ==
    /\ \A j \in Jobs : j.tool \notin SearchTools
    /\ \A j \in Searched :
        /\ j.tool \in SearchTools
        /\ IsList(j.files) /\ j.files # <<>>
        /\ \A f \in DOMAIN j.files :
             /\ IsList(j.files[f])
             /\ \A n \in DOMAIN j.files[f] : j.files[f][n].id \in Nat /\ j.files[f][n].good \in BOOLEAN
        /\ IsList(j.at) /\ (j.tool # "testSigantures" => j.at \in Seq(Nat))
        /\ j.tool = "searchCircle" => Len(j.at) = 3
        /\ j.tool \in {"searchExtents", "searchExtends"} => j.at # <<>>
        /\ j.tool = "searchExtends" =>
             /\ \A i \in DOMAIN j.at : j.at[i] < Len(j.files[1])
             /\ \A n \in DOMAIN j.files[1] : IsList(j.files[1][n].entries)
        /\ j.tool = "findFilesWithOffsets" =>
             j.files[Len(j.files)] # <<>> /\ Len(j.files[Len(j.files)]) <= Len(j.at)
        /\ j.tool = "saveQtFragment" => NumCmp <= Len(j.at)
        /\ j.tool = "testSigantures" => Len(j.at) = Len(j.files[1])
        /\ j.tool = "saveByVxFSInode" => Len(j.files) = 2 /\ Len(j.at) = Len(j.files[2])

SearchInit ==
    /\ job \in Searched
    /\ open = {}
    /\ file = 1 /\ k = IF job.tool = "searchExtents" THEN job.at[1] ELSE 0
    /\ out = [t \in 0 .. MaxTargets - 1 |-> << >>]
    /\ memo = <<>>
    /\ status = "searching"

Searching(tool) == status = "searching" /\ job.tool = tool
Ends(how) == status' = how /\ UNCHANGED <<job, open, file, k, out, memo>>

-----------------------------------------------------------------------------
\* DataFinder, and the lists of extents by depth

\* A block is searched on its own grid, and the last one to its end, behind
\* the end of the region.  matching: the offsets the caller's test accepts.
LastOfRegion(start, end) ==
    LET blocks == (end - start + Block - 1) \div Block
    IN  Min({start + blocks * Block, Len(Pages)}) - 1
findInRegion(start, end, matching) ==
    IF start >= end THEN {}
    ELSE {x \in matching \cap (start .. LastOfRegion(start, end)) :
            ((x - start) % Block) % Grid = 0}

\* setRange does not set the end.
RangeEnd == Len(Pages)
searchCircle ==
    LET begin == job.at[1]
        curr == job.at[3]
        matching == {x \in 0 .. Len(Pages) - 1 : Pages[x + 1].good}
        first == findInRegion(curr, RangeEnd, matching)
        second == findInRegion(begin, curr, matching)
    IN  /\ Searching("searchCircle")
        /\ out' = IF first # {} THEN Add(out, 0, <<1, Min(first)>>)
                  ELSE IF second # {} THEN Add(out, 0, <<1, Min(second)>>) ELSE out
        /\ status' = "done"
        /\ UNCHANGED <<job, open, file, k, memo>>

\* A vector takes half of its size more when it is full; it copies its files
\* then, and the destructors of the old ones close the engines they share.
Grown(capacity) == Max({capacity + 1, capacity + (capacity \div 2)})
CapacityFor[size \in Nat] ==
    IF size = 0 THEN 0
    ELSE IF size <= CapacityFor[size - 1] THEN CapacityFor[size - 1] ELSE Grown(CapacityFor[size - 1])
NoneOpen(files, moved) == {}
OpenAfterGrowth(files, moved) == IF moved THEN {} ELSE files

\* memo: how many lines have been written to each file, which is the position
\* its engine goes on from when the file is created again.
cmpExtentIfLessMaxDepth == {x \in 0 .. Len(Pages) - 1 :
    Pages[x + 1].id <= MaxDepth /\ Pages[x + 1].good}
addOffset(offset, depth) ==
    LET size == Max({Len(memo), depth + 1})
        lines == [i \in 1 .. size |-> IF i <= Len(memo) THEN memo[i] ELSE 0]
        stillOpen == OpenAfterGrowth(open, CapacityFor[size] # CapacityFor[Len(memo)])
        kept == IF depth \in stillOpen THEN out ELSE [out EXCEPT ![depth] = << >>]
    IN  /\ out' = Put(kept, depth, lines[depth + 1], <<1, offset>>)
        /\ open' = stillOpen \cup {depth}
        /\ memo' = [lines EXCEPT ![depth + 1] = @ + 1]

searchExtents ==
    LET found == findInRegion(k, RangeEnd, cmpExtentIfLessMaxDepth)
    IN  /\ Searching("searchExtents")
        /\ \/ /\ found # {}
              /\ addOffset(Min(found), Pages[Min(found) + 1].id)
              /\ k' = Min(found) + Grid
              /\ UNCHANGED <<job, file, status>>
           \/ found = {} /\ Ends("done")

-----------------------------------------------------------------------------
\* The order of a file's extents.  A page is an extent block here: depth,
\* entries <<file block, length or block of the next level>>.

CalculateExtentSizeWith_0Depth(n) ==
    IF ~ n.good \/ n.id # 0 THEN 0
    ELSE LET last == n.entries[Len(n.entries)]
         IN  CASE Len(n.entries) = 1 -> last[2]
               [] Len(n.entries) > 2 -> last[1] + last[2] - n.entries[1][1]
               [] OTHER -> 0
Child(n, i) == Pages[n.entries[i][2] + 1]
CalculateExtentSize(n) ==
    IF n.good /\ n.id = 1
      THEN MapThenSumSet(LAMBDA i : CalculateExtentSizeWith_0Depth(Child(n, i)), DOMAIN n.entries)
      ELSE CalculateExtentSizeWith_0Depth(n)

Extent(x) ==
    LET n == Pages[x + 1]
    IN  [offset |-> x, size |-> CalculateExtentSize(n), number_entries |-> Len(n.entries),
         first_offset |-> IF n.entries = <<>> THEN 0 ELSE n.entries[1][1]]
Listed(i) == Extent(job.at[i])

\* memo: the entries of the list that are left, where the target ends, and the
\* current extent.  A child is not read behind the end of the device.
ChildLost(n) == n.good /\ n.id = 1 /\ \E i \in DOMAIN n.entries : n.entries[i][2] >= Len(Pages)
readListExtents ==
    LET unreadable == \E i \in 2 .. Len(job.at) : ChildLost(Pages[job.at[i] + 1])
    IN  /\ Searching("searchExtends") /\ memo = <<>>
        /\ \/ unreadable /\ Ends("thrown")
           \/ /\ ~ unreadable
              /\ memo' = <<2 .. Len(job.at), 0, job.at[1]>>
              /\ UNCHANGED <<job, open, file, k, out, status>>

findByOffset(list, offset) == {i \in list : Listed(i).offset = offset}
AnyOther(list, offset) == list
findByFirstOffset(list, offset) == {i \in list : Listed(i).first_offset = offset}
findWithMaxEntries(list) ==
    Listed(Min({i \in list : \A j \in list : Listed(j).number_entries <= Listed(i).number_entries}))

searchExtends ==
    /\ Searching("searchExtends") /\ memo # <<>>
    /\ LET current == findByOffset(memo[1], memo[3])
           size == IF current = {} THEN 0 ELSE Listed(Min(current)).size
           end == memo[2] + size
           left == memo[1] \ current
           next == findByFirstOffset(left, end)
       IN  /\ out' = Put(out, 0, Cardinality(DOMAIN out[0]), <<memo[2], size, memo[3]>>)
           /\ memo' = <<left, end, IF next = {} THEN memo[3] ELSE findWithMaxEntries(next).offset>>
           /\ status' = IF size = 0 \/ next = {} \/ findWithMaxEntries(next).number_entries = 0
                          THEN "done" ELSE "searching"
    /\ UNCHANGED <<job, open, file, k>>

-----------------------------------------------------------------------------
\* findFilesWithOffsets: the last file is the list, of formats, and at their
\* sectors; the others are the parts.

Pattern == Source(Len(job.files))
PartCount == Len(job.files) - 1
Has(format, p) == format # NoId /\ p.id = format
Place(p, j) == p + job.at[j] - job.at[1]
Fails(p, j) ==
    LET q == Place(p, j)
    IN  q \notin 0 .. Len(Pages) \/ (q < Len(Pages) /\ ~ Has(Pattern[j].id, Pages[q + 1]))

\* Only the first header of a block is tried.
Tried(n) == {i \in 0 .. n - 1 : Has(Pattern[1].id, Pages[k + i + 1])}
findFilesWithOffsets ==
    LET n == Clipped(file)
        p == k + Min(Tried(n))
        ends == {j \in 2 .. Len(Pattern) : Fails(p, j) \/ Place(p, j) = Len(Pages)}
    IN  /\ Searching("findFilesWithOffsets") /\ file <= PartCount /\ k < Len(Pages)
        /\ \/ /\ ~ (Tried(n) # {} /\ (ends # {} => ~ Fails(p, Min(ends))))
              /\ k' = k + n
              /\ UNCHANGED <<job, open, file, out, memo, status>>
           \/ /\ Tried(n) # {} /\ ends = {}
              /\ out' = Add(out, 0, <<file, p>>)
              /\ file' = file + 1 /\ k' = 0
              /\ UNCHANGED <<job, open, memo, status>>
           \/ /\ Tried(n) # {} /\ ends # {} /\ ~ Fails(p, Min(ends))
              /\ Ends("thrown")

NextPart ==
    /\ Searching("findFilesWithOffsets") /\ file <= PartCount /\ k = Len(Pages)
    /\ file' = file + 1 /\ k' = 0
    /\ UNCHANGED <<job, open, out, memo, status>>

PartsDone == Searching("findFilesWithOffsets") /\ file > PartCount /\ Ends("done")

-----------------------------------------------------------------------------
\* qtfragment: an index and the media data that lies elsewhere.  An atom is a
\* page, its id 1 for ftyp, 2 mdat, 3 free, 5 moov; 4 is a marker in the data;
\* at is the index's table, of places in the file as it was.

\* memo: the indexes, the media data, and the pairs that have been compared.
\* A last block that is not full makes the search throw; the texts with what it
\* has noted are there, and the next program takes them up.
Noted(i) == IF i \in DOMAIN memo THEN memo[i] ELSE {}
SavePos_ftyp_mdat ==
    /\ Searching("saveQtFragment") /\ k < Len(Pages)
    /\ LET n == IF k + Block <= Len(Pages) THEN Block ELSE 0
           those(ids) == {x \in k .. k + n - 1 : Pages[x + 1].id \in ids}
       IN  /\ memo' = <<Noted(1) \cup those({1}), Noted(2) \cup those({2, 3}), {}>>
           /\ k' = IF n = 0 THEN Len(Pages) ELSE k + n
    /\ UNCHANGED <<job, open, file, out, status>>

IsAtom(x) == x < Len(Pages) /\ Pages[x + 1].id \in {1, 2, 3, 5}
firstPartSize(f) == IF IsAtom(f + 2) THEN 3 ELSE 2
MarkerAt(f, m, i) == m + job.at[i] - firstPartSize(f)
Counts(f, i) == job.at[i] > firstPartSize(f)

\* The entries are compared in turn.  A place at or beyond MaxSize ends that,
\* before anything is read there; one behind the end of the file throws.
Refused(f, m) == {i \in 1 .. NumCmp : Counts(f, i) /\ MarkerAt(f, m, i) >= MaxSize}
Throwing(f, m) ==
    {i \in 1 .. NumCmp : /\ Counts(f, i) /\ MarkerAt(f, m, i) >= Len(Pages)
                         /\ \A j \in Refused(f, m) : i < j}
isContinue(f, m) ==
    /\ Refused(f, m) = {}
    /\ \A i \in 1 .. NumCmp : Counts(f, i) /\ Pages[MarkerAt(f, m, i) + 1].id = 4

Pairs == {f \in Noted(1) : IsAtom(f + 1)} \X Noted(2)
saveQtFragment ==
    /\ Searching("saveQtFragment") /\ k = Len(Pages)
    /\ \/ Pairs = Noted(3) /\ Ends("done")
       \/ \E p \in Pairs \ Noted(3) :
            /\ \A q \in Pairs \ Noted(3) : ~ Before(q, p)
            /\ \/ Throwing(p[1], p[2]) # {} /\ Ends("thrown")
               \/ /\ Throwing(p[1], p[2]) = {}
                  /\ out' = IF isContinue(p[1], p[2]) THEN Add(out, 0, p) ELSE out
                  /\ memo' = <<Noted(1), Noted(2), Noted(3) \cup {p}>>
                  /\ UNCHANGED <<job, open, file, k, status>>

-----------------------------------------------------------------------------
\* AcronisDecompress: a marker begins at a page with id 1.

CanMatch(i) == i < Block - MarkSize
Hits(start) ==
    {x \in start .. Len(Pages) - 1 :
        /\ Pages[x + 1].id = 1 /\ CanMatch((x - start) % Block)
        /\ x - ((x - start) % Block) + Block <= Len(Pages)}
find_8FF(start) == IF Hits(start) = {} THEN start ELSE Min(Hits(start))
SearchThrows(start) == Hits(start) = {} /\ start < Len(Pages) /\ (Len(Pages) - start) % Block # 0

\* memo: where the data of the last marker begins.  Decompression itself is
\* commented out: a target block is zeros.
saveToFile ==
    LET start == IF memo = <<>> THEN 0 ELSE memo[1]
        found == find_8FF(start)
    IN  /\ Searching("saveToFile")
        /\ \/ SearchThrows(start) /\ Ends("thrown")
           \/ /\ ~ SearchThrows(start) /\ memo = <<>>
              /\ memo' = <<found + MarkData>>
              /\ UNCHANGED <<job, open, file, k, out, status>>
           \/ /\ ~ SearchThrows(start) /\ memo # <<>> /\ found # start
              /\ out' = Add(out, 0, <<start, found>>)
              /\ memo' = <<found + MarkData>>
              /\ UNCHANGED <<job, open, file, k, status>>
           \/ ~ SearchThrows(start) /\ memo # <<>> /\ found = start /\ Ends("done")

-----------------------------------------------------------------------------
\* XorAnalyzer::Analize: for each place of the key the byte that is there most
\* often.  The key is cut into chunks; file counts them.

chunk_size == XorSize \div Chunks
xor_offset == chunk_size * (file - 1)
buffer_size == IF file = Chunks THEN XorSize - xor_offset ELSE chunk_size
Stripes == {n \in 0 .. Len(Source(1)) : n * XorSize + xor_offset < Len(Source(1))}
Bytes(n) == [b \in 1 .. buffer_size |-> Source(1)[n * XorSize + xor_offset + b].id]
isNot00orFF(bytes) == \E b \in DOMAIN bytes : bytes[b] # 0 /\ \E c \in DOMAIN bytes : bytes[c] # NoId
Count(v, b) == Cardinality({n \in Stripes : isNot00orFF(Bytes(n)) /\ Bytes(n)[b] = v}) % CountMod
AllBytes == {0, 1, 2, NoId}
getMax(b) == Min({v \in AllBytes : \A w \in AllBytes : Count(w, b) <= Count(v, b)})

Analize ==
    /\ Searching("Analize") /\ file <= Chunks
    /\ \/ /\ \A n \in Stripes : n * XorSize + xor_offset + buffer_size <= Len(Source(1))
          /\ out' = PutAll(out, 0, xor_offset, [b \in 1 .. buffer_size |-> getMax(b)])
          /\ file' = file + 1
          /\ status' = IF file = Chunks THEN "done" ELSE "searching"
          /\ UNCHANGED <<job, open, k, memo>>
       \/ /\ \E n \in Stripes : n * XorSize + xor_offset + buffer_size > Len(Source(1))
          /\ Ends("thrown")

-----------------------------------------------------------------------------
\* SignatureTester: a page is a file of the folder, with the format its
\* content has and whether it has any; at are the files' extensions.

ListFormatName(ext) == IF ext \in DOMAIN ExtensionsMap THEN ExtensionsMap[ext] ELSE <<>>
testSignatureWithList(p, formats) == p.good /\ \E i \in DOMAIN formats : p.id = formats[i]
NamesAgain(list, ext) == Append(list, ext)
Unknown(list, ext) == IF \E i \in DOMAIN list : list[i] = ext THEN list ELSE Append(list, ext)

\* A format without a signature ends the program: its "throw" has nothing to
\* throw.
NoSignature(formats) == \E i \in DOMAIN formats : formats[i] \notin SignBase
testSigantures ==
    /\ Searching("testSigantures") /\ k < Len(Pages)
    /\ LET ext == job.at[k + 1]
           formats == ListFormatName(ext)
       IN  \/ NoSignature(formats) /\ Ends("thrown")
           \/ /\ ~ NoSignature(formats)
              /\ out' = IF formats # <<>> /\ ~ testSignatureWithList(page, formats)
                          THEN Add(out, 0, here) ELSE out
              /\ memo' = IF formats = <<>> THEN Unknown(memo, ext) ELSE memo
              /\ k' = k + 1
              /\ UNCHANGED <<job, open, file, status>>

\* saveByVxFSInode: the second file is the inode's extents.
saveByVxFSInode ==
    /\ Searching("saveByVxFSInode") /\ k < Len(Source(2))
    /\ LET block == Source(2)[k + 1].id
       IN  out' = IF block < Len(Source(1)) THEN Put(out, 0, job.at[k + 1], <<1, block>>) ELSE out
    /\ k' = k + 1
    /\ UNCHANGED <<job, open, file, memo, status>>

AllDone ==
    /\ \/ Searching("testSigantures") /\ k = Len(Pages)
       \/ Searching("saveByVxFSInode") /\ k = Len(Source(2))
    /\ Ends("done")

SearchNext ==
    \/ searchCircle \/ searchExtents \/ readListExtents \/ searchExtends
    \/ findFilesWithOffsets \/ NextPart \/ PartsDone
    \/ SavePos_ftyp_mdat \/ saveQtFragment
    \/ saveToFile \/ Analize \/ testSigantures \/ saveByVxFSInode \/ AllDone

ToolInit == BlockInit \/ SearchInit
ToolNext == BlockNext \/ SearchNext
ToolSpec == ToolInit /\ [][ToolNext]_toolVars

-----------------------------------------------------------------------------
\* Properties, of what there is when a search has ended.  Those that a search
\* comes to by and by are said of the first n pages.

Found(tool) == status = "done" /\ job.tool = tool
Cells == {out[0][x] : x \in DOMAIN out[0]}
Size0 == Cardinality(DOMAIN out[0])
Id(x) == Pages[x + 1].id
OnGrid(start) == {x \in start .. Len(Pages) - 1 : (x - start) % Grid = 0}

FirstMatch ==
    LET ahead == {x \in OnGrid(job.at[3]) : Pages[x + 1].good}
        behind == {x \in OnGrid(job.at[1]) : x < job.at[3] /\ Pages[x + 1].good}
    IN  Cells = {<<1, Min(U)>> : U \in {IF ahead # {} THEN ahead ELSE behind} \ {{}}}

\* Extents that were found, the line one has in its depth's file, and those
\* that have to be there: between an extent and a later one of its depth none
\* was deeper than all before.
Extents(n) == {x \in OnGrid(job.at[1]) : x < n /\ Pages[x + 1].good /\ Id(x) <= MaxDepth}
OfDepth(n, d) == {x \in Extents(n) : Id(x) = d}
Line(x) == Cardinality(OfDepth(x, Id(x)))
Deepens(x) == \A y \in Extents(x) : Id(y) < Id(x)
Remains(n, x) ==
    \A y \in Extents(n), z \in OfDepth(n, Id(x)) : x < y /\ y < z => ~ Deepens(y)
DepthsNoted(n) ==
    \A d \in 0 .. MaxDepth :
        /\ \A i \in DOMAIN out[d] : \E x \in OfDepth(n, d) : i = Line(x) /\ out[d][i] = <<1, x>>
        /\ \A x \in OfDepth(n, d) : Remains(n, x) => Line(x) \in DOMAIN out[d]

\* A marker can be seen from where the search for it starts.
Marker(x) == x \in 0 .. Len(Pages) - 1 /\ Id(x) = 1
Seen(start, x) == Marker(x) /\ (x - start) % Block < Block - MarkSize
PiecesBetween ==
    \A x \in DOMAIN out[0] :
        /\ Marker(out[0][x][2])
        /\ \A y \in out[0][x][1] .. out[0][x][2] - 1 : ~ Seen(out[0][x][1], y)
        /\ x + 1 \in DOMAIN out[0] => out[0][x + 1][1] = out[0][x][2] + MarkData
NoneBehind(last) == ~ Seen(last, last) => \A y \in last .. Len(Pages) - 1 : ~ Seen(last, y)

LiesAt(n, t) == {i \in 1 .. n : job.at[i] = t /\ Source(2)[i].id < Len(Source(1))}
FromInode(n) ==
    \A t \in {job.at[i] : i \in DOMAIN job.at} :
        /\ t \in DOMAIN out[0] <=> LiesAt(n, t) # {}
        /\ LiesAt(n, t) # {} => out[0][t] = <<1, Source(2)[Max(LiesAt(n, t))].id>>

\* A place is noted if it is one, under its own number, and none is missing:
\* the circular search has the first match from where it starts and otherwise
\* the first of all, up to the end of the device whatever range was set; the
\* file of a depth has each extent of that depth on its own line, except those
\* whose file a deeper extent closed and the next one of the same depth created
\* anew; the pieces of an Acronis image lie between one marker and the next,
\* except a marker that lies across the end of a buffer; an extent of an inode
\* lies where the inode says (DataFinder, searchExtents, find_8FF, saveToFile,
\* saveByVxFSInode).
PlacesAreNoted ==
    /\ Found("searchCircle") /\ (job.at[3] - job.at[1]) % Grid = 0 => FirstMatch
    /\ Found("searchExtents") => DepthsNoted(Len(Pages))
    /\ Found("saveToFile") =>
         /\ PiecesBetween
         /\ Size0 > 0 => NoneBehind(out[0][Size0 - 1][2] + MarkData)
    /\ Found("saveByVxFSInode") => FromInode(Len(Source(2)))

\* The extents of a chain are copied one behind the other from the start of
\* the file, each is taken from the list, and no other goes on from the end.
Starts(x) == IF Pages[x + 1].entries = <<>> THEN 0 ELSE Pages[x + 1].entries[1][1]
InTheList == {job.at[i] : i \in 2 .. Len(job.at)}
Chained ==
    /\ DOMAIN out[0] = 0 .. Size0 - 1
    /\ 0 \in DOMAIN out[0] => out[0][0][1] = 0 /\ out[0][0][3] = job.at[1]
    /\ \A i \in 0 .. Size0 - 2 :
         /\ out[0][i + 1][1] = out[0][i][1] + out[0][i][2] /\ out[0][i][2] # 0
         /\ out[0][i + 1][3] \in InTheList /\ Starts(out[0][i + 1][3]) = out[0][i + 1][1]
    /\ \A i, j \in DOMAIN out[0] : i # j => out[0][i][3] # out[0][j][3]
    /\ \A i \in DOMAIN out[0] :
         Id(out[0][i][3]) = 0 /\ Len(Pages[out[0][i][3] + 1].entries) = 2 => out[0][i][2] = 0
NoneGoesOn ==
    LET last == out[0][Size0 - 1]
    IN  /\ Size0 > 0
        /\ \A x \in InTheList \ {out[0][i][3] : i \in DOMAIN out[0]} :
             last[2] # 0 /\ Starts(x) = last[1] + last[2] => Pages[x + 1].entries = <<>>

\* Where a part has every format of the list at its place, behind the first
\* header of a block.
Fits(f, p) ==
    \A j \in DOMAIN Pattern :
        LET q == p + job.at[j] - job.at[1]
        IN  q \in Numbers(f) /\ Pattern[j].id # NoId /\ Source(f)[q + 1].id = Pattern[j].id
FirstOfBlock(f, p) == \A q \in (p \div Block) * Block .. p - 1 : Source(f)[q + 1].id # Pattern[1].id
Places(f) == {p \in Numbers(f) : Fits(f, p) /\ FirstOfBlock(f, p)}
PartFound(f) == {c \in Cells : c[1] = f} = IF Places(f) = {} THEN {} ELSE {<<f, Min(Places(f))>>}

\* An index and media data of which every entry that is compared hits a marker
\* below MaxSize, both of them in front of a last block that is not full.
InFullBlock == 0 .. (Len(Pages) \div Block) * Block - 1
IdOf(x) == IF x \in 0 .. Len(Pages) - 1 THEN Id(x) ELSE 0
Belongs(f, m) ==
    LET part == IF IdOf(f + 2) \in {1, 2, 3, 5} THEN 3 ELSE 2
    IN  /\ IdOf(f) = 1 /\ IdOf(f + 1) \in {1, 2, 3, 5} /\ IdOf(m) \in {2, 3}
        /\ \A i \in 1 .. NumCmp :
             LET q == m + job.at[i] - part
             IN  job.at[i] > part /\ IdOf(q) = 4 /\ q < MaxSize
Paired ==
    /\ Cells = {p \in InFullBlock \X InFullBlock : Belongs(p[1], p[2])}
    /\ Size0 = Cardinality(Cells)

\* What is put together belongs together, and is put together wherever it can
\* be: each extent begins where the one before it ends, none comes twice, and
\* the chain goes on while a listed extent begins at its end; a part that is
\* reported has every format of the list at its place, and is reported if a
\* block's first header begins such a place; an index and the media data are
\* paired exactly if every entry that is compared hits a marker in front of
\* MAX_SIZE_256 and neither lies in a last block that is not full (readListExtents, searchExtends;
\* findFilesWithOffsets; SavePos_ftyp_mdat, saveQtFragment).
ChainsFollow ==
    /\ Found("searchExtends") => Chained /\ NoneGoesOn
    /\ Found("findFilesWithOffsets") => \A f \in 1 .. PartCount : PartFound(f)
    /\ Found("saveQtFragment") => Paired

\* The key's byte for a place is the one most often seen there, in the stripes
\* whose part of the dump is neither all zeros nor all ones.
ChunkOf(x) == Min({x \div chunk_size, Chunks - 1})
CellAt(n, x) == Source(1)[n * XorSize + x + 1].id
Counted(x) ==
    {n \in 0 .. Len(Source(1)) :
        /\ n * XorSize + x < Len(Source(1))
        /\ {CellAt(n, y) : y \in {y \in 0 .. XorSize - 1 : ChunkOf(y) = ChunkOf(x)}} \notin {{0}, {NoId}}}
Times(x, v) == Cardinality({n \in Counted(x) : CellAt(n, x) = v})
KeyIs(S) ==
    /\ DOMAIN out[0] = S
    /\ \A x \in S : Cardinality(Counted(x)) < CountMod =>
         \A v \in AllBytes : Times(x, v) <= Times(x, out[0][x])

\* Of the first n files of the folder: those to rename, and the extensions
\* that are not known.
FormatsAt(i) == ListFormatName(job.at[i])
Wrong(n) == {i \in 1 .. n : /\ FormatsAt(i) # <<>>
                            /\ Pages[i].good => \A x \in DOMAIN FormatsAt(i) : FormatsAt(i)[x] # Pages[i].id}
NotKnown(n) == {job.at[i] : i \in {i \in 1 .. n : FormatsAt(i) = <<>>}}
Tested(n) ==
    /\ Cells = {<<1, i - 1>> : i \in Wrong(n)}
    /\ {memo[i] : i \in DOMAIN memo} = NotKnown(n)
    /\ \A i, j \in DOMAIN memo : i # j => memo[i] # memo[j]
Unsigned == {i \in 1 .. Len(Pages) : \E x \in DOMAIN FormatsAt(i) : FormatsAt(i)[x] \notin SignBase}

\* A verdict follows from all there is to see: each byte of the key is the one
\* that is most often at its place, in the stripes whose part of the dump is
\* neither all zeros nor all ones, while no 16-bit count wraps; the files that
\* are renamed are those whose extension is known and whose content has none of
\* its formats, each extension that is not known is named once, and the program
\* ends early at the first extension with a format that has no signature
\* (Analize; testSigantures).
VerdictsHold ==
    /\ Found("Analize") => KeyIs(0 .. XorSize - 1)
    /\ Is("testSigantures") =>
         /\ status = "done" <=> Unsigned = {}
         /\ Tested(IF Unsigned = {} THEN Len(Pages) ELSE Min(Unsigned) - 1)
=============================================================================
