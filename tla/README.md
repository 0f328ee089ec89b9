# RecoveryTools in TLA+

RecoveryTools is a C++ toolkit for getting data off damaged media: a device layer
(`libio`), carving algorithms that find files by their signatures (`libraw`), a FAT
reader (`libfs`), a console program that carves a whole disk (`rawrecoveryconsole`), two
Qt programs (`FSViewer`, `RawRecovery`) and a number of small tools.  The repository has
neither tests nor a README; the code is the only statement of what it does.  This
directory holds models of the parts where being wrong costs data, from the drive up to
the windows and the tools, their TLC runs, and proofs about them.

Nothing in the toolkit is multi-threaded.  What makes it hard is that every input is
damaged: reads come back short or fail in the middle, tables contain anything, sizes are
read from the disk and multiplied, and a target volume fills up.  So the questions are
about *order and failure* (what state is left when a step in the middle throws), *loops
over untrusted data* (do they end, do they miss or double anything) and *numbers at
their edge* (unsigned differences, 32-bit products, block ends).

## 1. Inventory

| Component | State | Operations | What is hard | Correct when |
|---|---|---|---|---|
| `IO::IOEngine` (libio) | `hDevice_`, `bOpen_`, `position_`, `transfer_size_`; the OS pointer behind the handle | OpenRead, OpenWrite, Create, OpenPhysicalDrive, Close, setPosition, SetFileSize, Read, Write | one request is several OS calls, each short or failing | a returned transfer moved exactly its bytes, a failed one a prefix |
| `IO::File` | the engine, `size_`, the name | Open, Close, setPosition, setSize, setFileName, ReadData, WriteData, Size | `size_` is counted, not asked for | `Size()` is where the next piece may be appended |
| `IO::DiskDevice`, `physicaldrive.h` | an engine, the drive's geometry | the same, reads rounded to sectors | rounding beyond the last sector; where the position is left | an unaligned read delivers the bytes asked for |
| `DataFinder`, `Finder`, `Sparsebundle` (libio) | search range, grid; write offset | search of a region, circular search; directory walk; bands | end of range, wrapping around | each place is looked at once |
| carving core (`abstractraw.h`, `standartraw.h`) | offset, buffer, target file | findHeader, appendToFile, SaveRawFile, findFooter | blocks against limits, stale bytes behind a short block | no header missed, what is saved is the source in order |
| `rawrecoveryconsole/main.cpp` | search offset, file and folder counters | the loop: search, dispatch, create, save, verify, go on | exceptions kill the scan; names must not collide | every header is visited, no result is lost |
| header base (`filestruct.h`, `signaturereader.h`, `factories.cpp`) | the formats read from JSON files, the registered algorithms | read a format, find the format of a block, look up its algorithm | entries that do not parse, several headers for one format | a block is a format's exactly if it has all of its headers |
| format algorithms (`quicktime.h`, `gopro.h`, `zoomh6raw.h`, `rawriff.h`, `rawpln.h`, ...) | offsets, atom lists, track files, cluster maps, a temporary file | walk atoms or chunks, deal out or leave out clusters | sizes from the disk: no progress, wrap-around; parts in the wrong order | walks end; a saved file can be read; interleaved files are taken apart |
| `ext4_raw` | block size, volume offset; files of offsets by depth | saveToFile over an extent tree, size of an extent block, search for extents, their order | recursion over a damaged tree; files copied in a growing vector | each extent at its place; the recursion ends; the chain of extents follows |
| FAT (`fat_fs.cpp`, `BootSector.cpp`, `VirtualReader.cpp`) | partition table; lazily loaded table sectors, runs of a file; folder data and the entry in turn | ReadPartitionTable, mount; Next_Cluster, ReadListClusters, readSizeUsingTable, ReadUsingFatTable; read_folder | chains and folders of damaged disks; DWORD arithmetic; long names spread over entries | the volume is found; a folder lists what it has; files are recovered as their chain says |
| `DirectoryTree`, `AbstractFS` | nodes by name, a cursor per folder | getFirst, getNext, addNode | filled when first asked for; names that clash | a folder is listed once |
| `FSViewer` | table and tree of indices with check states; the recursion of a recovery | open, tick, recover | two views of one tree, rebuilt while shown; folders that lead back | both views show one tree; a tick stands for all below; a recovered folder is whole |
| `consoleapp` tools (`fix_dbf_main`, `replaceBads_main`, `fleshcollector`, `fileoffsetwriter`, `xoranalyzer`, `dbf.h`) | a page counter, a vector of files, maps of what was seen | split, collect by number, mend, XOR, repair a table, search | numbers from damaged pages as offsets; short last pages | each page where it belongs; only damage is changed |
| `signaturetestconsole` | formats by extension, names without a signature | test and rename the files of a folder; VxFS inodes | missing signatures | a verdict follows from the content |
| `RawRecovery` | display models | - | - | - |

**How they interact.**  Everything reads and writes through `IODevice`, a virtual class
with a position: `setPosition`, then `ReadData` or `WriteData`, which return the bytes
moved or throw `IOErrorException`.  `File` and `DiskDevice` are its two implementations,
each over an `IOEngine`.  `RawAlgorithm`s hold the source device and get a target `File`
from the caller.  `FatFileSystem` reads through `CSectorReader`, which adds the sector
size and lets exceptions pass.  The Qt models hold pointers to nodes of the directory
tree, and reset each other through signals.  The tools hand lists over as files: offsets
found by one search are what the next starts from.  Almost no caller catches.

The full list of hazards, each with its line, is in `PROJECT.json` under `hazards`.

## 2. Modules

| Module | What it is | Code |
|---|---|---|
| `IOEngine` | state and steps of the engine, and of the OS file behind it | `libio/src/ioengine.cpp`, `ioengine.h` |
| `FileDevice` | EXTENDS `IOEngine` with `size_` and the calls of `File`: the specification | `libio/src/file.cpp` |
| `Device` | the abstract device: one step per call, what clients may rely on | contract of `IODevice` |
| `FileDeviceProofs` | types and the size invariants, and that `FileDevice` implements `Device`, proved | |
| `DiskDevice` | EXTENDS `IOEngine` with a handle on a drive and the rounding of `DiskDevice` | `libio/src/diskdevice.cpp` |
| `Carver` | the loop of `main()` with SignatureFinder, DefaultRaw, StandartRaw | `rawrecoveryconsole/src/main.cpp`, `abstractraw.h`, `standartraw.h` |
| `FatDevice` | what `FatChain` and `FatFolder` share: the sectors of the source, the width of their numbers | |
| `FatChain` | EXTENDS `FatDevice`: table, runs, recovery of a file, reading of a folder | `libfs/src/fat_fs.cpp`, `FSViewer.cpp` (recoverWITH_FAT_table) |
| `ZoomH6` | the special algorithm for recordings of the ZOOM H6 | `libraw/include/raw/zoomh6raw.h` |
| `Ext4Extents` | saving a file from its extent tree | `libraw/src/ext4_raw.cpp` (Execute, saveToFile) |
| `FatFolder` | EXTENDS `FatDevice`: partition table, mount, entries of a folder | `fat_fs.cpp`, `BootSector.cpp`, constructor of `FSViewer` |
| `Views` | the two models of FSViewer over one tree of nodes; ticks, opening, recovery | `FSViewer.cpp`, `fstreemodel.cpp`, `fstablemodel.cpp`, `DirectoryTree.cpp` |
| `BlockCopy` | operators: the copy loops all algorithms and tools save with | `appendDataToFile` in `functions.h`, `utility.h`; `appendToFile` |
| `QuickTime` | EXTENDS `BlockCopy`: atom walk, and videos whose parts lie apart | `quicktime.h`, `qtfragment.h`, `canonfragment.h` |
| `GoPro` | EXTENDS `QuickTime`: leaving out the interleaved small copy; following the index | `gopro.h`, `gopronew.h` |
| `Signatures` | EXTENDS `BlockCopy`: from the signature files to an algorithm | `signaturereader.h`, `jsonreader.cpp`, `filestruct.h`, `factories.cpp` |
| `ChunkWalks` | EXTENDS `Signatures`: the algorithms that follow sizes | `rawriff.h`, `rawmxf.h`, `webmraw.h`, `djvuraw.h`, `rawpln.h`, `prproj.h`, `oleraw.h` |
| `BlockTools` | the tools that build an image page by page | `fix_dbf_main.cpp`, `replaceBads_main.cpp`, `fleshcollector.h`, `fileoffsetwriter.h`, `xoranalyzer.h`, `dbf.h` |
| `Searches` | EXTENDS `BlockTools`: searches and verdicts, and what follows from their notes | `finder.h`, `ext4_raw.cpp`, `utility.h`, `xoranalyzer.h`, `extensionbase.h`, `signatureTester.h`, `vmfs_main.cpp`, pairing in `qtfragment.h` |
| `ToolInvariants` | EXTENDS `Searches`: what the loops of the tools and searches keep at each turn | |
| `FileSystemProofs` | the safety properties of `FatChain`, `FatFolder` and `Views`, proved | |
| `ConsoleProofs` | the safety properties of `Carver`, `BlockTools` and `Searches`, what the two console programs run, proved | |
| `DiskDeviceProofs`, `ZoomH6Proofs`, `Ext4ExtentsProofs`, `GoProProofs`, `ChunkWalksProofs` | the safety properties of `DiskDevice`, `ZoomH6`, `Ext4Extents`, of `QuickTime` and `GoPro`, and of `Signatures` and `ChunkWalks`, proved | |
| `MC...` | values of the constants for the runs | |

### IOEngine and FileDevice

`data`, `eof`, `bad` and `filePtr` are the OS's side: content, length, lost addresses,
and the pointer of the handle.  `hDevice`, `bOpen`, `position` are the fields of the
engine.  A transfer is a sequence of steps: `BeginTransfer` is the entry of `Read` or
`Write`, each `ReadBlock` or `WriteBlock` is one turn of the loop of `ReadOrWriteData`:
seek, one OS call, accounting - and `Return` is what `File` does with the result.  The
OS call is external: it moves any number of bytes up to the block (more than none when
it succeeds away from the end of the file), it fails on a bad address, a full volume or
an unusable handle, and a failing write may have put part of the block on the medium.
Opening, closing, seeking and resizing are one step each, because they are one OS call
each.

Two history variables say what the callers did since `size_` was last known to be right:
`covered` (no write began beyond `size_` and none failed) and `appending` (each began
exactly there).  They appear in properties only.

Asserts (`assert(isOpen())`) are compiled out of release builds, so calls on closed
files are included and fail in the OS.

### DiskDevice

The same engine, on a handle the OS serves in whole sectors only: `DriveTransfer` lets a
block through when it starts at a sector and is made of sectors, and refuses it
otherwise (`Refused`; also possibly when it ends beyond the drive).  An unaligned read
is two steps, as in the code: `ReadData` sets the position back to `align_offset`, then
`ReadDataNotAligned` starts the transfer of `sector_to_read` sectors into `temp_data`;
`ReturnRead` copies from `data_start`.  `call` remembers what the client asked for,
`reply` what it got; the latter is cleared when the next call begins.

### Carver

The device is a row of cells.  Data is abstracted to its origin: a cell of the buffer or
of the target holds the *address* of the source cell it was copied from, so "the file is
the source from the header on" can be stated, and a byte left in the buffer by an
earlier block is recognisable.  `source` is the content of the device that matters:
which sectors begin with which signature, where footers end files, which cells cannot be
read.  `pc` names the points of `main()`:

    loop -> search -> dispatch -> factory | append | footer -> saved -> loop
                               -> (special) loop
         -> finished      stopped, dead: the program has ended

`ReadThrows`, `WriteThrows`, `Die`: an exception from the device is not caught anywhere
in this program, so it ends the process.  Two inner procedures appear by their outcomes
only: `ZoomH6Raw::Execute` (`Special`), which module `ZoomH6` models by itself, and the
algorithms that a factory creates (`SaveByFactory`, `NotSpecified`).

Two pieces of undefined behaviour are choices: a signature that crosses the end of a
short block is compared with stale bytes, so any format, or none, may match (`Matches`);
`findFooter` on a block shorter than the footer runs past it, so it may end the file
anywhere or crash (`RunsOn`).

### FatChain

The disk's table is a constant choice, `Mask` and `DWord` stand for 2^28 and 2^32, and
`DWordSectors` for the sectors of 2^32 bytes: the code's sizes are `DWORD`s of bytes.
`loaded` is the set of table sectors in `Fat_Table`'s array.  A file goes `idle -> walk
-> read -> recovered`, a folder `idle -> folder -> copy -> listed`; `thrown` is an
exception that leaves the recovery, `exhausted` the end of memory of a walk without end,
`overrun` a read that goes on behind the end of its buffer: the buffer has the size that
`readSizeUsingTable` computed (`SizeOf`, which wraps at 4 GB), and `ReadUsingFatTable`
fills it run by run, each with a length of its own (`readSize`).
`run` and `runs` are `ReadListClusters`' current `ClusterEntry` and the list it builds,
`mem` what `ReadUsingFatTable` has read, by sector number. The sector size is fixed at
512 (`BPS_`), so that a sector is the unit of data; `SectorSize` relates the two.

### ZoomH6

The recorder writes up to four tracks at once, a cluster of each in turn.  `pc` goes
through `Execute`: `execute` reads the project file's header, `measure` is the counting
of RIFF headers and the search for the next recording, `create` the loop that makes a
file for each header, `save` the dealing out of clusters.  A cell of a track is the
address of the source cell it is a copy of.  The outcomes are those `Special` of
`Carver` offers: "returned 0" ends the scan (`stopped`), "returned" goes on with it
(`loop`), and the others are exceptions, which end the program (`dead`): a failed read,
a file that cannot be created, a full volume, and the write of 0 bytes that a full track
gets when it is its turn again.  Sizes have 32 bits in the code (`% DWord`), and two sums
of them may wrap: the size field of the header plus the header's own size (`TrackSize`),
and `currentSize_` plus a cluster in `WriteBlock` (`ToWrite`).  By the second a track
whose size is within a cluster of 4 GB is written past its size, unless it ends exactly a
cluster before; `bReady_`, which asks for equality, then stays false.

### Ext4Extents

`saveToFile` calls itself for each entry of an index block, so the model keeps its calls
on `stack`: the block, and the entry whose turn it is.  The unit of data is a block; a
block of `target` is the address of the device's block it was copied from.  A call ends
in four ways: at the end of its entries, at once for a block without a sound header, at
the mark an imaging tool leaves in place of a bad sector, and with an exception, which
nobody catches. The first three return to the loop above, which looks at no result.  The
stack of a program is finite: `StackLimit` is its size, and one call more ends in
`overflow`. The target is taken to be open when the first call is made, as its opening
throws otherwise.

### FatFolder

`pc` goes `closed -> opened -> mounted` (or `refused`: no partition is listed,
`crashed`: `InitBoot` divides by the zeros of a sector that is no boot sector), then
`listing -> listed`, and back for a folder of the listing; `thrown` is an unreadable
sector.  A folder is the entries of its clusters, one behind the other; how they are
collected is `FatChain`'s part.  An entry has a mark (live, deleted, zeros), the
attributes the code tells apart, an order byte and a name, which is a sequence of
13-letter pieces. The parts of a long name are counted from the order byte with bit 0x40
*flipped* and taken without looking at the end of the block: `Behinds` is what the
memory behind it may hold, a choice. `DirectoryMap` keeps the first node of a name.

What the model shows the code to do, beside its properties: the fourth partition is
never looked at; a partition of type 05 is listed like a volume, and FSViewer mounts the
first one listed; entries of zeros appear as one nameless file, because the test is
commented out; a deleted entry directly behind a part of a long name is listed; files
that are hidden or read-only are not.

### Views

An entry is named by its path.  `filled` are the folders whose node holds its entries,
`tree` and `rows` (of the table) the indices of each model with their check states; the constructors
and resets of indices are functions from one such map to the next.  Each handler is an
action: `ClickTree`, `DoubleClickTable`, `TickTree`, `TickTable` with the slots their
signals call, and `RecoverySelected`, which begins the recursion of `RecoverFolder`,
kept on `stack` and run by `readFolders`, `RecoverChild`, `MkpathFails`, `FolderDone`.
`dangling` are the indices a recovery deleted while the tree view holds them; a use of
one ends the model in `broken`, as anything may follow.  What Qt does itself (moving the
current index, the value sent for a click on a box) is taken from how the models use it.
The order in which the entries of a folder are recovered is left open.  A file is of one of
three kinds, as `RecoverFile` tells them apart: only files of 4096, 8192, 16384 or 32768
bytes are recovered (`SizeIsTaken`), and of these only those whose size by the table is
not 0 (`HasClusters`).  Others are passed over without a word.

The two models differ on purpose or not: a tick in the tree reaches the direct children,
one in the table everything below; the parents of the tree compare with the state they
had; and a tick in the table sets *every* folder above the tree's current one to the
state of the table's parent (`FSViewer.cpp:475`).  So no property relates the states of
the two models; `TickCoversBelow` is about the table, from which recoveries start.

### BlockCopy, QuickTime and GoPro

The loops that copy a range are one operator, `Copied`: what arrives, and whether the
loop ends by an exception, for a range, a block size and unreadable cells.  `to_write`
is the clamp `getSize() - write_size`, which cuts a range beyond the device to something
other than what is left of it.

The cell of these modules is as long as an atom header, 8 bytes; an atom has a type, a
32-bit size and, behind the size 1, a 64-bit one, which may wrap around (`Wide` for
2^64).  `pc` names the points of `Specify` and `SaveRawFile`; a run of one begins with
`specify` and ends with `returned`, `read` (an exception), `not specified`, or
`endless`: the walk came back to an offset it had.  `list` is `keywordsList_`.  `GoPro`
adds the search for both headers and indices, the marking of clusters (`taken`,
`cluster_map`), the temporary file, and for `GoProRawNew` the table of markers.  What
tells a cluster of the one file from the other's on a real device - entropy, markers -
is part of the image.  An index is read into a `DataArray`, whose size has 32 bits: of a
longer one the rest modulo 2^32 is read and written (`Held`), while the size the file is
set to has 64.  The number of entries in its table is not compared with what was read;
where it is larger, `CopyTable` ends the run by an exception or with undefined behaviour.

### Signatures and ChunkWalks

`Signatures` reads the entries of the signature files one by one (`next`, `headers`,
`base`), compares the device's block with all of them, and looks the algorithm's name
up.  Texts are sequences of two different bytes; hexadecimal digits are given as the
bytes they stand for.  What would be read behind the end of a text may or may not be
equal. `ChunkWalks` goes on from there: an action per algorithm for the size field, the
walk and the save. `main.cpp` registers "mxf" alone at this commit, the other lines
being commented out for the case at hand; formats with another algorithm run through
`StandartRaw` then.  The run registers all of them.  A target that cannot be created ends
a save by an exception of `File::Open` (`ZoomBegin`): the `return 0` behind it
(`rawriff.h:141`) is not reached.

### BlockTools and Searches

One call of one tool is a `job`: the name, the dumps as sequences of pages, numbers, and
whether an incomplete page follows.  A page has an id (a number, marker, entry or block)
and is good or not; everything else in it is named by where it came from, `<<file,
number>>`, so `out`, which maps targets to places to pages, says where everything went.
`file` and `k` are the loop's position, `memo` what it remembers. Each tool is one
action, one turn of its loop; `EndsByException` and `LoopEnds` are common.  `open`
models the files that share an engine with a temporary whose destructor closes it. A
page of `Searches` stands for what one comparison looks at.  A name without digits in the
place of its number throws (`NoNumber`).  The offsets of `fixDBF` have 32 bits
(`record_offset`): in a table of 4 GB or more they begin again in front, where a read may
give parts of two records.  `MaxSize` is `MAX_SIZE_256` of `qtfragment.h`: `isContinue`
refuses a marker at or beyond it, in the order of the table, before it reads there.

Seen while modelling, and part of the model: `setRange` assigns the end of the range to
itself, so searches run over the whole device; the vector of files grows by copying,
which closes them, and a file created anew loses its lines; an extent block of two
entries has size 0; `throw;` with nothing to throw ends the signature test at the first
extension without signature.

## 3. Runs

**file_device** (`MCFileDevice`, about 870,000 states).  A volume of 3 bytes, blocks of
2, requests of 0, 1 and 3 bytes at 0, 2 and 4, with no bad byte or one: a request is a
full block and a short one, and may meet the end of the file, the end of the volume and
a bad byte at each of its addresses.  `MaxSize` bounds `size_`. Shows: `SizeCoversFile`:
unless a write began beyond `Size()` or failed half-way, `Size()` is never less than the
file is long, so an appended piece overlaps nothing; `AppendedSizeIsExact`: and is exact
while all writes begin there, which is how `appendToFile` writes; overwriting does make
it too large, which leaves a gap; `EveryCallReturns`: no request loops;
`ImplementsDevice`: the refinement of `Device`.

**disk_device** (`MCDiskDevice`, about 245,000 states).  Three sectors of three bytes,
blocks of two sectors, requests of seven lengths from every position, one lost byte or
none.  Shows: `ReadsAreRight`: a read that returns has the right bytes, and where it
leaves the position (an unaligned one: at the next sector boundary, so a client that
reads on without `setPosition` skips bytes); reads never reach the drive unaligned; a
read inside the drive, of some bytes by an engine that was not given a transfer size of
0, fails only on a lost byte in the sectors it is rounded to, or when it is unaligned
and ends with the drive, because line 86 always adds a sector.
`WrittenOrRefused`: unaligned writes never return, aligned ones put all bytes in place.

**carver** (`MCCarver`, about 99,000 states).  Devices of 17 cells, sectors of 2, blocks
of 4, four or five headers in neighbouring sectors and apart; footers inside blocks, on
their border, across it and two in one block, one of them as long as a block; a bad
cell; eight formats; folders of 2 files.  Shows: `EveryHeaderSeen`: the headers found
are those on the device, in order, whatever is nested in what; `TargetsAreKept`: no two
files of a scan have one name, so `CREATE_ALWAYS` empties nothing, and no folder gets
more than its number of files; `SavedIsSource`: the target is a gapless copy of the
source from the header on; a footer is passed over only in the blind spots of the
search: the first sector, the end of a block, or a block in which a footer that comes
earlier in the list is met first, or searched for beyond the end of a short last block;
what the equality test of `maxFileSize_` guarantees; no search or save asks for cells
beyond the device, except `appendToFile` after its clamp. `Termination`: the scan ends.

**fat_chain** (`MCFatChain`, about 136,000 states).  A table of eight cells of which
three take every combination of nine values: free, three clusters of the file area, the
last one beyond `ReadUsingFatTable`'s reach, beyond the data, the bad mark, an end mark
the code does not know, and the one it knows with reserved bits set; two unreadable
sectors or none.  All shapes of a three-cell chain occur: straight, jumping, crossing,
circular, broken; one more table leads a folder from a free first cell over cluster 0
back to it.  `MaxWalk`, the clusters a walk may take before memory is exhausted, is two
more than the cells, so that a walk that gets there has been in a circle.  Five clusters
are 2^32 bytes, and three tables have chains of that length: their size wraps, and the
buffer is overrun, a run cut short, or nothing recovered.  Shows: `WalkIsRight`: the runs
spell the chain, and only one of 4 GB or more overruns the buffer made for it;
`RecoveredIsChain`: an undamaged file is recovered whole, and under which limits, one of
which is that it is a cluster shorter than 4 GB;
`EndlessOnlyInCircle`: a walk without end follows a real circle; `FolderIsChain`: a
folder is its chain, complete when undamaged, and no cluster is listed twice but the
first one when its cell is free, which `read_folder` does not ask.

**fat_folder** (`MCFatFolder`, about 49,000 states).  Every partition table of four
entries of four types, with a volume, a foreign partition and a sector of zeros behind
them; every folder of up to three entries of nine kinds and longer ones with long names,
as the root and below it; bad sectors.  Shows: `VolumeIsMounted`: which partition is
mounted, when none is, and when the program divides by zero; `ListsTheFolder`: what a
damaged folder lists at least and at most, and that an undamaged one is listed exactly
but for the nameless file.

**views** (`MCViews`, about 1,636,000 states).  Three volumes: folders in folders with
files on every level, an empty folder, one that leads back to its parent; files that are
recovered beside some of another size and some without clusters.  Shows:
`ViewsAgree`: both models always have the indices of what was read;
`StaleOnlyByRecovery`: only a recovery leaves deleted indices in a view;
`TickCoversBelow`: a folder of the table that is ticked or not stands for all below it
that was read, unless its target could not be made; `RecoveredIsTheFolder`: of the files
on the volume each that `RecoverFile` takes is written once, and no other.

**zoom_h6** (`MCZoomH6`, about 70,000 states).  A device of ten clusters and a half, three
tracks of up to three clusters or two of four, size fields that are 0, less than a
cluster, a whole number of them, more, and near 2^32, which is four clusters here, so that
either of the two sums wraps; a second recording behind, in the middle, or
none; a bad cell or none.  Shows: `TracksAreDealt`: each cluster goes to one track, in
turn; `WholeOrThrown`: a return of bytes means complete tracks, a return of 0 none;
dealing in turn ends well exactly when no track is done before its turn: of tracks of
different lengths, the write of 0 bytes ends the scan of the device; and with a track
that is never ready it does not end well at all.

**video** (`MCGoPro`, about 287,000 states).  A device of 41 atom headers.  Lists of
atoms in every order with sizes of 0, inside, at and beyond the end, and 64-bit ones
that lead just below 2^64 and back; indices before and behind the media; an MP4 of four
clusters among which those of an LRV lie; markers in and out of place.  Shows:
`EndlessOnlyByWrap`: a walk comes back only by a sum that wraps; `SavedFileParses`: what
is saved has its atoms where a player looks for them; `OnlyTheVideo`: the LRV's clusters
are left out in groups (but for the seventeenth cluster, which the marking loop skips),
and a chunk of the index is where the table says; `TempFileRemoved`: by every return,
though not by an exception.  Three images lead a wrapping size to an atom in front of the
header, so that a video is saved although its atoms are longer than 2^64 together; others
have an index of more than 2^32 cells (34 here), or a table longer than its index.

**formats** (`MCChunkWalks`, about 39,000 states).  One or two formats of up to three
headers of every kind; size fields from 0 to beyond the width of the sum; chains of up
to four chunks; nulls at, around and across block ends; two tracks up to the end of the
device.  2^32 is smaller than the device here, so sums wrap inside it.  Shows: `HeadersRecognised`: a block belongs to a format exactly when it has all
of its headers that parse, with what is read behind a text's end as the only exception;
`SavedBySize`: a file on the device is saved from header to end, one that reaches beyond
it, or whose size cannot be counted, never with its size; `TakenApart`: stereo and mono
tracks share no cell and lose none, and the stereo file is whole but for its last bytes
while 32 bits count them; `Done`: every header is done
with, unless PLN_BL meets a chunk of size 0.

**searches** (`MCSearches`, about 623,000 states; covers `BlockTools` too).  Dumps of up
to nine pages of every content a tool tells apart, tables of up to 19 records, which are
4 GB and more where 2^32 is 32, and videos of which a marker lies at or behind
`MAX_SIZE_256` (6 pages).  Shows: `PlacesAreNoted`: what is
noted is there, and what is missing and why; `ChainsFollow`: extents, parts and halves
that are put together belong together, and are found if they can be (the two halves of a
video only in front of a last block that is not full, which is not searched, and with
their markers in front of `MAX_SIZE_256`; images of one to five pages have such a block at
each place); `VerdictsHold`: the
XOR key and the verdicts on files follow from all there is; `PagesToTheirTargets`: each
page comes once, in order, to its own target; `LastClaimHolds`: a claimed place has the
last page that claims it, while products do not wrap and names have numbers;
`RepairsAreRight`: only what the tool takes for damage is changed - with yaffs pages that
is a page that lacks the largest id its block has twice, so where two ids come twice a
good page may go (`LargestOnly`) - and a table of less than 4 GB keeps its records and
counts them, unless none is left.

**ext4_extents** (`MCExt4Extents`, about 125,000 states).  Trees of up to three blocks
on a device of eight: leaves whose extents follow each other, leave gaps, come in the
wrong order, are empty, not initialized, or reach an unreadable block or the end of the
device; index blocks that share a child or lead back, to data, or nowhere; wrong
headers; marked blocks; a volume at block 0 and at block 1.  Nine calls fit the stack,
three times what a tree of three blocks needs.  Shows: `PiecesAreRight`: at any time,
what the file holds is what a leaf of the tree has for that place, for a volume that
begins with the device (line 411 leaves the volume's offset out, so otherwise each block
is taken that much too early); `DamageStaysInLeaf`: a mark costs the rest of its leaf
and nothing else; `EndlessOnlyInCircle`: a stack with room for a call of each index
block overflows only in a circle, and the recursion returns only from a tree without
one.

**zoom_h6_first_file** (`MCZoomH6Doc`).  Expects a violation of `FirstFileTakesTwo`:
`zoomH6_copy.json` (line 8) and the comment at `zoomh6raw.h:301` say the first file
takes two clusters each time round; `saveZoomFiles` takes one for each file.

**Bounds.**  The loops of the code look at one block, sector or cell at a time and at
the end of the device; a bound is large enough when a file has a first, a middle and a
short last block, a chain has a jump and a circle, a folder counter comes round once,
and each failure can strike at each of these.  The runs have all of that. `MaxSize`,
`MaxWalk` and `OffsetMod` are the named bounds of `size_`, of an endless walk (it stands
for the memory), and of `uint64_t`; `DWord`, `Wide` and `CountMod` are 2^32, 2^64 and
2^16, and `DWordSectors` the sectors of 2^32 bytes, made small enough that sums and counts do wrap and large enough that others do
not.  In `Views`, `MaxDepth` (3) is the depth of folders that are opened and recovered, one more than
the volumes without a circle have, and than the one with a circle has folders, `MaxTicks` (2) the boxes that are ticked: one
tick before and one after a folder is opened or recovered, or one in each view;
`MaxRefused` (1) the failures of `mkpath`.  `MaxTargets` (4) bounds the files or folders a
tool writes to; a job that needs more is not among `Jobs`.  An invariant of two properties' names
(`ReadsAreRight`, `SavedIsSource`, ...) is the conjunction of the parts defined next to
it, each with its own comment.

**Fairness.**  `FairSpec` of `FileDevice` assumes weak fairness of a turn of the
transfer loop and of the return from it: the calling thread keeps running inside a call.
No call need be made.  `Carver` and `ChunkWalks` assume weak fairness of `Next`: one
thread that never waits for anybody.  The others have no liveness property under
fairness: their loops need not end, and safety properties say when they do not
(`EndlessOnlyInCircle`, `EndlessOnlyByWrap`).

**Deadlock** is checked in `file_device` and `disk_device`.  The other models have an
end, so their configurations say `CHECK_DEADLOCK FALSE`: `carver` when the scan is
finished or the program dead; `zoom_h6`, `ext4_extents`, `video`, `formats` and
`searches` with the return or exception of the call; `fat_chain` and `fat_folder` with
an exception or a crash, and when no volume is found or the memory is exhausted; `views`
when a deleted index was used.

**Mutants.**  Each property is broken by a plausible slip: a dropped test for zero
bytes, a seek left out when the position has not moved, the jump over the saved file
that `main()` computes and does not use, `FooterStart` not reset after the first block,
the last run forgotten, a folder read again each time, files of every size recovered, files opened before the last is
there, a GoPro group skipped.  The mutated operators stand next to the definitions they
replace.

## 4. Proofs

All for every value of the constants that the named assumptions allow.

`FileDeviceProofs`: `TypeCorrect`, then `SizeCoversFileAlways` and
`AppendedSizeIsExactAlways`.  The invariants speak of idle moments only and are not
inductive: within a call the file grows block by block while `size_` stays.  The
strengthening `IInv` adds `CallInv`: a running read has left the file alone (`ReadInv`);
a running write began at `req.start`, has so far reached `req.start + data_pos` and no
further unless it failed, and relates to `size_` as the history variables say
(`WriteInv`).  `Return` then follows by arithmetic from `size_' = size_ + data_pos`.

Then the refinement.  `DataIsWhereItBelongs` is the invariant of data (`DataInv`): inside
a read, `buffer[i] = data[req.start + i]` for each `i < data_pos`; inside a
write, the file is the old one with the first k bytes of the buffer spliced in at
`req.start`, for some k at least `data_pos`.  `FileImplementsDevice` uses it at
`Return`, where the abstract device takes its step, with k as witness; all turns of the
loop are stutters, and control operations map to `Device!Control`.

`DiskDeviceProofs`: `ReadsServed` and `WritesServed`.  `ReadsAreRight` speaks of a call
that has returned; `IInv` says where a call can be: at rest, after the rounding
(`Rounded`), or moving blocks (`Reading`, `Writing`).  While blocks move, the first
`data_pos` bytes of the buffer are those of the drive at `req.start`, and `data_pos` is
a multiple of the sector size, so each block is accepted; a read that has failed has one
of the reasons of `Excused`.  `ReturnRead` then needs the arithmetic of rounding
(`Rounding`): whole sectors from `align_offset` on hold the bytes asked for, and reach
one sector further than they do.  The proof needed one condition more than the property
had: an engine whose transfer size was set to 0 refuses every read.

`ConsoleProofs`, about `Carver`: `EveryHeaderIsCarved`, `TargetsStay` and `SavedFileIsSource`,
one invariant for each question, over the types.  `SeenInv`: every
signature before the place the search has reached is in `seen`, and nothing else is;
this is why the search may go on one sector behind a header.  `FolderInv`: the i-th file
is in folder (i - 1) div `FilesPerFolder`, and their header offsets grow, so no name
comes twice; the folders' sizes follow by counting. `SaveInv`: while a file is saved,
the target ends where the device was read to, whole blocks were read, and no footer that
the search can see is in them. The proof of the last found a gap in `FooterEndsFile` as
it had been checked: a footer longer than the rest of a short last block makes its
search run on, which hides the shorter ones behind it in the list.  The property now
says so (`RanOn`), and the run has a format that shows it.

`FileSystemProofs`, about `FatChain`: `RunsAreTheChain`, `FileIsItsChain`, `EndlessIsACircle` and
`FolderIsItsChain`.  The invariant has a part for each loop: at its n-th turn it is at
the n-th cluster of the chain, and has collected those before (`WalkInv`, `FolderInv`);
while a recoverable file of n clusters is read, the buffer holds what the runs so far
spell, as far as the n-th cluster (`ReadInv`).  A run never straddles the end of such a
file: an end mark that the walk takes for a cluster does not follow a data cluster in
number (`RunPlace`), so it is a run of its own and is left out.  That a read stays in its
buffer is counted in clusters: the runs read so far and the one in turn are together no
more than the chain, whose size does not wrap below 4 GB.  That a collected cluster
does not come twice, and that a walk of more clusters than the table has cells is in a
circle, follows from `SameFrom` (a chain goes on the same way from equal clusters) and
the pigeonhole principle.  `Chain`, and `FlattenSeq` of the community modules, which
spells runs, are recursive functions; `ChainFollows`, `FlattenAppend` and
`FlattenUniform` say what they compute, by least elements.  The proof found three
conditions that the properties lacked: a folder whose first cell is free
(`FreeCellInCircle`), a volume so large that data clusters have the numbers of marks,
and a walk that leaves the table only at its last cluster (`MaxWalk > Cells + 1`).

`ZoomH6Proofs`: `ClustersGoInTurn` and `SavesWholeOrThrows`.  The invariant counts
rounds, which the code does not: after r of them each track holds r clusters, or r + 1
if its turn of the running round is over (`Dealt`), all of them whole but a last one.
From this follow the place of each cluster, whatever the sizes, and that a full track
whose turn comes needs too few clusters to come out even with the one that is not full.
The cells of a track are counted without a width, `currentSize_` with one: they agree for
a track whose size leaves room for a cluster below 2^32, and one beyond that is never
ready, as its size is no multiple of the cluster and 2^32 is.

`Ext4ExtentsProofs`: `EveryPieceIsRight`, `OnlyTheLeafIsLost` and
`OnlyCirclesAreEndless`.  The recursion keeps no list of where it was; the invariant
reads it off the stack: the call above stands for the child at the caller's entry before
the next one, and what earlier entries lead to is `Walked`: saved, and without a circle.
`Walked` of the root is the second theorem and half of the third. For the other half,
a stack higher than the number of index blocks holds one of them twice (the pigeonhole
principle of the library), and each call's block is reachable from the ones below it.
Here too the proof needed a condition the property did not have: that the stack has
room for as many calls as there are index blocks.

`FileSystemProofs`, about `FatFolder`: `FirstVolumeIsMounted` and `FolderIsListed`.  The first needs what the
loop over the partition table leaves (`PartitionsAre`) and, at each place of the program,
what was read of the boot sector (`MountInv`).  For the second the invariant says of the
entries read so far what the property says of all (`Listing`), and, in an undamaged
folder, that the loop never stands inside a long name (`BehindName`): each turn ends
behind an entry that is no live part.  One lemma (`TurnAdds`) covers short names, zeros
and long names; `LongTurn` shows that the parts an undamaged folder has for an entry are
exactly those the loop takes, as an order byte with bit 0x40 flipped counts at least as
many as there are, whatever its other bits.  The proof found one thing the property had
left to the run's folders: that each listed entry has a name, without which the nameless
file of the unused entries cannot be told from it.

`FileSystemProofs`, about `Views`: `ModelsShowTheNodes`, `OnlyRecoveryDeletes`, `TickStandsForAllBelow` and
`FolderIsRecovered`.  The properties speak of moments without a running recovery; the
invariant adds what one has still to do.  Filled folders are entries of the volume, each
with the one it lies in (`Filled`), which makes the two models have the same folders
after each reset (`Agree`).  The calls on the stack follow one another down the volume,
each with children of its folder left (`Calls`).  `Todo` are those children and a folder
not yet read.  A folder of the table stands for its children unless it is partly
checked, refused, or in `Todo` (`Cover`): setting everything below an entry and then
forming each folder above it leaves each of them with the common state of its children,
or partly checked (`ParentsAre`).  Each file below the target is saved, below a refused
path, or below one in `Todo`, and nothing in `Todo` lies above a saved file (`Saving`);
so no file is saved twice and, with `Todo` empty, none that is taken is left out.  `At`, `FilesBelow` and `UpdateParents` are recursive functions; `AtFollows`,
`FilesAre` and `ParentsAre` say what they compute.

`GoProProofs`: `WalkGoesForward`, `SavedVideoParses`, `TempFileGoes` and `VideoOnly`.  The
walk's atoms lie one behind the other, modulo 2^64, and forward unless one of them wraps
(`Chain`, `WalkInv`); an atom found a second time would lie behind itself.  A chain that
is inside the device is as long as its last atom's end is away from its first, so its sum
does not wrap, and what `Copied` writes of it parses (`ChainSaved`, `JoinedSaved`): it
copies all that was asked for when that lies on the device, and less when it does not,
which is a fact about the rounds of its loop (`CopiedIs`).  The temporary file exists
from the step that makes it to the last one, and two indices were found only then
(`TempInv`).  The marking loop is a recursive function; after n turns each group it has
spread begins at a mark, and behind the groups there are only the marks it was given
(`SpreadInv`), which gives what is left out; what is not, is taken in order (`LrvInv`).
The table of markers is one, too: after n offsets of an ascending table each is in the
list of its cluster, the last list being open (`TableInv`).  While clusters are taken,
the target is as long as those before the next one together, so each chunk of these
begins where the table says, with a marker (`ClustersTaken`); the index written over it
is the exception.  The proof found that what was checked of a save inside the device did
not follow for one that wraps: the sum the code forms may then be right by accident, so
`SavedFileParses` speaks of the true length (`Length`), and the run has images for it.

`ChunkWalksProofs`: `SizesAreKept`, `TracksAreWhole` and `BlocksAreRecognised`.  The
first says of each algorithm's places what it has found there (`SizeInv`): chunks were
read as far as `start + size`, and the one behind them was, too.  The second is about the
recorder: at each turn the tracks together hold the cells up to the place the walk has
reached, none twice, ascending in the first (`Dealt`); a cluster that runs beyond the
device is cut there, as it is not longer than its distance from the device's start
(`CopiedTo`).  For the third, the invariant says of the entries read so far
(`FormatRead`): no offset is kept twice, nothing is kept that was not given, and of what
was given each text is kept, or one it begins with, unless it is doubtful.  Two
conditions came from the proof: a sum that wraps around the width can be right by
accident, so `SavedBySize` asks for a size that can be counted; and the stereo track is
whole as its header says only while 32 bits count what was passed.

`ConsoleProofs`, about `BlockTools`, with the invariants of `ToolInvariants`:
`PagesAreDealt`, `LastPageStays` and
`RepairsStayRight`, over `LoopsEndWhereTheyHaveTo`, and for `ToolSpec`, in which the
searches run, too.  The properties speak of a tool that
has ended; `LoopInv` says that it then has read all it could, with `k` at the end of the
last file, and that the files `splitToFiles` writes to are open while it runs, so that it
cannot stop for a closed one.  What a property says of all pages the invariants say of those
in front of the loop: `DealInv` has in each target its pages up to `k`, in order, and,
for the tools that count, the number they go on from; `ClaimInv` has in each place the
last of the cells read so far (`ReadSoFar`) that claim it, and in `imageMap_` the ids
whose good page was seen; `RepairInv` has the image up to `k`.  A cell read now comes
behind all that were read before (`HereIsLast`), which is all there is to a last claim,
save for `saveXVA`: it looks for the next header on the sectors it has read already, so
the invariant adds that no block begins in front of the loop and ends behind it.  A block
that shares one marker has no other twice, so `calcPopularValue` finds it (`Popular`), and
whatever it finds is the largest id that is there twice;
what `xorWithBlock` writes behind a clipped last block is its buffer, which is the block
before (`BlockCombined`); a count of records does not wrap while the table is shorter
than 2^32 (`Counted`), nor does an offset of one.

`ConsoleProofs`, about `Searches`: `PlacesStayNoted`, `WhatFollowsIsFound` and
`VerdictsStand`.  A run is one tool's from its first state to its last (`KindInv`), so
each property is the conjunction of one invariant per search.  `CircleInv` needs that a
block begins on the grid, which `Block % Grid = 0` says: the search counts from the start
of each block, the property from the start of the region.  `DepthInv` says which line of
which file each extent found so far has, and which files are closed: an extent deeper
than all before makes the vector of files grow, and one that did so between two of the
same depth is why the earlier line is lost.  `PieceInv` is about two neighbouring
markers; a marker that the search from one start passes is seen from no block of it.
`InodeInv` has in each place the last extent that the inode's list puts there.
`ChainInv` has what is copied so far as a chain, and that what is left of the list is all
the rest of it; so an extent that goes on from the end was among those to choose from.
`PartInv` says that no place lies in front of the loop, as within a block only the first
header can begin one (`FirstHeader`).  `PairInv` has the indexes and the media data in
front of the loop and, once these are complete, the pairs compared so far.  `KeyInv` has
the most frequent byte for each place of the chunks done: the code counts in stripes
that are cut into chunks, the property by places of the whole key (`KeyByte`), which
agree while no 16-bit count wraps.  `TestInv` says of the files tested so far what the
property says of all.  The proof found that `Paired` did not hold as it had been
checked: `SavePos_ftyp_mdat` throws on a last block that is not full and notes nothing of
it, and no image of the run had one; the property now says so (`InFullBlock`), and the run has
such images.

The facts about division and multiples that these modules need are lemmas of each, as
the library has none.  The induction theorems of the library take an operator as a
parameter, which the installed provers cannot instantiate; where a proof needs induction
over the numbers (the first cluster without a header, the first call of the stack that
a block does not lead to) it takes the least element of a set (`LeastElement`), from the
well-foundedness of the numbers.

Only model-checked: the liveness properties `EveryCallReturns`, `Termination` and `Done`
(liveness under fairness is beyond the prover).  Every invariant and every action
property that a run checks, and the refinement, are proved.

## 5. Plan

| Module | Question | Composition | Proofs to write |
|---|---|---|---|
| IOEngine, FileDevice, Device | transfers and sizes | FileDevice EXTENDS IOEngine, INSTANCE Device | done |
| FatChain | chains | | done |
| ZoomH6 | which cluster goes where, and how it ends | an outcome of `Special` of Carver | done |
| Ext4Extents | extents at their place; damage confined to a leaf | | done |
| Carver | the scan | | done |
| DiskDevice | unaligned reads; where the position is left | EXTENDS IOEngine | done |
| Views | parents and children of the two views, folders read lazily | FatChain and FatFolder below it | done |
| FatFolder | which volume, which entries | the listing Views starts from | done |
| QuickTime, GoPro | atoms, clusters left out | `SaveByFactory` of Carver | done |
| Signatures, ChunkWalks | formats, size fields, tracks | `SaveByFactory` of Carver | done |
| BlockTools | images built page by page | the steps of Searches' runs too | done |
| Searches | places noted, and what follows from them | EXTENDS BlockTools | done |

All of these are modelled, and their safety properties proved.

## 6. Not modelled

`RawRecovery` (a window that lists devices and signatures and starts no recovery) and
`FSViewer/foldermodel.cpp`, which no window uses; `Sparsebundle`, which no program uses;
`Finder`, which walks directories of the host; the SetupAPI queries of
`physicaldrive.h`.

In the FAT code: boot sectors of FAT16 and NTFS, `ReadFile` by contiguous size, and
`RecoverFolder(DirectoryEntry)`, which nothing calls; dates and sizes of entries.  In
the windows: sorting, drawing, dialogs; clicking while no volume is mounted, which uses
an empty pointer to the file system and ends the program at once.

Two things of modelled parts: the sum of a request and the place it begins at in an
unaligned read of a drive (`diskdevice.cpp:86-87`), which has 32 bits and is right for
requests below 2 GB; and failures of writes to the target in the video
saves, which end a save by an exception like the failures of reads do.

In `libraw`: zip, which is `StandartRaw` with other parameters; `OleRAW` beyond its
call, as it saves a size that nothing sets; `dji.h`, which is empty; `onec.h`, which
prints what it reads.  Of the tools: those in `fix_dbf_main.cpp` that repeat a modelled
one with other numbers, `getPopulaValueBlock` and `analizeXor`, which print; the paths
compiled into each `main`.  JSON parsing is Qt's; entropy and the content that markers
are compared with are choices.  `PROJECT.json` gives the parts that are left out for
each component.

To run: `tlc -config MCCarver.cfg MCCarver.tla`, `tlapm FileDeviceProofs.tla`.
