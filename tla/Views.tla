------------------------------- MODULE Views -------------------------------
(* The window of FSViewer: a tree view of the folders and a table view of   *)
(* one folder's entries, both over the nodes (DirectoryNode, FileNode) that  *)
(* FatFileSystem fills when a folder is first asked for.  Each view has a     *)
(* model of its own, TreeIndex and TableIndex, whose indexes copy the nodes    *)
(* and carry the check states; the window's handlers keep the two in step.     *)
(*                                                                              *)
(* An entry is named by its path, a sequence of names below "root:".  What       *)
(* read_folder finds in a cluster is the constant side of the model: module      *)
(* FatChain has the chains and the reading of files.                              *)
EXTENDS Integers, Sequences, SequencesExt, FiniteSetsExt

CONSTANTS
    Volumes,      \* volumes: cluster of a folder -> name -> cluster, or a kind of file
    MaxDepth,     \* bound: names in the path of a folder that is opened
    MaxRefused,   \* bound: times that mkpath fails
    MaxTicks      \* bound: boxes ticked

\* Files of 4096, 8192, 16384 or 32768 bytes whose size by the table is not 0,
\* those of another size, and those whose size by the table is 0.
File == -1
OtherSize == -2
NoClusters == -3
Files == {File, OtherSize, NoClusters}

\* The root is in cluster 0; every entry is a file or leads to a folder of the
\* volume.
ASSUME VolumesAssumption ==
    /\ MaxDepth \in Nat
    /\ \A d \in Volumes :
         /\ IsFiniteSet(DOMAIN d) /\ DOMAIN d \subseteq Nat /\ 0 \in DOMAIN d
         /\ \A c \in DOMAIN d : \A name \in DOMAIN d[c] : d[c][name] \in DOMAIN d \cup Files

VARIABLES
    volume,       \* the volume
    filled,       \* folders whose node holds its entries
    tree,         \* TreeIndex objects: path -> check state
    rows,         \* TableIndex objects: path -> check state
    treeCur,      \* currentIndex of the tree view
    shown,        \* the folder the table view shows
    dangling,     \* tree paths whose index a view may hold, deleted meanwhile
    broken,       \* a deleted index was used: anything may happen
    stack,        \* the calls of RecoverFolder: [at, rest, read]
    rebuilt,      \* history: folders whose indexes a recovery replaced
    wanted,       \* history: the entry last recovered ...
    saved,        \*   ... the files RecoverFile wrote for it, with how often
    refused,      \* history: paths mkpath failed for
    ticks         \* history: boxes ticked

views == <<filled, tree, rows, treeCur, shown, dangling, broken>>
recovery == <<stack, rebuilt, wanted, saved, refused>>
viewsVars == <<volume, views, recovery, ticks>>

CheckState == {"Unchecked", "Checked", "PartiallyChecked"}

-----------------------------------------------------------------------------
\* The nodes

At(p) ==
    LET at[k \in 0 .. Len(p)] == IF k = 0 THEN 0 ELSE volume[at[k - 1]][p[k]]
    IN  at[Len(p)]
IsFolder(p) == At(p) \notin Files
Kids(p) == {Append(p, name) : name \in DOMAIN volume[At(p)]}
Below(q, p) == IsStrictPrefix(p, q)
KidsIn(t, p) == {q \in DOMAIN t : Len(q) = Len(p) + 1 /\ Below(q, p)}

\* What the nodes of the folders in f hold.
Held(f) == UNION {Kids(p) : p \in f}

\* getFirst reads a folder from the disk when its node holds nothing, and
\* succeeds when it then holds something.
getFirst(p) == Kids(p) # {}
ReadsAgain(p) == TRUE
NeedsRead(p) == p \notin filled

-----------------------------------------------------------------------------
\* The indexes

ForgetsTree(t, p, f) == t

\* clear, then one index for every folder below p that a node holds: the
\* constructor of an index makes those of its children.
resetTreeChilds(t, p, f) ==
    LET new == {q \in Held(f) : Below(q, p) /\ IsFolder(q)}
    IN  [q \in {r \in DOMAIN t : ~ Below(r, p)} \cup new |->
            IF q \in new THEN "Unchecked" ELSE t[q]]

\* In the table a child takes its parent's state when it is inserted, after
\* its own children took the one it was made with.
resetTableChilds(t, p, f) ==
    LET new == {q \in Held(f) : Below(q, p)}
    IN  [q \in {r \in DOMAIN t : ~ Below(r, p)} \cup new |->
            IF q \notin new THEN t[q]
            ELSE IF q \in Kids(p) THEN t[p] ELSE "Unchecked"]

\* TreeIndex::updateCheckChilds and setChecked: the direct children only.
TreeChilds(t, p, c) ==
    [q \in DOMAIN t |-> IF q = p \/ q \in KidsIn(t, p) THEN c ELSE t[q]]

DirectOnly(t, p, c) == TreeChilds(t, p, c)

\* TableIndex::updateCheckChilds and setChecked: everything below.
TableChilds(t, p, c) ==
    [q \in DOMAIN t |-> IF q = p \/ Below(q, p) THEN c ELSE t[q]]

\* TreeIndex::checkFormChilds compares the children with the parent's state
\* up to now.
TreeForm(t, p, c) ==
    IF \A q \in KidsIn(t, p) : t[q] = t[p] THEN c ELSE "PartiallyChecked"

\* getStateCheckState: the state all have, if they have the same.
Common(t, S, c) ==
    IF S = {} THEN c
    ELSE IF \A q, r \in S : t[q] = t[r] THEN t[CHOOSE q \in S : TRUE]
    ELSE "PartiallyChecked"

\* TableIndex::checkFormChilds: the folders' state and the files', where there
\* are any.
TableForm(t, p, c) ==
    LET folders == {q \in KidsIn(t, p) : IsFolder(q)}
        files == KidsIn(t, p) \ folders
    IN  IF folders = {} THEN Common(t, files, c)
        ELSE IF files = {} \/ Common(t, files, c) = Common(t, folders, c)
             THEN Common(t, folders, c)
             ELSE "PartiallyChecked"

\* updateCheckParents, in either view: from the parent up to the root.
Form(t, p, c, view) == IF view = "tree" THEN TreeForm(t, p, c) ELSE TableForm(t, p, c)
UpdateParents(t, p, c, view) ==
    LET up[k \in 0 .. Len(p)] ==
            IF k = 0 THEN t
            ELSE LET parent == SubSeq(p, 1, Len(p) - k)
                 IN  [up[k - 1] EXCEPT ![parent] = Form(up[k - 1], parent, c, view)]
    IN  up[Len(p)]

-----------------------------------------------------------------------------
\* Opening folders

ViewsInit ==
    /\ volume \in Volumes
    /\ filled = IF Kids(<<>>) # {} THEN {<<>>} ELSE {}
    /\ tree = [q \in {<<>>} \cup {r \in Held(filled) : IsFolder(r)} |-> "Unchecked"]
    /\ rows = [q \in {<<>>} \cup Held(filled) |-> "Unchecked"]
    /\ treeCur = <<>> /\ shown = <<>> /\ dangling = {} /\ broken = FALSE
    /\ stack = <<>> /\ rebuilt = {} /\ wanted = <<>> /\ saved = << >> /\ refused = {}
    /\ ticks = 0

Idle == stack = <<>> /\ ~ broken

\* The history of a recovery is kept until the next thing the user does.
Forget ==
    /\ wanted' = <<>> /\ saved' = << >>
    /\ UNCHANGED <<stack, rebuilt, refused>>

\* Both models get new indexes below p.
Rebuild(p) ==
    /\ filled' = filled \cup {p}
    /\ tree' = IF p \in DOMAIN tree THEN resetTreeChilds(tree, p, filled') ELSE tree
    /\ rows' = IF p \in DOMAIN rows THEN resetTableChilds(rows, p, filled') ELSE rows
    /\ dangling' = dangling \cup {q \in DOMAIN tree : Below(q, p)}

\* OnTreeViewClicked: the node is filled the first time only.
OpenFolder(p) ==
    /\ treeCur' = p
    /\ IF NeedsRead(p) /\ getFirst(p)
         THEN Rebuild(p)
         ELSE UNCHANGED <<filled, tree, rows, dangling>>
    /\ shown' = p
    /\ Forget
    /\ UNCHANGED <<ticks, volume, broken>>

ClickTree(p) ==
    /\ Idle /\ p \in DOMAIN tree \ dangling /\ Len(p) <= MaxDepth
    /\ OpenFolder(p)

\* DoubleClickedTableView looks the folder up by its path.
DoubleClickTable(p) ==
    /\ Idle /\ p \in KidsIn(rows, shown) /\ p \in DOMAIN tree
    /\ Len(p) <= MaxDepth
    /\ OpenFolder(p)

\* The arrow keys move the tree's current index; the table stays.
WalkTree(p) ==
    /\ Idle /\ p \in DOMAIN tree \ dangling
    /\ treeCur' = p
    /\ Forget
    /\ UNCHANGED <<ticks, volume, filled, tree, rows, shown, dangling, broken>>

-----------------------------------------------------------------------------
\* Ticking

\* The value a view's delegate sends for a click on a check box (Qt).
Toggled(c) == IF c = "Checked" THEN "Unchecked" ELSE "Checked"

\* FSTreeModel::setData; the slot for its signal, TreeViewChecked, is empty.
TickTree(p) ==
    /\ Idle /\ ticks < MaxTicks /\ ticks' = ticks + 1
    /\ p \in DOMAIN tree \ dangling
    /\ treeCur' = p
    /\ LET c == Toggled(tree[p])
       IN  tree' = UpdateParents(TreeChilds(tree, p, c), p, c, "tree")
    /\ Forget
    /\ UNCHANGED <<volume, filled, rows, shown, dangling, broken>>

\* TableViewCheckedFolders: the folder's own index in the tree.
TableViewCheckedFolders(t, p, c) ==
    IF IsFolder(p) /\ p \in DOMAIN t THEN [t EXCEPT ![p] = c] ELSE t

\* TableViewParentFolders: the tree's current folder and all above it get the
\* state of the parent of the table's current entry.
TableViewParentFolders(t, c) ==
    [q \in DOMAIN t |-> IF IsPrefix(q, treeCur) THEN c ELSE t[q]]

\* FSTableModel::setData with the two slots its signals call.
TickTable(p) ==
    /\ Idle /\ ticks < MaxTicks /\ ticks' = ticks + 1
    /\ p \in KidsIn(rows, shown) /\ treeCur \notin dangling
    /\ LET c == Toggled(rows[p])
       IN  rows' = UpdateParents(TableChilds(rows, p, c), p, c, "table")
    /\ tree' = TableViewParentFolders(TableViewCheckedFolders(tree, p, rows'[p]),
                                      rows'[Front(p)])
    /\ Forget
    /\ UNCHANGED <<volume, filled, treeCur, shown, dangling, broken>>

\* A deleted index is used: one that the tree view still shows is clicked, or
\* the current one gets a state.
UseDeleted ==
    /\ Idle
    /\ dangling # {} \/ (KidsIn(rows, shown) # {} /\ treeCur \in dangling)
    /\ broken' = TRUE
    /\ Forget
    /\ UNCHANGED <<ticks, volume, filled, tree, rows, treeCur, shown, dangling>>

-----------------------------------------------------------------------------
\* Recovering

Frame(p) == [at |-> p, rest |-> {}, read |-> FALSE]
Once(before, q) ==
    [r \in DOMAIN before \cup {q} |->
        IF r \in DOMAIN before THEN before[r] + (IF r = q THEN 1 ELSE 0) ELSE 1]
MayRefuse == Cardinality(refused) < MaxRefused
Pop == Front(stack)
SetRest(S) == [stack EXCEPT ![Len(stack)].rest = S]

\* RecoverFile, and recoverWITH_FAT_table: only files of certain sizes are
\* recovered, and of these none that has no clusters.
AnySize(q) == TRUE
SizeIsTaken(q) == At(q) # OtherSize
HasClusters(q) == At(q) # NoClusters
RecoverFile(before, q) == IF SizeIsTaken(q) /\ HasClusters(q) THEN Once(before, q) ELSE before

\* RecoverySelected on a row of the table; mkpath may fail for a file at once.
RecoverySelected(p) ==
    /\ Idle /\ p \in KidsIn(rows, shown)
    /\ wanted' = p
    /\ \/ /\ IsFolder(p) /\ Len(p) <= MaxDepth
          /\ stack' = <<Frame(p)>> /\ saved' = << >> /\ UNCHANGED refused
       \/ /\ ~ IsFolder(p)
          /\ saved' = RecoverFile(<< >>, p) /\ UNCHANGED <<stack, refused>>
       \/ /\ ~ IsFolder(p) /\ MayRefuse
          /\ refused' = refused \cup {p} /\ saved' = << >> /\ UNCHANGED stack
    /\ UNCHANGED <<ticks, volume, views, rebuilt>>

\* mkpath fails for a folder, or for the file that is next.
MkpathFails ==
    /\ stack # <<>> /\ MayRefuse
    /\ LET top == Last(stack)
       IN  \/ /\ ~ top.read
              /\ stack' = Pop /\ refused' = refused \cup {top.at}
           \/ \E q \in top.rest :
                /\ top.read /\ ~ IsFolder(q)
                /\ stack' = SetRest(top.rest \ {q}) /\ refused' = refused \cup {q}
    /\ UNCHANGED <<ticks, volume, views, rebuilt, wanted, saved>>

\* readFolders: the node is read if it holds nothing; the indexes are replaced
\* every time.  The loop then runs over the children of the table's index.
ChildsShown(p) == KidsIn(rows, p)
ChildsToDo(p) == KidsIn(rows', p)

readFolders ==
    /\ stack # <<>> /\ ~ Last(stack).read
    /\ LET p == Last(stack).at
       IN  /\ IF getFirst(p)
                THEN Rebuild(p) /\ rebuilt' = rebuilt \cup {p}
                ELSE UNCHANGED <<filled, tree, rows, dangling, rebuilt>>
           /\ stack' = [stack EXCEPT ![Len(stack)] =
                            [at |-> p, rest |-> ChildsToDo(p), read |-> TRUE]]
    /\ UNCHANGED <<ticks, volume, treeCur, shown, broken, wanted, saved, refused>>

RecoverChild(q) ==
    /\ stack # <<>> /\ Last(stack).read
    /\ q \in Last(stack).rest
    /\ IF IsFolder(q)
         THEN /\ Len(q) <= MaxDepth
              /\ stack' = Append(SetRest(Last(stack).rest \ {q}), Frame(q))
              /\ saved' = saved
         ELSE /\ stack' = SetRest(Last(stack).rest \ {q})
              /\ saved' = RecoverFile(saved, q)
    /\ UNCHANGED <<ticks, volume, views, rebuilt, wanted, refused>>

FolderDone ==
    /\ stack # <<>> /\ Last(stack).read /\ Last(stack).rest = {}
    /\ stack' = Pop
    /\ UNCHANGED <<ticks, volume, views, rebuilt, wanted, saved, refused>>

ViewsNext ==
    \/ \E p \in DOMAIN tree : ClickTree(p) \/ WalkTree(p) \/ TickTree(p)
    \/ \E p \in DOMAIN rows : DoubleClickTable(p) \/ TickTable(p) \/ RecoverySelected(p)
    \/ UseDeleted
    \/ MkpathFails
    \/ readFolders
    \/ \E q \in DOMAIN rows : RecoverChild(q)
    \/ FolderDone

ViewsSpec == ViewsInit /\ [][ViewsNext]_viewsVars

-----------------------------------------------------------------------------
\* Properties

\* The two models always show the same volume: below the root the tree has an
\* index for every folder, and the table one for every entry, that a node
\* holds, whichever view a folder was opened in, recovered or not
\* (OnTreeViewClicked and readFolders reset both).
ViewsAgree ==
    /\ DOMAIN rows = {<<>>} \cup Held(filled)
    /\ DOMAIN tree = {p \in DOMAIN rows : IsFolder(p)}

\* Opening folders, from either view and in any order, never deletes an index
\* that the tree view may hold; recovering a folder does, for those below it,
\* and nothing else brings the window to use a deleted one (readFolders
\* replaces the indexes without telling the view).
StaleOnlyByRecovery ==
    /\ \A q \in dangling : \E p \in rebuilt : Below(q, p)
    /\ broken => rebuilt # {}

\* In the table a folder that is ticked, or not ticked, stands for everything
\* below it that was read, however it came to its state and in whatever order
\* folders were opened, ticked and recovered: only a folder that could not be
\* made on the target keeps children of another state (resetChilds,
\* updateCheckChilds, checkFormChilds).
TickCoversBelow ==
    stack = <<>> =>
        \A q \in DOMAIN rows \ {<<>>} :
            LET p == Front(q)
            IN  rows[p] # "PartiallyChecked" /\ p \notin refused => rows[q] = rows[p]

\* The files of the volume below p, as deep as the bound goes.
FilesBelow(p) ==
    LET level[n \in 0 .. MaxDepth + 1] ==
            IF n = 0 THEN {<<>>} ELSE UNION {Kids(q) : q \in {r \in level[n - 1] : IsFolder(r)}}
    IN  {q \in UNION {level[n] : n \in 0 .. MaxDepth + 1} : IsPrefix(p, q) /\ ~ IsFolder(q)}

\* A recovery that ends has written those files of the folder on the volume that
\* RecoverFile takes, each once and with the folder read before or not, save
\* those mkpath failed for; and it writes no other file (RecoverFolder,
\* readFolders, RecoverFile).
RecoveredIsTheFolder ==
    /\ \A q \in DOMAIN saved : saved[q] = 1 /\ q \in FilesBelow(wanted) /\ At(q) = File
    /\ stack = <<>> /\ wanted # <<>> =>
         \A q \in FilesBelow(wanted) :
            At(q) = File => q \in DOMAIN saved \/ \E r \in refused : IsPrefix(r, q)
=============================================================================
