----------------------------- MODULE MCSearches -----------------------------
(* Images, lists and folders small enough to have all of them, of every        *)
(* content a search tells apart, and the dumps of the tools of BlockTools.      *)
EXTENDS MCBlockTools, Searches

Job(tool, files, ats) == [tool : {tool}, files : files, at : ats, tail : {FALSE}]

Leaf(depth, good, entries) == [id |-> depth, good |-> good, entries |-> entries]
Leaves == {Leaf(0, TRUE, <<>>), Leaf(0, TRUE, <<<<0, 1>>>>), Leaf(0, TRUE, <<<<1, 1>>>>),
           Leaf(0, TRUE, <<<<1, 2>>>>), Leaf(0, TRUE, <<<<0, 1>>, <<1, 1>>>>),
           Leaf(0, TRUE, <<<<1, 1>>, <<2, 1>>, <<4, 1>>>>), Leaf(0, FALSE, <<<<0, 1>>>>),
           Leaf(0, TRUE, <<<<2, 1>>>>)}
Nodes == Leaves \cup {Leaf(1, TRUE, <<<<0, 0>>, <<1, 1>>>>), Leaf(1, TRUE, <<<<2, 2>>>>),
                       Leaf(1, TRUE, <<<<0, 0>>, <<1, 3>>>>), Leaf(2, TRUE, <<<<0, 0>>>>)}

FormatsOf == [e \in {"doc", "zip", "odd"} |->
                CASE e = "doc" -> <<1, 2>> [] e = "zip" -> <<2>> [] OTHER -> <<1, 3>>]

\* A file whose last block is not full, with the markers of media data in front.
TailOf(ids) == [x \in 1 .. 8 |-> [id |-> IF x = 1 THEN 2 ELSE IF x <= 3 THEN 4 ELSE ids[x - 3], good |-> TRUE]]

MCSearched ==
    Job("searchCircle", {<<d>> : d \in Dumps({0}, BOOLEAN, 7)}, {<<b, e, c>> : b \in {0, 1, 2}, e \in {1, 4}, c \in {2, 4, 5}})
    \cup Job("searchExtents", {<<d>> : d \in Dumps(0 .. 3, {TRUE}, 6) \cup Dumps({0, 1, 2}, BOOLEAN, 4)}, {<<0>>, <<2>>})
    \cup Job("searchExtends", {<<d>> : d \in [1 .. 3 -> Nodes]},
             {<<s>> \o l : s \in 0 .. 2, l \in {<<>>, <<1>>, <<0, 1, 2>>, <<2, 1, 0>>, <<1, 2>>}})
    \cup Job("findFilesWithOffsets",
             {<<f, <<[id |-> a, good |-> TRUE], [id |-> b, good |-> TRUE]>>>> :
                 f \in Dumps({0, 1, 2}, {TRUE}, 5), a, b \in {1, 2, NoId}}
             \cup {<<f, g, <<[id |-> 1, good |-> TRUE], [id |-> 2, good |-> TRUE], [id |-> 1, good |-> TRUE]>>>> :
                 f, g \in Dumps({1, 2}, {TRUE}, 4)},
             {<<3, 4, 5>>, <<3, 5, 4>>, <<1, 0, 2>>})
    \cup Job("saveQtFragment", {<<d>> : d \in [1 .. 6 -> [id : {1, 2, 4}, good : {TRUE}]]
                                          \cup [1 .. 6 -> [id : {1, 3, 4, 5}, good : {TRUE}]]
                                          \cup Dumps({1, 2}, {TRUE}, 5)
                                          \cup {TailOf(d) : d \in [1 .. 5 -> {1, 2, 4}]}},
             {<<3, 4>>, <<4, 5>>, <<2, 3>>})
    \cup Job("saveToFile", {<<d>> : d \in Dumps({0, 1}, {TRUE}, 9)}, {<<>>})
    \cup Job("Analize", {<<d>> : d \in Dumps({0, 1, NoId}, {TRUE}, 6) \cup [1 .. 9 -> [id : {0, 1}, good : {TRUE}]]
                                          \cup [1 .. 9 -> [id : {1, 2}, good : {TRUE}]]}, {<<>>})
    \cup Job("testSigantures", {<<d>> : d \in [1 .. 3 -> [id : {0, 1, 2}, good : BOOLEAN]]},
             [1 .. 3 -> {"doc", "zip", "odd", "xyz", "abc"}])
    \cup Job("saveByVxFSInode", {<<d, i>> : d \in Dumps({0}, {TRUE}, 3), i \in [1 .. 3 -> [id : 0 .. 3, good : {TRUE}]]},
             [1 .. 3 -> 0 .. 2])
=============================================================================
