---------------------------- MODULE MCBlockTools ----------------------------
(* Dumps of up to four pages, of every content the tools tell apart.          *)
EXTENDS BlockTools, SequencesExt

Dumps(ids, goods, n) == BoundedSeq([id : ids, good : goods], n)
One(tool, ids, goods, tails) ==
    [tool : {tool}, files : BoundedSeq(Dumps(ids, goods, 4), 1) \ {<<>>}, at : {<<>>}, tail : tails]
Two(tool, firsts, seconds) ==
    [tool : {tool}, files : {<<f, s>> : f \in firsts, s \in seconds}, at : {<<>>}, tail : {FALSE}]

MCJobs ==
    One("splitToFiles", 0 .. 2, {TRUE}, BOOLEAN)
    \cup One("splitByPages", {0}, {TRUE}, BOOLEAN)
    \cup One("splitByPage", {0}, {TRUE}, BOOLEAN)
    \cup One("saveOnlyWithID", {0, 1}, {TRUE}, BOOLEAN)
    \cup {j \in One("saveByPageNumber", {0, 1, 2, 31}, {TRUE}, BOOLEAN) : j.files # <<<<>>>>}
    \cup One("createManyExcelFiles", {0}, BOOLEAN, BOOLEAN)
    \cup One("modify_mft_by_id", {0, 1, 5, 9, 17}, BOOLEAN, {FALSE})
    \cup One("saveXVA", {NoId, NoNumber, 0, 1, 3}, {TRUE}, {FALSE})
    \cup [tool : {"saveXVA"},
          files : {<<[i \in 1 .. 7 |-> [id |-> IF i \in DOMAIN h THEN h[i] ELSE NoId, good |-> i \notin b]]>> :
                     h \in UNION {[S -> 0 .. 2] : S \in {T \in SUBSET (1 .. 7) : Cardinality(T) <= 3}},
                     b \in {{}} \cup {{i} : i \in 1 .. 7}},
          at : {<<>>}, tail : {FALSE}]
    \cup One("replaceBadMarkerToNulls", {0}, BOOLEAN, BOOLEAN)
    \cup One("fixDBF", {0}, BOOLEAN, BOOLEAN)
    \cup [tool : {"fixDBF"},
          files : {<<[i \in 1 .. n |-> [id |-> 0, good |-> i \notin b]]>> : n \in {14, 15, 19}, b \in SUBSET {1, 2, 14}},
          at : {<<>>}, tail : BOOLEAN]
    \cup [tool : {"SaveImage"},
          files : {<<f, s>> : f \in Dumps({0, 1, 3, NoId}, BOOLEAN, 2), s \in Dumps({0, 1}, BOOLEAN, 2)},
          at : {<<>>}, tail : BOOLEAN]
    \cup [tool : {"writeImageFiles"},
          files : {<<f, s>> : f, s \in Dumps({0}, {TRUE}, 2)},
          at : {<<a, b>> : a, b \in {NoId, NoNumber, 0, 1, 3}}, tail : {FALSE}]
    \cup Two("replaceBadsFromOtherFile", Dumps({0}, BOOLEAN, 4), Dumps({0}, {TRUE}, 4))
    \cup Two("yaffsPageNumberModify",
             Dumps({0, 1, 2, NoId}, {TRUE}, 4) \cup [1 .. 6 -> [id : {1, 2}, good : {TRUE}]],
             [1 .. 3 -> [id : 0 .. 2, good : {TRUE}]]
                \cup {[i \in 1 .. 6 |-> [id |-> x[(i % 3) + 1], good |-> TRUE]] : x \in [1 .. 3 -> 1 .. 2]})
    \cup Two("xor_files", Dumps({0}, {TRUE}, 4), Dumps({0}, {TRUE}, 4))
    \cup Two("xorWithBlock", Dumps({0}, {TRUE}, 7), Dumps({0}, {TRUE}, 3) \ {<<>>})
=============================================================================
