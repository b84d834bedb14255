------------------------------- MODULE MCTags -------------------------------
(* An instance of Tags for TLC.  In the first layout pages 2, 3 and 5 hold *)
(* data, page 4 is free between them, and the last page is the stack of    *)
(* the master; a tag made before sthread_init then makes the read of       *)
(* /proc/self/maps miss page 5.  In the second the read ends inside a      *)
(* line.  mmap picks the highest place, or page 4.  Of the buffers two end *)
(* in the page that follows, and one wraps.                                *)
EXTENDS Tags

Ln(a, b, w, stack, len) == [start |-> a, end |-> b, w |-> w, stack |-> stack, len |-> len]
MCMaps ==
    {{Ln(1, 2, FALSE, FALSE, 1), Ln(2, 4, TRUE, FALSE, 1), Ln(5, 6, TRUE, FALSE, 1),
      Ln(Pages, Pages + 1, TRUE, TRUE, 1)},
     {Ln(1, 2, FALSE, FALSE, 2), Ln(2, 4, TRUE, FALSE, 2)}}
MCSizes == {1, 2, WORD - 1}
Grant(tid, prot) == [tid |-> tid, prot |-> prot]
MCPolicies ==
    {<<>>, <<Grant(0, {"R"}), Grant(0, {"R", "W"})>>,
     <<Grant(1, {"R"}), Grant(0, {"R", "W"})>>, <<Grant(0, {"R"}), Grant(0, {"R"}), Grant(0, {"R"})>>,
     <<Grant(3, {"R"})>>}
MCBuffers ==
    {[ptr |-> PGSIZE * p, len |-> PGSIZE] : p \in {2, 3}}
    \cup {[ptr |-> PGSIZE * 4, len |-> 1], [ptr |-> PGSIZE * 2, len |-> WORD - PGSIZE]}
MCPlaces(S) == IF S = {} THEN {} ELSE {Max(S)} \cup ({4} \cap S)
=============================================================================
