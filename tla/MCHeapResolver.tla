--------------------------- MODULE MCHeapResolver ---------------------------
(***************************************************************************)
(* get at the level of objects over the prefix tree of MCTree.            *)
(***************************************************************************)
EXTENDS HeapResolver, MCTree

MCArchs == {ArchX86_64}

(***************************************************************************)
(* The paths the caller resolves: every path of up to three components,    *)
(* and the four-component paths below userland/libs/lib1, the only part of *)
(* the tree three levels deep.                                             *)
(***************************************************************************)
MCPaths ==
  UNION {[1..n -> Segs] : n \in 1..3} \cup
  {<<"userland", "libs", "lib1", s>> : s \in Segs}
=============================================================================
