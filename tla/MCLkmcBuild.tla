---------------------------- MODULE MCLkmcBuild ----------------------------
(***************************************************************************)
(* make_from_tuples(path_properties_tuples): the builder of module        *)
(* TreeBuilder over the real literal of module LkmcTree, called once.     *)
(* An item is named [pos |-> p] after its position p in the literal, and *)
(* a children dict [kids |-> p] after the position of its tuple.  Dicts iterate in insertion order; here  *)
(* every key has the same rank, so the loop takes them in some fixed      *)
(* order, which only decides which error comes first when several would. *)
(***************************************************************************)
EXTENDS TreeBuilder, LkmcTree, TLC

MCLkmcItems == {[pos |-> p] : p \in LkmcNodes}

MCLkmcTuples == {[pos |-> p] : p \in LkmcTuples}

MCLkmcPropsOf == [it \in MCLkmcItems |-> LkmcProps[it.pos]]

MCLkmcDictIds == {[kids |-> p] : p \in LkmcTuples}

MCLkmcKidsOf == [t \in MCLkmcTuples |-> [kids |-> t.pos]]

MCLkmcSegs == {p[Len(p)] : p \in LkmcNodes \ {<<>>}}

MCLkmcRank == [s \in MCLkmcSegs |-> 0]

MCLkmcArgs == {[pos |-> <<>>]}

MCLkmcLiterals ==
  {[d \in MCLkmcDictIds |-> [s \in LkmcChildSegs(d.kids) |-> [pos |-> d.kids \o <<s>>]]]}

(***************************************************************************)
(* Tree n is the PrefixTree of position p of the literal: it holds the    *)
(* properties declared there and, for each key declared below p, a        *)
(* PrefixTree (not a literal item) that is, recursively, the one of that  *)
(* position.                                                               *)
(***************************************************************************)
RECURSIVE BuiltAs(_, _)
BuiltAs(n, p) ==
  /\ trees[n].props = LkmcProps[p]
  /\ KidsKeys(trees[n]) = LkmcChildSegs(p)
  /\ \A s \in KidsKeys(trees[n]) :
        LET v == dicts[trees[n].kids][s]
        IN  v \notin Items /\ BuiltAs(v.tree, p \o <<s>>)

(***************************************************************************)
(* path_properties_tuples builds: the one call of make_from_tuples on the  *)
(* real literal raises neither ValueError (every record passes the schema) *)
(* nor TypeError (no tuple is reached twice), and returns the tree whose   *)
(* nodes hold exactly the declarations of the literal: the tree that       *)
(* MCLkmcResolver gives to get.                                            *)
(***************************************************************************)
RealTreeBuilt == builds = 1 => outcome = Returned(top) /\ BuiltAs(top, <<>>)
=============================================================================
