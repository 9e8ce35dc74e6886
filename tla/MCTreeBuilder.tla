---------------------------- MODULE MCTreeBuilder ----------------------------
(***************************************************************************)
(* Every literal TLC can build from three tuples t1, t2, t3 with children *)
(* dicts d1, d2, d3, a bare record rb and a bare record rx that misspells  *)
(* a property name; d1 and d2 have up to two keys, d3 one.  Any acyclic    *)
(* sharing occurs: t3 may be reached from d1 and from d2, or twice from   *)
(* d1, and so may the bare records.  The caller passes t1, or rx, which   *)
(* the schema rejects, and calls make_from_tuples twice on it.            *)
(***************************************************************************)
EXTENDS TreeBuilder, TLC

CONSTANTS t1, t2, t3, rb, rx, d1, d2, d3

MCItems == {t1, t2, t3, rb, rx}
MCTuples == {t1, t2, t3}
MCArgs == {t1, rx}
MCDictIds == {d1, d2, d3}
MCKidsOf == t1 :> d1 @@ t2 :> d2 @@ t3 :> d3
MCSegs == {"a", "b"}
MCRank == "a" :> 1 @@ "b" :> 2

MCPropsOf ==
  t1 :> [userland |-> TRUE] @@ t2 :> [baremetal |-> TRUE] @@
  t3 :> [no_build |-> TRUE] @@ rb :> [interactive |-> TRUE] @@
  rx :> [usrland |-> TRUE]

\* A dict over some of the keys ks whose values are in vals.
DictsOver(ks, vals) == UNION {[S -> vals] : S \in SUBSET ks}

\* Acyclic literals: a children dict only holds items written after it.
MCLiterals ==
  {d1 :> c1 @@ d2 :> c2 @@ d3 :> c3 :
     c1 \in DictsOver(MCSegs, {t2, t3, rb, rx}),
     c2 \in DictsOver(MCSegs, {t3, rb, rx}),
     c3 \in DictsOver({"a"}, {rb, rx})}

(***************************************************************************)
(* The refinement mapping: a returned PrefixTree is read as the nested     *)
(* value of its properties and, recursively, its children.  A child entry *)
(* still holding a literal item is read as a node no unfolding has.       *)
(***************************************************************************)
RECURSIVE TreeValue(_)
TreeValue(n) ==
  LET Val(e) == IF e \in MCItems THEN [props |-> PropsOf[e], kids |-> "literal" :> 0]
                                 ELSE TreeValue(e.tree)
  IN  [props |-> trees[n].props,
       kids  |-> [s \in KidsKeys(trees[n]) |-> Val(dicts[trees[n].kids][s])]]

Abstract == INSTANCE TreeBuildSpec WITH
  arg <- arg,
  lit <- literal,
  calls <- builds,
  outcome <- IF outcome.kind = "ok"
               THEN [kind |-> "ok", val |-> TreeValue(outcome.tree)]
               ELSE [kind |-> outcome.kind,
                     val |-> [props |-> [x \in {} |-> 0], kids |-> [x \in {} |-> 0]]]

(***************************************************************************)
(* Every call of make_from_tuples returns the unfolding of the literal or  *)
(* raises, and raises exactly as TreeBuildSpec says: on a misspelt name,   *)
(* on a children dict reached twice, on a second call.                     *)
(***************************************************************************)
BuildsAsSpecified == Abstract!Spec
=============================================================================
