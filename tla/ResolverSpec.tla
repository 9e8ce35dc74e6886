---------------------------- MODULE ResolverSpec ----------------------------
(***************************************************************************)
(* What get(path) promises, stated without the merge loop: each call       *)
(* returns, in one step, the property set that the spec's rules give for   *)
(* the path.  The matched nodes are the root and then the longest prefix   *)
(* of the path that exists in the tree (prefix match).  Among them, in     *)
(* root-to-leaf order:                                                     *)
(*   - a scalar property has the value of the deepest node declaring it;   *)
(*   - a list property is the concatenation of every declared value;       *)
(*   - test_run_args maps each entry to the value of the deepest node      *)
(*     declaring that entry.                                               *)
(* Used only by TLC (Resolver implements it under the identity mapping of *)
(* ret).                                                                   *)
(***************************************************************************)
EXTENDS PathProperties

CONSTANTS Nodes, Root, Children, Overrides, Segs, MaxDepth, Flags, Envs, NoResult

VARIABLE ret

Paths == UNION {[1..n -> Segs] : n \in 1..MaxDepth}

(***************************************************************************)
(* The nodes matched below n by the components s, outermost first.         *)
(***************************************************************************)
RECURSIVE MatchedBelow(_, _)
MatchedBelow(n, s) ==
  IF s = <<>> \/ Head(s) \notin DOMAIN Children[n]
    THEN <<>>
    ELSE <<Children[n][Head(s)]>> \o MatchedBelow(Children[n][Head(s)], Tail(s))

Chain(p) == <<Root>> \o MatchedBelow(Root, p)

(***************************************************************************)
(* The values declared for property k along the chain, root first.         *)
(***************************************************************************)
Declared(p, k) ==
  LET ds == SelectSeq(Chain(p), LAMBDA n : k \in DOMAIN Overrides[n])
  IN  [j \in 1..Len(ds) |-> Overrides[ds[j]][k]]

RECURSIVE Concat(_)
Concat(ss) == IF ss = <<>> THEN <<>> ELSE Head(ss) \o Concat(Tail(ss))

DeepestEntry(ds, e) ==
  LET j == CHOOSE j \in DOMAIN ds :
             e \in DOMAIN ds[j] /\ \A m \in j + 1..Len(ds) : e \notin DOMAIN ds[m]
  IN  ds[j][e]

DictOf(ds) ==
  [e \in UNION {DOMAIN ds[j] : j \in DOMAIN ds} |-> DeepestEntry(ds, e)]

Reference(p) ==
  [k \in Keys |->
     LET ds == Declared(p, k) IN
     CASE k \in ListKeys -> Concat(ds)
       [] k \in DictKeys -> DictOf(ds)
       [] OTHER          -> ds[Len(ds)]]

Init == ret = NoResult

Get(p) == ret' = [props |-> Reference(p), comps |-> p]

(***************************************************************************)
(* \E p \in Paths : Get(p), with p read off the new ret so that TLC       *)
(* evaluates Reference once per step.                                      *)
(***************************************************************************)
Resolve ==
  /\ ret' # NoResult
  /\ ret'.comps \in Paths
  /\ Get(ret'.comps)

(***************************************************************************)
(* The caller drops a result once it has used it.                          *)
(***************************************************************************)
Drop == ret' = NoResult

Next == Resolve \/ Drop

Spec == Init /\ [][Next]_ret
=============================================================================
