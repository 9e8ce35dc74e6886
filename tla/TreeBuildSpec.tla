---------------------------- MODULE TreeBuildSpec ----------------------------
(***************************************************************************)
(* What a call of PrefixTree.make_from_tuples promises, stated without the *)
(* work list: it returns, in one step, the unfolding of the literal (one   *)
(* node per occurrence of an item, with that item's properties and one    *)
(* child per key of its children dict), or it raises.                      *)
(*                                                                         *)
(* The first call raises exactly when the literal holds a record outside   *)
(* the schema (ValueError) or reaches one non-empty children dict at two   *)
(* places (TypeError), and may raise either when it does both.  A later    *)
(* call on the same literal finds its top children dict already rewritten  *)
(* and raises TypeError, unless that dict is empty.  Used only by TLC.    *)
(***************************************************************************)
EXTENDS PathProperties

CONSTANTS Items, Tuples, PropsOf, DictIds, KidsOf, Args, Literals, MaxBuilds

VARIABLES
  arg,      \* the literal passed to make_from_tuples
  lit,      \* the children dicts as the literal wrote them
  calls,    \* the calls of make_from_tuples that have returned or raised
  outcome   \* what the last one returned ("ok" and the tree) or raised

vars == <<arg, lit, calls, outcome>>

NoTree == [props |-> [x \in {} |-> 0], kids |-> [x \in {} |-> 0]]

KidsIn(v) == IF v \in Tuples THEN lit[KidsOf[v]] ELSE [x \in {} |-> 0]

(***************************************************************************)
(* The tree the literal item v unfolds to.                                 *)
(***************************************************************************)
RECURSIVE Unfold(_)
Unfold(v) ==
  [props |-> PropsOf[v],
   kids  |-> [s \in DOMAIN KidsIn(v) |-> Unfold(KidsIn(v)[s])]]

(***************************************************************************)
(* The occurrences of items in the unfolding of v: <<position, item>>,     *)
(* the position being the sequence of keys leading to it.                   *)
(***************************************************************************)
RECURSIVE Occ(_)
Occ(v) ==
  {<<<<>>, v>>} \cup
  UNION {{<<<<s>> \o o[1], o[2]>> : o \in Occ(KidsIn(v)[s])} : s \in DOMAIN KidsIn(v)}

Invalid == \E o \in Occ(arg) : ~(DOMAIN PropsOf[o[2]] \subseteq Keys)

Shared ==
  \E o1, o2 \in Occ(arg) :
     /\ o1[1] # o2[1]
     /\ o1[2] \in Tuples /\ o2[2] \in Tuples
     /\ KidsOf[o1[2]] = KidsOf[o2[2]]
     /\ lit[KidsOf[o1[2]]] # [x \in {} |-> 0]

Raised(e) == [kind |-> e, val |-> NoTree]

Errors ==
  (IF Invalid THEN {Raised("ValueError")} ELSE {}) \cup
  (IF Shared THEN {Raised("TypeError")} ELSE {})

FirstOutcomes ==
  IF Invalid \/ Shared THEN Errors ELSE {[kind |-> "ok", val |-> Unfold(arg)]}

LaterOutcomes ==
  IF KidsIn(arg) = [x \in {} |-> 0]
    THEN FirstOutcomes
    ELSE {Raised("TypeError")} \cup (IF Invalid THEN {Raised("ValueError")} ELSE {})

Init ==
  /\ arg \in Args
  /\ lit \in Literals
  /\ calls = 0
  /\ outcome = [kind |-> "none", val |-> NoTree]

Build ==
  /\ calls < MaxBuilds
  /\ calls' = calls + 1
  /\ outcome' \in IF calls = 0 THEN FirstOutcomes ELSE LaterOutcomes
  /\ UNCHANGED <<arg, lit>>

Spec == Init /\ [][Build]_vars
=============================================================================
