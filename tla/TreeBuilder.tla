----------------------------- MODULE TreeBuilder -----------------------------
(***************************************************************************)
(* PrefixTree.make_from_tuples of src/path_properties.py: the work-list    *)
(* loop that turns the nested literal of override records into a tree of  *)
(* PrefixTree nodes.                                                       *)
(*                                                                         *)
(* The literal is a heap of Python objects.  An item is either a tuple     *)
(* (properties dict, children dict) or a bare properties dict.  The        *)
(* children dicts are mutable objects shared by reference: the loop        *)
(* rewrites each of their entries in place, from the literal it held to   *)
(* the PrefixTree built for it (line 241).  A tuple reached twice, or a    *)
(* second call on the same literal, therefore finds PrefixTree objects     *)
(* where it expects literals.                                              *)
(*                                                                         *)
(* dicts[d] is the current content of children dict d (segment -> value),  *)
(* a value being an item or a reference [tree |-> n] to the n-th PrefixTree *)
(* created.  trees[n] is that PrefixTree: its properties and the children *)
(* dict object it holds (NoKids for the fresh {} of a bare record).        *)
(***************************************************************************)
EXTENDS PathProperties

CONSTANTS
  Items,      \* the objects of the literal that tree_from_tuples is applied to
  Tuples,     \* those of them that are tuples (properties, children)
  PropsOf,    \* PropsOf[it] : the properties dict of item it
  DictIds,    \* the children dicts of the literal
  KidsOf,     \* KidsOf[t] : the children dict of tuple t
  NoKids,     \* the fresh {} that tree_from_tuples pairs a bare record with
  Segs,       \* the segment names the children dicts use as keys
  Rank,       \* Rank[s] : the position of s in the insertion order of a dict
  Args,       \* the literals the caller may pass to make_from_tuples
  Literals,   \* the contents the children dicts may have been written with
  MaxBuilds   \* how many times the caller calls make_from_tuples

ASSUME BuilderAssumption ==
  /\ Tuples \subseteq Items
  /\ Args \subseteq Items
  /\ Items \cap [tree : Nat] = {}   \* a PrefixTree is no item of the literal
  /\ NoKids \notin DictIds
  /\ \A t \in Tuples : KidsOf[t] \in DictIds
  /\ \A it \in Items : IsFunc(PropsOf[it])
  /\ \A L \in Literals :
        /\ IsFunc(L) /\ DOMAIN L = DictIds
        /\ \A d \in DictIds : IsFunc(L[d]) /\ DOMAIN L[d] \subseteq Segs
                              /\ \A s \in DOMAIN L[d] : L[d][s] \in Items
  /\ Rank \in [Segs -> Nat]
  /\ MaxBuilds \in Nat

Ref(n) == [tree |-> n]

(***************************************************************************)
(* What a call of make_from_tuples returned: a tree, or the exception it   *)
(* raised; None before the first call returns.                            *)
(***************************************************************************)
NoOutcome    == [kind |-> "none", tree |-> 0]
Raised(e)    == [kind |-> e, tree |-> 0]
Returned(n)  == [kind |-> "ok", tree |-> n]

VARIABLES
  arg,      \* the argument tuples of make_from_tuples (never changes)
  literal,  \* the children dicts as the literal wrote them (never changes)
  dicts,    \* the children dicts as they are now
  trees,    \* the PrefixTree objects created so far, in creation order
  todo,     \* todo_trees, a stack (append and pop at the end)
  cur,      \* cur_tree: the tree whose children the for loop converts
  left,     \* the keys of cur_children the for loop has still to visit
  top,      \* top_tree of the running call
  pc,       \* "idle" between calls, "while" at the loop test, "for" inside
  builds,   \* the calls of make_from_tuples that have returned or raised
  outcome   \* what the last of them returned or raised

vars == <<arg, literal, dicts, trees, todo, cur, left, top, pc, builds, outcome>>

(***************************************************************************)
(* The schema check of PathProperties.__init__ (lines 102-104).           *)
(***************************************************************************)
SchemaOk(props) == DOMAIN props \subseteq Keys

(***************************************************************************)
(* The exception tree_from_tuples(v) raises, or "none".  A value that is   *)
(* already a PrefixTree is no tuple, so it is paired with {} and handed to *)
(* PathProperties as a properties dict: `for key in properties` raises     *)
(* TypeError, a PrefixTree being not iterable.  A record with a name      *)
(* outside the schema raises ValueError.                                   *)
(***************************************************************************)
ConvertError(v) ==
  CASE v \notin Items              -> "TypeError"
    [] ~SchemaOk(PropsOf[v])       -> "ValueError"
    [] OTHER                       -> "none"

(***************************************************************************)
(* The PrefixTree tree_from_tuples(v) creates for a literal item v.        *)
(***************************************************************************)
NewTree(v) ==
  [props |-> PropsOf[v], kids |-> IF v \in Tuples THEN KidsOf[v] ELSE NoKids]

KidsKeys(t) == IF t.kids = NoKids THEN {} ELSE DOMAIN dicts[t.kids]

(***************************************************************************)
(* The key the for loop visits next: dicts iterate in insertion order.     *)
(***************************************************************************)
NextKey == CHOOSE k \in left : \A j \in left : Rank[k] <= Rank[j]

Init ==
  /\ arg \in Args
  /\ literal \in Literals
  /\ dicts = literal
  /\ trees = <<>>
  /\ todo = <<>>
  /\ cur = 0
  /\ left = {}
  /\ top = 0
  /\ pc = "idle"
  /\ builds = 0
  /\ outcome = NoOutcome

(***************************************************************************)
(* make_from_tuples(tuples) called: top_tree = tree_from_tuples(tuples)    *)
(* raises, and the call ends there.                                        *)
(***************************************************************************)
CallFails ==
  /\ pc = "idle"
  /\ builds < MaxBuilds
  /\ ConvertError(arg) # "none"
  /\ builds' = builds + 1
  /\ outcome' = Raised(ConvertError(arg))
  /\ UNCHANGED <<arg, literal, dicts, trees, todo, cur, left, top, pc>>

(***************************************************************************)
(* top_tree = tree_from_tuples(tuples); todo_trees = [top_tree]            *)
(***************************************************************************)
CallWraps ==
  /\ pc = "idle"
  /\ builds < MaxBuilds
  /\ ConvertError(arg) = "none"
  /\ trees' = Append(trees, NewTree(arg))
  /\ top' = Len(trees) + 1
  /\ todo' = <<Len(trees) + 1>>
  /\ pc' = "while"
  /\ UNCHANGED <<arg, literal, dicts, cur, left, builds, outcome>>

\* Mutant: todo_trees[-1] read instead of popped.
PopPeek ==
  /\ pc = "while"
  /\ todo # <<>>
  /\ cur' = todo[Len(todo)]
  /\ todo' = todo
  /\ left' = KidsKeys(trees[todo[Len(todo)]])
  /\ pc' = "for"
  /\ UNCHANGED <<arg, literal, dicts, trees, top, builds, outcome>>

(***************************************************************************)
(* while todo_trees: cur_tree = todo_trees.pop(); cur_children =           *)
(* cur_tree.children; the for loop starts over its keys.                   *)
(***************************************************************************)
Pop ==
  /\ pc = "while"
  /\ todo # <<>>
  /\ cur' = todo[Len(todo)]
  /\ todo' = SubSeq(todo, 1, Len(todo) - 1)
  /\ left' = KidsKeys(trees[todo[Len(todo)]])
  /\ pc' = "for"
  /\ UNCHANGED <<arg, literal, dicts, trees, top, builds, outcome>>

(***************************************************************************)
(* One iteration of the for loop whose tree_from_tuples raises: the        *)
(* exception leaves make_from_tuples, with the dicts rewritten so far.     *)
(***************************************************************************)
ChildFails ==
  /\ pc = "for"
  /\ left # {}
  /\ ConvertError(dicts[trees[cur].kids][NextKey]) # "none"
  /\ pc' = "idle"
  /\ builds' = builds + 1
  /\ outcome' = Raised(ConvertError(dicts[trees[cur].kids][NextKey]))
  /\ UNCHANGED <<arg, literal, dicts, trees, todo, cur, left, top>>

\* Mutant: the child's tree appended without rewriting cur_children.
ConvertChildNoRewrite ==
  /\ pc = "for"
  /\ left # {}
  /\ ConvertError(dicts[trees[cur].kids][NextKey]) = "none"
  /\ LET d == trees[cur].kids
         n == Len(trees) + 1
     IN  /\ trees' = Append(trees, NewTree(dicts[d][NextKey]))
         /\ dicts' = dicts
         /\ todo' = Append(todo, n)
  /\ left' = left \ {NextKey}
  /\ UNCHANGED <<arg, literal, cur, top, pc, builds, outcome>>

\* Mutant: the literal child pushed on todo_trees instead of its tree.
ConvertChildPushLiteral ==
  /\ pc = "for"
  /\ left # {}
  /\ ConvertError(dicts[trees[cur].kids][NextKey]) = "none"
  /\ LET d == trees[cur].kids
         n == Len(trees) + 1
     IN  /\ trees' = Append(trees, NewTree(dicts[d][NextKey]))
         /\ dicts' = [dicts EXCEPT ![d][NextKey] = Ref(n)]
         /\ todo' = Append(todo, dicts[d][NextKey])
  /\ left' = left \ {NextKey}
  /\ UNCHANGED <<arg, literal, cur, top, pc, builds, outcome>>

(***************************************************************************)
(* new_tree = tree_from_tuples(cur_children[child_key]);                   *)
(* cur_children[child_key] = new_tree; todo_trees.append(new_tree)         *)
(***************************************************************************)
ConvertChild ==
  /\ pc = "for"
  /\ left # {}
  /\ ConvertError(dicts[trees[cur].kids][NextKey]) = "none"
  /\ LET d == trees[cur].kids
         n == Len(trees) + 1
     IN  /\ trees' = Append(trees, NewTree(dicts[d][NextKey]))
         /\ dicts' = [dicts EXCEPT ![d][NextKey] = Ref(n)]
         /\ todo' = Append(todo, n)
  /\ left' = left \ {NextKey}
  /\ UNCHANGED <<arg, literal, cur, top, pc, builds, outcome>>

(***************************************************************************)
(* The for loop is done; back to the while test.                           *)
(***************************************************************************)
ForDone ==
  /\ pc = "for"
  /\ left = {}
  /\ pc' = "while"
  /\ UNCHANGED <<arg, literal, dicts, trees, todo, cur, left, top, builds, outcome>>

(***************************************************************************)
(* todo_trees is empty: return top_tree.                                   *)
(***************************************************************************)
Return ==
  /\ pc = "while"
  /\ todo = <<>>
  /\ pc' = "idle"
  /\ builds' = builds + 1
  /\ outcome' = Returned(top)
  /\ UNCHANGED <<arg, literal, dicts, trees, todo, cur, left, top>>

Call == CallFails \/ CallWraps

Step == Pop \/ ChildFails \/ ConvertChild \/ ForDone \/ Return

Next == Call \/ Step

(***************************************************************************)
(* Once called, make_from_tuples runs without waiting on anything, so its  *)
(* own steps are weakly fair.  The caller is not: it may never call again. *)
(***************************************************************************)
Spec == Init /\ [][Next]_vars /\ WF_vars(Step)

-----------------------------------------------------------------------------
TreeRecs == [props : {PropsOf[it] : it \in Items}, kids : DictIds \cup {NoKids}]

(***************************************************************************)
(* Type correctness: every children dict keeps its keys and holds items  *)
(* or references to trees created so far, the work list names such trees *)
(* and the for loop runs over keys of the tree it popped.                 *)
(***************************************************************************)
TypeOK ==
  /\ arg \in Args
  /\ literal \in Literals
  /\ DOMAIN dicts = DictIds
  /\ \A d \in DictIds :
        /\ DOMAIN dicts[d] = DOMAIN literal[d]
        /\ \A s \in DOMAIN dicts[d] : dicts[d][s] \in Items \cup {Ref(n) : n \in 1..Len(trees)}
  /\ trees \in Seq(TreeRecs)
  /\ todo \in Seq(1..Len(trees))
  /\ pc \in {"idle", "while", "for"}
  /\ pc = "for" => cur \in 1..Len(trees) /\ left \subseteq KidsKeys(trees[cur])
  /\ top \in Nat
  /\ builds \in 0..MaxBuilds
  /\ pc # "idle" => builds < MaxBuilds
  /\ outcome \in [kind : {"none", "ok", "ValueError", "TypeError"}, tree : Nat]

(***************************************************************************)
(* Every call of make_from_tuples returns or raises: the work list of a    *)
(* literal without cycles empties, even when a children dict is reached   *)
(* twice, because the second visit raises instead of converting again.    *)
(***************************************************************************)
CallReturns == pc # "idle" ~> pc = "idle"

-----------------------------------------------------------------------------
(***************************************************************************)
(* Section 4.1 of spec.md: the schema check of an override record is the  *)
(* only validation boundary, so the one build of a literal fails only on a *)
(* name outside the schema (ValueError), whatever the literal's shape.     *)
(***************************************************************************)
SchemaIsOnlyCheck == builds = 1 /\ outcome.kind # "ok" => outcome.kind = "ValueError"
=============================================================================
