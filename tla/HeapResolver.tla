---------------------------- MODULE HeapResolver ----------------------------
(***************************************************************************)
(* get(path) of src/path_properties.py at the level of Python objects.     *)
(* Module Resolver treats property values as values; here the mutable ones *)
(* (the lists cc_flags, cc_flags_after and extra_objs, the dict            *)
(* test_run_args, and allowed_archs when it is a set) are objects on a     *)
(* heap, and a property dict holds a reference [obj |-> o] to them.  This  *)
(* is what the shallow copies of the code share:                           *)
(*   - PathProperties.__init__ and get copy the dict, not its values       *)
(*     (lines 105 and 248), so a fresh result starts with the root's very  *)
(*     list and dict objects;                                              *)
(*   - update copies the delta's dict (line 211) and keeps the delta's     *)
(*     objects, except for the list and dict properties both sides hold,   *)
(*     which _update_list and _update_dict replace by new objects.         *)
(* The tree's objects are named [node |-> n, key |-> k].  The objects a    *)
(* call creates are named [step |-> j, key |-> k] after the loop index j   *)
(* that created them; a new call drops the previous result, and with it    *)
(* every object of that call (nothing else refers to them).                *)
(*                                                                         *)
(* CallerSpec adds a caller that mutates a returned result in place, as    *)
(* `get(p)['cc_flags'].append(f)` would.                                   *)
(***************************************************************************)
EXTENDS PathProperties

CONSTANTS Nodes, Root, Children, Overrides, Segs, MaxDepth, Flags, Envs,
  Archs,        \* the architecture names a caller may add to a set
  Entries,      \* the test_run_args entries a caller may set
  EntryValues,  \* the values it may set them to
  MaxMutations  \* how many in-place mutations the caller makes

ASSUME RootAssumption == Root \in Nodes

ASSUME ChildrenAssumption ==
  \A n \in Nodes :
     /\ IsFunc(Children[n])
     /\ DOMAIN Children[n] \subseteq Segs
     /\ \A s \in DOMAIN Children[n] : Children[n][s] \in Nodes

ASSUME OverridesAssumption ==
  /\ \A n \in Nodes : IsOverride(Overrides[n], Flags)
  /\ IsResolved(Overrides[Root], Flags)

(***************************************************************************)
(* An allowed_archs value of the literal is None, a set or a str.          *)
(***************************************************************************)
ASSUME AllowedArchsAssumption ==
  \A n \in Nodes :
     "allowed_archs" \in DOMAIN Overrides[n] =>
        LET v == Overrides[n]["allowed_archs"]
        IN  \/ v = None
            \/ v.type = "set" /\ v = PySet(v.elems)
            \/ v.type = "str" /\ v = PyStr(v.chars)

ASSUME MaxDepthAssumption == MaxDepth \in Nat \ {0}

ASSUME MaxMutationsAssumption == MaxMutations \in Nat

Paths == UNION {[1..n -> Segs] : n \in 1..MaxDepth}

(***************************************************************************)
(* What the caller holds before the first call returns: a result with no   *)
(* path components, which get never returns (path.split never gives an    *)
(* empty list).                                                            *)
(***************************************************************************)
NoResult == [props |-> <<>>, comps |-> <<>>]

(***************************************************************************)
(* The values that are Python objects a dict shares by reference.          *)
(***************************************************************************)
Boxed(k, v) ==
  \/ k \in ListKeys \cup DictKeys
  \/ k = "allowed_archs" /\ v # None /\ v.type = "set"

IsRef(k, v) ==
  \/ k \in ListKeys \cup DictKeys
  \/ k = "allowed_archs" /\ v # None /\ "obj" \in DOMAIN v

TreeObj(n, k) == [node |-> n, key |-> k]
StepObj(j, k) == [step |-> j, key |-> k]

TreeObjs ==
  UNION {{TreeObj(n, k) : k \in {k \in DOMAIN Overrides[n] : Boxed(k, Overrides[n][k])}}
           : n \in Nodes}

(***************************************************************************)
(* None is no reference to an object of the tree.                          *)
(***************************************************************************)
ASSUME NoneAssumption == None \notin [obj : TreeObjs]

(***************************************************************************)
(* n.path_properties.properties: the node's dict, its objects by reference. *)
(***************************************************************************)
NodeProps(n) ==
  [k \in DOMAIN Overrides[n] |->
     IF Boxed(k, Overrides[n][k]) THEN [obj |-> TreeObj(n, k)] ELSE Overrides[n][k]]

VARIABLES pc, comps, i, node, acc, ret,
  heap,       \* heap[o] : the current value of object o
  mutations   \* the in-place mutations the caller has made

vars == <<pc, comps, i, node, acc, ret, heap, mutations>>

(***************************************************************************)
(* The value a property dict stands for, its references followed.          *)
(***************************************************************************)
Deref(props) ==
  [k \in DOMAIN props |-> IF IsRef(k, props[k]) THEN heap[props[k].obj] ELSE props[k]]

Init ==
  /\ pc = "idle"
  /\ comps = <<>>
  /\ i = 1
  /\ node = Root
  /\ acc = NodeProps(Root)
  /\ ret = NoResult
  /\ heap = [o \in TreeObjs |-> Overrides[o.node][o.key]]
  /\ mutations = 0

(***************************************************************************)
(* cur_node = path_properties_tree; path_properties = PathProperties(      *)
(* cur_node.path_properties.properties.copy()): a new dict holding the     *)
(* root's objects.  The previous result and its objects are dropped.       *)
(***************************************************************************)
Start(p) ==
  /\ pc = "idle"
  /\ pc' = "loop"
  /\ comps' = p
  /\ i' = 1
  /\ node' = Root
  /\ acc' = NodeProps(Root)
  /\ ret' = NoResult
  /\ heap' = [o \in TreeObjs |-> heap[o]]
  /\ UNCHANGED mutations

Matches == i <= Len(comps) /\ comps[i] \in DOMAIN Children[node]

(***************************************************************************)
(* update(other) with delta = other's dict: the list and dict properties   *)
(* both hold get new objects (self.properties[key] + other[key] and       *)
(* {**self.properties[key], **other[key]}); every other name the delta     *)
(* has is overwritten with the delta's value, its object included.         *)
(***************************************************************************)
Merged(delta) == {k \in ListKeys \cup DictKeys : k \in DOMAIN acc /\ k \in DOMAIN delta}

\* Mutant: self.properties[key] += other[key], the inherited list extended in place.
DescendInPlace ==
  /\ pc = "loop"
  /\ Matches
  /\ LET c == Children[node][comps[i]]
         delta == NodeProps(c)
     IN  /\ node' = c
         /\ heap' = [o \in DOMAIN heap |->
                       IF \E k \in Merged(delta) : o = acc[k].obj
                         THEN MergedValue(o.key, heap[o], heap[delta[o.key].obj])
                         ELSE heap[o]]
         /\ acc' = [k \in DOMAIN acc \cup DOMAIN delta |->
                      IF k \in Merged(delta) THEN acc[k]
                      ELSE IF k \in DOMAIN delta THEN delta[k] ELSE acc[k]]
  /\ i' = i + 1
  /\ UNCHANGED <<pc, comps, ret, mutations>>

\* Mutant: other + self in _update_list, the new list with the deeper flags first.
DescendDeltaFirst ==
  /\ pc = "loop"
  /\ Matches
  /\ LET c == Children[node][comps[i]]
         delta == NodeProps(c)
         New == {StepObj(i, k) : k \in Merged(delta)}
     IN  /\ node' = c
         /\ heap' = [o \in DOMAIN heap \cup New |->
                       IF o \in New
                         THEN MergedValueDeltaFirst(o.key, heap[acc[o.key].obj], heap[delta[o.key].obj])
                         ELSE heap[o]]
         /\ acc' = [k \in DOMAIN acc \cup DOMAIN delta |->
                      IF k \in Merged(delta) THEN [obj |-> StepObj(i, k)]
                      ELSE IF k \in DOMAIN delta THEN delta[k] ELSE acc[k]]
  /\ i' = i + 1
  /\ UNCHANGED <<pc, comps, ret, mutations>>

Descend ==
  /\ pc = "loop"
  /\ Matches
  /\ LET c == Children[node][comps[i]]
         delta == NodeProps(c)
         New == {StepObj(i, k) : k \in Merged(delta)}
     IN  /\ node' = c
         /\ heap' = [o \in DOMAIN heap \cup New |->
                       IF o \in New
                         THEN MergedValue(o.key, heap[acc[o.key].obj], heap[delta[o.key].obj])
                         ELSE heap[o]]
         /\ acc' = [k \in DOMAIN acc \cup DOMAIN delta |->
                      IF k \in Merged(delta) THEN [obj |-> StepObj(i, k)]
                      ELSE IF k \in DOMAIN delta THEN delta[k] ELSE acc[k]]
  /\ i' = i + 1
  /\ UNCHANGED <<pc, comps, ret, mutations>>

\* Mutant: return the properties of cur_node instead of the running result.
StopReturnsNode ==
  /\ pc = "loop"
  /\ ~Matches
  /\ pc' = "idle"
  /\ ret' = [props |-> NodeProps(node), comps |-> comps]
  /\ UNCHANGED <<comps, i, node, acc, heap, mutations>>

(***************************************************************************)
(* else: break; or the loop ran out.  set_path_components and return the   *)
(* running result.                                                          *)
(***************************************************************************)
Stop ==
  /\ pc = "loop"
  /\ ~Matches
  /\ pc' = "idle"
  /\ ret' = [props |-> acc, comps |-> comps]
  /\ UNCHANGED <<comps, i, node, acc, heap, mutations>>

Next ==
  \/ \E p \in Paths : Start(p)
  \/ Descend
  \/ Stop

Spec == Init /\ [][Next]_vars

-----------------------------------------------------------------------------
(***************************************************************************)
(* The caller, between two calls, mutates an object of the result it holds *)
(* in place: list.append, dict item assignment, set.add.                   *)
(***************************************************************************)
Mutate ==
  /\ pc = "idle"
  /\ ret # NoResult
  /\ mutations < MaxMutations
  /\ \/ \E k \in ListKeys, f \in Flags :
           heap' = [heap EXCEPT ![ret.props[k].obj] = Append(@, f)]
     \/ \E k \in DictKeys, e \in Entries, v \in EntryValues :
           heap' = [heap EXCEPT ![ret.props[k].obj] = UpdateDict(@, [x \in {e} |-> v])]
     \/ /\ IsRef("allowed_archs", ret.props.allowed_archs)
        /\ \E a \in Archs :
              heap' = [heap EXCEPT ![ret.props.allowed_archs.obj] = PySet(@.elems \cup {a})]
  /\ mutations' = mutations + 1
  /\ UNCHANGED <<pc, comps, i, node, acc, ret>>

CallerSpec == Init /\ [][Next \/ Mutate]_vars

-----------------------------------------------------------------------------
(***************************************************************************)
(* Type correctness: every reference in the running result and in the     *)
(* returned one names an object on the heap.                               *)
(***************************************************************************)
RefsLive(props) ==
  \A k \in DOMAIN props : IsRef(k, props[k]) => props[k].obj \in DOMAIN heap

TypeOK ==
  /\ pc \in {"idle", "loop"}
  /\ pc = "loop" => comps \in Paths
  /\ i \in 1..MaxDepth + 1
  /\ node \in Nodes
  /\ DOMAIN acc = Keys /\ RefsLive(acc)
  /\ ret # NoResult => DOMAIN ret.props = Keys /\ RefsLive(ret.props)
  /\ TreeObjs \subseteq DOMAIN heap
  /\ mutations \in 0..MaxMutations

(***************************************************************************)
(* get never changes the tree.  Every list, dict and set object the tree's *)
(* nodes hold keeps the value the literal gave it, through every call,     *)
(* although every running result starts out holding the root's list and  *)
(* dict objects and takes over the allowed_archs set of the deepest node  *)
(* that declares one.                                                      *)
(***************************************************************************)
TreeObjectsUnchanged == \A o \in TreeObjs : heap[o] = Overrides[o.node][o.key]

-----------------------------------------------------------------------------
(***************************************************************************)
(* The value-level model Resolver, with the references followed.           *)
(***************************************************************************)
Value == INSTANCE Resolver WITH
  acc <- Deref(acc),
  ret <- IF ret = NoResult THEN NoResult
                           ELSE [props |-> Deref(ret.props), comps |-> ret.comps]

(***************************************************************************)
(* Following the references of the running and the returned result gives, *)
(* at every step, the property dict module Resolver computes with values: *)
(* the objects the result shares with the tree, and the new objects       *)
(* update makes, never make the value of a result differ from the merge.  *)
(***************************************************************************)
ImplementsResolver == Value!Spec
=============================================================================
