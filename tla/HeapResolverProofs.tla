------------------------- MODULE HeapResolverProofs -------------------------
(***************************************************************************)
(* Proofs about get at the level of objects (module HeapResolver), for     *)
(* every tree that satisfies the assumptions of HeapResolver.              *)
(***************************************************************************)
EXTENDS HeapResolver, SequenceTheorems, TLAPS

USE RootAssumption, ChildrenAssumption, OverridesAssumption, AllowedArchsAssumption,
    NoneAssumption, MaxDepthAssumption, MaxMutationsAssumption

(***************************************************************************)
(* Every reference of the running result names an object made for the    *)
(* same property name: the tree's [node, key] or a step's [step, key].    *)
(***************************************************************************)
KeyedRefs == \A k \in Keys : IsRef(k, acc[k]) => acc[k].obj.key = k

(***************************************************************************)
(* The inductive invariant: besides the types and the tree's objects, a   *)
(* running call holds no result, and references are keyed by their name.  *)
(***************************************************************************)
IInv ==
  /\ TypeOK
  /\ TreeObjectsUnchanged
  /\ pc = "loop" => ret = NoResult
  /\ KeyedRefs
-----------------------------------------------------------------------------
(***************************************************************************)
(* The parts of a Descend step: the child, its dict with references, and  *)
(* the objects update creates.                                             *)
(***************************************************************************)
C == Children[node][comps[i]]
Delta == NodeProps(C)
NewObjs == {StepObj(i, k) : k \in Merged(Delta)}

LEMMA DescendDef ==
  ASSUME Descend
  PROVE  /\ pc = "loop" /\ Matches
         /\ node' = C
         /\ heap' = [o \in DOMAIN heap \cup NewObjs |->
                       IF o \in NewObjs
                         THEN MergedValue(o.key, heap[acc[o.key].obj], heap[Delta[o.key].obj])
                         ELSE heap[o]]
         /\ acc' = [k \in DOMAIN acc \cup DOMAIN Delta |->
                      IF k \in Merged(Delta) THEN [obj |-> StepObj(i, k)]
                      ELSE IF k \in DOMAIN Delta THEN Delta[k] ELSE acc[k]]
         /\ i' = i + 1
         /\ UNCHANGED <<pc, comps, ret, mutations>>
BY DEF Descend, C, Delta, NewObjs

(***************************************************************************)
(* A tree object is never one a step creates.                              *)
(***************************************************************************)
LEMMA TreeObjNotStepObj ==
  ASSUME NEW n, NEW k, NEW j, NEW l
  PROVE  TreeObj(n, k) # StepObj(j, l)
<1>1. DOMAIN TreeObj(n, k) = {"node", "key"} /\ DOMAIN StepObj(j, l) = {"step", "key"}
  BY DEF TreeObj, StepObj
<1>. QED  BY <1>1

(***************************************************************************)
(* A node's dict holds a reference exactly where the value is boxed, and  *)
(* then to the tree's object for that node and name.                       *)
(***************************************************************************)
LEMMA NodePropsRef ==
  ASSUME NEW n \in Nodes, NEW k \in DOMAIN Overrides[n]
  PROVE  /\ Boxed(k, Overrides[n][k]) =>
              /\ NodeProps(n)[k] = [obj |-> TreeObj(n, k)]
              /\ TreeObj(n, k) \in TreeObjs
              /\ IsRef(k, NodeProps(n)[k])
         /\ ~Boxed(k, Overrides[n][k]) =>
              /\ NodeProps(n)[k] = Overrides[n][k]
              /\ ~IsRef(k, NodeProps(n)[k])
<1>1. ASSUME Boxed(k, Overrides[n][k])
      PROVE  /\ NodeProps(n)[k] = [obj |-> TreeObj(n, k)]
             /\ TreeObj(n, k) \in TreeObjs
             /\ IsRef(k, NodeProps(n)[k])
  <2>1. NodeProps(n)[k] = [obj |-> TreeObj(n, k)]
    BY <1>1 DEF NodeProps
  <2>2. TreeObj(n, k) \in TreeObjs
    BY <1>1 DEF TreeObjs
  <2>3. [obj |-> TreeObj(n, k)] # None
    BY <2>2, NoneAssumption
  <2>. QED  BY <1>1, <2>1, <2>2, <2>3 DEF IsRef, Boxed
<1>2. ASSUME ~Boxed(k, Overrides[n][k])
      PROVE  /\ NodeProps(n)[k] = Overrides[n][k]
             /\ ~IsRef(k, NodeProps(n)[k])
  <2>1. NodeProps(n)[k] = Overrides[n][k]
    BY <1>2 DEF NodeProps
  <2>2. k \notin ListKeys \cup DictKeys
    BY <1>2 DEF Boxed
  <2>3. CASE k = "allowed_archs"
    <3>1. Overrides[n][k] # None => Overrides[n][k] = PyStr(Overrides[n][k].chars)
      BY <1>2, <2>3, AllowedArchsAssumption DEF Boxed, PySet
    <3>2. "obj" \notin DOMAIN PyStr(Overrides[n][k].chars)
      BY DEF PyStr
    <3>. QED  BY <2>1, <2>2, <3>1, <3>2 DEF IsRef
  <2>4. CASE k # "allowed_archs"
    BY <2>1, <2>2, <2>4 DEF IsRef
  <2>. QED  BY <2>1, <2>3, <2>4
<1>. QED  BY <1>1, <1>2
(***************************************************************************)
(* The three list properties and test_run_args are names of the schema.    *)
(***************************************************************************)
LEMMA KindsInSchema ==
  /\ ListKeys \subseteq Keys
  /\ DictKeys \subseteq Keys
BY DEF ListKeys, DictKeys, Keys, DefaultProperties

(***************************************************************************)
(* A path is a sequence of segments of length 1 to MaxDepth.               *)
(***************************************************************************)
LEMMA PathsAreSeqs ==
  ASSUME NEW p \in Paths
  PROVE  p \in Seq(Segs) /\ Len(p) \in 1..MaxDepth /\ p # <<>>
BY DEF Paths

(***************************************************************************)
(* Every object of the tree is named by a node and a name.                 *)
(***************************************************************************)
LEMMA TreeObjsForm ==
  ASSUME NEW o \in TreeObjs
  PROVE  \E n \in Nodes : \E k \in DOMAIN Overrides[n] : o = TreeObj(n, k)
BY DEF TreeObjs

(***************************************************************************)
(* On a heap h where the tree's objects hold the literal's values,        *)
(* following the references of a node's dict gives back the literal's    *)
(* dict (Deref with h for heap).                                           *)
(***************************************************************************)
DerefIn(h, props) ==
  [k \in DOMAIN props |-> IF IsRef(k, props[k]) THEN h[props[k].obj] ELSE props[k]]

LEMMA DerefNodeProps ==
  ASSUME NEW h, NEW n \in Nodes, TreeObjs \subseteq DOMAIN h,
         \A o \in TreeObjs : h[o] = Overrides[o.node][o.key]
  PROVE  DerefIn(h, NodeProps(n)) = Overrides[n]
<1>1. IsFunc(Overrides[n])
  BY OverridesAssumption DEF IsOverride
<1>2. DOMAIN DerefIn(h, NodeProps(n)) = DOMAIN Overrides[n]
  BY DEF DerefIn, NodeProps
<1>3. ASSUME NEW k \in DOMAIN Overrides[n]
      PROVE  DerefIn(h, NodeProps(n))[k] = Overrides[n][k]
  <2>1. CASE Boxed(k, Overrides[n][k])
    <3>1. NodeProps(n)[k] = [obj |-> TreeObj(n, k)] /\ TreeObj(n, k) \in TreeObjs
          /\ IsRef(k, NodeProps(n)[k])
      BY <2>1, NodePropsRef
    <3>2. h[TreeObj(n, k)] = Overrides[n][k]
      BY <3>1 DEF TreeObj
    <3>. QED  BY <3>1, <3>2 DEF DerefIn, NodeProps
  <2>2. CASE ~Boxed(k, Overrides[n][k])
    BY <2>2, NodePropsRef DEF DerefIn, NodeProps
  <2>. QED  BY <2>1, <2>2
<1>. QED  BY <1>1, <1>2, <1>3 DEF IsFunc, DerefIn

-----------------------------------------------------------------------------
(***************************************************************************)
(* The initial state satisfies the inductive invariant.                    *)
(***************************************************************************)
LEMMA InitIInv == Init => IInv
<1> SUFFICES ASSUME Init PROVE IInv
  OBVIOUS
<1>1. DOMAIN heap = TreeObjs /\ TreeObjectsUnchanged
  BY DEF Init, TreeObjectsUnchanged, TreeObj, TreeObjs
<1>2. DOMAIN acc = Keys
  BY OverridesAssumption DEF Init, NodeProps, IsResolved
<1>3. ASSUME NEW k \in Keys, IsRef(k, acc[k])
      PROVE  acc[k].obj \in TreeObjs /\ acc[k].obj.key = k
  <2>1. k \in DOMAIN Overrides[Root] /\ acc[k] = NodeProps(Root)[k]
    BY OverridesAssumption DEF Init, IsResolved
  <2>2. Boxed(k, Overrides[Root][k])
    BY <1>3, <2>1, NodePropsRef, RootAssumption
  <2>3. NodeProps(Root)[k] = [obj |-> TreeObj(Root, k)] /\ TreeObj(Root, k) \in TreeObjs
    BY <2>1, <2>2, NodePropsRef, RootAssumption
  <2>. QED  BY <2>1, <2>3 DEF TreeObj
<1>. QED  BY <1>1, <1>2, <1>3, RootAssumption, MaxDepthAssumption
          DEF Init, IInv, TypeOK, RefsLive, KeyedRefs

(***************************************************************************)
(* Every step of get keeps the inductive invariant.                        *)
(***************************************************************************)
LEMMA StartIInv ==
  ASSUME IInv, NEW p \in Paths, Start(p)
  PROVE  IInv'
<1>1. DOMAIN heap' = TreeObjs /\ TreeObjectsUnchanged'
  BY DEF Start, IInv, TypeOK, TreeObjectsUnchanged
<1>2. DOMAIN acc' = Keys
  BY OverridesAssumption DEF Start, NodeProps, IsResolved
<1>3. ASSUME NEW k \in Keys, IsRef(k, acc'[k])
      PROVE  acc'[k].obj \in TreeObjs /\ acc'[k].obj.key = k
  <2>1. k \in DOMAIN Overrides[Root] /\ acc'[k] = NodeProps(Root)[k]
    BY OverridesAssumption DEF Start, IsResolved
  <2>2. Boxed(k, Overrides[Root][k])
    BY <1>3, <2>1, NodePropsRef, RootAssumption
  <2>3. NodeProps(Root)[k] = [obj |-> TreeObj(Root, k)] /\ TreeObj(Root, k) \in TreeObjs
    BY <2>1, <2>2, NodePropsRef, RootAssumption
  <2>. QED  BY <2>1, <2>3 DEF TreeObj
<1>. QED  BY <1>1, <1>2, <1>3, RootAssumption, MaxDepthAssumption
          DEF Start, IInv, TypeOK, RefsLive, KeyedRefs

LEMMA DescendIInv ==
  ASSUME IInv, Descend
  PROVE  IInv'
<1>1. C \in Nodes /\ comps \in Paths /\ i <= Len(comps)
  BY DescendDef, ChildrenAssumption DEF IInv, TypeOK, Matches, C
<1>2. DOMAIN Delta = DOMAIN Overrides[C] /\ DOMAIN Overrides[C] \subseteq Keys
  BY <1>1, OverridesAssumption DEF Delta, NodeProps, IsOverride
<1>3. DOMAIN acc' = Keys
  BY DescendDef, <1>2 DEF IInv, TypeOK
<1>4. DOMAIN heap' = DOMAIN heap \cup NewObjs
  BY DescendDef
<1>5. \A o \in TreeObjs : o \notin NewObjs
  BY TreeObjsForm, TreeObjNotStepObj DEF NewObjs
<1>6. TreeObjectsUnchanged'
  BY <1>4, <1>5, DescendDef DEF IInv, TypeOK, TreeObjectsUnchanged
<1>7. ASSUME NEW k \in Keys, IsRef(k, acc'[k])
      PROVE  acc'[k].obj \in DOMAIN heap' /\ acc'[k].obj.key = k
  <2>1. CASE k \in Merged(Delta)
    BY <1>4, <2>1, DescendDef DEF NewObjs, StepObj, IInv, TypeOK
  <2>2. CASE k \in DOMAIN Delta \ Merged(Delta)
    <3>1. acc'[k] = Delta[k]
      BY <2>2, DescendDef
    <3>2. Boxed(k, Overrides[C][k])
      BY <1>1, <1>2, <1>7, <2>2, <3>1, NodePropsRef DEF Delta
    <3>3. Delta[k] = [obj |-> TreeObj(C, k)] /\ TreeObj(C, k) \in TreeObjs
      BY <1>1, <1>2, <2>2, <3>2, NodePropsRef DEF Delta
    <3>. QED  BY <1>4, <3>1, <3>3 DEF IInv, TypeOK, TreeObj
  <2>3. CASE k \notin DOMAIN Delta
    <3>1. acc'[k] = acc[k]
      BY <2>3, DescendDef DEF Merged, IInv, TypeOK
    <3>2. acc[k].obj \in DOMAIN heap /\ acc[k].obj.key = k
      BY <1>7, <3>1 DEF IInv, TypeOK, RefsLive, KeyedRefs
    <3>. QED  BY <1>4, <3>1, <3>2, Zenon
  <2>. QED  BY <2>1, <2>2, <2>3
<1>8. i' \in 1..MaxDepth + 1
  BY <1>1, PathsAreSeqs, DescendDef DEF IInv, TypeOK
<1>. QED  BY <1>1, <1>3, <1>4, <1>6, <1>7, <1>8, DescendDef
          DEF IInv, TypeOK, RefsLive, KeyedRefs

LEMMA StopIInv ==
  ASSUME IInv, Stop
  PROVE  IInv'
BY DEF Stop, IInv, TypeOK, RefsLive, KeyedRefs, TreeObjectsUnchanged

LEMMA StepIInv == IInv /\ [Next]_vars => IInv'
<1> SUFFICES ASSUME IInv, [Next]_vars PROVE IInv'
  OBVIOUS
<1>1. CASE \E p \in Paths : Start(p)
  BY <1>1, StartIInv
<1>2. CASE Descend
  BY <1>2, DescendIInv
<1>3. CASE Stop
  BY <1>3, StopIInv
<1>4. CASE UNCHANGED vars
  BY <1>4 DEF vars, IInv, TypeOK, RefsLive, KeyedRefs, TreeObjectsUnchanged, Deref
<1>. QED  BY <1>1, <1>2, <1>3, <1>4 DEF Next

(***************************************************************************)
(* get at the level of objects is type correct: the running and the       *)
(* returned result hold every name of the schema, and each of their       *)
(* references names an object that is alive on the heap.                   *)
(***************************************************************************)
THEOREM HeapTypeCorrect == Spec => []TypeOK
<1>1. IInv => TypeOK
  BY DEF IInv
<1>. QED  BY <1>1, InitIInv, StepIInv, PTL DEF Spec

(***************************************************************************)
(* get never changes the tree (TreeObjectsUnchanged): although every      *)
(* result starts with the root's list and dict objects, update makes new  *)
(* objects for the names it merges and writes no object in place.         *)
(***************************************************************************)
THEOREM TreeObjectsUnchangedHolds == Spec => []TreeObjectsUnchanged
<1>1. IInv => TreeObjectsUnchanged
  BY DEF IInv
<1>. QED  BY <1>1, InitIInv, StepIInv, PTL DEF Spec
-----------------------------------------------------------------------------
(***************************************************************************)
(* Refinement: HeapResolver implements Resolver under the mapping Value,   *)
(* which follows the references of the running and the returned result.  *)
(***************************************************************************)

(***************************************************************************)
(* A Descend step computes, once the references are followed, what update *)
(* computes on values: the new objects hold the merge of the inherited    *)
(* object and the child's, the child's objects still hold its values, and *)
(* every other reference names an object the step did not write.          *)
(***************************************************************************)
LEMMA DescendDeref ==
  ASSUME IInv, Descend
  PROVE  Deref(acc)' = Update(Deref(acc), Overrides[C])
<1>1. C \in Nodes /\ DOMAIN acc = Keys
  BY DescendDef, ChildrenAssumption DEF IInv, TypeOK, Matches, C
<1>2. DOMAIN Delta = DOMAIN Overrides[C] /\ DOMAIN Overrides[C] \subseteq Keys
  BY <1>1, OverridesAssumption DEF Delta, NodeProps, IsOverride
<1>3. DOMAIN acc' = Keys /\ DOMAIN heap' = DOMAIN heap \cup NewObjs
  BY <1>1, <1>2, DescendDef
<1>4. TreeObjectsUnchanged' /\ TreeObjs \subseteq DOMAIN heap'
  BY DescendIInv DEF IInv, TypeOK
<1>5. DOMAIN Deref(acc)' = DOMAIN Update(Deref(acc), Overrides[C])
  BY <1>1, <1>2, <1>3 DEF Deref, Update
<1>6. ASSUME NEW k \in Keys
      PROVE  Deref(acc)'[k] = Update(Deref(acc), Overrides[C])[k]
  <2>1. CASE k \in Merged(Delta)
    <3>1. k \in ListKeys \cup DictKeys /\ k \in DOMAIN Overrides[C]
      BY <1>2, <2>1 DEF Merged
    <3>2. acc'[k] = [obj |-> StepObj(i, k)] /\ StepObj(i, k) \in NewObjs
      BY <1>1, <2>1, DescendDef DEF NewObjs
    <3>3. Deref(acc)'[k] = heap'[StepObj(i, k)]
      BY <1>3, <3>1, <3>2 DEF Deref, IsRef
    <3>4. heap'[StepObj(i, k)] = MergedValue(k, heap[acc[k].obj], heap[Delta[k].obj])
      BY <1>3, <3>2, DescendDef DEF StepObj
    <3>5. Delta[k] = [obj |-> TreeObj(C, k)] /\ TreeObj(C, k) \in TreeObjs
      BY <1>1, <3>1, NodePropsRef DEF Delta, Boxed
    <3>6. heap[TreeObj(C, k)] = Overrides[C][k]
      BY <3>5 DEF IInv, TreeObjectsUnchanged, TreeObj
    <3>7. Deref(acc)[k] = heap[acc[k].obj]
      BY <1>1, <3>1 DEF Deref, IsRef
    <3>8. Update(Deref(acc), Overrides[C])[k] = MergedValue(k, Deref(acc)[k], Overrides[C][k])
      BY <1>1, <3>1 DEF Update, Deref
    <3>. QED  BY <3>3, <3>4, <3>5, <3>6, <3>7, <3>8
  <2>2. CASE k \in DOMAIN Delta \ Merged(Delta)
    <3>1. k \notin ListKeys \cup DictKeys /\ k \in DOMAIN Overrides[C]
      BY <1>1, <1>2, <2>2 DEF Merged
    <3>2. Update(Deref(acc), Overrides[C])[k] = Overrides[C][k]
      BY <1>1, <3>1 DEF Update, Deref, MergedValue
    <3>3. acc'[k] = Delta[k]
      BY <1>1, <2>2, DescendDef
    <3>4. Deref(acc)'[k] = DerefIn(heap', NodeProps(C))[k]
      BY <1>2, <1>3, <3>1, <3>3 DEF Deref, DerefIn, Delta, NodeProps
    <3>5. DerefIn(heap', NodeProps(C)) = Overrides[C]
      BY <1>1, <1>4, DerefNodeProps DEF TreeObjectsUnchanged
    <3>. QED  BY <3>2, <3>4, <3>5
  <2>3. CASE k \notin DOMAIN Delta
    <3>1. acc'[k] = acc[k]
      BY <1>1, <2>3, DescendDef DEF Merged
    <3>2. Update(Deref(acc), Overrides[C])[k] = Deref(acc)[k]
      BY <1>1, <1>2, <2>3 DEF Update, Deref
    <3>3. IsRef(k, acc[k]) => acc[k].obj \in DOMAIN heap /\ acc[k].obj \notin NewObjs
      <4>1. IsRef(k, acc[k]) => acc[k].obj \in DOMAIN heap /\ acc[k].obj.key = k
        BY <1>1 DEF IInv, TypeOK, RefsLive, KeyedRefs
      <4>2. \A o \in NewObjs : o.key \in Merged(Delta)
        BY DEF NewObjs, StepObj
      <4>3. k \notin Merged(Delta)
        BY <2>3 DEF Merged
      <4>. QED  BY <4>1, <4>2, <4>3
    <3>4. \A o \in DOMAIN heap \ NewObjs : heap'[o] = heap[o]
      BY DescendDef
    <3>. QED  BY <1>1, <1>3, <3>1, <3>2, <3>3, <3>4 DEF Deref
  <2>. QED  BY <2>1, <2>2, <2>3
<1>. QED  BY <1>1, <1>3, <1>5, <1>6 DEF Deref, Update
(***************************************************************************)
(* The returned result with its references followed.                       *)
(***************************************************************************)
RetValue == IF ret = NoResult THEN NoResult
                              ELSE [props |-> Deref(ret.props), comps |-> ret.comps]

(***************************************************************************)
(* Resolver's update is this module's update: both come from              *)
(* PathProperties.                                                         *)
(***************************************************************************)
LEMMA SameUpdate == \A b, d : Value!Update(b, d) = Update(b, d)
BY DEF Value!Update, Update, Value!MergedValue, MergedValue, Value!UpdateDict, UpdateDict,
       Value!ListKeys, ListKeys, Value!DictKeys, DictKeys

LEMMA InitRefines == Init => Value!Init
<1> SUFFICES ASSUME Init PROVE Value!Init
  OBVIOUS
<1>1. TreeObjs \subseteq DOMAIN heap /\ \A o \in TreeObjs : heap[o] = Overrides[o.node][o.key]
  BY DEF Init
<1>2. Deref(acc) = Overrides[Root]
  BY <1>1, RootAssumption, DerefNodeProps DEF Init, Deref, DerefIn
<1>. QED  BY <1>2 DEF Init, Value!Init

LEMMA StepRefines ==
  ASSUME IInv, [Next]_vars
  PROVE  [Value!Next]_Value!vars
<1>1. ASSUME NEW p \in Paths, Start(p) PROVE Value!Start(p)
  <2>1. TreeObjs \subseteq DOMAIN heap' /\ \A o \in TreeObjs : heap'[o] = Overrides[o.node][o.key]
    BY <1>1, StartIInv DEF IInv, TypeOK, TreeObjectsUnchanged
  <2>2. Deref(acc)' = Overrides[Root]
    BY <1>1, <2>1, RootAssumption, DerefNodeProps DEF Start, Deref, DerefIn
  <2>. QED  BY <1>1, <2>2 DEF Start, Value!Start
<1>2. ASSUME Descend PROVE Value!Descend
  <2>1. Deref(acc)' = Update(Deref(acc), Overrides[Children[node][comps[i]]])
    BY <1>2, DescendDeref DEF C
  <2>2. ret = NoResult /\ ret' = ret
    BY <1>2, DescendDef DEF IInv
  <2>3. RetValue' = RetValue
    BY <2>2 DEF RetValue
  <2>4. pc = "loop" /\ Matches /\ node' = Children[node][comps[i]] /\ i' = i + 1
        /\ UNCHANGED <<pc, comps>>
    BY <1>2, DescendDef DEF C
  <2>. QED  BY <2>1, <2>3, <2>4, SameUpdate DEF Value!Descend, Value!Matches, Matches, RetValue
<1>3. ASSUME Stop PROVE Value!Stop
  <2>1. comps \in Paths
    BY <1>3 DEF Stop, IInv, TypeOK
  <2>2. ret' # NoResult
    BY <1>3, <2>1, PathsAreSeqs DEF Stop, NoResult
  <2>3. Deref(acc)' = Deref(acc)
    BY <1>3 DEF Stop, Deref
  <2>. QED  BY <1>3, <2>2, <2>3 DEF Stop, Value!Stop, Value!Matches, Matches
<1>4. CASE UNCHANGED vars
  BY <1>4 DEF vars, Value!vars, Deref
<1>. QED  BY <1>1, <1>2, <1>3, <1>4 DEF Next, Value!Next, Value!Paths, Paths

(***************************************************************************)
(* get with shared objects implements get with values                      *)
(* (ImplementsResolver): at every step, following the references of the   *)
(* running and the returned result gives what module Resolver computes.   *)
(* Together with TreeObjectsUnchangedHolds this is why the shallow copies *)
(* of lines 105, 211 and 248 are enough for a caller that only reads.     *)
(***************************************************************************)
THEOREM HeapImplementsResolver == Spec => ImplementsResolver
<1>1. IInv /\ [Next]_vars => [Value!Next]_Value!vars
  BY StepRefines
<1>. QED  BY <1>1, InitIInv, StepIInv, InitRefines, PTL DEF Spec, ImplementsResolver, Value!Spec
=============================================================================
