--------------------------- MODULE ResolverProofs ---------------------------
(***************************************************************************)
(* Proofs about get (module Resolver) for every tree, every set of         *)
(* segments and every depth bound that satisfy the assumptions of          *)
(* Resolver: type correctness, which includes that a resolved property set *)
(* always holds every name of the schema; that the root's list properties *)
(* always lead the resolved lists; and that the deepest matched node's    *)
(* declarations win.                                                       *)
(***************************************************************************)
EXTENDS Resolver, SequenceTheorems, TLAPS

USE RootAssumption, ChildrenAssumption, OverridesAssumption, MaxDepthAssumption

(***************************************************************************)
(* The three list properties and test_run_args are names of the schema.    *)
(***************************************************************************)
LEMMA KindsInSchema ==
  /\ ListKeys \subseteq Keys
  /\ DictKeys \subseteq Keys
  /\ ListKeys \cap DictKeys = {}
BY DEF ListKeys, DictKeys, Keys, DefaultProperties

(***************************************************************************)
(* A path is a sequence of segments of length 1 to MaxDepth.               *)
(***************************************************************************)
LEMMA PathsAreSeqs ==
  ASSUME NEW p \in Paths
  PROVE  p \in Seq(Segs) /\ Len(p) \in 1..MaxDepth
BY DEF Paths

(***************************************************************************)
(* update keeps a property set resolved: the result is a function over the *)
(* schema, its lists are flag sequences and its dicts are functions.      *)
(***************************************************************************)
LEMMA UpdateResolved ==
  ASSUME NEW F, NEW b, NEW d, IsResolved(b, F), IsOverride(d, F)
  PROVE  IsResolved(Update(b, d), F)
<1>1. DOMAIN Update(b, d) = Keys
  BY DEF IsResolved, IsOverride, Update
<1>2. IsFunc(Update(b, d))
  BY DEF IsFunc, Update
<1>3. ASSUME NEW k \in ListKeys PROVE Update(b, d)[k] \in Seq(F)
  <2>1. k \in DOMAIN b
    BY KindsInSchema DEF IsResolved
  <2>2. CASE k \in DOMAIN d
    <3>1. Update(b, d)[k] = b[k] \o d[k]
      BY <2>1, <2>2, KindsInSchema DEF Update, MergedValue
    <3>2. b[k] \in Seq(F) /\ d[k] \in Seq(F)
      BY <2>2 DEF IsResolved, IsOverride
    <3>. QED  BY <3>1, <3>2, ConcatProperties
  <2>3. CASE k \notin DOMAIN d
    BY <2>1, <2>3 DEF Update, IsResolved
  <2>. QED  BY <2>2, <2>3
<1>4. ASSUME NEW k \in DictKeys PROVE IsFunc(Update(b, d)[k])
  <2>1. k \in DOMAIN b
    BY KindsInSchema DEF IsResolved
  <2>2. CASE k \in DOMAIN d
    <3>1. Update(b, d)[k] = UpdateDict(b[k], d[k])
      BY <2>1, <2>2, KindsInSchema DEF Update, MergedValue
    <3>. QED  BY <3>1 DEF UpdateDict, IsFunc
  <2>3. CASE k \notin DOMAIN d
    BY <2>1, <2>3 DEF Update, IsResolved
  <2>. QED  BY <2>2, <2>3
<1>. QED  BY <1>1, <1>2, <1>3, <1>4 DEF IsResolved

-----------------------------------------------------------------------------
(***************************************************************************)
(* Every step of get keeps TypeOK.                                         *)
(***************************************************************************)
LEMMA TypeOKStep == TypeOK /\ [Next]_vars => TypeOK'
<1> SUFFICES ASSUME TypeOK, [Next]_vars PROVE TypeOK'
  OBVIOUS
<1>1. ASSUME NEW p \in Paths, Start(p) PROVE TypeOK'
  BY <1>1 DEF Start, TypeOK
<1>2. ASSUME Descend PROVE TypeOK'
  <2>1. comps \in Paths
    BY <1>2 DEF Descend, Matches, TypeOK
  <2>2. i' \in 1..MaxDepth + 1
    BY <1>2, <2>1, PathsAreSeqs DEF Descend, Matches, TypeOK
  <2>3. node' \in Nodes
    BY <1>2 DEF Descend, Matches, TypeOK
  <2>4. IsResolved(acc', Flags)
    BY <1>2, <2>3, UpdateResolved DEF Descend, TypeOK
  <2>. QED  BY <1>2, <2>2, <2>3, <2>4 DEF Descend, TypeOK
<1>3. ASSUME Stop PROVE TypeOK'
  <2>1. comps \in Paths
    BY <1>3 DEF Stop, TypeOK
  <2>. QED  BY <1>3, <2>1 DEF Stop, TypeOK
<1>4. CASE UNCHANGED vars
  BY <1>4 DEF vars, TypeOK
<1>. QED  BY <1>1, <1>2, <1>3, <1>4 DEF Next

(***************************************************************************)
(* get is type correct: every resolved property set, at every step of the *)
(* walk and when returned, holds every name of the schema with a value of *)
(* its kind, so the verdicts never raise KeyError.                         *)
(***************************************************************************)
THEOREM TypeCorrect == Spec => []TypeOK
<1>1. Init => TypeOK
  BY DEF Init, TypeOK
<1>. QED  BY <1>1, TypeOKStep, PTL DEF Spec

-----------------------------------------------------------------------------
(***************************************************************************)
(* Appending to a sequence keeps its leading part.                         *)
(***************************************************************************)
LEMMA ConcatStartsWith ==
  ASSUME NEW F, NEW s \in Seq(F), NEW t \in Seq(F), NEW r \in Seq(F),
         StartsWith(s, r)
  PROVE  StartsWith(s \o t, r)
<1>1. Len(s \o t) = Len(s) + Len(t)
  BY ConcatProperties
<1>2. \A j \in 1..Len(r) : (s \o t)[j] = s[j]
  BY ConcatProperties DEF StartsWith
<1>. QED  BY <1>1, <1>2 DEF StartsWith

(***************************************************************************)
(* One step of update keeps every list property starting with the root's  *)
(* value.                                                                  *)
(***************************************************************************)
LEMMA UpdateKeepsRootFirst ==
  ASSUME NEW b, NEW d, IsResolved(b, Flags), IsOverride(d, Flags),
         \A k \in ListKeys : StartsWith(b[k], Overrides[Root][k])
  PROVE  \A k \in ListKeys : StartsWith(Update(b, d)[k], Overrides[Root][k])
<1> TAKE k \in ListKeys
<1>1. k \in DOMAIN b /\ Overrides[Root][k] \in Seq(Flags) /\ b[k] \in Seq(Flags)
  BY KindsInSchema DEF IsResolved
<1>2. CASE k \in DOMAIN d
  <2>1. Update(b, d)[k] = b[k] \o d[k]
    BY <1>1, <1>2, KindsInSchema DEF Update, MergedValue
  <2>2. d[k] \in Seq(Flags)
    BY <1>2 DEF IsOverride
  <2>. QED  BY <1>1, <2>1, <2>2, ConcatStartsWith
<1>3. CASE k \notin DOMAIN d
  BY <1>1, <1>3 DEF Update
<1>. QED  BY <1>2, <1>3

(***************************************************************************)
(* The root's compiler flags lead every resolved list (RootFlagsFirst).    *)
(* It is inductive together with TypeOK, which gives the sequence types    *)
(* that the concatenation facts need.                                      *)
(***************************************************************************)
IInv == TypeOK /\ RootFlagsFirst

THEOREM RootFlagsFirstHolds == Spec => []RootFlagsFirst
<1>1. Init => IInv
  <2> SUFFICES ASSUME Init PROVE IInv
    OBVIOUS
  <2>1. \A k \in ListKeys : Overrides[Root][k] \in Seq(Flags)
    BY DEF IsResolved
  <2>. QED  BY <2>1 DEF Init, IInv, TypeOK, RootFlagsFirst, StartsWith
<1>2. IInv /\ [Next]_vars => IInv'
  <2> SUFFICES ASSUME IInv, [Next]_vars PROVE IInv'
    OBVIOUS
  <2>1. TypeOK'
    BY TypeOKStep DEF IInv
  <2>2. ASSUME NEW p \in Paths, Start(p) PROVE RootFlagsFirst'
    <3>1. \A k \in ListKeys : Overrides[Root][k] \in Seq(Flags)
      BY DEF IsResolved
    <3>. QED  BY <2>2, <3>1 DEF Start, RootFlagsFirst, StartsWith
  <2>3. ASSUME Descend PROVE RootFlagsFirst'
    <3>1. Overrides[Children[node][comps[i]]] \in {Overrides[n] : n \in Nodes}
      BY <2>3 DEF Descend, Matches, IInv, TypeOK
    <3>2. \A k \in ListKeys : StartsWith(acc'[k], Overrides[Root][k])
      BY <2>3, <3>1, UpdateKeepsRootFirst DEF Descend, IInv, TypeOK, RootFlagsFirst
    <3>. QED  BY <2>3, <3>2 DEF Descend, IInv, RootFlagsFirst
  <2>4. ASSUME Stop PROVE RootFlagsFirst'
    BY <2>4 DEF Stop, IInv, RootFlagsFirst
  <2>5. ASSUME UNCHANGED vars PROVE RootFlagsFirst'
    BY <2>5 DEF vars, IInv, RootFlagsFirst, StartsWith
  <2>. QED  BY <2>1, <2>2, <2>3, <2>4, <2>5 DEF Next, IInv
<1>3. IInv => RootFlagsFirst
  BY DEF IInv
<1>. QED  BY <1>1, <1>2, <1>3, PTL DEF Spec
-----------------------------------------------------------------------------
(***************************************************************************)
(* Appending a sequence puts it at the end.                                *)
(***************************************************************************)
LEMMA ConcatEndsWith ==
  ASSUME NEW F, NEW s \in Seq(F), NEW t \in Seq(F)
  PROVE  EndsWith(s \o t, t)
<1>1. Len(s \o t) = Len(s) + Len(t)
  BY ConcatProperties
<1>2. \A j \in 1..Len(t) : (s \o t)[Len(s \o t) - Len(t) + j] = t[j]
  BY <1>1, ConcatProperties
<1>. QED  BY <1>1, <1>2 DEF EndsWith

(***************************************************************************)
(* A node's own property set, as the root's is, holds its declarations.    *)
(***************************************************************************)
LEMMA RootDeclarationsWin == DeclarationsWin(Overrides[Root], Root)
<1> SUFFICES ASSUME NEW k \in DOMAIN Overrides[Root]
             PROVE  CASE k \in ListKeys -> EndsWith(Overrides[Root][k], Overrides[Root][k])
                      [] k \in DictKeys -> \A e \in DOMAIN Overrides[Root][k] :
                                             e \in DOMAIN Overrides[Root][k]
                                             /\ Overrides[Root][k][e] = Overrides[Root][k][e]
                      [] OTHER          -> Overrides[Root][k] = Overrides[Root][k]
  BY DEF DeclarationsWin
<1>1. k \in ListKeys => Overrides[Root][k] \in Seq(Flags)
  BY DEF IsResolved
<1>2. k \in ListKeys => EndsWith(Overrides[Root][k], Overrides[Root][k])
  BY <1>1 DEF EndsWith
<1>. QED  BY <1>2, KindsInSchema

(***************************************************************************)
(* update(other) leaves other's declarations in the result: the delta's    *)
(* scalars and dict entries win, its lists are appended last.              *)
(***************************************************************************)
LEMMA UpdateDeclarationsWin ==
  ASSUME NEW b, NEW n \in Nodes, IsResolved(b, Flags)
  PROVE  DeclarationsWin(Update(b, Overrides[n]), n)
<1> DEFINE d == Overrides[n]
           u == Update(b, d)
<1>1. IsOverride(d, Flags)
  OBVIOUS
<1> SUFFICES ASSUME NEW k \in DOMAIN d
             PROVE  CASE k \in ListKeys -> EndsWith(u[k], d[k])
                      [] k \in DictKeys -> \A e \in DOMAIN d[k] :
                                             e \in DOMAIN u[k] /\ u[k][e] = d[k][e]
                      [] OTHER          -> u[k] = d[k]
  BY DEF DeclarationsWin
<1>2. k \in DOMAIN b /\ u[k] = MergedValue(k, b[k], d[k])
  BY <1>1 DEF IsResolved, IsOverride, Update
<1>3. k \in ListKeys => EndsWith(u[k], d[k])
  <2> SUFFICES ASSUME k \in ListKeys PROVE EndsWith(u[k], d[k])
    OBVIOUS
  <2>1. u[k] = b[k] \o d[k]
    BY <1>2, KindsInSchema DEF MergedValue
  <2>2. b[k] \in Seq(Flags)
    BY DEF IsResolved
  <2>3. d[k] \in Seq(Flags)
    BY <1>1 DEF IsOverride
  <2>. QED  BY <2>1, <2>2, <2>3, ConcatEndsWith
<1>4. k \in DictKeys => \A e \in DOMAIN d[k] : e \in DOMAIN u[k] /\ u[k][e] = d[k][e]
  <2> SUFFICES ASSUME k \in DictKeys
               PROVE  \A e \in DOMAIN d[k] : e \in DOMAIN u[k] /\ u[k][e] = d[k][e]
    OBVIOUS
  <2>1. u[k] = UpdateDict(b[k], d[k])
    BY <1>2, KindsInSchema DEF MergedValue
  <2>. QED  BY <2>1 DEF UpdateDict
<1>5. k \notin ListKeys \cup DictKeys => u[k] = d[k]
  BY <1>2 DEF MergedValue
<1>6. ListKeys \cap DictKeys = {}
  BY KindsInSchema
<1>. QED  BY <1>3, <1>4, <1>5, <1>6

(***************************************************************************)
(* The deepest matched node's declarations win (NodeDeclarationsWin).  It *)
(* is not inductive alone: a returned result must still be the one the    *)
(* walk built for the current node, which holds because get returns only  *)
(* from the loop and the next call drops it before it walks again.        *)
(***************************************************************************)
DInv ==
  /\ TypeOK
  /\ DeclarationsWin(acc, node)
  /\ ret # NoResult => pc = "idle" /\ ret.props = acc

THEOREM NodeDeclarationsWinHolds == Spec => []NodeDeclarationsWin
<1>1. Init => DInv
  BY RootDeclarationsWin DEF Init, DInv, TypeOK
<1>2. DInv /\ [Next]_vars => DInv'
  <2> SUFFICES ASSUME DInv, [Next]_vars PROVE DInv'
    OBVIOUS
  <2>1. TypeOK'
    BY TypeOKStep DEF DInv
  <2>2. ASSUME NEW p \in Paths, Start(p) PROVE DInv'
    BY <2>1, <2>2, RootDeclarationsWin DEF Start, DInv
  <2>3. ASSUME Descend PROVE DInv'
    <3>1. Children[node][comps[i]] \in Nodes /\ IsResolved(acc, Flags)
      BY <2>3 DEF Descend, Matches, DInv, TypeOK
    <3>2. DeclarationsWin(acc', node')
      BY <2>3, <3>1, UpdateDeclarationsWin DEF Descend
    <3>3. ret' = NoResult
      BY <2>3 DEF Descend, DInv
    <3>. QED  BY <2>1, <3>2, <3>3 DEF DInv
  <2>4. ASSUME Stop PROVE DInv'
    BY <2>1, <2>4 DEF Stop, DInv
  <2>5. ASSUME UNCHANGED vars PROVE DInv'
    BY <2>5 DEF vars, DInv, TypeOK, DeclarationsWin
  <2>. QED  BY <2>2, <2>3, <2>4, <2>5 DEF Next
<1>3. DInv => NodeDeclarationsWin
  BY DEF DInv, NodeDeclarationsWin
<1>. QED  BY <1>1, <1>2, <1>3, PTL DEF Spec
=============================================================================
