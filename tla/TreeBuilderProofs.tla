-------------------------- MODULE TreeBuilderProofs --------------------------
(***************************************************************************)
(* Proofs about make_from_tuples (module TreeBuilder) for every literal,   *)
(* every set of items and every number of calls that satisfy               *)
(* BuilderAssumption: type correctness, which rests on the in-place       *)
(* rewrite of the children dicts only ever replacing a literal item by the *)
(* PrefixTree built from that very item.                                   *)
(***************************************************************************)
EXTENDS TreeBuilder, SequenceTheorems, TLAPS

USE BuilderAssumption

(***************************************************************************)
(* The strengthening that makes TypeOK inductive: every entry of a        *)
(* children dict holds the literal item it was written with, or the       *)
(* PrefixTree built from exactly that item (the rewrite of line 241),     *)
(* also after a call that raised half way.  A later call reads these      *)
(* entries, so TypeOK of that call rests on it.                            *)
(***************************************************************************)
RewriteFaithful ==
  \A d \in DictIds : \A s \in DOMAIN dicts[d] :
     \/ dicts[d][s] = literal[d][s]
     \/ /\ dicts[d][s] \notin Items
        /\ trees[dicts[d][s].tree] = NewTree(literal[d][s])

IInv == TypeOK /\ RewriteFaithful

(***************************************************************************)
(* A reference into trees is no literal item, and it names the tree it     *)
(* points to.                                                               *)
(***************************************************************************)
LEMMA RefNotItem ==
  ASSUME NEW n \in Nat
  PROVE  Ref(n) \notin Items /\ Ref(n).tree = n
BY DEF Ref

(***************************************************************************)
(* The PrefixTree built from an item has the shape of a tree record.       *)
(***************************************************************************)
LEMMA NewTreeType ==
  ASSUME NEW v \in Items
  PROVE  NewTree(v) \in TreeRecs
BY DEF NewTree, TreeRecs

LEMMA InitIInv == Init => IInv
<1> SUFFICES ASSUME Init PROVE IInv
  OBVIOUS
<1>1. TypeOK
  BY DEF Init, TypeOK, NoOutcome
<1>2. RewriteFaithful
  BY DEF Init, RewriteFaithful
<1>. QED  BY <1>1, <1>2 DEF IInv

(***************************************************************************)
(* A step that appends one tree and rewrites nothing keeps both            *)
(* invariants for the dicts: old references still point below Len(trees). *)
(***************************************************************************)
LEMMA DictsUnderAppend ==
  ASSUME TypeOK, RewriteFaithful, NEW x,
         dicts' = dicts, literal' = literal, trees' = Append(trees, x)
  PROVE  /\ \A d \in DictIds : \A s \in DOMAIN dicts'[d] :
              dicts'[d][s] \in Items \cup {Ref(n) : n \in 1..Len(trees')}
         /\ RewriteFaithful'
<1>1. Len(trees') = Len(trees) + 1 /\ \A m \in 1..Len(trees) : trees'[m] = trees[m]
  BY AppendProperties DEF TypeOK
<1>. QED  BY <1>1 DEF TypeOK, RewriteFaithful, Ref

LEMMA StepIInv == IInv /\ [Next]_vars => IInv'
<1> SUFFICES ASSUME TypeOK, RewriteFaithful, [Next]_vars PROVE TypeOK' /\ RewriteFaithful'
  BY DEF IInv
<1>1. CASE CallFails
  BY <1>1 DEF CallFails, TypeOK, RewriteFaithful, Raised, ConvertError, KidsKeys
<1>2. CASE CallWraps
  <2>1. arg \in Items /\ trees' = Append(trees, NewTree(arg))
    BY <1>2 DEF CallWraps, TypeOK
  <2>2. RewriteFaithful' /\ \A d \in DictIds : \A s \in DOMAIN dicts'[d] :
              dicts'[d][s] \in Items \cup {Ref(n) : n \in 1..Len(trees')}
    BY <1>2, <2>1, DictsUnderAppend DEF CallWraps
  <2>3. trees' \in Seq(TreeRecs) /\ Len(trees') = Len(trees) + 1
    BY <2>1, NewTreeType, AppendProperties DEF TypeOK
  <2>. QED  BY <1>2, <2>2, <2>3 DEF CallWraps, TypeOK
<1>3. CASE Pop
  <2>1. todo # <<>> /\ todo \in Seq(1..Len(trees))
    BY <1>3 DEF Pop, TypeOK
  <2>2. todo[Len(todo)] \in 1..Len(trees)
    BY <2>1
  <2>3. todo' \in Seq(1..Len(trees))
    BY <1>3, <2>1 DEF Pop
  <2>. QED  BY <1>3, <2>2, <2>3 DEF Pop, TypeOK, RewriteFaithful, KidsKeys
<1>4. CASE ChildFails
  BY <1>4 DEF ChildFails, TypeOK, RewriteFaithful, Raised, ConvertError, KidsKeys
<1>5. CASE ConvertChild
  <2> DEFINE d == trees[cur].kids
             k == NextKey
             n == Len(trees) + 1
  <2>0. pc = "for" /\ cur \in 1..Len(trees) /\ n \in Nat
    BY <1>5 DEF ConvertChild, TypeOK
  <2>1. /\ pc = "for" /\ cur \in 1..Len(trees) /\ n \in Nat
        /\ dicts[d][k] \in Items
        /\ trees' = Append(trees, NewTree(dicts[d][k]))
        /\ dicts' = [dicts EXCEPT ![d][k] = Ref(n)]
        /\ todo' = Append(todo, n)
        /\ literal' = literal
    <3>1. ConvertError(dicts[d][k]) = "none"
      BY <1>5 DEF ConvertChild
    <3>2. dicts[d][k] \in Items
      BY <3>1 DEF ConvertError
    <3>. QED  BY <1>5, <2>0, <3>2 DEF ConvertChild
  <2>2. trees[cur] \in TreeRecs
    BY <2>1 DEF TypeOK
  <2>3. Len(trees') = n /\ trees' \in Seq(TreeRecs)
        /\ trees'[n] = NewTree(dicts[d][k])
        /\ \A m \in 1..Len(trees) : trees'[m] = trees[m]
    BY <2>1, NewTreeType, AppendProperties DEF TypeOK
  <2>4. todo' \in Seq(1..Len(trees'))
    BY <2>1, <2>3, AppendProperties DEF TypeOK
  <2>5. DOMAIN dicts' = DictIds
        /\ \A e \in DictIds : DOMAIN dicts'[e] = DOMAIN dicts[e]
    BY <2>1 DEF TypeOK
  <2>6. ASSUME NEW e \in DictIds, NEW s \in DOMAIN dicts[e]
        PROVE  dicts'[e][s] = IF e = d /\ s = k THEN Ref(n) ELSE dicts[e][s]
    BY <2>1, <2>6 DEF TypeOK
  <2>7. k \in DOMAIN dicts[d] /\ d \in DictIds => dicts[d][k] = literal[d][k]
    BY <2>1, RefNotItem DEF RewriteFaithful, TypeOK
  <2>8. RewriteFaithful'
    <3> SUFFICES ASSUME NEW e \in DictIds, NEW s \in DOMAIN dicts'[e]
                 PROVE  \/ dicts'[e][s] = literal'[e][s]
                        \/ /\ dicts'[e][s] \notin Items
                           /\ trees'[dicts'[e][s].tree] = NewTree(literal'[e][s])
      BY DEF RewriteFaithful
    <3>1. s \in DOMAIN dicts[e]
      BY <2>5
    <3>2. CASE e = d /\ s = k
      <4>1. dicts'[e][s] = Ref(n)
        BY <2>6, <3>1, <3>2
      <4>2. Ref(n) \notin Items /\ Ref(n).tree = n
        BY <2>1, RefNotItem
      <4>3. trees'[n] = NewTree(literal[d][k])
        BY <2>3, <2>7, <3>1, <3>2
      <4>4. literal'[e][s] = literal[d][k]
        BY <2>1, <3>2
      <4>5. trees'[dicts'[e][s].tree] = NewTree(literal'[e][s])
        BY <4>1, <4>2, <4>3, <4>4
      <4>. QED  BY <4>1, <4>2, <4>5
    <3>3. CASE ~(e = d /\ s = k)
      <4>1. dicts'[e][s] = dicts[e][s]
        BY <2>6, <3>1, <3>3
      <4>2. dicts[e][s] \in Items \cup {Ref(m) : m \in 1..Len(trees)}
        BY <3>1 DEF TypeOK
      <4>3. literal'[e][s] = literal[e][s]
        BY <2>1
      <4>4. \/ dicts[e][s] = literal[e][s]
            \/ /\ dicts[e][s] \notin Items
               /\ trees[dicts[e][s].tree] = NewTree(literal[e][s])
        BY <3>1 DEF RewriteFaithful
      <4>5. CASE dicts[e][s] \notin Items
        <5>1. PICK m \in 1..Len(trees) : dicts[e][s] = Ref(m)
          BY <4>2, <4>5
        <5>2. Ref(m).tree = m
          BY RefNotItem
        <5>3. trees'[m] = trees[m]
          BY <2>3
        <5>. QED  BY <4>1, <4>3, <4>4, <4>5, <5>1, <5>2, <5>3
      <4>. QED  BY <4>1, <4>3, <4>4, <4>5
    <3>. QED  BY <3>2, <3>3
  <2>9. ASSUME NEW e \in DictIds, NEW s \in DOMAIN dicts'[e]
        PROVE  dicts'[e][s] \in Items \cup {Ref(m) : m \in 1..Len(trees')}
    <3>1. s \in DOMAIN dicts[e]
      BY <2>5
    <3>2. CASE e = d /\ s = k
      BY <2>1, <2>3, <2>6, <3>1, <3>2
    <3>3. CASE ~(e = d /\ s = k)
      <4>1. dicts[e][s] \in Items \cup {Ref(m) : m \in 1..Len(trees)}
        BY <3>1 DEF TypeOK
      <4>. QED  BY <2>1, <2>3, <2>6, <3>1, <3>3, <4>1
    <3>. QED  BY <3>2, <3>3
  <2>10. (left \subseteq KidsKeys(trees[cur]))'
    BY <1>5, <2>1, <2>3, <2>5 DEF ConvertChild, TypeOK, KidsKeys
  <2>. QED  BY <1>5, <2>3, <2>4, <2>5, <2>8, <2>9, <2>10 DEF ConvertChild, TypeOK
<1>6. CASE ForDone
  BY <1>6 DEF ForDone, TypeOK, RewriteFaithful, KidsKeys
<1>7. CASE Return
  BY <1>7 DEF Return, TypeOK, RewriteFaithful, Returned, KidsKeys
<1>8. CASE UNCHANGED vars
  BY <1>8 DEF vars, TypeOK, RewriteFaithful, KidsKeys
<1>. QED  BY <1>1, <1>2, <1>3, <1>4, <1>5, <1>6, <1>7, <1>8 DEF Next, Call, Step

(***************************************************************************)
(* Type correctness of make_from_tuples for every literal and call count.  *)
(***************************************************************************)
THEOREM BuilderTypeCorrect == Spec => []TypeOK
<1>1. Init => IInv
  BY InitIInv
<1>2. IInv /\ [Next]_vars => IInv'
  BY StepIInv
<1>. QED  BY <1>1, <1>2, PTL DEF Spec, IInv
=============================================================================
