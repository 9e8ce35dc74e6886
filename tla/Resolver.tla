------------------------------ MODULE Resolver ------------------------------
(***************************************************************************)
(* get(path) of src/path_properties.py: the walk down the prefix tree of   *)
(* override nodes that resolves the properties of one path.  The tree is   *)
(* the one PrefixTree.make_from_tuples built; it is never changed after,   *)
(* so it is a constant here: Children[n] is the children dict of node n    *)
(* (segment -> node) and Overrides[n] the properties dict of its           *)
(* PathProperties.  The root's properties are default_properties.          *)
(*                                                                         *)
(* A call is Start (the copy of the root's properties), one Descend per    *)
(* matched component, and Stop at the first component with no child or at *)
(* the end of the path, which returns the PathProperties with its path     *)
(* components set.  The caller then asks for the two verdicts.             *)
(***************************************************************************)
EXTENDS PathProperties

CONSTANTS
  Nodes,      \* the PrefixTree objects
  Root,       \* path_properties_tree
  Children,   \* Children[n] : the dict n.children
  Overrides,  \* Overrides[n] : the dict n.path_properties.properties
  Segs,       \* the path components a caller may use
  MaxDepth,   \* the longest path a caller resolves
  Flags,      \* the compiler flag and object tokens of the list properties
  Envs,       \* the environments the caller evaluates the verdicts in
  NoResult    \* ret before the first call returns

ASSUME RootAssumption == Root \in Nodes

ASSUME ChildrenAssumption ==
  \A n \in Nodes :
     /\ IsFunc(Children[n])
     /\ DOMAIN Children[n] \subseteq Segs
     /\ \A s \in DOMAIN Children[n] : Children[n][s] \in Nodes

(***************************************************************************)
(* Every node passed the schema check of PathProperties.__init__, and the  *)
(* root holds default_properties, hence every name of the schema.          *)
(***************************************************************************)
ASSUME OverridesAssumption ==
  /\ \A n \in Nodes : IsOverride(Overrides[n], Flags)
  /\ IsResolved(Overrides[Root], Flags)

ASSUME MaxDepthAssumption == MaxDepth \in Nat \ {0}

(***************************************************************************)
(* path.split(os.sep) never returns an empty list.                         *)
(***************************************************************************)
Paths == UNION {[1..n -> Segs] : n \in 1..MaxDepth}

VARIABLES
  pc,     \* "idle" between calls, "loop" inside the for loop of get
  comps,  \* path_components of the current call
  i,      \* index of the next component the loop looks at
  node,   \* cur_node
  acc,    \* path_properties.properties, the running result
  ret     \* the last returned PathProperties: [props, comps]

vars == <<pc, comps, i, node, acc, ret>>

Init ==
  /\ pc = "idle"
  /\ comps = <<>>
  /\ i = 1
  /\ node = Root
  /\ acc = Overrides[Root]
  /\ ret = NoResult

\* Mutant: the copy taken from cur_node left over from the previous call.
StartStaleNode(p) ==
  /\ pc = "idle"
  /\ pc' = "loop"
  /\ comps' = p
  /\ i' = 1
  /\ node' = Root
  /\ acc' = Overrides[node]
  /\ ret' = NoResult

(***************************************************************************)
(* cur_node = path_properties_tree; path_properties = PathProperties(      *)
(*   cur_node.path_properties.properties.copy()).  The caller has consumed *)
(* the previous result and dropped it (each result is used for one path). *)
(***************************************************************************)
Start(p) ==
  /\ pc = "idle"
  /\ pc' = "loop"
  /\ comps' = p
  /\ i' = 1
  /\ node' = Root
  /\ acc' = Overrides[Root]
  /\ ret' = NoResult

(***************************************************************************)
(* The for loop has a component left and it names a child of cur_node.    *)
(***************************************************************************)
Matches == i <= Len(comps) /\ comps[i] \in DOMAIN Children[node]

(***************************************************************************)
(* if path_component in cur_node.children: descend, then                   *)
(* path_properties.update(cur_node.path_properties)                        *)
(***************************************************************************)
Descend ==
  /\ pc = "loop"
  /\ Matches
  /\ node' = Children[node][comps[i]]
  /\ acc' = Update(acc, Overrides[Children[node][comps[i]]])
  /\ i' = i + 1
  /\ UNCHANGED <<pc, comps, ret>>

\* Mutant: continue instead of break, the walk skips a component with no child.
StopSkipsMiss ==
  /\ pc = "loop"
  /\ ~Matches
  /\ IF i <= Len(comps)
       THEN i' = i + 1 /\ UNCHANGED <<pc, comps, node, acc, ret>>
       ELSE /\ pc' = "idle"
            /\ ret' = [props |-> acc, comps |-> comps]
            /\ UNCHANGED <<comps, i, node, acc>>

(***************************************************************************)
(* else: break; or the loop ran out of components.  Then                   *)
(* set_path_components(path_components) and return.                        *)
(***************************************************************************)
Stop ==
  /\ pc = "loop"
  /\ ~Matches
  /\ pc' = "idle"
  /\ ret' = [props |-> acc, comps |-> comps]
  /\ UNCHANGED <<comps, i, node, acc>>

Next ==
  \/ \E p \in Paths : Start(p)
  \/ Descend
  \/ Stop

Spec == Init /\ [][Next]_vars

-----------------------------------------------------------------------------
(***************************************************************************)
(* Type correctness.  Besides the shapes, it says that the running result  *)
(* always holds every name of the schema: the verdicts read any property   *)
(* by self[key], which raises KeyError for a missing one.                  *)
(***************************************************************************)
TypeOK ==
  /\ pc \in {"idle", "loop"}
  /\ comps \in Paths \cup {<<>>}
  /\ pc = "loop" => comps \in Paths
  /\ i \in 1..MaxDepth + 1
  /\ node \in Nodes
  /\ IsResolved(acc, Flags)
  /\ ret = NoResult \/ (ret.comps \in Paths /\ IsResolved(ret.props, Flags))

(***************************************************************************)
(* The root's compiler flags lead.  In every resolved property set, and    *)
(* at every step of the walk, each list property starts with the root's    *)
(* value (-Wall -Werror ... for cc_flags): update appends a deeper node's  *)
(* flags after the inherited ones and never in front of them.             *)
(***************************************************************************)
StartsWith(s, r) == Len(r) <= Len(s) /\ \A j \in 1..Len(r) : s[j] = r[j]

RootFlagsFirst ==
  /\ \A k \in ListKeys : StartsWith(acc[k], Overrides[Root][k])
  /\ ret # NoResult => \A k \in ListKeys : StartsWith(ret.props[k], Overrides[Root][k])

(***************************************************************************)
(* The deepest matched node's declarations win.  The running result holds *)
(* every property the current node declares: a scalar with the node's     *)
(* value, each test_run_args entry with the node's value, a list ending   *)
(* with the node's list.  The returned result holds those of the last     *)
(* node the walk matched.  This is what update's order of merging gives   *)
(* (the delta's scalar overwrites, {**base, **delta}, base + delta), and   *)
(* what the driver relies on when a file overrides its directory.         *)
(***************************************************************************)
EndsWith(s, r) ==
  Len(r) <= Len(s) /\ \A j \in 1..Len(r) : s[Len(s) - Len(r) + j] = r[j]

DeclarationsWin(props, n) ==
  \A k \in DOMAIN Overrides[n] :
     CASE k \in ListKeys -> EndsWith(props[k], Overrides[n][k])
       [] k \in DictKeys -> \A e \in DOMAIN Overrides[n][k] :
                              e \in DOMAIN props[k] /\ props[k][e] = Overrides[n][k][e]
       [] OTHER          -> props[k] = Overrides[n][k]

NodeDeclarationsWin ==
  /\ DeclarationsWin(acc, node)
  /\ ret # NoResult => DeclarationsWin(ret.props, node)

-----------------------------------------------------------------------------
(***************************************************************************)
(* Claims of spec.md about get and the verdicts, stated as it states them. *)
(***************************************************************************)

(***************************************************************************)
(* Section 7: the verdicts never fail on a resolved path.  should_be_built *)
(* reads path_components[2] when the second component is 'libs', guarded  *)
(* only by len(path_components) > 1.                                       *)
(***************************************************************************)
PredicatesTotal ==
  ret # NoResult => \A env \in Envs : ~RaisesIndexError(ret.comps, env)

(***************************************************************************)
(* Section 8, scenario B: a path whose resolved properties are the         *)
(* defaults with requires_sudo set should be built whatever the            *)
(* architecture or emulator.                                               *)
(***************************************************************************)
SudoOnlyIsBuilt ==
  /\ ret # NoResult
  /\ ret.props = [Overrides[Root] EXCEPT !.requires_sudo = TRUE]
  => \A env \in Envs :
       ~RaisesIndexError(ret.comps, env) => ShouldBeBuilt(ret.props, ret.comps, env, FALSE)

(***************************************************************************)
(* Section 4.5 and 9: when allowed_archs is a bare architecture name (a    *)
(* str, as for kernel_modules/float.c), the membership test of             *)
(* should_be_built has character-level semantics: the target architecture *)
(* passes only if it is one of the str's characters.                       *)
(***************************************************************************)
IsCharOf(x, s) == Len(x) = 1 /\ \E j \in 1..Len(s) : s[j] = x[1]

ArchGateCharLevel ==
  /\ ret # NoResult
  /\ ret.props.allowed_archs # None
  /\ ret.props.allowed_archs.type = "str"
  => \A env \in Envs :
       ArchAllowed(ret.props, env) <=> IsCharOf(env.arch, ret.props.allowed_archs.chars)
=============================================================================
