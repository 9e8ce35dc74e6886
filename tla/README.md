# Verification of `src/path_properties.py`

TLA+ models, TLC runs and TLAPS proofs for the path-property engine of
linux-kernel-module-cheat. The engine decides, for each example or test path,
whether to build it and whether to run it as a test.

## 1. The system

The whole repository is one file, `src/path_properties.py` (553 lines). It is
single-threaded and synchronous. It persists nothing and sends no messages.
What is hard in it is therefore not concurrency. It is the order of merges,
prefix matching, Python object semantics (shallow copies, in-place rewrites,
`in` on a `str`), and one large flat rule list.

### Components, state and operations

| Component | Source | State | Operations |
|---|---|---|---|
| Property schema | `PathProperties.default_properties`, `__init__` (8–105) | 31 property names with defaults | `__init__` raises `ValueError` on an unknown key, then makes a shallow copy |
| Merge | `update`, `_update_list`, `_update_dict` (197–216) | the receiver's `properties` dict | concatenates the three list keys (base first), merges `test_run_args` (delta wins), overwrites everything else the delta names |
| Tree builder | `PrefixTree.__init__`, `make_from_tuples` (218–243) | a LIFO work list of trees; the literal's children dicts, rewritten in place | wraps each literal as a `PrefixTree` and replaces each child entry by its tree |
| Resolver | `get` (245–256) | `cur_node`, the running `PathProperties`, the loop index | copies the root's properties, then for each component descends and `update`s, or `break`s at the first miss |
| Predicates | `should_be_built`, `should_be_tested` (116–195) | none (pure) | the libs/package rule, `no_build`, the `allowed_archs` gate, the mode/extension rule, the link rule; then the flat test exclusions |
| Override data | `path_properties_tuples` (258–552) | a nested literal of about 100 nodes | consumed once by the builder |

### How the components interact

The builder turns the literal into a tree once. `get` walks that tree and
calls `update` on a fresh `PathProperties` for each matched node. It then
calls `set_path_components` and returns the result. The external driver reads
the two verdicts from it, with an environment record (`arch`, `mode`,
`emulator`, `build_in_exts`, `baremetal_build_in_exts`, `package`,
`package_all`). The tree is shared state. Results share list, dict and set
objects with the tree, because every copy in the code is shallow.

`get` reads the global `path_properties_tree`, which the last line of the
file (553) binds: `path_properties_tree =
PrefixTree.make_from_tuples(path_properties_tuples)`. That one build is what
the tree-as-constant of `Resolver` stands for, and `lkmc_build` checks it.

### What makes each component correct

- **Merge:** lists accumulate root first; the deepest scalar wins; for dict
  entries the deepest declaration wins and other entries are kept. No schema
  name is ever lost.
- **Resolver:** prefix match, meaning the walk stops at the first miss and
  never matches a deeper name after it. The result is what the declarative
  rules give for the matched chain. Nothing a call does, and nothing a
  caller does to a result, may change the tree.
- **Predicates:** they are total over resolved paths. The str case of
  `allowed_archs` is handled as documented.
- **Builder:** every node is checked against the schema. The built tree is
  the literal's unfolding. Every call ends. The in-place rewrite only ever
  stores, for a child entry, the tree built from that entry.

The hazards are listed in `PROJECT.json`, each at the source line where it
bites.

## 2. Modules

| Module | Models | Kind |
|---|---|---|
| `PathProperties` | schema, `update`, predicates (operators) | code; no recursion; proved about |
| `Resolver` | `get` as the actions `Start`, `Descend`, `Stop`; properties | code; proved about |
| `ResolverSpec` | what `get` returns, stated declaratively (§4.3/§4.4/§8 of the spec) | abstract spec; `RECURSIVE`, TLC only |
| `MCTree` | a small tree exercising every merge case | TLC constants |
| `MCResolver` | `Resolver` over `MCTree`; `ResolverSpec` instanced as a property | TLC model |
| `ResolverProofs` | TLAPS proofs about `Resolver` | proofs |
| `HeapResolver` | `get` at the level of Python objects: list, dict and set values are objects on a heap; a caller that mutates a result; `Resolver` instanced with references followed | code; proved about |
| `MCHeapResolver` | `HeapResolver` over `MCTree` | TLC model |
| `HeapResolverProofs` | TLAPS proofs about `HeapResolver`, its refinement of `Resolver` included | proofs |
| `TreeBuilder` | `make_from_tuples`: the work-list loop over a heap of literal items and children dicts | code; proved about |
| `TreeBuildSpec` | what a call of `make_from_tuples` returns or raises, without the work list | abstract spec; `RECURSIVE`, TLC only |
| `MCTreeBuilder` | every small acyclic literal with sharing; `TreeBuildSpec` instanced as a property | TLC model |
| `TreeBuilderProofs` | TLAPS proofs about `TreeBuilder` | proofs |
| `LkmcTree` | the override data `path_properties_tuples` (258–552), as the set of its entries, and the tree it stands for | code (data) |
| `MCLkmcBuild` | `TreeBuilder` over the real literal | TLC model |
| `MCLkmcResolver` | `Resolver` over the real tree; `ResolverSpec` instanced as a property | TLC model |

### How `Resolver` maps to `get`

- The tree is a set of constants. `Children[n]` is `n.children` and
  `Overrides[n]` is `n.path_properties.properties`. `Root` holds
  `default_properties`.
- `Start(p)` is lines 246–248. It sets `cur_node` to the root and `acc` to the
  root's properties. Choosing `p` from `Paths` stands for `path.split(os.sep)`,
  which returns a non-empty list of components.
- `Descend` is lines 250–252, one loop iteration that finds a child. `acc'` is
  `Update(acc, Overrides[child])`.
- `Stop` is the `break` (253–254), or the loop running out of components. It
  also covers `set_path_components` and `return` (255–256). `ret` is the
  returned object.
- `Start` drops the previous `ret`. The driver uses one result per path.

### How `HeapResolver` maps to `get`

The same three actions, but a property dict holds a reference `[obj |-> o]`
for every list, for `test_run_args` and for a set-valued `allowed_archs`, and
`heap[o]` is the object's value. The tree's objects are named after their
node and key. `Start` copies the root's dict, references included (line 248).
`Descend` creates new objects only for the list and dict keys both sides hold
(`_update_list`, `_update_dict`); every other name the child declares is
taken over with the child's object (line 216). `Mutate` is a caller doing
`append`, item assignment or `add` on an object of the result it holds.
Before the first call returns the caller holds `NoResult`, a result with no
path components, which `get` never returns. `Value` instances `Resolver`
with `acc` and `ret` read through `Deref`, which follows every reference to
the object's current value.

### How `TreeBuilder` maps to `make_from_tuples`

- The literal is a heap of items: a tuple has a properties dict `PropsOf[t]`
  and a children dict `KidsOf[t]`; a bare record has only properties.
  `dicts[d]` is the current content of children dict `d`. An entry is a
  literal item or a reference `Ref(n)` to the `n`-th `PrefixTree` created.
- `CallWraps` / `CallFails` are lines 234–235: `tree_from_tuples(tuples)`
  succeeds and starts the work list, or raises.
- `Pop` is lines 236–238. `ConvertChild` is one iteration of the `for` loop
  (240–242): it appends the new tree, rewrites the entry in place and pushes
  the tree. `ChildFails` is the same iteration when `tree_from_tuples` raises
  (the exception leaves the call). `ForDone` ends the `for` loop, `Return`
  is line 243.
- `ConvertError` is what `tree_from_tuples` raises: `TypeError` for an entry
  already rewritten to a `PrefixTree` (it is no tuple, so it is handed to
  `PathProperties`, and iterating over a `PrefixTree` raises), `ValueError`
  for a record with a name outside the schema (lines 102–104).
- Dicts iterate in insertion order. `Rank` gives that order.

### How `LkmcTree` maps to the override data

`Leaf(s, props)` is an entry `s: props` of a children dict, and
`Dir(s, props, kids)` is `s: (props, {kids})`; the nesting follows the
source. An entry records its position (the keys leading to it), its
properties and whether it is a tuple. `LkmcNodes`, `LkmcProps` and
`LkmcChildren` read the entries as the tree `make_from_tuples` builds from
them; `MCLkmcBuild` checks that it does. Signal constants are kept by name;
the comments between the arm `cc_flags` tokens are dropped.

### Representation choices

- A property set is a TLA+ function from names to values. `None` is a model
  value.
- A Python set used with `in` is `PySet(S)`. A Python str is `PyStr(chars)`.
  `PyIn` models `in` as it behaves: membership for a set, substring search for
  a str.
- Architecture names are character sequences, so substring search is real.
  `LF` is an opaque token.
- `os.path.splitext` is given per segment by the table `ExtOf` of the model.

## 3. Runs

| Run | Cfg | Expect | Shows |
|---|---|---|---|
| `resolver` | `MCResolver.cfg` | pass | `TypeOK`, `RootFlagsFirst`, `NodeDeclarationsWin` (the running and the returned set hold every declaration of the deepest matched node) and `ResolvesAsSpecified` (refinement of `ResolverSpec`) on every call |
| `predicates_total` | `MCResolver_PredicatesTotal.cfg` | violation | `should_be_built` raises `IndexError` on `<x>/libs` when `package_all` is off (line 127), against spec §7 |
| `sudo_only_built` | `MCResolver_SudoOnlyIsBuilt.cfg` | violation | defaults plus `requires_sudo` are built in no mode, because `userland` and `baremetal` default to False (lines 136–147), against spec §8 scenario B |
| `arch_gate_char_level` | `MCResolver_ArchGateCharLevel.cfg` | violation | `'x86_64' in 'x86_64'` is substring search and is true. Spec §4.5/§9 call it character-level membership, which would reject `x86_64` |
| `heap_resolver` | `MCHeapResolver.cfg` | pass | `TypeOK`; `TreeObjectsUnchanged` (no call of `get` changes an object of the tree); `ImplementsResolver` (the object-level walk, references followed, is the value-level `Resolver`) |
| `caller_mutation` | `MCHeapResolver_TreeObjectsUnchanged.cfg` | violation | one `append` on a result's `cc_flags` changes `default_properties`' list, so every later result changes, against spec §3 ("independent from the tree") |
| `tree_builder` | `MCTreeBuilder.cfg` | pass | `TypeOK`, `BuildsAsSpecified` (refinement of `TreeBuildSpec`) and `CallReturns` (every call ends) over two calls |
| `lkmc_build` | `MCLkmcBuild.cfg` | pass | `RealTreeBuilt`: the one build of `path_properties_tuples` returns, and the tree holds exactly the literal's declarations at every position; `CallReturns` |
| `lkmc_resolver` | `MCLkmcResolver.cfg` | pass | `ResolvesAsSpecified` and `ArchDirsGated` (a path below `arch/<a>` is built for architecture `a` only) on the real tree, including paths that miss and then name a declared segment |
| `schema_is_only_check` | `MCTreeBuilder_SchemaIsOnlyCheck.cfg` | violation | a schema-valid literal in which one tuple sits under two keys raises `TypeError` on its first build, against spec §4.1 ("the only validation boundary") |

### Bounds and why they are enough

`MCResolver`: 7 segments, paths of 1–4 components (2800 paths) and 10 nodes
over 3 levels. There are 48 environments: 3 architectures × 2 modes ×
2 emulators × package subsets of `{lib1}` × `package_all`. The tree is chosen
so that every case the rules distinguish occurs on some path:

- a list declared at root, depth 1 and depth 2;
- `test_run_args` declared at two depths with a shared key (`cpus`) and an
  unshared key (`mem`);
- a scalar set and then set back (`userland` TRUE, then FALSE);
- `libs` and `a.c` at several depths, so paths that miss and then name an
  existing segment occur;
- `allowed_archs` as a set and as a str;
- a second-level `libs` with a library below it;
- a path whose properties are the defaults plus `requires_sudo`.

Paths of length 4 exceed the tree's depth, so the walk also stops by running
out of tree. The merge is per key and the predicates are flat, so larger trees
add no new case for these rules.

`MCHeapResolver`: the same tree, over every path of up to 3 components plus
the 4-component paths below `userland/libs/lib1` (the only part of the tree
that deep). Each object kind (list, dict, set) is shared with the root or a
node on some path, and merged into a new object on another. The violation
run allows one mutation of each kind; one is enough.

`MCTreeBuilder`: three tuples `t1`, `t2`, `t3` with children dicts `d1`,
`d2`, `d3`, a bare record `rb` and a bare record `rx` with a misspelt name.
`d1` and `d2` take up to two keys, `d3` one, over every acyclic choice of
values (a dict only holds items written after it), so a tuple or a bare
record occurs under two keys, under two parents, or once. The argument is
`t1` or `rx`; the caller calls twice. Two keys are the fewest that let one
dict hold an item twice, and three levels the fewest that let a dict be
reached from two parents; two calls show the second-call behaviour. The
caller then stops, so deadlock is not checked in this run.

`MCLkmcBuild` and `MCLkmcResolver` are the real data, not a bound: every
position of the literal, and for `get` every path of the tree
plus the same path with an undeclared file `new.c` appended (so the walk
also stops on a miss below every node), plus, for every node, the path
through its parent, an undeclared directory `new`, then the node's own name
(so the walk must stop at `new` although the next name is declared one
level up). The environments are the 3 real
architectures × 2 modes × 2 emulators × package subsets of `{libdrm}` ×
`package_all`; the extension whitelists are `{.c, .cpp, .S}` (userland) and
`{.c, .S}` (baremetal), which the external driver supplies. The builder's
dict order is not modelled on the real literal (every key has the same
rank): it decides only which of several errors comes first, and the real
literal raises none.

### Mutants

Each property of a passing run is broken by a plausible bug of the code it
is about (`PROJECT.json` "mutants"):

- copying the properties of a stale `cur_node` breaks `TypeOK` of `Resolver`;
- `other + self` in `_update_list` breaks `RootFlagsFirst`;
- keeping the inherited scalar where the node declares one too breaks
  `NodeDeclarationsWin`;
- `continue` instead of `break` on a component with no child (the walk
  skips it and matches a deeper name) breaks `ResolvesAsSpecified`;
- extending the inherited list in place (`+=`) breaks `TreeObjectsUnchanged`;
- the delta's flags first breaks `ImplementsResolver`, and on the real tree
  `ResolvesAsSpecified`;
- returning `cur_node`'s own dict breaks `TypeOK` of `HeapResolver`;
- pushing the literal instead of its tree breaks `TypeOK` of `TreeBuilder`;
- not rewriting the entry breaks `BuildsAsSpecified` (a second call
  succeeds where the code raises);
- reading `todo_trees[-1]` instead of popping breaks `CallReturns` (in
  both builder runs);
- a misspelt name in `freestanding_properties` breaks `RealTreeBuilt`;
- the `allowed_archs` gate applied in userland mode only breaks
  `ArchDirsGated`.

### Fairness

`tree_builder` assumes weak fairness of `Step`, the steps inside one call of
`make_from_tuples`. Once called, the loop waits on nothing and nothing else
runs, so a call that has started keeps taking steps. The caller's `Call` is
not fair: it may never call again. `CallReturns` (`pc # "idle" ~> pc =
"idle"`) is the one liveness property. It is not trivial: a literal with
sharing or a second call makes the loop meet `PrefixTree` objects, and only
the `TypeError` they raise, or the rewrite that precedes every push, stops
it. The resolver runs assume no fairness: `get` runs at most `Len(path) + 1`
steps, and a liveness property there would hold by the finiteness of the path
alone.

## 4. Proofs (checked by tlapm)

### `ResolverProofs`

The proofs assume what `Resolver` states as named assumptions: the root is a
node; every child entry is a node; every node's properties pass the schema
check (`IsOverride`); the root's properties are a complete property set
(`IsResolved`); `MaxDepth` is at least 1. They hold for every tree, every set
of segments and every depth bound that satisfy these.

- `TypeCorrect: Spec => []TypeOK`. `TypeOK` is inductive. The argument rests
  on the lemma `UpdateResolved`: `update` of a complete set by a schema-valid
  override is complete, its lists are flag sequences and its dicts are
  functions. Completeness is why the verdicts never raise `KeyError`.
- `RootFlagsFirstHolds: Spec => []RootFlagsFirst`. `RootFlagsFirst` alone is
  not inductive: appending keeps a prefix only for sequences. The inductive
  invariant is `IInv == TypeOK /\ RootFlagsFirst`. `Descend` rests on
  `UpdateKeepsRootFirst`, which rests on `ConcatStartsWith`.
- `NodeDeclarationsWinHolds: Spec => []NodeDeclarationsWin`: every scalar
  and every `test_run_args` entry the current node declares has the node's
  value in the running and in the returned set, and each of its lists ends
  the resolved list. The lemma `UpdateDeclarationsWin` shows it for one
  `update` (lists by `ConcatEndsWith`, dicts by `UpdateDict`, scalars by
  the delta overwriting). It is not inductive alone, because `Stop` copies
  `acc` into `ret` and `Descend` changes `acc` and `node`: the inductive
  invariant `DInv` adds `TypeOK` and that a returned result is taken only in
  `idle` and is the running set, so no step of a call runs while a result
  is held. `DInv` was model-checked on `resolver` (7038 states) first.

### `TreeBuilderProofs`

From `BuilderAssumption`: tuples and arguments are items; no item is a
reference `[tree |-> n]`; every tuple's children dict is a dict of the
literal; literals map dicts to functions from segments to items; `Rank` maps
segments to naturals. They hold for every literal, of any size and sharing,
and every number of calls.

- `BuilderTypeCorrect: Spec => []TypeOK`.

`TypeOK` is not inductive alone. It is strengthened by `RewriteFaithful`
(defined in `TreeBuilderProofs`): every children entry is its literal item
or the PrefixTree built from that item. Neither is inductive alone:
`RewriteFaithful` reads `trees[r.tree]`
for a reference `r`, which needs `TypeOK`'s bound on references
(`1..Len(trees)`); `TypeOK` needs `RewriteFaithful` to know that the entry
`ConvertChild` reads is still the literal's item. The inductive invariant is
`IInv == TypeOK /\ RewriteFaithful`. `StepIInv` has one case per action;
`ConvertChild` is split into the facts about the appended tree, the
rewritten entry, and every other entry. `DictsUnderAppend` covers the steps
that append a tree and rewrite nothing.

### `HeapResolverProofs`

`HeapResolver` states the assumptions of `Resolver` again, plus three more.
An `allowed_archs` value of the literal is `None`, a set or a str. `None` is
no reference to an object of the tree. `MaxMutations` is a natural.

- `HeapTypeCorrect: Spec => []TypeOK`.
- `TreeObjectsUnchangedHolds: Spec => []TreeObjectsUnchanged`.
- `HeapImplementsResolver: Spec => ImplementsResolver`. This is the
  refinement of `Resolver`, proved step by step: `InitRefines`, and
  `StepRefines` maps `Start`, `Descend` and `Stop` to the same action of
  `Resolver`, and a stutter to a stutter.

`TypeOK` and `TreeObjectsUnchanged` are not inductive alone. The inductive
invariant `IInv` adds two conjuncts:

- while a call runs the caller holds no result (`pc = "loop" => ret = NoResult`);
- every reference of the running result names an object made for the same
  property name (`KeyedRefs`).

`KeyedRefs` is what shows that the objects a `Descend` creates, which are
named after the merged keys, are never objects that another entry of the
result refers to. `TreeObjNotStepObj` shows that they are never objects of
the tree.

The refinement rests on `DescendDeref`. Once references are followed, a
`Descend` step computes `Update(Deref(acc), Overrides[child])`, case by case:

- a merged key reads the new object, which holds the merge of the inherited
  object and the child's;
- another key the child declares reads the child's object, unchanged by
  `TreeObjectsUnchanged`, or its plain value (`NodePropsRef`,
  `DerefNodeProps`);
- every other key reads an object the step did not write.

`IInv` was model-checked on `heap_resolver` before it was proved.

### Only model-checked

- the refinements `ResolvesAsSpecified` and `BuildsAsSpecified`: the
  abstract specs `ResolverSpec` and `TreeBuildSpec` are recursive (chains of
  matched nodes, unfolding of the literal), and so is the mapping
  `TreeValue` of `MCTreeBuilder`;
- `RealTreeBuilt` and `ArchDirsGated`, which are about the real literal.
  `MCLkmcBuild` reads it with a recursive operator. An invariant over the
  concrete tree of `LkmcTree` would be a proof by enumeration of its about
  150 entries, and TLC already does that;
- `CallReturns` (liveness);
- the violation runs;
- everything about `CallerSpec`, whose only question is answered by a
  counterexample.

TLAPS cannot prove liveness and `ENABLED`, what a recursive definition
computes for every input, or anything in a module that reaches `RECURSIVE`.

## 5. Not modelled, and what is left

- **Override data**: modelled (`LkmcTree`), except the duplicate key
  `proc_events.c` (518–519). The Python parser collapses it before any code
  runs, and both values are equal, so no model of the program can observe
  it.
- **Driver and environment** (not in this repository): the environment is an
  input ranging over a small set.
- The builder and the resolver are composed through the real tree:
  `lkmc_build` shows that the build returns the tree `LkmcChildren` /
  `LkmcProps`, which `lkmc_resolver` gives to `get`. One specification
  that runs the build and then the lookups over the built heap is left for
  later, with proofs of the scalar and dict-entry precedence rules in a
  chain-free form.
