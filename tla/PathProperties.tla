--------------------------- MODULE PathProperties ---------------------------
(***************************************************************************)
(* The class PathProperties of src/path_properties.py: the property schema *)
(* (default_properties), the merge of one override record into a resolved *)
(* property set (update, _update_list, _update_dict) and the two verdicts  *)
(* should_be_built and should_be_tested.                                   *)
(*                                                                         *)
(* A property set is a function from property names (strings) to values,   *)
(* which is what a Python dict keyed by the names is.  Python values are   *)
(* kept as they are where a definition inspects them: None is the model    *)
(* value None, a Python set of architecture names is PySet(S) and a Python *)
(* str is PyStr(s) with s its sequence of characters, because `x in c`     *)
(* means membership for a set and substring search for a str.              *)
(***************************************************************************)
EXTENDS Naturals, Sequences

CONSTANTS
  None,     \* Python's None
  ExtOf     \* os.path.splitext(segment)[1] for each path segment of a model

(***************************************************************************)
(* Python containers that `in` is applied to.                              *)
(***************************************************************************)
PySet(S) == [type |-> "set", elems |-> S]
PyStr(s) == [type |-> "str", chars |-> s]

(***************************************************************************)
(* `x in c`: set membership, or for a str, substring search (so that       *)
(* 'x86' in 'x86_64' holds).                                               *)
(***************************************************************************)
PyIn(x, c) ==
  IF c.type = "set"
    THEN x \in c.elems
    ELSE \E a \in 0..Len(c.chars) : \E b \in a..Len(c.chars) :
           SubSeq(c.chars, a + 1, b) = x

(***************************************************************************)
(* Architecture names as the str values the code compares them with.       *)
(***************************************************************************)
ArchArm     == <<"a", "r", "m">>
ArchAarch64 == <<"a", "a", "r", "c", "h", "6", "4">>
ArchX86_64  == <<"x", "8", "6", "_", "6", "4">>

LF == "LF"   \* shell_helpers.LF, the line-break token kept in flag lists

(***************************************************************************)
(* default_properties: the schema.  Every property name that a node may   *)
(* set is a key here, with its default value.                             *)
(***************************************************************************)
DefaultProperties ==
  [allowed_archs |-> None,
   arm_aarch32 |-> FALSE,
   baremetal |-> FALSE,
   c_std |-> "c11",
   cc_flags |-> <<"-Wall", LF, "-Werror", LF, "-Wextra", LF,
                  "-Wno-unused-function", LF, "-ggdb3", LF,
                  "-fno-pie", LF, "-no-pie", LF>>,
   cc_flags_after |-> <<"-lm", LF>>,
   cc_pedantic |-> TRUE,
   cxx_std |-> "c++17",
   disrupts_system |-> FALSE,
   exit_status |-> 0,
   extra_objs |-> <<>>,
   extra_objs_disable_baremetal_bootloader |-> FALSE,
   extra_objs_lkmc_common |-> FALSE,
   gem5_unimplemented_instruction |-> FALSE,
   qemu_unimplemented_instruction |-> FALSE,
   qemu_x86_64_int_syscall |-> FALSE,
   interactive |-> FALSE,
   more_than_1s |-> FALSE,
   no_build |-> FALSE,
   no_executable |-> FALSE,
   requires_argument |-> FALSE,
   requires_dynamic_library |-> FALSE,
   requires_m5ops |-> FALSE,
   requires_syscall_getcpu |-> FALSE,
   requires_semihosting |-> FALSE,
   requires_kernel_modules |-> FALSE,
   requires_sudo |-> FALSE,
   signal_generated_by_os |-> FALSE,
   signal_received |-> None,
   skip_run_unclassified |-> FALSE,
   test_run_args |-> <<>>,
   userland |-> FALSE]

Keys == DOMAIN DefaultProperties

(***************************************************************************)
(* The properties that update merges structurally: the three list-valued   *)
(* ones are concatenated, test_run_args is merged key by key.              *)
(***************************************************************************)
ListKeys == {"cc_flags", "cc_flags_after", "extra_objs"}
DictKeys == {"test_run_args"}

(***************************************************************************)
(* Shapes of values.  A Python dict is a TLA+ function; the empty dict {}  *)
(* is the empty function <<>>.                                             *)
(***************************************************************************)
IsFunc(f) == f = [x \in DOMAIN f |-> f[x]]

(***************************************************************************)
(* What update leaves in a property set, given well-typed inputs: a        *)
(* function over exactly the schema's names whose list properties are      *)
(* sequences over Flags and whose dict properties are functions.           *)
(***************************************************************************)
IsResolved(r, Flags) ==
  /\ IsFunc(r)
  /\ DOMAIN r = Keys
  /\ \A k \in ListKeys : r[k] \in Seq(Flags)
  /\ \A k \in DictKeys : IsFunc(r[k])

(***************************************************************************)
(* An override record that PathProperties.__init__ accepts: no name        *)
(* outside the schema (otherwise ValueError('Unknown key')).               *)
(***************************************************************************)
IsOverride(o, Flags) ==
  /\ IsFunc(o)
  /\ DOMAIN o \subseteq Keys
  /\ \A k \in ListKeys \cap DOMAIN o : o[k] \in Seq(Flags)
  /\ \A k \in DictKeys \cap DOMAIN o : IsFunc(o[k])

(***************************************************************************)
(* {**base, **delta}: the delta's entry wins on a shared key.              *)
(***************************************************************************)
UpdateDict(b, d) == [e \in DOMAIN b \cup DOMAIN d |-> IF e \in DOMAIN d THEN d[e] ELSE b[e]]

\* Mutant: other + self in _update_list, the deeper flags first.
MergedValueDeltaFirst(k, b, d) ==
  CASE k \in ListKeys -> d \o b
    [] k \in DictKeys -> UpdateDict(b, d)
    [] OTHER          -> d

\* Mutant: a scalar both declare keeps the inherited value (setdefault).
MergedValueKeepsBase(k, b, d) ==
  CASE k \in ListKeys -> b \o d
    [] k \in DictKeys -> UpdateDict(b, d)
    [] OTHER          -> b

(***************************************************************************)
(* update(other): other_tmp_properties is a copy of the delta in which a   *)
(* list key present in both is replaced by base ++ delta (_update_list)    *)
(* and the dict key by the merge of both (_update_dict); then             *)
(* self.properties.update(other_tmp_properties) overwrites every key the   *)
(* delta names and keeps the others.                                       *)
(***************************************************************************)
MergedValue(k, b, d) ==
  CASE k \in ListKeys -> b \o d
    [] k \in DictKeys -> UpdateDict(b, d)
    [] OTHER          -> d

Update(base, delta) ==
  [k \in DOMAIN base \cup DOMAIN delta |->
     IF k \notin DOMAIN delta THEN base[k]
     ELSE IF k \in DOMAIN base THEN MergedValue(k, base[k], delta[k])
     ELSE delta[k]]

-----------------------------------------------------------------------------
(***************************************************************************)
(* should_be_built.  env is a record with the fields the code reads:       *)
(* arch, mode, emulator, build_in_exts, baremetal_build_in_exts, package,  *)
(* package_all.  comps is the sequence of path components.                 *)
(***************************************************************************)
Ext(comps) == ExtOf[comps[Len(comps)]]

(***************************************************************************)
(* The first test reads path_components[2] under the guard                 *)
(* len(path_components) > 1: a path of exactly two components whose       *)
(* second is 'libs' raises IndexError when package_all is off.            *)
(***************************************************************************)
LibsGuard(comps, env) ==
  /\ Len(comps) > 1
  /\ comps[2] = "libs"
  /\ ~env.package_all

RaisesIndexError(comps, env) == LibsGuard(comps, env) /\ Len(comps) < 3

LibsExcluded(comps, env) == LibsGuard(comps, env) /\ comps[3] \notin env.package

\* Mutant: the architecture gate nested under the userland branch only.
ArchAllowedHostedOnly(p, env) ==
  env.mode = "baremetal" \/ p.allowed_archs = None \/ PyIn(env.arch, p.allowed_archs)

ArchAllowed(p, env) == p.allowed_archs = None \/ PyIn(env.arch, p.allowed_archs)

ModeExcluded(p, comps, env) ==
  \/ /\ env.mode = "userland"
     /\ ~p.userland \/ Ext(comps) \notin env.build_in_exts
  \/ /\ env.mode = "baremetal"
     /\ ~p.baremetal \/ Ext(comps) \notin env.baremetal_build_in_exts

ShouldBeBuilt(p, comps, env, link) ==
  /\ ~LibsExcluded(comps, env)
  /\ ~p.no_build
  /\ ArchAllowed(p, env)
  /\ ~ModeExcluded(p, comps, env)
  /\ ~(link /\ p.no_executable)

(***************************************************************************)
(* should_be_tested: built without link, and none of the flat exclusion    *)
(* rules applies.                                                          *)
(***************************************************************************)
Gem5Excluded(p) ==
  \/ p.gem5_unimplemented_instruction
  \/ p.signal_received # None
  \/ p.requires_dynamic_library
  \/ p.requires_semihosting
  \/ p.requires_syscall_getcpu

QemuExcluded(p, env) ==
  \/ p.requires_m5ops
  \/ env.mode = "baremetal" /\ p.qemu_unimplemented_instruction

ShouldBeTested(p, comps, env) ==
  /\ ShouldBeBuilt(p, comps, env, FALSE)
  /\ ~(env.mode = "baremetal" /\ (p.arm_aarch32 \/ p.signal_generated_by_os))
  /\ ~p.disrupts_system
  /\ ~p.interactive
  /\ ~p.more_than_1s
  /\ ~p.no_executable
  /\ ~p.requires_argument
  /\ ~p.requires_kernel_modules
  /\ ~p.requires_sudo
  /\ ~p.skip_run_unclassified
  /\ ~p.qemu_x86_64_int_syscall
  /\ ~(env.emulator = "gem5" /\ Gem5Excluded(p))
  /\ ~(env.emulator = "qemu" /\ QemuExcluded(p, env))
=============================================================================
