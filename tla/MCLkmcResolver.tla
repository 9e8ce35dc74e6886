--------------------------- MODULE MCLkmcResolver ---------------------------
(***************************************************************************)
(* get over the real tree: the constants of Resolver are the tree that     *)
(* make_from_tuples builds from path_properties_tuples (module LkmcTree;   *)
(* run lkmc_build shows that the build returns exactly this tree).  The   *)
(* caller resolves every path of the tree, every such path with a file    *)
(* new.c appended that no node declares, and every path that names an     *)
(* undeclared directory new and below it a name the tree declares at the  *)
(* level of new (as userland/new/c): get must stop at the miss.           *)
(***************************************************************************)
EXTENDS Resolver, LkmcTree, TLC

MCLkmcSegs == {p[Len(p)] : p \in LkmcNodes \ {<<>>}} \cup {"new.c", "new"}

MCLkmcRoot == <<>>

MCLkmcPaths ==
  (LkmcNodes \ {<<>>}) \cup {p \o <<"new.c">> : p \in LkmcNodes}
    \cup {SubSeq(q, 1, Len(q) - 1) \o <<"new", q[Len(q)]>> : q \in LkmcNodes \ {<<>>}}

(***************************************************************************)
(* os.path.splitext(segment)[1] for the segments of the tree.             *)
(***************************************************************************)
SFiles ==
  {"multicore.S", "gem5_exit.S", "semihost_exit.S", "return1.S", "wfe_loop.S",
   "lkmc_assert_eq_fail.S", "lkmc_assert_memcmp_fail.S", "udf.S", "vcvta.S", "sve.S",
   "int_system_call.S", "div_overflow.S", "div_zero.S", "popcnt.S", "rdrand.S",
   "rdtscp.S", "vfmadd132pd.S", "lkmc_assert_fail.S"}

CppFiles == {"atomic.cpp", "count.cpp", "sleep_for.cpp"}

CFiles ==
  {"svc.c", "timer.c", "getchar.c", "float.c", "lkmc.c", "rdtscp.c", "ring0.c",
   "abort.c", "assert_fail.c", "exit1.c", "exit2.c", "false.c", "file_write_read.c",
   "infinite_loop.c", "out_of_memory.c", "return1.c", "return2.c", "openmp.c",
   "ctrl_alt_del.c", "init_env_poweroff.c", "myinsmod.c", "myrmmod.c",
   "pagemap_dump.c", "poweroff.c", "proc_events.c", "sched_getaffinity.c",
   "sched_getaffinity_threads.c", "time_boot.c", "virt_to_phys_user.c", "count.c",
   "count_to.c", "kill.c", "pthread_count.c", "pthread_self.c", "sleep_forever.c",
   "virt_to_phys_test.c", "new.c"}

MCLkmcExtOf ==
  [s \in MCLkmcSegs |-> CASE s \in SFiles   -> ".S"
                          [] s \in CppFiles -> ".cpp"
                          [] s \in CFiles   -> ".c"
                          [] OTHER          -> ""]

MCLkmcEnvs ==
  [arch : {ArchArm, ArchAarch64, ArchX86_64},
   mode : {"userland", "baremetal"},
   emulator : {"qemu", "gem5"},
   build_in_exts : {{".c", ".cpp", ".S"}},
   baremetal_build_in_exts : {{".c", ".S"}},
   package : SUBSET {"libdrm"},
   package_all : BOOLEAN]

Abstract == INSTANCE ResolverSpec

(***************************************************************************)
(* On the real tree, every call of get returns what the declarative rules *)
(* of ResolverSpec give for its path.                                      *)
(***************************************************************************)
ResolvesAsSpecified == Abstract!Spec

(***************************************************************************)
(* The architecture directories gate what they hold: a path below         *)
(* baremetal/arch/<a> or userland/arch/<a> is built for architecture <a>  *)
(* only, in either mode and whatever file it names.  It rests on the walk *)
(* applying the directory's allowed_archs and no deeper node (inline_asm, *)
(* freestanding, linux, the files) declaring another.                      *)
(***************************************************************************)
ArchDirs == [arm |-> ArchArm, aarch64 |-> ArchAarch64, x86_64 |-> ArchX86_64]

InArchDir(cs, a) ==
  \E j \in 1..Len(cs) - 1 :
     cs[j] = "arch" /\ cs[j + 1] = a /\ SubSeq(cs, 1, j + 1) \in LkmcNodes

ArchDirsGated ==
  ret # NoResult =>
    \A env \in Envs, a \in DOMAIN ArchDirs :
       /\ InArchDir(ret.comps, a)
       /\ ~RaisesIndexError(ret.comps, env)
       /\ ShouldBeBuilt(ret.props, ret.comps, env, FALSE)
       => env.arch = ArchDirs[a]
=============================================================================
