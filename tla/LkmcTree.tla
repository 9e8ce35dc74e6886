------------------------------ MODULE LkmcTree ------------------------------
(***************************************************************************)
(* The override data of src/path_properties.py: path_properties_tuples,   *)
(* with gnu_extension_properties and freestanding_properties, as the set  *)
(* of its entries.  An entry is the position of an item in the literal    *)
(* (the sequence of keys leading to it), its properties dict, and whether *)
(* it is a tuple (properties, children) or a bare properties dict.  The   *)
(* nesting is written as in the source: Leaf(s, props) is `s: props`,     *)
(* Dir(s, props, kids) is `s: (props, {kids})`.                            *)
(*                                                                         *)
(* A signal.Signals member is kept as its name.  A Python dict {} is the  *)
(* empty function <<>>.  The duplicate key 'proc_events.c' of the linux   *)
(* dict (lines 518-519) is one entry: Python keeps the last of two equal  *)
(* values.  A position identifies an item: no tuple of the literal is     *)
(* reached twice, and a bare dict reached twice (freestanding_properties) *)
(* is wrapped in a fresh tuple at each position.                          *)
(***************************************************************************)
EXTENDS PathProperties

NoProps == <<>>

Leaf(s, props) == {[path |-> <<s>>, props |-> props, tuple |-> FALSE]}

Dir(s, props, kids) ==
  {[path |-> <<s>>, props |-> props, tuple |-> TRUE]} \cup
  {[e EXCEPT !.path = <<s>> \o e.path] : e \in kids}

GnuExtensionProperties == [c_std |-> "gnu11", cc_pedantic |-> FALSE, cxx_std |-> "gnu++17"]

\* Mutant: a misspelt property name in the shared freestanding dict.
FreestandingPropertiesTypo ==
  [baremetal |-> FALSE,
   cc_flags |-> <<"-ffreestanding", LF, "-nostdlib", LF, "-static", LF>>,
   extra_objs_lkmc_commom |-> FALSE]

FreestandingProperties ==
  [baremetal |-> FALSE,
   cc_flags |-> <<"-ffreestanding", LF, "-nostdlib", LF, "-static", LF>>,
   extra_objs_lkmc_common |-> FALSE]

(***************************************************************************)
(* 'baremetal': the arm and aarch64 directories of the baremetal examples. *)
(***************************************************************************)
BaremetalTree ==
  Dir("baremetal", [baremetal |-> TRUE],
    Dir("arch", NoProps,
      Dir("arm", [allowed_archs |-> PySet({ArchArm})],
        Leaf("multicore.S", [test_run_args |-> [cpus |-> 2]]) \cup
        Dir("no_bootloader", [extra_objs_disable_baremetal_bootloader |-> TRUE],
          Leaf("gem5_exit.S", [requires_m5ops |-> TRUE]) \cup
          Leaf("semihost_exit.S", [requires_semihosting |-> TRUE])) \cup
        Leaf("return1.S", [exit_status |-> 1]) \cup
        Leaf("semihost_exit.S", [requires_semihosting |-> TRUE])) \cup
      Dir("aarch64", [allowed_archs |-> PySet({ArchAarch64})],
        Leaf("multicore.S", [test_run_args |-> [cpus |-> 2]]) \cup
        Dir("no_bootloader", [extra_objs_disable_baremetal_bootloader |-> TRUE],
          Leaf("gem5_exit.S", [requires_m5ops |-> TRUE]) \cup
          Leaf("semihost_exit.S", [requires_semihosting |-> TRUE]) \cup
          Leaf("wfe_loop.S", [more_than_1s |-> TRUE])) \cup
        Leaf("return1.S", [exit_status |-> 1]) \cup
        Leaf("semihost_exit.S", [requires_semihosting |-> TRUE]) \cup
        Leaf("svc.c", [cc_pedantic |-> FALSE]) \cup
        Leaf("timer.c", [skip_run_unclassified |-> TRUE]))) \cup
    Leaf("lib", [no_executable |-> TRUE]) \cup
    Leaf("getchar.c", [interactive |-> TRUE]))

(***************************************************************************)
(* 'kernel_modules' and 'lkmc.c' at the top: the one str allowed_archs.    *)
(***************************************************************************)
KernelModulesTree ==
  Dir("kernel_modules", NoProps, Leaf("float.c", [allowed_archs |-> PyStr(ArchX86_64)])) \cup
  Leaf("lkmc.c", [baremetal |-> TRUE, userland |-> TRUE])

(***************************************************************************)
(* 'userland'/'arch': the per-architecture userland directories.  The arm *)
(* cc_flags keep their tokens and drop the comments between them.         *)
(***************************************************************************)
SigAbrt == Leaf("lkmc_assert_eq_fail.S", [signal_received |-> "SIGABRT"]) \cup
           Leaf("lkmc_assert_memcmp_fail.S", [signal_received |-> "SIGABRT"])

Udf == Leaf("udf.S", [signal_generated_by_os |-> TRUE, signal_received |-> "SIGILL"])

InlineAsm == Dir("inline_asm", NoProps, Leaf("freestanding", FreestandingProperties))

BothUnimplemented == [gem5_unimplemented_instruction |-> TRUE,
                      qemu_unimplemented_instruction |-> TRUE]

UserlandArchTree ==
  Dir("arch", [baremetal |-> TRUE, extra_objs_lkmc_common |-> TRUE],
    Dir("arm", [allowed_archs |-> PySet({ArchArm}),
                cc_flags |-> <<"-Xassembler", "-mfpu=crypto-neon-fp-armv8.1", LF,
                               "-Xassembler", "-meabi=5", LF,
                               "-marm", LF,
                               "-masm-syntax-unified", LF>>],
      InlineAsm \cup Leaf("freestanding", FreestandingProperties) \cup SigAbrt \cup Udf \cup
      Leaf("vcvta.S", [arm_aarch32 |-> TRUE, gem5_unimplemented_instruction |-> TRUE])) \cup
    Dir("aarch64", [allowed_archs |-> PySet({ArchAarch64})],
      InlineAsm \cup Leaf("freestanding", FreestandingProperties) \cup SigAbrt \cup Udf \cup
      Leaf("sve.S", [gem5_unimplemented_instruction |-> TRUE])) \cup
    Dir("x86_64", [allowed_archs |-> PySet({ArchX86_64})],
      Dir("freestanding", FreestandingProperties,
        Dir("linux", NoProps,
          Leaf("int_system_call.S", [qemu_x86_64_int_syscall |-> TRUE]))) \cup
      InlineAsm \cup
      Dir("intrinsics", NoProps, Leaf("rdtscp.c", BothUnimplemented)) \cup
      Leaf("div_overflow.S", [signal_received |-> "SIGFPE"]) \cup
      Leaf("div_zero.S", [signal_received |-> "SIGFPE"]) \cup
      SigAbrt \cup
      Leaf("popcnt.S", [qemu_unimplemented_instruction |-> TRUE]) \cup
      Leaf("rdrand.S", BothUnimplemented) \cup
      Leaf("rdtscp.S", [qemu_unimplemented_instruction |-> TRUE]) \cup
      Leaf("ring0.c", [signal_received |-> "SIGSEGV"]) \cup
      Leaf("vfmadd132pd.S", BothUnimplemented)) \cup
    Leaf("lkmc_assert_fail.S", [signal_received |-> "SIGABRT"]))

(***************************************************************************)
(* The other directories of 'userland'.                                    *)
(***************************************************************************)
Sudo == [requires_sudo |-> TRUE]
Long == [more_than_1s |-> TRUE]

UserlandDirs ==
  Dir("c", [baremetal |-> TRUE],
    Leaf("abort.c", [signal_received |-> "SIGABRT"]) \cup
    Leaf("assert_fail.c", [signal_received |-> "SIGABRT"]) \cup
    Leaf("exit1.c", [exit_status |-> 1]) \cup Leaf("exit2.c", [exit_status |-> 2]) \cup
    Leaf("false.c", [exit_status |-> 1]) \cup
    Leaf("file_write_read.c", [baremetal |-> FALSE]) \cup
    Leaf("getchar.c", [interactive |-> TRUE]) \cup
    Leaf("infinite_loop.c", Long) \cup
    Leaf("out_of_memory.c", [disrupts_system |-> TRUE]) \cup
    Leaf("return1.c", [exit_status |-> 1]) \cup Leaf("return2.c", [exit_status |-> 2])) \cup
  Dir("cpp", NoProps,
    Leaf("atomic.cpp", [test_run_args |-> [cpus |-> 3], gem5_unimplemented_instruction |-> TRUE]) \cup
    Leaf("count.cpp", Long) \cup Leaf("sleep_for.cpp", Long)) \cup
  Dir("gcc", GnuExtensionProperties, Leaf("openmp.c", [cc_flags |-> <<"-fopenmp", LF>>])) \cup
  Leaf("gdb_tests", [baremetal |-> TRUE]) \cup
  Leaf("kernel_modules", UpdateDict(GnuExtensionProperties, [requires_kernel_modules |-> TRUE])) \cup
  Dir("libs", [requires_dynamic_library |-> TRUE], Leaf("libdrm", Sudo)) \cup
  Dir("linux", GnuExtensionProperties,
    Leaf("ctrl_alt_del.c", Sudo) \cup Leaf("init_env_poweroff.c", Sudo) \cup
    Leaf("myinsmod.c", Sudo) \cup Leaf("myrmmod.c", Sudo) \cup
    Leaf("pagemap_dump.c", [requires_argument |-> TRUE]) \cup
    Leaf("poweroff.c", Sudo) \cup Leaf("proc_events.c", Sudo) \cup
    Leaf("sched_getaffinity.c", [requires_syscall_getcpu |-> TRUE]) \cup
    Leaf("sched_getaffinity_threads.c", [more_than_1s |-> TRUE, requires_syscall_getcpu |-> TRUE]) \cup
    Leaf("time_boot.c", Sudo) \cup
    Leaf("virt_to_phys_user.c", [requires_argument |-> TRUE])) \cup
  Dir("posix", NoProps,
    Leaf("count.c", Long) \cup Leaf("count_to.c", Long) \cup
    Leaf("kill.c", [baremetal |-> TRUE, signal_received |-> "SIGHUP"]) \cup
    Leaf("pthread_count.c", [more_than_1s |-> TRUE, test_run_args |-> [cpus |-> 2]]) \cup
    Leaf("pthread_self.c", [test_run_args |-> [cpus |-> 2]]) \cup
    Leaf("sleep_forever.c", Long) \cup Leaf("virt_to_phys_test.c", Long))

(***************************************************************************)
(* path_properties_tuples: (default_properties, {...}).                    *)
(***************************************************************************)
PathPropertiesTuples ==
  {[path |-> <<>>, props |-> DefaultProperties, tuple |-> TRUE]} \cup
  BaremetalTree \cup KernelModulesTree \cup
  Dir("userland", [userland |-> TRUE], UserlandArchTree \cup UserlandDirs)

-----------------------------------------------------------------------------
(***************************************************************************)
(* The literal read as a tree: its positions, the properties and the      *)
(* children of each, and the compiler flag tokens it uses.                *)
(***************************************************************************)
LkmcNodes == {e.path : e \in PathPropertiesTuples}

LkmcTuples == {e.path : e \in {e \in PathPropertiesTuples : e.tuple}}

LkmcProps == [p \in LkmcNodes |-> (CHOOSE e \in PathPropertiesTuples : e.path = p).props]

LkmcChildSegs(p) == {q[Len(q)] : q \in {q \in LkmcNodes : Len(q) = Len(p) + 1 /\ SubSeq(q, 1, Len(p)) = p}}

LkmcChildren == [p \in LkmcNodes |-> [s \in LkmcChildSegs(p) |-> p \o <<s>>]]

LkmcFlags ==
  UNION {{LkmcProps[p][k][j] : j \in DOMAIN LkmcProps[p][k]} :
           <<p, k>> \in {<<p, k>> \in LkmcNodes \X ListKeys : k \in DOMAIN LkmcProps[p]}}
=============================================================================
