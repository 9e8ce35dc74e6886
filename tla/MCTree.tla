------------------------------- MODULE MCTree -------------------------------
(***************************************************************************)
(* The small prefix tree that the TLC models of get walk.  Every merge     *)
(* case of update occurs on some path: a list property declared at three   *)
(* depths, test_run_args declared at two depths with a shared and an       *)
(* unshared entry, scalars overridden and overridden back, segment names   *)
(* ("libs", "a.c") that exist at several depths so that a walk that went   *)
(* on after a miss would pick up the wrong node, allowed_archs as a set    *)
(* and as a str, and a second-level "libs" directory with a library below *)
(* it.                                                                     *)
(***************************************************************************)
EXTENDS PathProperties, TLC

MCSegs == {"userland", "libs", "lib1", "a.c", "x86", "sudo.c", "baremetal"}

MCExtOf == [s \in MCSegs |-> IF s \in {"a.c", "sudo.c"} THEN ".c" ELSE ""]

MCNodes == {"r", "u", "ul", "ull", "ulla", "ua", "ux", "s", "b", "ba"}

MCChildren ==
  [n \in MCNodes |->
     CASE n = "r"   -> ("userland" :> "u" @@ "sudo.c" :> "s" @@ "baremetal" :> "b")
       [] n = "u"   -> ("libs" :> "ul" @@ "a.c" :> "ua" @@ "x86" :> "ux")
       [] n = "ul"  -> ("lib1" :> "ull")
       [] n = "ull" -> ("a.c" :> "ulla")
       [] n = "b"   -> ("a.c" :> "ba")
       [] OTHER     -> <<>>]

MCOverrides ==
  [n \in MCNodes |->
     CASE n = "r"    -> DefaultProperties
       [] n = "u"    -> [userland |-> TRUE, cc_flags |-> <<"-U">>,
                         test_run_args |-> [cpus |-> 2, mem |-> 1]]
       [] n = "ul"   -> [requires_dynamic_library |-> TRUE, cc_flags |-> <<"-L">>,
                         test_run_args |-> [cpus |-> 3]]
       [] n = "ull"  -> [requires_sudo |-> TRUE, extra_objs |-> <<"o.o">>]
       [] n = "ulla" -> [userland |-> FALSE, cc_flags |-> <<"-A">>]
       [] n = "ua"   -> [signal_received |-> "SIGILL", signal_generated_by_os |-> TRUE,
                         allowed_archs |-> PySet({ArchArm}), no_executable |-> TRUE]
       [] n = "ux"   -> [allowed_archs |-> PyStr(ArchX86_64), baremetal |-> TRUE,
                         test_run_args |-> [mem |-> 4]]
       [] n = "s"    -> [requires_sudo |-> TRUE]
       [] n = "b"    -> [baremetal |-> TRUE, cc_flags_after |-> <<"-B">>]
       [] n = "ba"   -> [userland |-> TRUE, exit_status |-> 1]]

MCFlags == {"-Wall", "-Werror", "-Wextra", "-Wno-unused-function", "-ggdb3",
            "-fno-pie", "-no-pie", "-lm", LF, "-U", "-L", "-A", "-B", "o.o"}

MCEnvs ==
  [arch : {ArchArm, ArchAarch64, ArchX86_64},
   mode : {"userland", "baremetal"},
   emulator : {"qemu", "gem5"},
   build_in_exts : {{".c"}},
   baremetal_build_in_exts : {{".c"}},
   package : SUBSET {"lib1"},
   package_all : BOOLEAN]
=============================================================================
