----------------------------- MODULE MCResolver -----------------------------
(***************************************************************************)
(* get over the prefix tree of MCTree, checked against its declarative     *)
(* specification ResolverSpec.                                             *)
(***************************************************************************)
EXTENDS Resolver, MCTree

(***************************************************************************)
(* get as its specification states it (ResolverSpec), with ret mapped to   *)
(* itself.                                                                 *)
(***************************************************************************)
Abstract == INSTANCE ResolverSpec

(***************************************************************************)
(* Every call of get returns what the declarative rules (deepest scalar    *)
(* wins, lists concatenate root first, dict entries deepest wins, prefix   *)
(* match) give for its path.                                               *)
(***************************************************************************)
ResolvesAsSpecified == Abstract!Spec
=============================================================================
