------------------------------- MODULE BpfMap -------------------------------
(***************************************************************************)
(* BPF hash maps as the programs of this repository use them.  A map is a  *)
(* total function from every key that may occur to a value or Absent.      *)
(*                                                                         *)
(* The update flags and the capacity check are the kernel's (external).    *)
(* LookupOrTryInit is ebpf/headers/bpf/map_helpers.h, which passes BPF_ANY *)
(* to the update that follows its lookup: callers that do not hold a lock  *)
(* split it in two steps (a lookup and an UpdateAny).                      *)
(***************************************************************************)
EXTENDS Naturals, FiniteSets

CONSTANT Absent     \* what a lookup of a missing key returns (NULL)

Entries(m) == {k \in DOMAIN m : m[k] # Absent}

Full(m, max) == Cardinality(Entries(m)) >= max

(* bpf_map_update_elem(m, k, v, BPF_ANY): -E2BIG for a new key when full.  *)
UpdateAny(m, k, v, max) ==
  IF m[k] = Absent /\ Full(m, max) THEN m ELSE [m EXCEPT ![k] = v]

(* bpf_map_update_elem(m, k, v, BPF_NOEXIST): -EEXIST for a present key.   *)
UpdateNoExist(m, k, v, max) ==
  IF m[k] # Absent \/ Full(m, max) THEN m ELSE [m EXCEPT ![k] = v]

(* bpf_map_delete_elem(m, k): -ENOENT, and no change, for a missing key.   *)
Delete(m, k) == [m EXCEPT ![k] = Absent]

(* bpf_map_lookup_or_try_init with nobody else writing key k meanwhile.    *)
LookupOrTryInit(m, k, v, max) ==
  IF m[k] # Absent THEN m ELSE UpdateAny(m, k, v, max)
=============================================================================
