------------------------- MODULE VirtualSSTRegistry -------------------------
(***************************************************************************)
(* db/virtual_compaction/virtual_sst_registry.h: the map from file number  *)
(* to virtual SST descriptor, and the set of numbers whose descriptor was  *)
(* removed but whose file metadata has not been purged yet.                *)
(*                                                                         *)
(* A descriptor is an immutable value held by shared pointer, so the model *)
(* keeps only which numbers have one.  Each operation takes the registry's *)
(* own mutex; the operations below are on a set of numbers because every   *)
(* caller applies them in a loop under the DB mutex.                       *)
(***************************************************************************)

VARIABLES live,     \* registry_: numbers with a descriptor
          retired   \* retired_: removed numbers awaiting the purge

registryVars == <<live, retired>>

RegistryInit ==
  /\ live = {}
  /\ retired = {}

\* Register: (re)bind the descriptors and take the numbers off retired_.
Register(S) ==
  /\ live' = live \cup S
  /\ retired' = retired \ S

\* Mutant: the number is retired and its descriptor kept.
RemoveKeepsDescriptor(S) ==
  /\ live' = live
  /\ retired' = retired \cup (S \cap live)

\* Remove: only a number that has a descriptor is retired.
Remove(S) ==
  /\ live' = live \ S
  /\ retired' = retired \cup (S \cap live)

\* The commit callback: Register every output, then Remove every input.
Replace(outputs, inputs) ==
  /\ live' = (live \cup outputs) \ inputs
  /\ retired' = (retired \ outputs) \cup (inputs \cap (live \cup outputs))

\* Mutant: forget the descriptor only.
ConsumeLiveOnly(S) ==
  /\ live' = live \ S
  /\ retired' = retired

\* ConsumeVirtualOrRetired: forget the descriptor, or else the retired mark.
Consume(S) ==
  /\ live' = live \ S
  /\ retired' = retired \ (S \ live)

\* LookupMany found a descriptor for every number of S.
AllVirtual(S) == S \subseteq live
=============================================================================
