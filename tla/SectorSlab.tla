----------------------------- MODULE SectorSlab -----------------------------
(***************************************************************************)
(* What the slab allocator of a market promises (state/market/dll.rs), with *)
(* no pointers in it: every sector the slab has grown to is on exactly one  *)
(* of three lists, moves active -> tombstone -> free or active -> free, and *)
(* is handed out again from the free list, last freed first, before the     *)
(* slab grows. VaultList and MarketVaults are both shown to implement it.   *)
(***************************************************************************)
EXTENDS Naturals, Sequences, FiniteSets

CONSTANTS MaxSectors,  \* bound on the slab's length
          MaxVaults    \* registry.max_vaults_per_market

VARIABLES list,       \* per sector: the list it is on, "none" beyond the slab
          freeStack,  \* the free list, head first
          slabLen     \* how many sectors the slab has grown to

vars == <<list, freeStack, slabLen>>

Sectors == 0 .. MaxSectors - 1
On(l)   == {s \in Sectors : list[s] = l}

Init == list = [s \in Sectors |-> "none"] /\ freeStack = <<>> /\ slabLen = 0

\* create_vault, on a reclaimed sector or on a new one.
Reuse ==
    /\ freeStack # <<>>
    /\ Cardinality(On("active")) < MaxVaults
    /\ list' = [list EXCEPT ![Head(freeStack)] = "active"]
    /\ freeStack' = Tail(freeStack)
    /\ UNCHANGED slabLen

Grow ==
    /\ freeStack = <<>> /\ slabLen < MaxSectors
    /\ slabLen' = slabLen + 1
    /\ Cardinality(On("active")) < MaxVaults
    /\ list' = [list EXCEPT ![slabLen] = "active"]
    /\ UNCHANGED freeStack

\* close_vault.
Retire(s) ==
    /\ list[s] = "active"
    /\ list' = [list EXCEPT ![s] = "tombstone"]
    /\ UNCHANGED <<freeStack, slabLen>>

\* The last withdrawal from a vault, in any of its forms.
Release(s) ==
    /\ freeStack' = <<s>> \o freeStack
    /\ list[s] \in {"active", "tombstone"}
    /\ list' = [list EXCEPT ![s] = "free"]
    /\ UNCHANGED slabLen

Next == Reuse \/ Grow \/ \E s \in Sectors : Retire(s) \/ Release(s)

Spec == Init /\ [][Next]_vars
=============================================================================
