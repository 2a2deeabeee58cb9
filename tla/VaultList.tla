------------------------------ MODULE VaultList ------------------------------
(***************************************************************************)
(* The three doubly-linked lists a market threads through its vault slab    *)
(* (state/market/dll.rs): active, tombstone and free, with their heads in   *)
(* the header and the next and prev pointers inside the sectors.            *)
(*                                                                         *)
(* The program trusts these pointers. A walk has no bound of its own, a     *)
(* pointer operation that meets a value it does not expect fails the whole  *)
(* instruction, and an instruction that can never succeed again would lock  *)
(* the vault's depositors in.                                               *)
(***************************************************************************)
EXTENDS Naturals, Sequences, FiniteSets

CONSTANTS MaxSectors,  \* bound on the slab's length (u32 in the code)
          MaxVaults,   \* registry.max_vaults_per_market
          Null         \* NULL_SECTOR

Sectors == 0 .. MaxSectors - 1
DllList == {"active", "tombstone", "free"}

ASSUME SlabAssumption == MaxSectors \in Nat /\ MaxVaults \in Nat
ASSUME NullAssumption == Null \notin Sectors

VARIABLES node,        \* per sector: its pointers, whether it has a leader, its tombstone flag
          head,        \* per list: its first sector
          len,         \* the slab's length
          activeCount  \* MarketHeader.active_count

listVars == <<node, head, len, activeCount>>

Link     == Sectors \cup {Null}
Detached == [next |-> Null, prev |-> Null, led |-> FALSE, tombstoned |-> FALSE]

WellTyped ==
    /\ node \in [Sectors -> [next : Link, prev : Link, led : BOOLEAN, tombstoned : BOOLEAN]]
    /\ head \in [DllList -> Link]
    /\ len \in 0 .. MaxSectors
    /\ activeCount \in 0 .. MaxVaults

ListsInit ==
    /\ node = [s \in Sectors |-> Detached]
    /\ head = [l \in DllList |-> Null]
    /\ len = 0
    /\ activeCount = 0

------------------------------------------------------------------------------
(* Pointer surgery. A state of the lists is [node, head]; each operation    *)
(* says when it succeeds and what it leaves behind.                         *)

Lists == [node |-> node, head |-> head]

SetPrev(n, s, to) == IF s = Null THEN n ELSE [n EXCEPT ![s].prev = to]
SetNext(n, s, to) == IF s = Null THEN n ELSE [n EXCEPT ![s].next = to]

\* A link leads nowhere or into a slab of so many sectors.
InSlab(link, slots) == link # Null => link < slots

CanLink(m, l, s, slots) ==
    /\ s < slots /\ InSlab(m.head[l], slots)
    /\ m.node[s].next = Null /\ m.node[s].prev = Null

OldHeadNotPatched(m, l, s) ==
    [node |-> [m.node EXCEPT ![s].next = m.head[l], ![s].prev = Null],
     head |-> [m.head EXCEPT ![l] = s]]
LinkHead(m, l, s) ==
    [node |-> SetPrev([m.node EXCEPT ![s].next = m.head[l], ![s].prev = Null], m.head[l], s),
     head |-> [m.head EXCEPT ![l] = s]]

CanUnlink(m, l, s, slots) ==
    /\ s < slots /\ InSlab(m.node[s].prev, slots) /\ InSlab(m.node[s].next, slots)
    /\ m.node[s].prev = Null => m.head[l] = s

\* The neighbours take each other's place; the sector comes out detached.
HeadAfterUnlink(m, l, s) ==
    IF m.node[s].prev = Null THEN [m.head EXCEPT ![l] = m.node[s].next] ELSE m.head

NodesAfterUnlink(m, s) ==
    LET patched == SetPrev(SetNext(m.node, m.node[s].prev, m.node[s].next),
                           m.node[s].next, m.node[s].prev)
    IN  [patched EXCEPT ![s].next = Null, ![s].prev = Null]

Unlink(m, l, s) ==
    [node |-> NodesAfterUnlink(m, s), head |-> HeadAfterUnlink(m, l, s)]

\* The k-th sector of a list, counted from zero, and Null from its end on. A list
\* of a sound slab ends within len steps.
After(s) == IF s = Null THEN Null ELSE node[s].next
Walk(l) == LET at[k \in 0 .. MaxSectors] == IF k = 0 THEN head[l] ELSE After(at[k - 1])
           IN  at
Members(l) == {Walk(l)[k] : k \in 0 .. MaxSectors} \ {Null}

\* vault_list_of: only the two lists of vaults are searched.
ListsHolding(s) == {l \in {"active", "tombstone"} : s \in Members(l)}

------------------------------------------------------------------------------
(* The instructions that move a sector.                                     *)

\* reclaimed sectors first; a sector comes out of the allocator zeroed and detached.
Allocated == IF head["free"] # Null THEN head["free"] ELSE len

HasRoom == activeCount < MaxVaults

CreateVault ==
    /\ HasRoom
    /\ head["free"] # Null \/ len < MaxSectors
    /\ len' = IF head["free"] # Null THEN len ELSE len + 1
    /\ LET s == Allocated
           m == [node |-> [node EXCEPT ![s] = [Detached EXCEPT !.led = TRUE]],
                 head |-> IF head["free"] # Null
                          THEN [head EXCEPT !["free"] = node[s].next] ELSE head]
           r == LinkHead(m, "active", s)
       IN  /\ CanLink(m, "active", s, len')
           /\ node' = r.node
           /\ head' = r.head
    /\ activeCount' = activeCount + 1

\* close_vault: tombstone_sector, for a sector found on the active list.
CanTombstone(s) == CanUnlink(Lists, "active", s, len)

CloseVault(s) ==
    /\ s < len /\ node[s].led /\ "active" \in ListsHolding(s)
    /\ CanTombstone(s)
    /\ LET m == Unlink(Lists, "active", s)
           r == LinkHead(m, "tombstone", s)
       IN  /\ CanLink(m, "tombstone", s, len)
           /\ node' = [r.node EXCEPT ![s].tombstoned = TRUE]
           /\ head' = r.head
    /\ activeCount' = IF activeCount = 0 THEN 0 ELSE activeCount - 1
    /\ UNCHANGED len

\* reclaim_sector, which the withdrawal that empties a vault ends with: from whichever
\* list holds the sector, the active one first.
ListOf(s) == IF "active" \in ListsHolding(s) THEN "active" ELSE "tombstone"
CanReclaim(s) == ListsHolding(s) # {} /\ CanUnlink(Lists, ListOf(s), s, len)

CountedOnBothLists(s) == activeCount - 1
CountAfterReclaim(s) ==
    IF ListOf(s) = "active" /\ activeCount > 0 THEN activeCount - 1 ELSE activeCount

ReclaimSector(s) ==
    /\ s < len /\ node[s].led
    /\ CanReclaim(s)
    /\ LET m == Unlink(Lists, ListOf(s), s)
           r == LinkHead(m, "free", s)
       IN  /\ CanLink(m, "free", s, len)
           /\ node' = [r.node EXCEPT ![s].led = FALSE]
           /\ head' = r.head
    /\ activeCount' = CountAfterReclaim(s)
    /\ UNCHANGED len

ListsNext == CreateVault \/ \E s \in Sectors : CloseVault(s) \/ ReclaimSector(s)

ListsSpec == ListsInit /\ [][ListsNext]_listVars

------------------------------------------------------------------------------
(* What the pointers have to keep up.                                       *)

CanAlwaysMove(s) ==
    node[s].led =>
       /\ s < len /\ CanReclaim(s) /\ CanLink(Unlink(Lists, ListOf(s), s), "free", s, len)
       /\ ~node[s].tombstoned => /\ "active" \in ListsHolding(s) /\ CanTombstone(s)
                                 /\ CanLink(Unlink(Lists, "active", s), "tombstone", s, len)

OnOneList(s) == Cardinality({l \in DllList : s \in Members(l)}) = 1

\* The free list promises less: its head keeps a stale prev, which nobody reads.
WalksBackAsForth(l) ==
    /\ head[l] # Null => node[head[l]].prev = Null
    /\ \A s \in Members(l) : node[s].next # Null => node[node[s].next].prev = s

\* No pointer check ever fails: a vault with a leader can always be reclaimed, so no
\* last withdrawal is rejected, and every active one can be closed, whatever order
\* vaults were created, closed and drained in. Every walk ends, forth and back, and
\* the three lists share the slab out.
NoListIsCorrupt ==
    /\ WellTyped
    /\ \A l \in DllList : Walk(l)[MaxSectors] = Null
    /\ \A l \in {"active", "tombstone"} : WalksBackAsForth(l)
    /\ \A s \in 0 .. len - 1 : OnOneList(s)
    /\ \A s \in Sectors : CanAlwaysMove(s)

\* The pointers implement the slab allocator as a market sees it.
FreeLength == Cardinality(Members("free"))
Slab == INSTANCE SectorSlab WITH
            list      <- [s \in Sectors |->
                            IF s < len THEN CHOOSE l \in DllList : s \in Members(l) ELSE "none"],
            freeStack <- [k \in 1 .. FreeLength |-> Walk("free")[k - 1]],
            slabLen   <- len
ListsImplementSlab == Slab!Spec
=============================================================================
