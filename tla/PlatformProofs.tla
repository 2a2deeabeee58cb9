---------------------------- MODULE PlatformProofs ----------------------------
(***************************************************************************)
(* Proofs about what the program keeps besides a market's ledger: Registry,*)
(* for any number of wallets, pairs and mints, and VaultList, for a slab   *)
(* of any length.                                                          *)
(*                                                                         *)
(* RegistrySound is inductive as it stands, and only as a whole: that the  *)
(* registry outlives its markets needs the counter to be exact, that no    *)
(* market is bricked by a closed fee vault needs the same, and the counter *)
(* starts again from zero with each initialization, which needs that no    *)
(* market has outlived the registry before.                                *)
(*                                                                         *)
(* NoListIsCorrupt is not inductive: it says of each walk that it ends,    *)
(* and nothing of where a pointer leads after the next instruction. ListsInv*)
(* names what the pointers stand for, an order of the sectors on each list,*)
(* and says that next spells it forth and, on the two lists of vaults,     *)
(* prev spells it back. An instruction moves one sector of that order, or  *)
(* adds one, and what walks find is read off it.                           *)
(***************************************************************************)
EXTENDS Registry, VaultList, FiniteSetTheorems, SequenceTheorems, WellFoundedInduction, TLAPS

------------------------------------------------------------------------------
(* Registry.                                                                *)

LiveMarkets == {p \in Pairs : Live(p)}

\* The fields of the state have their types.
LEMMA FieldTypes ==
    ASSUME RegistryTypeOK
    PROVE  /\ reg.open \in BOOLEAN /\ reg.admins \in Seq(Wallets)
           /\ reg.share \in 0 .. PPM /\ reg.count \in Nat /\ reg.cap \in Nat
           /\ reg.fee \in Fee \cup {Absent} /\ (reg.open => reg.fee \in Fee)
           /\ reg.markets \in [Pairs -> Market \cup {Absent}]
           /\ reg.vaults \in [Mints -> Nat \cup {Absent}]
           /\ reg.fees \in [Mints -> Nat]
  BY DEF RegistryTypeOK

\* The live markets are finitely many.
LEMMA LiveFinite == IsFiniteSet(LiveMarkets)
  BY PairAssumption, FS_Subset DEF LiveMarkets

\* An associated account: WithVault adds an empty one where there was none.
LEMMA WithVaultKeeps ==
    ASSUME NEW vaults \in [Mints -> Nat \cup {Absent}], NEW m \in Mints
    PROVE  /\ WithVault(vaults, m) \in [Mints -> Nat \cup {Absent}]
           /\ WithVault(vaults, m)[m] # Absent
           /\ \A k \in Mints : vaults[k] # Absent => WithVault(vaults, m)[k] = vaults[k]
           /\ \A k \in Mints : vaults[k] = Absent => WithVault(vaults, m)[k] \in {0, Absent}
  BY AbsentAssumption DEF WithVault

\* swap_remove of one of several distinct administrators leaves the others, each once.
LEMMA AdminRemoveKeeps ==
    ASSUME NEW admins \in Seq(Wallets), NEW w, NEW k \in DOMAIN admins, admins[k] = w,
           \A i, j \in DOMAIN admins : admins[i] = admins[j] => i = j,
           Len(admins) > 1
    PROVE  /\ AdminRemove(admins, w) \in Seq(Wallets)
           /\ Len(AdminRemove(admins, w)) = Len(admins) - 1
           /\ \A i, j \in DOMAIN AdminRemove(admins, w) :
                 AdminRemove(admins, w)[i] = AdminRemove(admins, w)[j] => i = j
<1> DEFINE pos  == CHOOSE i \in DOMAIN admins : admins[i] = w
           last == Len(admins)
           B    == [admins EXCEPT ![pos] = admins[last]]
           C    == SubSeq(B, 1, last - 1)
<1>1. pos \in DOMAIN admins
  OBVIOUS
<1>2. last \in Nat /\ last > 1 /\ DOMAIN admins = 1 .. last /\ last \in DOMAIN admins
  OBVIOUS
<1> HIDE DEF pos
<1>3. B \in Seq(Wallets) /\ Len(B) = last
  BY <1>1, <1>2
<1>4. \A i \in 1 .. last : B[i] = IF i = pos THEN admins[last] ELSE admins[i]
  BY <1>1, <1>2
<1> HIDE DEF B, last
<1>5. /\ C \in Seq(Wallets) /\ Len(C) = last - 1 /\ DOMAIN C = 1 .. last - 1
      /\ \A i \in 1 .. last - 1 : C[i] = B[i]
  BY <1>2, <1>3
<1>6. ASSUME NEW i \in 1 .. last - 1, NEW j \in 1 .. last - 1, C[i] = C[j]
      PROVE  i = j
  <2>1. B[i] = B[j] /\ i \in 1 .. last /\ j \in 1 .. last /\ i # last /\ j # last
    BY <1>2, <1>5, <1>6
  <2>2. QED
    BY <1>2, <1>4, <2>1
<1>7. AdminRemove(admins, w) = C
  BY DEF AdminRemove, pos, B, last
<1>8. QED
  BY SMTT(30), <1>2, <1>5, <1>6, <1>7 DEF last

\* What has to be shown of an instruction that neither opens or closes the registry, nor
\* changes who governs, nor creates or closes a market.
LEMMA SoundAfter ==
    ASSUME RegistrySound, RegistryTypeOK', FeesAccounted',
           reg'.open = reg.open, reg'.admins = reg.admins, reg'.count = reg.count,
           \A p \in Pairs : (reg'.markets[p] # Absent) <=> (reg.markets[p] # Absent),
           \A p \in Pairs : Live(p)' => HasVault(MarketAt(p).fee.mint)'
    PROVE  RegistrySound'
<1>1. Governed'
  BY DEF RegistrySound, Governed, Live, MarketAt
<1>2. CountExact'
  <2>1. {p \in Pairs : Live(p)}' = {p \in Pairs : Live(p)}
    BY DEF Live, MarketAt
  <2>2. QED
    BY <2>1 DEF RegistrySound, CountExact
<1>3. NoMarketBricked'
  BY DEF NoMarketBricked
<1>4. QED
  BY <1>1, <1>2, <1>3 DEF RegistrySound

------------------------------------------------------------------------------
(* Governance.                                                              *)

\* An initialization finds no market: none outlives a registry.
LEMMA InitializeSound ==
    ASSUME RegistrySound, NEW w \in Wallets, NEW g \in Wallets, NEW fee \in Fee,
           Initialize(w, g, fee)
    PROVE  RegistrySound'
<1>1. RegistryTypeOK /\ fee.mint \in Mints
  BY DEF RegistrySound, Fee
<1>2. /\ ~reg.open
      /\ reg' = [reg EXCEPT !.open = TRUE, !.admins = <<g>>, !.fee = fee, !.share = PPM,
                                !.count = 0, !.cap = 1,
                                !.vaults = WithVault(reg.vaults, fee.mint)]
  BY DEF Initialize
<1>3. /\ reg'.open = TRUE /\ reg'.admins = <<g>> /\ reg'.count = 0
      /\ reg'.vaults = WithVault(reg.vaults, fee.mint)
      /\ reg'.markets = reg.markets /\ reg'.fees = reg.fees
  BY <1>1, <1>2 DEF RegistryTypeOK
<1>4. RegistryTypeOK'
  <2>1. WithVault(reg.vaults, fee.mint) \in [Mints -> Nat \cup {Absent}]
    BY <1>1, FieldTypes, WithVaultKeeps
  <2>2. <<g>> \in Seq(Wallets) /\ PPM \in 0 .. PPM
    BY AmountAssumption
  <2>3. QED
    BY <1>1, <1>2, <2>1, <2>2 DEF RegistryTypeOK
<1>5. \A p \in Pairs : ~Live(p) /\ ~Live(p)'
  BY <1>2, <1>3 DEF RegistrySound, Governed, Live, MarketAt
<1>6. Governed'
  <2>1. Len(<<g>>) = 1 /\ DOMAIN <<g>> = 1 .. 1
    OBVIOUS
  <2>2. QED
    BY <1>3, <1>5, <2>1 DEF Governed
<1>7. CountExact'
  <2>1. {p \in Pairs : Live(p)}' = {}
    BY <1>5
  <2>2. QED
    BY <1>3, <2>1, FS_EmptySet DEF CountExact
<1>8. NoMarketBricked'
  BY <1>5 DEF NoMarketBricked
<1>9. FeesAccounted'
  <2>1. FeesAccounted /\ reg.vaults \in [Mints -> Nat \cup {Absent}]
    BY <1>1, FieldTypes DEF RegistrySound
  <2>2. QED
    BY <1>1, <1>3, <2>1, WithVaultKeeps, AbsentAssumption DEF FeesAccounted, HasVault
<1>10. QED
  BY <1>4, <1>6, <1>7, <1>8, <1>9 DEF RegistrySound

\* Adding or removing an administrator leaves at least one, each once.
LEMMA AdminsSound ==
    ASSUME RegistrySound, NEW a \in Wallets, NEW w \in Wallets,
           AddAdmin(a, w) \/ RemoveAdmin(a, w)
    PROVE  RegistrySound'
<1>1. RegistryTypeOK /\ reg.admins \in Seq(Wallets)
  BY FieldTypes DEF RegistrySound
<1>2. \A i, j \in DOMAIN reg.admins : reg.admins[i] = reg.admins[j] => i = j
  BY DEF RegistrySound, Governed
<1>3. PICK admins \in Seq(Wallets) :
         /\ reg' = [reg EXCEPT !.admins = admins]
         /\ Len(admins) > 0
         /\ \A i, j \in DOMAIN admins : admins[i] = admins[j] => i = j
  <2>1. CASE AddAdmin(a, w)
    <3> DEFINE A == Append(reg.admins, w)
    <3>1. reg.open /\ reg' = [reg EXCEPT !.admins = A]
      BY <2>1 DEF AddAdmin, AdminInsert, IsAdmin
    <3>2. \A i \in DOMAIN reg.admins : reg.admins[i] # w
      BY <2>1, <3>1 DEF AddAdmin, IsAdmin
    <3>3. /\ A \in Seq(Wallets) /\ Len(A) = Len(reg.admins) + 1 /\ Len(A) > 0
          /\ \A i \in DOMAIN A : A[i] = IF i = Len(A) THEN w ELSE reg.admins[i]
      BY <1>1
    <3>4. ASSUME NEW i \in DOMAIN A, NEW j \in DOMAIN A, A[i] = A[j]
          PROVE  i = j
      <4>1. \A k \in DOMAIN A : k # Len(A) => k \in DOMAIN reg.admins
        BY <1>1, <3>3
      <4>2. QED
        BY <1>2, <3>2, <3>3, <3>4, <4>1
    <3>5. QED
      BY <3>1, <3>3, <3>4
  <2>2. CASE RemoveAdmin(a, w)
    <3> DEFINE A == AdminRemove(reg.admins, w)
    <3>1. /\ Len(reg.admins) > 1 /\ reg' = [reg EXCEPT !.admins = A]
          /\ \E k \in DOMAIN reg.admins : reg.admins[k] = w
      BY <2>2 DEF RemoveAdmin, MayRemove, IsAdmin
    <3>2. /\ A \in Seq(Wallets) /\ Len(A) = Len(reg.admins) - 1
          /\ \A i, j \in DOMAIN A : A[i] = A[j] => i = j
      BY <1>1, <1>2, <3>1, AdminRemoveKeeps
    <3> HIDE DEF A
    <3>3. Len(A) > 0
      BY <1>1, <3>1, <3>2
    <3>4. QED
      BY <3>1, <3>2, <3>3
  <2>3. QED
    BY <2>1, <2>2
<1>4. /\ reg'.admins = admins /\ reg'.open = reg.open /\ reg'.count = reg.count
      /\ reg'.markets = reg.markets /\ reg'.vaults = reg.vaults
      /\ reg'.fees = reg.fees
  BY <1>1, <1>3 DEF RegistryTypeOK
<1>5. RegistryTypeOK'
  BY <1>1, <1>3 DEF RegistryTypeOK
<1>6. Governed'
  BY <1>3, <1>4 DEF RegistrySound, Governed, Live, MarketAt
<1>7. CountExact' /\ NoMarketBricked' /\ FeesAccounted'
  BY <1>4 DEF RegistrySound, CountExact, NoMarketBricked, FeesAccounted, Live, MarketAt, HasVault
<1>8. QED
  BY <1>5, <1>6, <1>7 DEF RegistrySound

\* New defaults, new fees: a fee vault may be created, none goes.
LEMMA SettingsSound ==
    ASSUME RegistrySound, NEW a \in Wallets,
           \/ \E share \in Shares : SetRegistryDefaults(a, share)
           \/ \E fee \in Fee : SetDefaultFeeConfig(a, fee)
           \/ \E fee \in Fee, p \in Pairs : SetMarketFeeConfig(a, p, fee)
    PROVE  RegistrySound'
<1>1. RegistryTypeOK /\ reg.markets \in [Pairs -> Market \cup {Absent}]
  BY FieldTypes DEF RegistrySound
<1>2. ASSUME NEW share \in Shares, SetRegistryDefaults(a, share)
      PROVE  RegistrySound'
  <2>1. share \in 0 .. PPM /\ reg' = [reg EXCEPT !.share = share]
    BY <1>2, AmountAssumption DEF SetRegistryDefaults
  <2>2. RegistryTypeOK'
    BY <1>1, <2>1 DEF RegistryTypeOK
  <2>3. /\ reg'.admins = reg.admins /\ reg'.open = reg.open
        /\ reg'.count = reg.count /\ reg'.markets = reg.markets
        /\ reg'.vaults = reg.vaults /\ reg'.fees = reg.fees
    BY <1>1, <2>1 DEF RegistryTypeOK
  <2>4. FeesAccounted' /\ NoMarketBricked'
    BY <2>3 DEF RegistrySound, FeesAccounted, NoMarketBricked, HasVault, Live, MarketAt
  <2>5. QED
    BY <2>2, <2>3, <2>4, SoundAfter DEF NoMarketBricked
<1>3. ASSUME NEW fee \in Fee,
             SetDefaultFeeConfig(a, fee) \/ \E p \in Pairs : SetMarketFeeConfig(a, p, fee)
      PROVE  RegistrySound'
  <2> DEFINE V == WithVault(reg.vaults, fee.mint)
  <2>1. /\ fee.mint \in Mints /\ reg.vaults \in [Mints -> Nat \cup {Absent}]
        /\ V \in [Mints -> Nat \cup {Absent}] /\ V[fee.mint] # Absent
        /\ \A k \in Mints : reg.vaults[k] # Absent => V[k] = reg.vaults[k]
        /\ \A k \in Mints : reg.vaults[k] = Absent => V[k] \in {0, Absent}
    BY <1>1, FieldTypes, WithVaultKeeps DEF Fee
  <2> HIDE DEF V
  <2>2. CASE SetDefaultFeeConfig(a, fee)
    <3>1. reg' = [reg EXCEPT !.fee = fee, !.vaults = V]
      BY <2>2 DEF SetDefaultFeeConfig, V
    <3>2. RegistryTypeOK'
      BY <1>1, <2>1, <3>1 DEF RegistryTypeOK
    <3>3. /\ reg'.admins = reg.admins /\ reg'.open = reg.open
          /\ reg'.count = reg.count /\ reg'.markets = reg.markets
          /\ reg'.vaults = V /\ reg'.fees = reg.fees
      BY <1>1, <3>1 DEF RegistryTypeOK
    <3>4. FeesAccounted'
      BY <2>1, <3>3, AbsentAssumption DEF RegistrySound, FeesAccounted, HasVault
    <3>5. \A p \in Pairs : Live(p)' => HasVault(MarketAt(p).fee.mint)'
      <4>1. \A p \in Pairs : Live(p) => reg.markets[p].fee.mint \in Mints
        BY <1>1 DEF Live, MarketAt, Market, Fee
      <4>2. QED
        BY <2>1, <3>3, <4>1 DEF RegistrySound, NoMarketBricked, HasVault, Live, MarketAt
    <3>6. QED
      BY <3>2, <3>3, <3>4, <3>5, SoundAfter
  <2>3. ASSUME NEW p \in Pairs, SetMarketFeeConfig(a, p, fee)
        PROVE  RegistrySound'
    <3> DEFINE mk == [reg.markets[p] EXCEPT !.fee = fee]
    <3>1. Live(p) /\ reg.markets[p] \in Market
      BY <1>1, <2>3 DEF SetMarketFeeConfig, Live, MarketAt
    <3>2. mk \in Market /\ mk.fee = fee
      BY <3>1 DEF Market
    <3>3. reg' = [reg EXCEPT !.markets = [reg.markets EXCEPT ![p] = mk], !.vaults = V]
      BY <1>1, <2>3 DEF SetMarketFeeConfig, V, RegistryTypeOK
    <3> HIDE DEF mk
    <3>4. RegistryTypeOK'
      BY <1>1, <2>1, <3>2, <3>3 DEF RegistryTypeOK
    <3>5. /\ reg'.admins = reg.admins /\ reg'.open = reg.open
          /\ reg'.count = reg.count
          /\ reg'.markets = [reg.markets EXCEPT ![p] = mk]
          /\ reg'.vaults = V /\ reg'.fees = reg.fees
      BY <1>1, <3>3 DEF RegistryTypeOK
    <3>6. FeesAccounted'
      BY <2>1, <3>5, AbsentAssumption DEF RegistrySound, FeesAccounted, HasVault
    <3>7. \A q \in Pairs : (reg'.markets[q] # Absent) <=> (reg.markets[q] # Absent)
      BY <1>1, <3>1, <3>2, <3>5, AbsentAssumption DEF Live, MarketAt
    <3>8. ASSUME NEW q \in Pairs, Live(q)'
          PROVE  HasVault(MarketAt(q).fee.mint)'
      <4>1. CASE q = p
        BY <1>1, <2>1, <3>2, <3>5, <4>1 DEF HasVault, MarketAt
      <4>2. CASE q # p
        <5>1. Live(q) /\ reg'.markets[q] = reg.markets[q]
          BY <1>1, <3>5, <3>8, <4>2 DEF Live, MarketAt
        <5>2. reg.markets[q].fee.mint \in Mints
          BY <1>1, <5>1 DEF Live, MarketAt, Market, Fee
        <5>3. QED
          BY <2>1, <3>5, <5>1, <5>2 DEF RegistrySound, NoMarketBricked, HasVault, MarketAt
      <4>3. QED
        BY <4>1, <4>2
    <3>9. QED
      BY <3>4, <3>5, <3>6, <3>7, <3>8, SoundAfter
  <2>4. QED
    BY <1>3, <2>2, <2>3
<1>4. QED
  BY <1>2, <1>3

------------------------------------------------------------------------------
(* Markets and fees.                                                        *)

\* Fee vaults V and fees F that agree, with a vault for the mints that have one now.
Settled(V, F) ==
    /\ V \in [Mints -> Nat \cup {Absent}] /\ F \in [Mints -> Nat]
    /\ \A m \in Mints : V[m] = Absent <=> reg.vaults[m] = Absent
    /\ \A m \in Mints : F[m] = IF V[m] # Absent THEN V[m] ELSE 0

\* What a charge leaves: the fee vault and the account of its mint's fees grow alike.
LEMMA CollectKeeps ==
    ASSUME RegistryTypeOK, FeesAccounted, NEW w \in Wallets, NEW fee \in Fee, HasVault(fee.mint)
    PROVE  /\ Settled(Collect(w, fee).vaults, Collect(w, fee).fees)
           /\ Collect(w, fee) = [reg EXCEPT !.vaults = Collect(w, fee).vaults,
                                              !.fees = Collect(w, fee).fees]
<1> DEFINE m == fee.mint
           c == Charged(w, fee)
           V == [reg.vaults EXCEPT ![m] = reg.vaults[m] + c]
           F == [reg.fees EXCEPT ![m] = reg.fees[m] + c]
<1>1. m \in Mints /\ c \in Nat
  BY AmountAssumption DEF Fee, Charged
<1>2. /\ reg.vaults \in [Mints -> Nat \cup {Absent}] /\ reg.fees \in [Mints -> Nat]
  BY FieldTypes
<1>3. reg.vaults[m] \in Nat
  BY <1>1, <1>2 DEF HasVault
<1>4. Collect(w, fee) = [reg EXCEPT !.vaults = V, !.fees = F]
  BY DEF Collect, RegistryTypeOK
<1>5. Collect(w, fee).vaults = V /\ Collect(w, fee).fees = F
  BY <1>4 DEF RegistryTypeOK
<1> HIDE DEF m, c
<1>6. V \in [Mints -> Nat \cup {Absent}] /\ F \in [Mints -> Nat]
  BY <1>1, <1>2, <1>3
<1>7. /\ \A k \in Mints : V[k] = Absent <=> reg.vaults[k] = Absent
      /\ \A k \in Mints : F[k] = IF V[k] # Absent THEN V[k] ELSE 0
  BY <1>1, <1>2, <1>3, AbsentAssumption DEF FeesAccounted, HasVault
<1>8. Settled(V, F)
  BY <1>6, <1>7 DEF Settled
<1> HIDE DEF V, F
<1>9. QED
  BY <1>4, <1>5, <1>8

\* A new market's fee vault has been shown to exist.
LEMMA CreateMarketSound ==
    ASSUME RegistrySound, NEW w \in Wallets, NEW p \in Pairs, CreateMarket(w, p)
    PROVE  RegistrySound'
<1> DEFINE fee == reg.fee
           C   == Collect(w, fee)
           mk  == [fee |-> fee, share |-> reg.share, treasuries |-> 2,
                   active |-> 0, depositors |-> 0]
<1>1. /\ RegistryTypeOK /\ reg.open /\ ~Live(p) /\ HasVault(fee.mint) /\ fee \in Fee
      /\ FeesAccounted
  BY FieldTypes DEF RegistrySound, CreateMarket
<1>2. /\ Settled(C.vaults, C.fees)
      /\ C = [reg EXCEPT !.vaults = C.vaults, !.fees = C.fees]
  BY <1>1, CollectKeeps
<1>3. mk \in Market /\ mk.fee = fee
  BY <1>1, FieldTypes DEF Market
<1>4. reg' = [C EXCEPT !.count = C.count + 1, !.markets = [C.markets EXCEPT ![p] = mk]]
  BY DEF CreateMarket, CountAfterCreate
<1> DEFINE V == C.vaults
           F == C.fees
<1> HIDE DEF C, mk, V, F
<1>5. reg' = [reg EXCEPT !.vaults = V, !.fees = F, !.count = reg.count + 1,
                             !.markets = [reg.markets EXCEPT ![p] = mk]]
  BY <1>1, <1>2, <1>4 DEF RegistryTypeOK, V, F
<1>6. Settled(V, F)
  BY <1>2 DEF V, F
<1>7. RegistryTypeOK'
  <2>1. [reg.markets EXCEPT ![p] = mk] \in [Pairs -> Market \cup {Absent}]
    BY <1>1, <1>3, FieldTypes
  <2>2. /\ V \in [Mints -> Nat \cup {Absent}] /\ F \in [Mints -> Nat]
        /\ reg.count + 1 \in Nat
    BY <1>1, <1>6, FieldTypes DEF Settled
  <2>3. QED
    BY <1>1, <1>5, <2>1, <2>2 DEF RegistryTypeOK
<1>8. /\ reg'.open = reg.open /\ reg'.admins = reg.admins
      /\ reg'.count = reg.count + 1
      /\ reg'.markets = [reg.markets EXCEPT ![p] = mk]
      /\ reg'.vaults = V /\ reg'.fees = F
  BY <1>1, <1>5 DEF RegistryTypeOK
<1>9. mk # Absent /\ reg.markets \in [Pairs -> Market \cup {Absent}]
  BY <1>1, <1>3, AbsentAssumption, FieldTypes
<1>10. \A q \in Pairs : /\ q # p => reg'.markets[q] = reg.markets[q]
                        /\ q = p => reg'.markets[q] = mk
  BY <1>8, <1>9
<1>11. Governed'
  BY <1>1, <1>8 DEF RegistrySound, Governed
<1>12. CountExact'
  <2>1. LiveMarkets' = LiveMarkets \cup {p} /\ p \notin LiveMarkets
    BY <1>1, <1>9, <1>10 DEF LiveMarkets, Live, MarketAt
  <2>2. Cardinality(LiveMarkets') = Cardinality(LiveMarkets) + 1
    BY <2>1, LiveFinite, FS_AddElement
  <2>3. QED
    BY <1>8, <2>2 DEF RegistrySound, CountExact, LiveMarkets
<1>13. NoMarketBricked'
  <2> SUFFICES ASSUME NEW q \in Pairs, Live(q)'
               PROVE  HasVault(MarketAt(q).fee.mint)'
    BY DEF NoMarketBricked
  <2>1. \A m \in Mints : HasVault(m) => HasVault(m)'
    BY <1>6, <1>8 DEF HasVault, Settled
  <2>2. CASE q = p
    BY <1>1, <1>3, <1>10, <2>1, <2>2 DEF MarketAt, Fee
  <2>3. CASE q # p
    <3>1. Live(q) /\ reg'.markets[q] = reg.markets[q]
      BY <1>10, <2>3 DEF Live, MarketAt
    <3>2. reg.markets[q].fee.mint \in Mints
      BY <1>9, <3>1 DEF Live, MarketAt, Market, Fee
    <3>3. QED
      BY <2>1, <3>1, <3>2 DEF RegistrySound, NoMarketBricked, MarketAt
  <2>4. QED
    BY <2>2, <2>3
<1>14. FeesAccounted'
  BY <1>6, <1>8 DEF FeesAccounted, HasVault, Settled
<1>15. QED
  BY <1>7, <1>11, <1>12, <1>13, <1>14 DEF RegistrySound

\* What happens to the vaults, depositors and treasuries of one market leaves its fee, and
\* every fee vault, alone.
LEMMA OneMarketSound ==
    ASSUME RegistrySound, NEW p \in Pairs, Live(p), NEW mk \in Market,
           mk.fee = reg.markets[p].fee,
           NEW V, NEW F, Settled(V, F),
           reg' = [reg EXCEPT !.vaults = V, !.fees = F,
                                  !.markets = [reg.markets EXCEPT ![p] = mk]]
    PROVE  RegistrySound'
<1>1. RegistryTypeOK /\ reg.markets \in [Pairs -> Market \cup {Absent}]
  BY FieldTypes DEF RegistrySound
<1>2. RegistryTypeOK'
  BY <1>1 DEF RegistryTypeOK, Settled
<1>3. /\ reg'.open = reg.open /\ reg'.admins = reg.admins
      /\ reg'.count = reg.count
      /\ reg'.markets = [reg.markets EXCEPT ![p] = mk]
      /\ reg'.vaults = V /\ reg'.fees = F
  BY <1>1 DEF RegistryTypeOK
<1>4. \A q \in Pairs : (reg'.markets[q] # Absent) <=> (reg.markets[q] # Absent)
  BY <1>1, <1>3, AbsentAssumption DEF Live, MarketAt
<1>5. FeesAccounted'
  BY <1>3 DEF FeesAccounted, HasVault, Settled
<1>6. ASSUME NEW q \in Pairs, Live(q)'
      PROVE  HasVault(MarketAt(q).fee.mint)'
  <2>1. Live(q) /\ reg'.markets[q].fee = reg.markets[q].fee
    BY <1>1, <1>3, <1>4, <1>6 DEF Live, MarketAt
  <2>2. reg.markets[q].fee.mint \in Mints
    BY <1>1, <2>1 DEF Live, MarketAt, Market, Fee
  <2>3. reg.vaults[reg.markets[q].fee.mint] # Absent
    BY <2>1 DEF RegistrySound, NoMarketBricked, HasVault, MarketAt
  <2>4. QED
    BY <1>3, <2>1, <2>2, <2>3 DEF HasVault, MarketAt, Settled
<1>7. QED
  BY <1>2, <1>3, <1>4, <1>5, <1>6, SoundAfter

\* A vault may be created as long as its market's fee vault exists: it is charged there.
LEMMA AdmitVaultSound ==
    ASSUME RegistrySound, NEW w \in Wallets, NEW p \in Pairs, NEW o, AdmitVault(w, p, o)
    PROVE  RegistrySound'
<1> DEFINE fee == reg.markets[p].fee
           C   == Collect(w, fee)
           mk  == [reg.markets[p] EXCEPT !.active = reg.markets[p].active + 1]
<1>1. /\ RegistryTypeOK /\ FeesAccounted /\ Live(p) /\ HasVault(fee.mint)
      /\ reg.markets[p] \in Market
  BY FieldTypes DEF RegistrySound, AdmitVault, Live, MarketAt
<1>2. fee \in Fee /\ mk \in Market /\ mk.fee = fee
  BY <1>1 DEF Market
<1>3. /\ Settled(C.vaults, C.fees)
      /\ C = [reg EXCEPT !.vaults = C.vaults, !.fees = C.fees]
  BY <1>1, <1>2, CollectKeeps
<1>4. C.markets = reg.markets
  BY <1>1, <1>3 DEF RegistryTypeOK
<1>5. reg' = [C EXCEPT !.markets = [C.markets EXCEPT ![p] =
                            [C.markets[p] EXCEPT !.active = C.markets[p].active + 1]]]
  BY DEF AdmitVault, MarketAt
<1>6. reg' = [C EXCEPT !.markets = [reg.markets EXCEPT ![p] = mk]]
  BY <1>4, <1>5
<1> DEFINE V == C.vaults
           F == C.fees
<1> HIDE DEF C, mk, V, F, fee
<1>7. reg' = [reg EXCEPT !.vaults = V, !.fees = F,
                             !.markets = [reg.markets EXCEPT ![p] = mk]]
  BY <1>1, <1>3, <1>6 DEF RegistryTypeOK, V, F
<1>8. Settled(V, F) /\ mk.fee = reg.markets[p].fee
  BY <1>2, <1>3 DEF V, F, fee
<1>9. QED
  BY <1>1, <1>2, <1>7, <1>8, OneMarketSound

\* So may its depositors come and go, its vaults end and its treasuries be closed.
LEMMA MarketCountersSound ==
    ASSUME RegistrySound, NEW p \in Pairs,
           \/ DepositorComes(p) \/ VaultEnds(p) \/ DepositorLeaves(p)
           \/ \E a \in Wallets : CloseMarketTreasury(a, p)
    PROVE  RegistrySound'
<1>1. /\ RegistryTypeOK /\ Live(p) /\ reg.markets[p] \in Market /\ FeesAccounted
  BY FieldTypes DEF RegistrySound, DepositorComes, VaultEnds, DepositorLeaves,
                    CloseMarketTreasury, Live, MarketAt
<1>2. PICK mk \in Market : /\ mk.fee = reg.markets[p].fee
                           /\ reg' = [reg EXCEPT !.markets = [reg.markets EXCEPT ![p] = mk]]
  <2> DEFINE old == reg.markets[p]
  <2>1. old.active \in Nat /\ old.depositors \in Nat /\ old.treasuries \in Nat
    BY <1>1 DEF Market
  <2>2. CASE DepositorComes(p)
    <3>1. /\ [old EXCEPT !.depositors = 1] \in Market
          /\ [old EXCEPT !.depositors = 1].fee = old.fee
      BY <1>1 DEF Market
    <3>2. reg' = [reg EXCEPT !.markets =
                       [reg.markets EXCEPT ![p] = [old EXCEPT !.depositors = 1]]]
      BY <1>1, <2>2 DEF DepositorComes, RegistryTypeOK
    <3>3. QED
      BY <3>1, <3>2
  <2>3. CASE VaultEnds(p)
    <3>1. PICK left \in 0 .. old.depositors :
             reg' = [reg EXCEPT !.markets[p].active = @ - 1, !.markets[p].depositors = left]
      BY <2>3 DEF VaultEnds, MarketAt
    <3>2. old.active > 0 /\ left \in Nat
      <4>1. left \in Nat
        BY <2>1
      <4>2. old.active > 0
        BY <2>3 DEF VaultEnds, MarketAt
      <4>3. QED
        BY <4>1, <4>2
    <3> DEFINE mk == [old EXCEPT !.active = old.active - 1, !.depositors = left]
               M  == [reg.markets EXCEPT ![p] = [old EXCEPT !.active = old.active - 1]]
    <3>3. reg' = [reg EXCEPT !.markets = [M EXCEPT ![p] = [M[p] EXCEPT !.depositors = left]]]
      BY <1>1, <3>1 DEF RegistryTypeOK
    <3>4. [M EXCEPT ![p] = [M[p] EXCEPT !.depositors = left]] = [reg.markets EXCEPT ![p] = mk]
      <4>1. reg.markets \in [Pairs -> Market \cup {Absent}]
        BY <1>1, FieldTypes
      <4>2. M[p] = [old EXCEPT !.active = old.active - 1]
        BY <4>1
      <4>3. [M[p] EXCEPT !.depositors = left] = mk
        BY <1>1, <4>2 DEF Market
      <4> HIDE DEF mk
      <4>4. QED
        BY <4>1, <4>3
    <3>5. old.active - 1 \in Nat
      BY <2>1, <3>2
    <3>6. mk \in Market /\ mk.fee = old.fee
      BY <1>1, <3>2, <3>5 DEF Market
    <3> HIDE DEF mk, M
    <3>7. reg' = [reg EXCEPT !.markets = [reg.markets EXCEPT ![p] = mk]]
      BY <3>3, <3>4
    <3>8. QED
      BY <3>6, <3>7
  <2>4. CASE DepositorLeaves(p)
    <3> DEFINE mk == [old EXCEPT !.depositors = old.depositors - 1]
    <3>1. reg' = [reg EXCEPT !.markets = [reg.markets EXCEPT ![p] = mk]]
      BY <1>1, <2>4 DEF DepositorLeaves, RegistryTypeOK, Market
    <3>2. old.depositors - 1 \in Nat
      BY <2>1, <2>4 DEF DepositorLeaves, MarketAt
    <3>3. mk \in Market /\ mk.fee = old.fee
      BY <1>1, <3>2 DEF Market
    <3>4. QED
      BY <3>1, <3>3
  <2>5. CASE \E a \in Wallets : CloseMarketTreasury(a, p)
    <3> DEFINE mk == [old EXCEPT !.treasuries = old.treasuries - 1]
    <3>1. reg' = [reg EXCEPT !.markets = [reg.markets EXCEPT ![p] = mk]]
      BY <1>1, <2>5 DEF CloseMarketTreasury, RegistryTypeOK, Market
    <3>2. old.treasuries - 1 \in Nat
      BY <2>1, <2>5 DEF CloseMarketTreasury, MarketAt
    <3>3. mk \in Market /\ mk.fee = old.fee
      BY <1>1, <3>2 DEF Market
    <3>4. QED
      BY <3>1, <3>3
  <2>6. QED
    BY <2>2, <2>3, <2>4, <2>5
<1>3. Settled(reg.vaults, reg.fees)
  BY <1>1, FieldTypes DEF FeesAccounted, HasVault, Settled
<1>4. reg' = [reg EXCEPT !.vaults = reg.vaults, !.fees = reg.fees,
                             !.markets = [reg.markets EXCEPT ![p] = mk]]
  BY <1>1, <1>2 DEF RegistryTypeOK
<1>5. QED
  BY <1>1, <1>2, <1>3, <1>4, OneMarketSound

------------------------------------------------------------------------------
(* Teardown.                                                                *)

\* The counter goes down with the market: it was positive, since the market counted.
LEMMA CloseMarketSound ==
    ASSUME RegistrySound, NEW a \in Wallets, NEW p \in Pairs, CloseMarket(a, p)
    PROVE  RegistrySound'
<1>1. /\ RegistryTypeOK /\ Live(p) /\ reg.count = Cardinality(LiveMarkets) /\ reg.count \in Nat
      /\ reg.markets \in [Pairs -> Market \cup {Absent}]
  BY FieldTypes DEF RegistrySound, CloseMarket, CountExact, LiveMarkets
<1>2. reg' = [reg EXCEPT !.count = CountAfterClose(reg.count),
                             !.markets = [reg.markets EXCEPT ![p] = Absent]]
  BY DEF CloseMarket
<1>3. Cardinality(LiveMarkets \ {p}) = Cardinality(LiveMarkets) - 1 /\ p \in LiveMarkets
  BY <1>1, LiveFinite, FS_RemoveElement DEF LiveMarkets
<1>4. reg.count # 0
  BY <1>1, <1>3, LiveFinite, FS_EmptySet
<1>5. CountAfterClose(reg.count) = reg.count - 1 /\ reg.count - 1 \in Nat
  BY <1>1, <1>4 DEF CountAfterClose
<1>6. RegistryTypeOK'
  BY <1>1, <1>2, <1>5 DEF RegistryTypeOK
<1>7. /\ reg'.open = reg.open /\ reg'.admins = reg.admins
      /\ reg'.count = reg.count - 1
      /\ reg'.markets = [reg.markets EXCEPT ![p] = Absent]
      /\ reg'.vaults = reg.vaults /\ reg'.fees = reg.fees
  BY <1>1, <1>2, <1>5 DEF RegistryTypeOK
<1>8. \A q \in Pairs : /\ q # p => reg'.markets[q] = reg.markets[q]
                       /\ q = p => reg'.markets[q] = Absent
  BY <1>1, <1>7
<1>9. Governed'
  BY <1>7, <1>8 DEF RegistrySound, Governed, Live, MarketAt
<1>10. CountExact'
  <2>1. LiveMarkets' = LiveMarkets \ {p}
    BY <1>8 DEF LiveMarkets, Live, MarketAt
  <2>2. QED
    BY <1>1, <1>3, <1>7, <2>1 DEF CountExact, LiveMarkets
<1>11. NoMarketBricked' /\ FeesAccounted'
  BY <1>7, <1>8 DEF RegistrySound, NoMarketBricked, FeesAccounted, HasVault, Live, MarketAt
<1>12. QED
  BY <1>6, <1>9, <1>10, <1>11 DEF RegistrySound

\* A count of zero means what it says.
LEMMA NoneLive ==
    ASSUME RegistrySound, NoMarkets
    PROVE  \A p \in Pairs : ~Live(p)
<1>1. Cardinality(LiveMarkets) = 0
  BY DEF RegistrySound, NoMarkets, CountExact, LiveMarkets
<1>2. LiveMarkets = {}
  BY <1>1, LiveFinite, FS_EmptySet
<1>3. QED
  BY <1>2 DEF LiveMarkets

\* A fee vault closes under no market, and pays out what it holds.
LEMMA CloseFeeVaultSound ==
    ASSUME RegistrySound, NEW a \in Wallets, NEW m \in Mints, CloseRegistryFeeVault(a, m)
    PROVE  RegistrySound'
<1> DEFINE V == [reg.vaults EXCEPT ![m] = Absent]
           F == [reg.fees EXCEPT ![m] = reg.fees[m] - reg.vaults[m]]
<1>1. /\ RegistryTypeOK /\ HasVault(m) /\ \A p \in Pairs : ~Live(p)
      /\ reg.vaults \in [Mints -> Nat \cup {Absent}] /\ reg.fees \in [Mints -> Nat]
  BY FieldTypes, NoneLive DEF RegistrySound, CloseRegistryFeeVault
<1>2. reg.fees[m] - reg.vaults[m] = 0
  <2>1. reg.fees[m] = reg.vaults[m] /\ reg.fees[m] \in Nat
    BY <1>1 DEF RegistrySound, FeesAccounted
  <2>2. QED
    BY <2>1
<1>3. reg' = [reg EXCEPT !.fees = F, !.vaults = V]
  BY DEF CloseRegistryFeeVault
<1>4. V \in [Mints -> Nat \cup {Absent}] /\ F \in [Mints -> Nat]
  BY <1>1, <1>2
<1>5. \A k \in Mints : /\ k # m => V[k] = reg.vaults[k] /\ F[k] = reg.fees[k]
                       /\ k = m => V[k] = Absent /\ F[k] = 0
  BY <1>1, <1>2
<1> HIDE DEF V, F
<1>6. RegistryTypeOK'
  BY <1>1, <1>3, <1>4 DEF RegistryTypeOK
<1>7. /\ reg'.open = reg.open /\ reg'.admins = reg.admins
      /\ reg'.count = reg.count /\ reg'.markets = reg.markets
      /\ reg'.vaults = V /\ reg'.fees = F
  BY <1>1, <1>3 DEF RegistryTypeOK
<1>8. FeesAccounted'
  BY <1>5, <1>7 DEF RegistrySound, FeesAccounted, HasVault
<1>9. \A p \in Pairs : ~Live(p)'
  BY <1>1, <1>7 DEF Live, MarketAt
<1>10. QED
  BY <1>6, <1>7, <1>8, <1>9, SoundAfter

\* The registry closes under no market.
LEMMA CloseRegistrySound ==
    ASSUME RegistrySound, NEW a \in Wallets, CloseRegistry(a)
    PROVE  RegistrySound'
<1>1. /\ RegistryTypeOK /\ \A p \in Pairs : ~Live(p)
      /\ reg' = [reg EXCEPT !.open = FALSE, !.admins = <<>>]
  BY NoneLive DEF RegistrySound, CloseRegistry
<1>2. /\ reg'.open = FALSE /\ reg'.admins = <<>>
      /\ reg'.count = reg.count /\ reg'.markets = reg.markets
      /\ reg'.vaults = reg.vaults /\ reg'.fees = reg.fees
  BY <1>1 DEF RegistryTypeOK
<1>3. RegistryTypeOK'
  <2>1. <<>> \in Seq(Wallets)
    OBVIOUS
  <2>2. QED
    BY <1>1, <2>1 DEF RegistryTypeOK
<1>4. \A p \in Pairs : ~Live(p)'
  BY <1>1, <1>2 DEF Live, MarketAt
<1>5. Governed'
  BY <1>2, <1>4 DEF Governed
<1>6. CountExact' /\ NoMarketBricked' /\ FeesAccounted'
  BY <1>2 DEF RegistrySound, CountExact, NoMarketBricked, FeesAccounted, Live, MarketAt, HasVault
<1>7. QED
  BY <1>3, <1>5, <1>6 DEF RegistrySound

------------------------------------------------------------------------------
\* Every instruction keeps the registry sound.
LEMMA RegistryStep == RegistrySound /\ [RegistryNext]_reg => RegistrySound'
<1> SUFFICES ASSUME RegistrySound, [RegistryNext]_reg
             PROVE  RegistrySound'
  BY DEF RegistrySound
<1>1. CASE UNCHANGED reg
  BY <1>1 DEF RegistrySound, RegistryTypeOK, Governed, CountExact, NoMarketBricked, FeesAccounted,
              Live, MarketAt, HasVault
<1>2. ASSUME NEW w \in Wallets, NEW g \in Wallets, NEW fee \in Fee, Initialize(w, g, fee)
      PROVE  RegistrySound'
  BY <1>2, InitializeSound
<1>3. ASSUME NEW a \in Wallets, NEW w \in Wallets, AddAdmin(a, w) \/ RemoveAdmin(a, w)
      PROVE  RegistrySound'
  BY <1>3, AdminsSound
<1>4. ASSUME NEW a \in Wallets,
             \/ \E share \in Shares : SetRegistryDefaults(a, share)
             \/ \E fee \in Fee : SetDefaultFeeConfig(a, fee)
             \/ \E fee \in Fee, p \in Pairs : SetMarketFeeConfig(a, p, fee)
      PROVE  RegistrySound'
  BY <1>4, SettingsSound
<1>5. ASSUME NEW w \in Wallets, NEW p \in Pairs,
             CreateMarket(w, p) \/ \E o \in Wallets \cup {Absent} : AdmitVault(w, p, o)
      PROVE  RegistrySound'
  BY <1>5, CreateMarketSound, AdmitVaultSound
<1>6. ASSUME NEW p \in Pairs,
             \/ DepositorComes(p) \/ VaultEnds(p) \/ DepositorLeaves(p)
             \/ \E a \in Wallets : CloseMarketTreasury(a, p)
      PROVE  RegistrySound'
  BY <1>6, MarketCountersSound
<1>7. ASSUME NEW a \in Wallets,
             \/ \E p \in Pairs : CloseMarket(a, p)
             \/ \E m \in Mints : CloseRegistryFeeVault(a, m)
             \/ CloseRegistry(a)
      PROVE  RegistrySound'
  BY <1>7, CloseMarketSound, CloseFeeVaultSound, CloseRegistrySound
<1>8. QED
  BY <1>1, <1>2, <1>3, <1>4, <1>5, <1>6, <1>7 DEF RegistryNext

\* In every run, for any number of wallets, pairs and mints: an open registry has an
\* administrator, each once; no market outlives it; the counter close_registry asks instead
\* of enumerating markets is exact; the fee vault every market's create_vault must name
\* exists; and every fee charged is in the vault of its mint.
THEOREM RegistryIsSound == RegistrySpec => []RegistrySound
<1>1. RegistryInit => RegistrySound
  <2> SUFFICES ASSUME RegistryInit
               PROVE  RegistrySound
    OBVIOUS
  <2>1. <<>> \in Seq(Wallets) /\ 0 \in 0 .. PPM
    BY AmountAssumption
  <2>2. RegistryTypeOK
    BY <2>1 DEF RegistryInit, RegistryTypeOK
  <2>3. \A p \in Pairs : ~Live(p)
    BY DEF RegistryInit, Live, MarketAt
  <2>4. Governed
    BY <2>3 DEF RegistryInit, Governed
  <2>5. CountExact
    <3>1. {p \in Pairs : Live(p)} = {} /\ reg.count = 0
      BY <2>3 DEF RegistryInit
    <3>2. QED
      BY <3>1, FS_EmptySet DEF CountExact
  <2>6. NoMarketBricked /\ FeesAccounted
    BY <2>3 DEF RegistryInit, NoMarketBricked, FeesAccounted, HasVault
  <2>7. QED
    BY <2>2, <2>4, <2>5, <2>6 DEF RegistrySound
<1>2. RegistrySound /\ [RegistryNext]_reg => RegistrySound'
  BY RegistryStep
<1>3. QED
  BY <1>1, <1>2, PTL DEF RegistrySpec

------------------------------------------------------------------------------
(* VaultList: the order its pointers spell out.                             *)

\* A sequence of sectors that the next pointers of n thread from the head h.
Threads(q, n, h) ==
    /\ h = IF q = <<>> THEN Null ELSE q[1]
    /\ \A i \in DOMAIN q : n[q[i]].next = IF i < Len(q) THEN q[i + 1] ELSE Null

\* The prev pointers say the same, backwards.
ThreadsBack(q, n) == \A i \in DOMAIN q : n[q[i]].prev = IF i = 1 THEN Null ELSE q[i - 1]

\* No sector is on two lists, or twice on one.
Apart(o) ==
    \A l, k \in DllList : \A i \in DOMAIN o[l], j \in DOMAIN o[k] :
       o[l][i] = o[k][j] => l = k /\ i = j

\* The sectors of a slab of length m, and what its lists may spell.
Slots(m)  == 0 .. m - 1
Orders(m) == [DllList -> Seq(Slots(m))]

\* The slab of length m is shared out.
Covers(o, m) ==
    /\ \A s \in Slots(m) : \E l \in DllList : \E i \in DOMAIN o[l] : o[l][i] = s
    /\ Len(o["active"]) + Len(o["tombstone"]) + Len(o["free"]) = m

\* Sectors of the two lists of vaults have leaders; others have none.
Led(o, n, m) ==
    /\ \A l \in DllList : \A i \in DOMAIN o[l] : n[o[l][i]].led = (l # "free")
    /\ \A s \in Sectors : s >= m => ~n[s].led
    /\ \A i \in DOMAIN o["tombstone"] : n[o["tombstone"][i]].tombstoned

Spells(o, n, h, m) ==
    /\ o \in Orders(m) /\ Apart(o) /\ Covers(o, m) /\ Led(o, n, m)
    /\ \A l \in DllList : Threads(o[l], n, h[l])
    /\ ThreadsBack(o["active"], n) /\ ThreadsBack(o["tombstone"], n)

ListsInv == WellTyped /\ \E o \in Orders(len) : Spells(o, node, head, len) /\ activeCount = Len(o["active"])

------------------------------------------------------------------------------
(* Walks.                                                                   *)

Steps(q) == [k \in 0 .. MaxSectors |-> IF k < Len(q) THEN q[k + 1] ELSE Null]

\* A walk goes from the head on, one next pointer at a time.
LEMMA WalkUnfolds ==
    ASSUME NEW l, NEW g, g = [k \in 0 .. MaxSectors |-> IF k = 0 THEN head[l]
            ELSE IF g[k - 1] = Null THEN Null ELSE node[g[k - 1]].next]
    PROVE  Walk(l) = [k \in 0 .. MaxSectors |-> IF k = 0 THEN head[l]
            ELSE IF Walk(l)[k - 1] = Null THEN Null ELSE node[Walk(l)[k - 1]].next]
  BY DEF Walk, After

\* The walk of a list is the sequence its pointers spell, and Null from its end on.
LEMMA WalkIs ==
    ASSUME NEW l, NEW q \in Seq(Sectors), Threads(q, node, head[l])
    PROVE  Walk(l) = Steps(q)
<1> DEFINE g == Steps(q)
           W == Walk(l)
<1>1. Len(q) \in Nat /\ DOMAIN q = 1 .. Len(q) /\ MaxSectors \in Nat
  BY SlabAssumption
<1>2. \A i \in DOMAIN q : q[i] # Null
  BY NullAssumption
<1>3. \A k \in 0 .. MaxSectors :
         g[k] = IF k = 0 THEN head[l] ELSE IF g[k - 1] = Null THEN Null ELSE node[g[k - 1]].next
  <2>1. ASSUME NEW k \in 0 .. MaxSectors
        PROVE  g[k] = IF k = 0 THEN head[l] ELSE IF g[k - 1] = Null THEN Null ELSE node[g[k - 1]].next
    <3>1. CASE k = 0
      <4>1. g[0] = IF 0 < Len(q) THEN q[1] ELSE Null
        BY <1>1, <2>1, <3>1 DEF Steps
      <4>2. q = <<>> <=> ~(0 < Len(q))
        BY <1>1
      <4>3. QED
        BY <3>1, <4>1, <4>2 DEF Threads
    <3>2. CASE k # 0 /\ k - 1 < Len(q)
      <4>1. k - 1 \in 0 .. MaxSectors /\ k \in DOMAIN q /\ g[k - 1] = q[k]
        BY <1>1, <2>1, <3>2 DEF Steps
      <4>2. node[q[k]].next = IF k < Len(q) THEN q[k + 1] ELSE Null
        BY <4>1 DEF Threads
      <4>3. QED
        BY <1>2, <2>1, <3>2, <4>1, <4>2 DEF Steps
    <3>3. CASE k # 0 /\ ~(k - 1 < Len(q))
      <4>1. k - 1 \in 0 .. MaxSectors /\ ~(k < Len(q))
        BY <1>1, <2>1, <3>3
      <4>2. g[k - 1] = Null /\ g[k] = Null
        BY <2>1, <3>3, <4>1 DEF Steps
      <4>3. QED
        BY <3>3, <4>2
    <3>4. QED
      BY <3>1, <3>2, <3>3
  <2>2. QED
    BY <2>1
<1>4. g = [k \in 0 .. MaxSectors |-> IF k = 0 THEN head[l]
             ELSE IF g[k - 1] = Null THEN Null ELSE node[g[k - 1]].next]
  BY <1>3 DEF Steps
<1> HIDE DEF g
<1>5. W = [k \in 0 .. MaxSectors |-> IF k = 0 THEN head[l]
             ELSE IF W[k - 1] = Null THEN Null ELSE node[W[k - 1]].next]
  BY ZenonT(30), <1>4, WalkUnfolds
<1> HIDE DEF W
<1>6. \A k \in 0 .. MaxSectors : W[k] = g[k]
  <2> DEFINE T == {k \in 0 .. MaxSectors : W[k] # g[k]}
  <2>1. SUFFICES ASSUME T # {}
                 PROVE  FALSE
    BY Zenon
  <2>2. T \subseteq Nat
    BY <1>1
  <2>3. PICK x \in T : \A y \in T : ~(<<y, x>> \in OpToRel(<, Nat))
    BY <2>1, <2>2, NatLessThanWellFounded, WFMin
  <2>4. x \in 0 .. MaxSectors /\ W[x] # g[x]
    BY <2>3
  <2>5. W[x] = IF x = 0 THEN head[l] ELSE IF W[x - 1] = Null THEN Null ELSE node[W[x - 1]].next
    BY <1>5, <2>4
  <2>6. x # 0
    BY <1>3, <2>4, <2>5
  <2>7. x - 1 \in 0 .. MaxSectors /\ x - 1 < x /\ x \in Nat /\ x - 1 \in Nat
    BY <1>1, <2>4, <2>6
  <2>8. ~(x - 1 \in T)
    BY <2>3, <2>7 DEF OpToRel
  <2>9. W[x - 1] = g[x - 1]
    BY <2>7, <2>8
  <2>10. QED
    BY <1>3, <2>4, <2>5, <2>9
<1>7. g = [k \in 0 .. MaxSectors |-> g[k]]
  BY DEF g, Steps
<1>8. W = [k \in 0 .. MaxSectors |-> W[k]]
  BY <1>5
<1>9. W = g
  BY <1>6, <1>7, <1>8
<1>10. QED
  BY <1>9 DEF W, g

\* Its members are the sectors of that sequence.
LEMMA MembersAre ==
    ASSUME NEW l, NEW q \in Seq(Sectors), Threads(q, node, head[l]), Len(q) <= MaxSectors
    PROVE  /\ Members(l) = {q[i] : i \in DOMAIN q}
           /\ Walk(l)[MaxSectors] = Null
<1>1. Len(q) \in Nat /\ DOMAIN q = 1 .. Len(q) /\ MaxSectors \in Nat
  BY SlabAssumption
<1>2. \A i \in DOMAIN q : q[i] # Null
  BY NullAssumption
<1>3. \A k \in 0 .. MaxSectors : Walk(l)[k] = IF k < Len(q) THEN q[k + 1] ELSE Null
  BY WalkIs DEF Steps
<1>4. ASSUME NEW s \in Members(l)
      PROVE  s \in {q[i] : i \in DOMAIN q}
  <2>1. PICK k \in 0 .. MaxSectors : s = Walk(l)[k] /\ s # Null
    BY <1>4 DEF Members
  <2>2. k < Len(q) /\ s = q[k + 1] /\ k + 1 \in DOMAIN q
    BY <1>1, <1>3, <2>1
  <2>3. QED
    BY <2>2
<1>5. ASSUME NEW i \in DOMAIN q
      PROVE  q[i] \in Members(l)
  <2>1. i - 1 \in 0 .. MaxSectors /\ i - 1 < Len(q) /\ (i - 1) + 1 = i
    BY <1>1
  <2>2. Walk(l)[i - 1] = q[i]
    BY <1>3, <2>1
  <2>3. QED
    BY <1>2, <2>1, <2>2 DEF Members
<1>6. Walk(l)[MaxSectors] = Null
  BY <1>1, <1>3
<1>7. QED
  BY <1>4, <1>5, <1>6

------------------------------------------------------------------------------
(* Pointer surgery.                                                         *)

Nodes == [Sectors -> [next : Link, prev : Link, led : BOOLEAN, tombstoned : BOOLEAN]]
Heads == [DllList -> Link]

\* Nothing but pointers differs between two states of the nodes.
OnlyPointers(n, n2) ==
    \A x \in Sectors : n2[x].led = n[x].led /\ n2[x].tombstoned = n[x].tombstoned

\* What linking a sector at a head does to each pointer.
LEMMA LinkHeadEffect ==
    ASSUME NEW m, m.node \in Nodes, m.head \in Heads, NEW l \in DllList, NEW s \in Sectors,
           m.head[l] # s
    PROVE  /\ LinkHead(m, l, s).node \in Nodes
           /\ LinkHead(m, l, s).head = [m.head EXCEPT ![l] = s]
           /\ LinkHead(m, l, s).head \in Heads
           /\ OnlyPointers(m.node, LinkHead(m, l, s).node)
           /\ LinkHead(m, l, s).node[s].next = m.head[l]
           /\ LinkHead(m, l, s).node[s].prev = Null
           /\ \A x \in Sectors : x # s =>
                 /\ LinkHead(m, l, s).node[x].next = m.node[x].next
                 /\ LinkHead(m, l, s).node[x].prev = IF x = m.head[l] THEN s ELSE m.node[x].prev
<1> DEFINE n == m.node
           n1 == [n EXCEPT ![s].next = m.head[l], ![s].prev = Null]
           n2 == SetPrev(n1, m.head[l], s)
<1>1. LinkHead(m, l, s).node = n2 /\ LinkHead(m, l, s).head = [m.head EXCEPT ![l] = s]
  BY DEF LinkHead
<1>2. m.head[l] \in Link /\ Null \in Link /\ s \in Link /\ Null \notin Sectors
  BY NullAssumption DEF Heads, Link
<1>3. /\ n1 \in Nodes
      /\ \A x \in Sectors : x # s => n1[x] = n[x]
      /\ n1[s].next = m.head[l] /\ n1[s].prev = Null
      /\ n1[s].led = n[s].led /\ n1[s].tombstoned = n[s].tombstoned
  BY <1>2 DEF Nodes
<1> HIDE DEF n1
<1>4. CASE m.head[l] = Null
  <2>1. n2 = n1
    BY <1>4 DEF SetPrev
  <2>2. \A x \in Sectors : x # m.head[l]
    BY <1>2, <1>4
  <2>3. OnlyPointers(n, n1)
    BY <1>3 DEF OnlyPointers
  <2> HIDE DEF n2
  <2>4. QED
    BY <1>1, <1>2, <1>3, <2>1, <2>2, <2>3 DEF Heads
<1>5. CASE m.head[l] # Null
  <2>1. n2 = [n1 EXCEPT ![m.head[l]].prev = s] /\ m.head[l] \in Sectors
    BY <1>2, <1>5 DEF SetPrev, Link
  <2>2. /\ n2 \in Nodes
        /\ \A x \in Sectors : /\ n2[x].next = n1[x].next
                              /\ n2[x].led = n1[x].led
                              /\ n2[x].tombstoned = n1[x].tombstoned
                              /\ n2[x].prev = IF x = m.head[l] THEN s ELSE n1[x].prev
    BY <1>2, <1>3, <2>1 DEF Nodes
  <2> HIDE DEF n2
  <2>3. OnlyPointers(n, n2)
    BY <1>3, <2>2 DEF OnlyPointers
  <2>4. QED
    BY <1>1, <1>2, <1>3, <2>2, <2>3 DEF Heads
<1>6. QED
  BY <1>4, <1>5

\* What unlinking a sector does: it comes out detached, its neighbours meet.
LEMMA UnlinkEffect ==
    ASSUME NEW m, m.node \in Nodes, m.head \in Heads, NEW l \in DllList, NEW s \in Sectors,
           m.node[s].next # s, m.node[s].prev # s
    PROVE  /\ Unlink(m, l, s).node \in Nodes
           /\ Unlink(m, l, s).head \in Heads
           /\ Unlink(m, l, s).head =
                 [m.head EXCEPT ![l] = IF m.node[s].prev = Null THEN m.node[s].next ELSE @]
           /\ OnlyPointers(m.node, Unlink(m, l, s).node)
           /\ Unlink(m, l, s).node[s].next = Null
           /\ Unlink(m, l, s).node[s].prev = Null
           /\ \A x \in Sectors : x # s =>
                 /\ Unlink(m, l, s).node[x].next =
                       IF x = m.node[s].prev THEN m.node[s].next ELSE m.node[x].next
                 /\ Unlink(m, l, s).node[x].prev =
                       IF x = m.node[s].next THEN m.node[s].prev ELSE m.node[x].prev
<1> DEFINE n == m.node
           a == m.node[s].prev
           b == m.node[s].next
           n1 == SetNext(n, a, b)
           n2 == SetPrev(n1, b, a)
           n3 == [n2 EXCEPT ![s].next = Null, ![s].prev = Null]
<1>1. /\ Unlink(m, l, s).node = n3
      /\ Unlink(m, l, s).head = IF a = Null THEN [m.head EXCEPT ![l] = b] ELSE m.head
  BY DEF Unlink, NodesAfterUnlink, HeadAfterUnlink
<1>2. a \in Link /\ b \in Link /\ Null \in Link /\ Null \notin Sectors /\ Link = Sectors \cup {Null}
  BY NullAssumption DEF Nodes, Link
<1>3. /\ n1 \in Nodes
      /\ \A x \in Sectors : /\ n1[x].prev = n[x].prev
                            /\ n1[x].led = n[x].led
                            /\ n1[x].tombstoned = n[x].tombstoned
                            /\ n1[x].next = IF x = a THEN b ELSE n[x].next
  <2> HIDE DEF b
  <2>1. CASE a = Null
    BY <1>2, <2>1 DEF SetNext
  <2>2. CASE a # Null
    <3>1. n1 = [n EXCEPT ![a].next = b] /\ a \in Sectors
      BY <1>2, <2>2 DEF SetNext
    <3> HIDE DEF n1
    <3>2. QED
      BY <1>2, <3>1 DEF Nodes
  <2>3. QED
    BY <2>1, <2>2
<1> HIDE DEF n1
<1>4. /\ n2 \in Nodes
      /\ \A x \in Sectors : /\ n2[x].next = n1[x].next
                            /\ n2[x].led = n1[x].led
                            /\ n2[x].tombstoned = n1[x].tombstoned
                            /\ n2[x].prev = IF x = b THEN a ELSE n1[x].prev
  <2> HIDE DEF a
  <2>1. CASE b = Null
    BY <1>2, <1>3, <2>1 DEF SetPrev
  <2>2. CASE b # Null
    <3>1. n2 = [n1 EXCEPT ![b].prev = a] /\ b \in Sectors
      BY <1>2, <2>2 DEF SetPrev
    <3> HIDE DEF n2
    <3>2. QED
      BY <1>2, <1>3, <3>1 DEF Nodes
  <2>3. QED
    BY <2>1, <2>2
<1> HIDE DEF n2
<1>5. /\ n3 \in Nodes
      /\ \A x \in Sectors : x # s => n3[x] = n2[x]
      /\ n3[s].next = Null /\ n3[s].prev = Null
      /\ n3[s].led = n2[s].led /\ n3[s].tombstoned = n2[s].tombstoned
  <2>1. n2 \in Nodes /\ Null \in Link
    BY <1>2, <1>4
  <2>2. QED
    BY <2>1 DEF Nodes
<1> HIDE DEF n3
<1>6. OnlyPointers(n, n3)
  BY <1>3, <1>4, <1>5 DEF OnlyPointers
<1>7. /\ [m.head EXCEPT ![l] = IF a = Null THEN b ELSE @]
           = IF a = Null THEN [m.head EXCEPT ![l] = b] ELSE m.head
      /\ (IF a = Null THEN [m.head EXCEPT ![l] = b] ELSE m.head) \in Heads
  <2> HIDE DEF a, b
  <2>1. QED
    BY <1>2 DEF Heads
<1>8. \A x \in Sectors : x # s =>
         /\ n3[x].next = IF x = a THEN b ELSE n[x].next
         /\ n3[x].prev = IF x = b THEN a ELSE n[x].prev
  BY <1>3, <1>4, <1>5
<1>9. QED
  BY <1>1, <1>5, <1>6, <1>7, <1>8

------------------------------------------------------------------------------
(* What surgery does to the order a list spells.                            *)

Pushed(s, q) == <<s>> \o q
Without(q, i) == [j \in 1 .. Len(q) - 1 |-> IF j < i THEN q[j] ELSE q[j + 1]]

\* A sequence with an element before it.
LEMMA PushedIs ==
    ASSUME NEW S, NEW q \in Seq(S), NEW s \in S
    PROVE  /\ Pushed(s, q) \in Seq(S)
           /\ Len(Pushed(s, q)) = Len(q) + 1
           /\ DOMAIN Pushed(s, q) = 1 .. Len(q) + 1
           /\ Pushed(s, q)[1] = s
           /\ \A i \in DOMAIN q : Pushed(s, q)[i + 1] = q[i]
           /\ \A i \in DOMAIN Pushed(s, q) :
                 i = 1 \/ (i - 1 \in DOMAIN q /\ Pushed(s, q)[i] = q[i - 1])
  BY DEF Pushed

\* A sequence with an element taken out.
LEMMA WithoutIs ==
    ASSUME NEW S, NEW q \in Seq(S), NEW i \in DOMAIN q
    PROVE  /\ Without(q, i) \in Seq(S)
           /\ Len(Without(q, i)) = Len(q) - 1
           /\ DOMAIN Without(q, i) = 1 .. Len(q) - 1
           /\ \A j \in DOMAIN Without(q, i) :
                 /\ j \in DOMAIN q /\ j + 1 \in DOMAIN q
                 /\ Without(q, i)[j] = IF j < i THEN q[j] ELSE q[j + 1]
<1>1. Len(q) \in Nat /\ DOMAIN q = 1 .. Len(q) /\ i \in 1 .. Len(q) /\ Len(q) - 1 \in Nat
  OBVIOUS
<1>2. \A j \in 1 .. Len(q) - 1 : q[j] \in S /\ q[j + 1] \in S
  BY <1>1
<1> DEFINE p == Without(q, i)
           D == 1 .. Len(q) - 1
<1>3. p = [j \in D |-> IF j < i THEN q[j] ELSE q[j + 1]]
  BY DEF Without
<1>4. \A j \in D : (IF j < i THEN q[j] ELSE q[j + 1]) \in S
  BY <1>2
<1>5. p \in [D -> S] /\ \A j \in D : p[j] = IF j < i THEN q[j] ELSE q[j + 1]
  <2> HIDE DEF D, p
  <2>1. QED
    BY <1>3, <1>4
<1> HIDE DEF p
<1>6. p \in Seq(S) /\ Len(p) = Len(q) - 1 /\ DOMAIN p = 1 .. Len(q) - 1
  <2>1. PICK k \in Nat : k = Len(q) - 1
    BY <1>1
  <2>2. p \in [1 .. k -> S]
    BY <1>5, <2>1
  <2>3. p \in Seq(S) /\ Len(p) = k /\ DOMAIN p = 1 .. k
    BY <2>2
  <2>4. QED
    BY <2>1, <2>3
<1>7. QED
  BY <1>1, <1>5, <1>6 DEF p

Distinct(q) == \A i, j \in DOMAIN q : q[i] = q[j] => i = j

\* Linked at its head, a list spells the sector and then what it spelled before.
LEMMA PushThreads ==
    ASSUME NEW q \in Seq(Sectors), NEW s \in Sectors, NEW n, NEW h, Threads(q, n, h),
           NEW n2, n2[s].next = h,
           \A i \in DOMAIN q : n2[q[i]].next = n[q[i]].next
    PROVE  Threads(Pushed(s, q), n2, s)
<1> DEFINE p == Pushed(s, q)
<1>1. /\ p \in Seq(Sectors) /\ Len(p) = Len(q) + 1 /\ DOMAIN p = 1 .. Len(q) + 1 /\ p[1] = s
      /\ \A i \in DOMAIN q : p[i + 1] = q[i]
  BY PushedIs
<1>2. Len(q) \in Nat /\ DOMAIN q = 1 .. Len(q)
  OBVIOUS
<1> HIDE DEF p
<1>3. ASSUME NEW i \in DOMAIN p
      PROVE  n2[p[i]].next = IF i < Len(p) THEN p[i + 1] ELSE Null
  <2>1. CASE i = 1
    <3>1. CASE q = <<>>
      BY <1>1, <2>1, <3>1 DEF Threads
    <3>2. CASE q # <<>>
      <4>1. 1 \in DOMAIN q /\ 1 < Len(p) /\ h = q[1]
        BY <1>1, <1>2, <3>2 DEF Threads
      <4>2. p[1 + 1] = q[1]
        BY <1>1, <4>1
      <4>3. QED
        BY <1>1, <2>1, <4>1, <4>2
    <3>3. QED
      BY <3>1, <3>2
  <2>2. CASE i # 1
    <3>1. /\ i - 1 \in DOMAIN q /\ (i - 1) + 1 = i /\ (i < Len(p) <=> i - 1 < Len(q))
          /\ (i < Len(p) => i \in DOMAIN q)
      BY <1>1, <1>2, <2>2
    <3>2. p[i] = q[i - 1]
      BY <1>1, <3>1
    <3>3. n[q[i - 1]].next = IF i - 1 < Len(q) THEN q[i] ELSE Null
      BY <3>1 DEF Threads
    <3>4. i < Len(p) => p[i + 1] = q[i]
      BY <1>1, <3>1
    <3>5. QED
      BY <3>1, <3>2, <3>3, <3>4
  <2>3. QED
    BY <2>1, <2>2
<1>4. p # <<>>
  BY <1>1, <1>2
<1>5. QED
  BY <1>1, <1>3, <1>4 DEF Threads, p

\* And backwards: the old head now points back to the new one.
LEMMA PushThreadsBack ==
    ASSUME NEW q \in Seq(Sectors), NEW s \in Sectors, NEW n, ThreadsBack(q, n),
           NEW n2, n2[s].prev = Null,
           \A i \in DOMAIN q : n2[q[i]].prev = IF i = 1 THEN s ELSE n[q[i]].prev
    PROVE  ThreadsBack(Pushed(s, q), n2)
<1> DEFINE p == Pushed(s, q)
<1>1. /\ p \in Seq(Sectors) /\ Len(p) = Len(q) + 1 /\ DOMAIN p = 1 .. Len(q) + 1 /\ p[1] = s
      /\ \A i \in DOMAIN q : p[i + 1] = q[i]
  BY PushedIs
<1>2. Len(q) \in Nat /\ DOMAIN q = 1 .. Len(q)
  OBVIOUS
<1> HIDE DEF p
<1>3. ASSUME NEW i \in DOMAIN p
      PROVE  n2[p[i]].prev = IF i = 1 THEN Null ELSE p[i - 1]
  <2>1. CASE i = 1
    BY <1>1, <2>1
  <2>2. CASE i # 1
    <3>1. i - 1 \in DOMAIN q /\ (i - 1) + 1 = i
      BY <1>1, <1>2, <2>2
    <3>2. p[i] = q[i - 1]
      BY <1>1, <3>1
    <3>3. CASE i - 1 = 1
      BY <1>1, <2>2, <3>1, <3>2, <3>3
    <3>4. CASE i - 1 # 1
      <4>1. i - 2 \in DOMAIN q /\ (i - 2) + 1 = i - 1 /\ (i - 1) - 1 = i - 2
        BY <1>2, <3>1, <3>4
      <4>2. p[i - 1] = q[i - 2]
        BY <1>1, <4>1
      <4>3. n[q[i - 1]].prev = q[i - 2]
        BY <3>1, <3>4, <4>1 DEF ThreadsBack
      <4>4. QED
        BY <2>2, <3>1, <3>2, <3>4, <4>2, <4>3
    <3>5. QED
      BY <3>3, <3>4
  <2>3. QED
    BY <2>1, <2>2
<1>4. QED
  BY <1>3 DEF ThreadsBack, p

\* Unlinked, a list spells what it spelled without the sector.
LEMMA WithoutThreads ==
    ASSUME NEW q \in Seq(Sectors), NEW i \in DOMAIN q, Distinct(q), NEW n, NEW h,
           Threads(q, n, h), ThreadsBack(q, n), NEW n2,
           \A j \in DOMAIN q : j # i =>
              n2[q[j]].next = IF q[j] = n[q[i]].prev THEN n[q[i]].next ELSE n[q[j]].next
    PROVE  Threads(Without(q, i), n2, IF n[q[i]].prev = Null THEN n[q[i]].next ELSE h)
<1> DEFINE p == Without(q, i)
           a == n[q[i]].prev
           b == n[q[i]].next
<1>1. /\ p \in Seq(Sectors) /\ Len(p) = Len(q) - 1 /\ DOMAIN p = 1 .. Len(q) - 1
      /\ \A j \in DOMAIN p : /\ j \in DOMAIN q /\ j + 1 \in DOMAIN q
                             /\ p[j] = IF j < i THEN q[j] ELSE q[j + 1]
  BY WithoutIs
<1>2. Len(q) \in Nat /\ DOMAIN q = 1 .. Len(q) /\ i \in 1 .. Len(q)
  OBVIOUS
<1>3. \A j \in DOMAIN q : q[j] # Null
  BY NullAssumption
<1>4. /\ a = IF i = 1 THEN Null ELSE q[i - 1]
      /\ b = IF i < Len(q) THEN q[i + 1] ELSE Null
  BY DEF Threads, ThreadsBack
<1>5. i # 1 => i - 1 \in DOMAIN q
  BY <1>2
<1> HIDE DEF p, a, b
<1>6. ASSUME NEW j \in DOMAIN p
      PROVE  n2[p[j]].next = IF j < Len(p) THEN p[j + 1] ELSE Null
  <2>1. CASE j < i - 1
    <3>1. j \in DOMAIN q /\ j # i /\ i # 1 /\ j # i - 1 /\ p[j] = q[j] /\ j < Len(p) /\ j < Len(q)
      BY <1>1, <1>2, <1>6, <2>1
    <3>2. j + 1 \in DOMAIN p /\ j + 1 < i
      BY <1>1, <1>2, <3>1, <2>1
    <3>3. p[j + 1] = q[j + 1]
      BY <1>1, <3>2
    <3>4. q[j] # a
      BY <1>4, <1>5, <3>1 DEF Distinct
    <3>5. n2[q[j]].next = n[q[j]].next
      BY <3>1, <3>4 DEF a
    <3>6. QED
      BY <3>1, <3>3, <3>5 DEF Threads
  <2>2. CASE j = i - 1
    <3>1. j \in DOMAIN q /\ j # i /\ i # 1 /\ p[j] = q[j] /\ a = q[j]
      BY <1>1, <1>2, <1>4, <1>6, <2>2
    <3>2. n2[q[j]].next = b
      BY <3>1 DEF a, b
    <3>3. CASE i < Len(q)
      <4>1. j + 1 \in DOMAIN p /\ ~(j + 1 < i) /\ (j + 1) + 1 = i + 1 /\ j < Len(p)
        BY <1>1, <1>2, <2>2, <3>1, <3>3
      <4>2. p[j + 1] = q[i + 1]
        BY <1>1, <4>1
      <4>3. QED
        BY <1>4, <3>1, <3>2, <3>3, <4>1, <4>2
    <3>4. CASE ~(i < Len(q))
      <4>1. ~(j < Len(p))
        BY <1>1, <1>2, <2>2, <3>4
      <4>2. QED
        BY <1>4, <3>1, <3>2, <3>4, <4>1
    <3>5. QED
      BY <3>3, <3>4
  <2>3. CASE j >= i
    <3>1. j + 1 \in DOMAIN q /\ j + 1 # i /\ j + 1 # i - 1 /\ p[j] = q[j + 1]
      BY <1>1, <1>2, <1>6, <2>3
    <3>2. q[j + 1] # a
      BY <1>3, <1>4, <1>5, <3>1 DEF Distinct
    <3>3. n2[q[j + 1]].next = n[q[j + 1]].next
      BY <3>1, <3>2 DEF a
    <3>4. n[q[j + 1]].next = IF j + 1 < Len(q) THEN q[(j + 1) + 1] ELSE Null
      BY <3>1 DEF Threads
    <3>5. j < Len(p) <=> j + 1 < Len(q)
      BY <1>1, <1>2, <1>6
    <3>6. j < Len(p) => j + 1 \in DOMAIN p /\ ~(j + 1 < i)
      BY <1>1, <1>2, <1>6, <2>3
    <3>7. j < Len(p) => p[j + 1] = q[(j + 1) + 1]
      BY <1>1, <3>6
    <3>8. QED
      BY <3>1, <3>3, <3>4, <3>5, <3>7
  <2>4. QED
    BY <1>1, <1>2, <1>6, <2>1, <2>2, <2>3
<1>7. (IF a = Null THEN b ELSE h) = IF p = <<>> THEN Null ELSE p[1]
  <2>1. q # <<>> /\ h = q[1]
    BY <1>2 DEF Threads
  <2>2. CASE i = 1
    <3>1. CASE Len(q) = 1
      BY <1>1, <1>4, <2>2, <3>1
    <3>2. CASE Len(q) # 1
      <4>1. 1 \in DOMAIN p /\ p # <<>> /\ 1 < Len(q)
        BY <1>1, <1>2, <3>2
      <4>2. p[1] = q[2]
        BY <1>1, <2>2, <4>1
      <4>3. QED
        BY <1>4, <2>2, <4>1, <4>2
    <3>3. QED
      BY <3>1, <3>2
  <2>3. CASE i # 1
    <3>1. 1 \in DOMAIN p /\ p # <<>> /\ 1 < i
      BY <1>1, <1>2, <2>3
    <3>2. p[1] = q[1]
      BY <1>1, <3>1
    <3>3. a # Null
      BY <1>3, <1>4, <1>5, <2>3
    <3>4. QED
      BY <2>1, <3>1, <3>2, <3>3
  <2>4. QED
    BY <2>2, <2>3
<1>8. QED
  BY <1>6, <1>7 DEF Threads, p, a, b

\* And backwards: the neighbours of the one taken out point past it.
LEMMA WithoutThreadsBack ==
    ASSUME NEW q \in Seq(Sectors), NEW i \in DOMAIN q, Distinct(q), NEW n, NEW h,
           Threads(q, n, h), ThreadsBack(q, n), NEW n2,
           \A j \in DOMAIN q : j # i =>
              n2[q[j]].prev = IF q[j] = n[q[i]].next THEN n[q[i]].prev ELSE n[q[j]].prev
    PROVE  ThreadsBack(Without(q, i), n2)
<1> DEFINE p == Without(q, i)
           a == n[q[i]].prev
           b == n[q[i]].next
<1>1. /\ p \in Seq(Sectors) /\ Len(p) = Len(q) - 1 /\ DOMAIN p = 1 .. Len(q) - 1
      /\ \A j \in DOMAIN p : /\ j \in DOMAIN q /\ j + 1 \in DOMAIN q
                             /\ p[j] = IF j < i THEN q[j] ELSE q[j + 1]
  BY WithoutIs
<1>2. Len(q) \in Nat /\ DOMAIN q = 1 .. Len(q) /\ i \in 1 .. Len(q)
  OBVIOUS
<1>3. \A j \in DOMAIN q : q[j] # Null
  BY NullAssumption
<1>4. /\ a = IF i = 1 THEN Null ELSE q[i - 1]
      /\ b = IF i < Len(q) THEN q[i + 1] ELSE Null
  BY DEF Threads, ThreadsBack
<1>5. i < Len(q) => i + 1 \in DOMAIN q
  BY <1>2
<1> HIDE DEF p, a, b
<1>6. ASSUME NEW j \in DOMAIN p
      PROVE  n2[p[j]].prev = IF j = 1 THEN Null ELSE p[j - 1]
  <2>1. CASE j < i
    <3>1. j \in DOMAIN q /\ j # i /\ p[j] = q[j] /\ j # i + 1
      BY <1>1, <1>2, <1>6, <2>1
    <3>2. q[j] # b
      BY <1>3, <1>4, <1>5, <3>1 DEF Distinct
    <3>3. n2[q[j]].prev = n[q[j]].prev
      BY <3>1, <3>2 DEF b
    <3>4. j # 1 => j - 1 \in DOMAIN p /\ j - 1 < i
      BY <1>1, <1>2, <1>6, <2>1
    <3>5. j # 1 => p[j - 1] = q[j - 1]
      BY <1>1, <3>4
    <3>6. QED
      BY <3>1, <3>3, <3>5 DEF ThreadsBack
  <2>2. CASE j = i
    <3>1. j + 1 \in DOMAIN q /\ j + 1 # i /\ i < Len(q) /\ p[j] = q[j + 1]
      BY <1>1, <1>2, <1>6, <2>2
    <3>2. b = q[j + 1]
      BY <1>4, <2>2, <3>1
    <3>3. n2[q[j + 1]].prev = a
      BY <3>1, <3>2 DEF a, b
    <3>4. j # 1 => j - 1 \in DOMAIN p /\ j - 1 < i
      BY <1>1, <1>2, <1>6, <2>2
    <3>5. j # 1 => p[j - 1] = q[i - 1]
      BY <1>1, <2>2, <3>4
    <3>6. QED
      BY <1>4, <2>2, <3>1, <3>3, <3>5
  <2>3. CASE j > i
    <3>1. j + 1 \in DOMAIN q /\ j + 1 # i /\ j + 1 # i + 1 /\ p[j] = q[j + 1] /\ j # 1
      BY <1>1, <1>2, <1>6, <2>3
    <3>2. q[j + 1] # b
      BY <1>3, <1>4, <1>5, <3>1 DEF Distinct
    <3>3. n2[q[j + 1]].prev = n[q[j + 1]].prev
      BY <3>1, <3>2 DEF b
    <3>4. n[q[j + 1]].prev = q[j]
      <4>1. j + 1 # 1 /\ (j + 1) - 1 = j
        BY <1>1, <1>6
      <4>2. QED
        BY <3>1, <4>1 DEF ThreadsBack
    <3>5. j - 1 \in DOMAIN p /\ ~(j - 1 < i) /\ (j - 1) + 1 = j
      BY <1>1, <1>2, <1>6, <2>3
    <3>6. p[j - 1] = q[j]
      BY <1>1, <3>5
    <3>7. QED
      BY <3>1, <3>3, <3>4, <3>6
  <2>4. QED
    BY <1>1, <1>2, <1>6, <2>1, <2>2, <2>3
<1>7. QED
  BY <1>6 DEF ThreadsBack, p

------------------------------------------------------------------------------
(* What surgery does to the three of them.                                  *)

Moved(o, l, i, k) == [o EXCEPT ![l] = Without(o[l], i), ![k] = Pushed(o[l][i], o[k])]

\* The members of an order.
LEMMA OrderFacts ==
    ASSUME NEW m \in Nat, NEW o \in Orders(m), Apart(o), Covers(o, m), NEW l \in DllList
    PROVE  /\ o[l] \in Seq(Slots(m)) /\ Len(o[l]) \in Nat /\ DOMAIN o[l] = 1 .. Len(o[l])
           /\ Len(o[l]) <= m
           /\ \A i \in DOMAIN o[l] : o[l][i] \in Slots(m)
           /\ Distinct(o[l])
           /\ m <= MaxSectors => o[l] \in Seq(Sectors) /\ \A i \in DOMAIN o[l] : o[l][i] \in Sectors
<1>1. o \in [DllList -> Seq(Slots(m))]
  BY DEF Orders
<1>2. \A k \in DllList : o[k] \in Seq(Slots(m)) /\ Len(o[k]) \in Nat
  BY <1>1
<1>3. "active" \in DllList /\ "tombstone" \in DllList /\ "free" \in DllList
  BY DEF DllList
<1>4. Len(o[l]) <= m
  <2>1. Len(o["active"]) \in Nat /\ Len(o["tombstone"]) \in Nat /\ Len(o["free"]) \in Nat
    BY <1>2, <1>3
  <2>2. l = "active" \/ l = "tombstone" \/ l = "free"
    BY DEF DllList
  <2> DEFINE a == Len(o["active"])
             b == Len(o["tombstone"])
             c == Len(o["free"])
  <2>3. a + b + c = m /\ (Len(o[l]) = a \/ Len(o[l]) = b \/ Len(o[l]) = c)
    BY <2>2 DEF Covers
  <2> HIDE DEF a, b, c
  <2>4. a \in Nat /\ b \in Nat /\ c \in Nat
    BY <2>1 DEF a, b, c
  <2>5. QED
    BY <2>3, <2>4
<1>5. Distinct(o[l])
  BY DEF Apart, Distinct
<1>6. ASSUME m <= MaxSectors
      PROVE  o[l] \in Seq(Sectors) /\ \A i \in DOMAIN o[l] : o[l][i] \in Sectors
  <2>1. Slots(m) \subseteq Sectors
    BY <1>6, SlabAssumption DEF Sectors, Slots
  <2>2. QED
    BY <1>2, <2>1
<1>7. \A i \in DOMAIN o[l] : o[l][i] \in Slots(m)
  BY <1>2
<1>8. DOMAIN o[l] = 1 .. Len(o[l])
  BY <1>2
<1>9. QED
  BY <1>2, <1>4, <1>5, <1>6, <1>7, <1>8

\* A sector that goes from one list to the head of another leaves the slab shared out.
LEMMA MovedShares ==
    ASSUME NEW m \in Nat, NEW o \in Orders(m), Apart(o), Covers(o, m),
           NEW l \in DllList, NEW k \in DllList, l # k, NEW i \in DOMAIN o[l]
    PROVE  /\ Moved(o, l, i, k) \in Orders(m)
           /\ Apart(Moved(o, l, i, k))
           /\ Covers(Moved(o, l, i, k), m)
           /\ Moved(o, l, i, k)[l] = Without(o[l], i)
           /\ Moved(o, l, i, k)[k] = Pushed(o[l][i], o[k])
           /\ \A x \in DllList : x \notin {l, k} => Moved(o, l, i, k)[x] = o[x]
<1> DEFINE o2 == Moved(o, l, i, k)
           q == o[l]
           p == o[k]
           s == q[i]
           w == Without(q, i)
           u == Pushed(s, p)
<1>1. /\ q \in Seq(Slots(m)) /\ Len(q) \in Nat /\ DOMAIN q = 1 .. Len(q)
      /\ p \in Seq(Slots(m)) /\ Len(p) \in Nat /\ DOMAIN p = 1 .. Len(p)
      /\ s \in Slots(m) /\ i \in DOMAIN q
  BY OrderFacts
<1>2. o \in [DllList -> Seq(Slots(m))]
  BY DEF Orders
<1> HIDE DEF q, p, s
<1>3. /\ w \in Seq(Slots(m)) /\ Len(w) = Len(q) - 1 /\ DOMAIN w = 1 .. Len(q) - 1
      /\ \A j \in DOMAIN w : /\ j \in DOMAIN q /\ j + 1 \in DOMAIN q
                             /\ w[j] = IF j < i THEN q[j] ELSE q[j + 1]
  BY <1>1, WithoutIs
<1>4. /\ u \in Seq(Slots(m)) /\ Len(u) = Len(p) + 1 /\ DOMAIN u = 1 .. Len(p) + 1 /\ u[1] = s
      /\ \A j \in DOMAIN p : u[j + 1] = p[j]
      /\ \A j \in DOMAIN u : j = 1 \/ (j - 1 \in DOMAIN p /\ u[j] = p[j - 1])
  <2>1. p \in Seq(Slots(m)) /\ s \in Slots(m)
    BY <1>1
  <2>3. /\ u \in Seq(Slots(m)) /\ Len(u) = Len(p) + 1 /\ DOMAIN u = 1 .. Len(p) + 1 /\ u[1] = s
        /\ \A j \in DOMAIN u : j = 1 \/ (j - 1 \in DOMAIN p /\ u[j] = p[j - 1])
    BY <2>1, PushedIs
  <2> HIDE DEF u
  <2>4. ASSUME NEW j \in DOMAIN p
        PROVE  u[j + 1] = p[j]
    <3>1. j + 1 \in DOMAIN u /\ j + 1 # 1 /\ (j + 1) - 1 = j
      BY <2>1, <2>3
    <3>2. QED
      BY <2>3, <3>1
  <2>5. QED
    BY <2>3, <2>4
<1> HIDE DEF w, u
<1>5. /\ o2 \in [DllList -> Seq(Slots(m))]
      /\ o2[l] = w /\ o2[k] = u
      /\ \A x \in DllList : x \notin {l, k} => o2[x] = o[x]
  <2>1. o2 = [o EXCEPT ![l] = w, ![k] = u]
    BY DEF Moved, w, u, q, p, s
  <2> HIDE DEF o2
  <2>2. QED
    BY <1>2, <1>3, <1>4, <2>1
<1> HIDE DEF o2
<1> DEFINE At(x, j) == IF x = l THEN l ELSE IF x = k /\ j = 1 THEN l ELSE x
           Pos(x, j) == IF x = l THEN (IF j < i THEN j ELSE j + 1)
                        ELSE IF x = k THEN (IF j = 1 THEN i ELSE j - 1) ELSE j
<1>6. i \in Nat /\ i \in 1 .. Len(q)
  BY <1>1 DEF q
<1>7. ASSUME NEW x \in DllList, NEW j \in DOMAIN o2[x]
      PROVE  /\ j \in Nat /\ j >= 1
             /\ At(x, j) \in DllList /\ Pos(x, j) \in DOMAIN o[At(x, j)]
             /\ Pos(x, j) \in Nat
             /\ o2[x][j] = o[At(x, j)][Pos(x, j)]
  <2>1. CASE x = l
    <3>1. j \in DOMAIN w /\ j \in Nat /\ j >= 1
      BY <1>1, <1>3, <1>5, <1>7, <2>1
    <3>2. w[j] = IF j < i THEN q[j] ELSE q[j + 1]
      BY <1>3, <3>1
    <3>3. j \in DOMAIN q /\ j + 1 \in DOMAIN q /\ j + 1 \in Nat
      BY <1>3, <3>1
    <3>4. At(x, j) = l /\ Pos(x, j) = IF j < i THEN j ELSE j + 1
      BY <2>1
    <3>5. o2[x] = w /\ o[l] = q
      BY <1>5, <2>1 DEF q
    <3> HIDE DEF At, Pos
    <3>6. QED
      BY <3>1, <3>2, <3>3, <3>4, <3>5
  <2>2. CASE x = k
    <3>1. j \in DOMAIN u /\ j \in Nat /\ j >= 1
      BY <1>1, <1>4, <1>5, <1>7, <2>2
    <3>2. CASE j = 1
      BY <1>4, <1>5, <1>6, <2>2, <3>1, <3>2 DEF q, s
    <3>3. CASE j # 1
      <4>1. j - 1 \in DOMAIN p /\ u[j] = p[j - 1] /\ j - 1 \in Nat
        BY <1>1, <1>4, <3>1, <3>3
      <4>2. QED
        BY <1>5, <2>2, <3>1, <3>3, <4>1 DEF p
    <3>4. QED
      BY <3>2, <3>3
  <2>3. CASE x # l /\ x # k
    <3>1. o2[x] = o[x] /\ o[x] \in Seq(Slots(m))
      BY <1>2, <1>5, <2>3
    <3>2. j \in Nat /\ j >= 1
      BY <1>7, <3>1
    <3>3. QED
      BY <1>7, <2>3, <3>1, <3>2
  <2>4. QED
    BY <2>1, <2>2, <2>3
<1>8. Apart(o2)
  <2>1. SUFFICES ASSUME NEW x \in DllList, NEW y \in DllList,
                        NEW a \in DOMAIN o2[x], NEW b \in DOMAIN o2[y], o2[x][a] = o2[y][b]
                 PROVE  x = y /\ a = b
    BY DEF Apart
  <2>2. /\ At(x, a) \in DllList /\ Pos(x, a) \in DOMAIN o[At(x, a)] /\ a \in Nat /\ a >= 1
        /\ At(y, b) \in DllList /\ Pos(y, b) \in DOMAIN o[At(y, b)] /\ b \in Nat /\ b >= 1
        /\ o[At(x, a)][Pos(x, a)] = o[At(y, b)][Pos(y, b)]
    <3>1. o2[x][a] = o[At(x, a)][Pos(x, a)] /\ o2[y][b] = o[At(y, b)][Pos(y, b)]
      BY <1>7
    <3>2. QED
      BY <1>7, <2>1, <3>1
  <2>3. At(x, a) = At(y, b) /\ Pos(x, a) = Pos(y, b)
    <3> HIDE DEF At, Pos
    <3>1. QED
      BY <2>2 DEF Apart
  <2>4. QED
    BY <1>6, <2>2, <2>3
<1>9. /\ Len(o2["active"]) + Len(o2["tombstone"]) + Len(o2["free"]) = m
  <2>1. Len(o2[l]) = Len(o[l]) - 1 /\ Len(o2[k]) = Len(o[k]) + 1
    BY <1>3, <1>4, <1>5 DEF q, p
  <2>2. \A x \in DllList : x \notin {l, k} => Len(o2[x]) = Len(o[x])
    BY <1>5
  <2>3. /\ Len(o["active"]) \in Nat /\ Len(o["tombstone"]) \in Nat /\ Len(o["free"]) \in Nat
        /\ l \in {"active", "tombstone", "free"} /\ k \in {"active", "tombstone", "free"}
    BY <1>2 DEF DllList
  <2>4. Len(o["active"]) + Len(o["tombstone"]) + Len(o["free"]) = m
    BY DEF Covers
  <2>5. \A x \in {"active", "tombstone", "free"} :
           Len(o2[x]) = IF x = l THEN Len(o[l]) - 1 ELSE IF x = k THEN Len(o[k]) + 1 ELSE Len(o[x])
    BY <2>1, <2>2 DEF DllList
  <2> DEFINE a == Len(o["active"])
             b == Len(o["tombstone"])
             c == Len(o["free"])
  <2>6. /\ Len(o2["active"]) = IF l = "active" THEN a - 1 ELSE IF k = "active" THEN a + 1 ELSE a
        /\ Len(o2["tombstone"])
             = IF l = "tombstone" THEN b - 1 ELSE IF k = "tombstone" THEN b + 1 ELSE b
        /\ Len(o2["free"]) = IF l = "free" THEN c - 1 ELSE IF k = "free" THEN c + 1 ELSE c
    BY <2>5
  <2>7. a \in Nat /\ b \in Nat /\ c \in Nat /\ a + b + c = m
    BY <2>3, <2>4
  <2> HIDE DEF a, b, c
  <2>8. QED
    BY <2>3, <2>6, <2>7
<1>10. ASSUME NEW t \in Slots(m)
       PROVE  \E x \in DllList : \E j \in DOMAIN o2[x] : o2[x][j] = t
  <2>0. PICK x \in DllList : \E j \in DOMAIN o[x] : o[x][j] = t
    BY DEF Covers
  <2>1. PICK j \in DOMAIN o[x] : o[x][j] = t
    BY <2>0
  <2>2. j \in Nat /\ j >= 1 /\ j <= Len(o[x])
    BY <1>2, <2>1
  <2>3. CASE x = l /\ j < i
    <3>1. j \in DOMAIN w
      BY <1>3, <1>6, <2>2, <2>3
    <3>2. w[j] = q[j]
      BY <1>3, <2>3, <3>1
    <3>3. QED
      BY <1>5, <2>1, <2>3, <3>1, <3>2 DEF q
  <2>4. CASE x = l /\ j = i
    <3>1. 1 \in DOMAIN u /\ u[1] = t
      BY <1>1, <1>4, <2>1, <2>4 DEF s, q
    <3>2. QED
      BY <1>5, <3>1
  <2>5. CASE x = l /\ j > i
    <3>1. j - 1 \in DOMAIN w /\ ~(j - 1 < i) /\ (j - 1) + 1 = j
      BY <1>3, <1>6, <2>2, <2>5 DEF q
    <3>2. w[j - 1] = q[j]
      BY <1>3, <3>1
    <3>3. QED
      BY <1>5, <2>1, <2>5, <3>1, <3>2 DEF q
  <2>6. CASE x = k
    <3>1. j \in DOMAIN p /\ j + 1 \in DOMAIN u
      BY <1>1, <1>4, <2>2, <2>6 DEF p
    <3>2. u[j + 1] = p[j]
      BY <1>4, <3>1
    <3>3. QED
      BY <1>5, <2>1, <2>6, <3>1, <3>2 DEF p
  <2>7. CASE x # l /\ x # k
    BY <1>5, <2>1, <2>7
  <2>8. QED
    BY <1>6, <2>2, <2>3, <2>4, <2>5, <2>6, <2>7
<1>11. QED
  <2>1. o2 \in Orders(m)
    BY <1>5 DEF Orders
  <2>2. Covers(o2, m)
    BY <1>9, <1>10 DEF Covers
  <2>3. QED
    BY <1>5, <1>8, <2>1, <2>2 DEF o2, w, u, q, p, s

\* So does a sector by which the slab grows.
LEMMA GrownShares ==
    ASSUME NEW m \in Nat, NEW o \in Orders(m), Apart(o), Covers(o, m), NEW k \in DllList
    PROVE  /\ [o EXCEPT ![k] = Pushed(m, @)] \in Orders(m + 1)
           /\ Apart([o EXCEPT ![k] = Pushed(m, @)])
           /\ Covers([o EXCEPT ![k] = Pushed(m, @)], m + 1)
<1> DEFINE o2 == [o EXCEPT ![k] = Pushed(m, @)]
           p == o[k]
           u == Pushed(m, p)
<1>1. \A x \in DllList : /\ o[x] \in Seq(Slots(m)) /\ Len(o[x]) \in Nat
                         /\ DOMAIN o[x] = 1 .. Len(o[x])
                         /\ \A j \in DOMAIN o[x] : o[x][j] \in Slots(m)
                         /\ m \notin Slots(m)
                         /\ o[x] \in Seq(Slots(m + 1))
  <2>1. Slots(m) \subseteq Slots(m + 1) /\ m \notin Slots(m)
    BY DEF Slots
  <2>2. QED
    BY <2>1, OrderFacts
<1>2. m \in Slots(m + 1) /\ o \in [DllList -> Seq(Slots(m + 1))]
  <2>1. m \in Slots(m + 1)
    BY DEF Slots
  <2>2. QED
    BY <1>1, <2>1 DEF Orders
<1>3. /\ u \in Seq(Slots(m + 1)) /\ Len(u) = Len(p) + 1 /\ DOMAIN u = 1 .. Len(p) + 1 /\ u[1] = m
      /\ \A j \in DOMAIN p : u[j + 1] = p[j]
      /\ \A j \in DOMAIN u : j = 1 \/ (j - 1 \in DOMAIN p /\ u[j] = p[j - 1])
  <2>1. p \in Seq(Slots(m + 1)) /\ m \in Slots(m + 1)
    BY <1>1, <1>2
  <2> HIDE DEF p
  <2>3. /\ u \in Seq(Slots(m + 1)) /\ Len(u) = Len(p) + 1 /\ DOMAIN u = 1 .. Len(p) + 1 /\ u[1] = m
        /\ \A j \in DOMAIN u : j = 1 \/ (j - 1 \in DOMAIN p /\ u[j] = p[j - 1])
    BY <2>1, PushedIs
  <2> HIDE DEF u
  <2>4. ASSUME NEW j \in DOMAIN p
        PROVE  u[j + 1] = p[j]
    <3>1. j + 1 \in DOMAIN u /\ j + 1 # 1 /\ (j + 1) - 1 = j
      BY <2>1, <2>3
    <3>2. QED
      BY <2>3, <3>1
  <2>5. QED
    BY <2>3, <2>4
<1> HIDE DEF u
<1>4. /\ o2 \in [DllList -> Seq(Slots(m + 1))] /\ o2[k] = u
      /\ \A x \in DllList : x # k => o2[x] = o[x]
  <2>1. o2 = [o EXCEPT ![k] = u]
    BY DEF u
  <2> HIDE DEF o2
  <2>2. QED
    BY <1>2, <1>3, <2>1
<1> HIDE DEF o2
<1>5. ASSUME NEW x \in DllList, NEW j \in DOMAIN o2[x]
      PROVE  \/ x = k /\ j = 1 /\ o2[x][j] = m
             \/ /\ x = k /\ j - 1 \in DOMAIN o[x] /\ o2[x][j] = o[x][j - 1] /\ j \in Nat
                /\ o[x][j - 1] # m
             \/ x # k /\ j \in DOMAIN o[x] /\ o2[x][j] = o[x][j] /\ o[x][j] # m
  <2>1. CASE x # k
    BY <1>1, <1>4, <1>5, <2>1
  <2>2. CASE x = k /\ j = 1
    BY <1>3, <1>4, <2>2
  <2>3. CASE x = k /\ j # 1
    <3>1. j \in DOMAIN u /\ j \in Nat
      BY <1>3, <1>4, <1>5, <1>1, <2>3
    <3>2. j - 1 \in DOMAIN p /\ u[j] = p[j - 1]
      BY <1>3, <2>3, <3>1
    <3>3. p[j - 1] # m
      BY <1>1, <3>2
    <3>4. QED
      BY <1>4, <2>3, <3>1, <3>2, <3>3
  <2>4. QED
    BY <2>1, <2>2, <2>3
<1>6. Apart(o2)
  <2>1. SUFFICES ASSUME NEW x \in DllList, NEW y \in DllList,
                        NEW a \in DOMAIN o2[x], NEW b \in DOMAIN o2[y], o2[x][a] = o2[y][b]
                 PROVE  x = y /\ a = b
    BY DEF Apart
  <2> DEFINE c == IF x = k THEN a - 1 ELSE a
             d == IF y = k THEN b - 1 ELSE b
  <2>2. \/ x = k /\ a = 1 /\ o2[x][a] = m
        \/ c \in DOMAIN o[x] /\ o2[x][a] = o[x][c] /\ o[x][c] # m /\ (x = k => a \in Nat)
    BY <1>5
  <2>3. \/ y = k /\ b = 1 /\ o2[y][b] = m
        \/ d \in DOMAIN o[y] /\ o2[y][b] = o[y][d] /\ o[y][d] # m /\ (y = k => b \in Nat)
    BY <1>5
  <2>4. ASSUME c \in DOMAIN o[x], d \in DOMAIN o[y], o[x][c] = o[y][d]
        PROVE  x = y /\ c = d
    <3> HIDE DEF c, d
    <3>1. QED
      BY <2>4 DEF Apart
  <2>5. QED
    BY <2>1, <2>2, <2>3, <2>4
<1>7. Len(o2["active"]) + Len(o2["tombstone"]) + Len(o2["free"]) = m + 1
  <2>1. \A x \in {"active", "tombstone", "free"} :
           Len(o2[x]) = IF x = k THEN Len(o[x]) + 1 ELSE Len(o[x])
    BY <1>3, <1>4 DEF DllList
  <2>2. /\ Len(o["active"]) \in Nat /\ Len(o["tombstone"]) \in Nat /\ Len(o["free"]) \in Nat
        /\ k \in {"active", "tombstone", "free"}
    BY <1>1 DEF DllList
  <2>3. Len(o["active"]) + Len(o["tombstone"]) + Len(o["free"]) = m
    BY DEF Covers
  <2> DEFINE a == Len(o["active"])
             b == Len(o["tombstone"])
             c == Len(o["free"])
  <2>4. /\ Len(o2["active"]) = IF k = "active" THEN a + 1 ELSE a
        /\ Len(o2["tombstone"]) = IF k = "tombstone" THEN b + 1 ELSE b
        /\ Len(o2["free"]) = IF k = "free" THEN c + 1 ELSE c
    BY <2>1
  <2>5. a \in Nat /\ b \in Nat /\ c \in Nat /\ a + b + c = m
    BY <2>2, <2>3
  <2> HIDE DEF a, b, c
  <2>6. QED
    BY <2>2, <2>4, <2>5
<1>8. ASSUME NEW t \in Slots(m + 1)
      PROVE  \E x \in DllList : \E j \in DOMAIN o2[x] : o2[x][j] = t
  <2>1. CASE t = m
    <3>1. 1 \in DOMAIN u /\ u[1] = m
      BY <1>1, <1>3
    <3>2. QED
      BY <1>4, <2>1, <3>1
  <2>2. CASE t # m
    <3>0. PICK x \in DllList : \E j \in DOMAIN o[x] : o[x][j] = t
      <4>1. t \in Slots(m)
        BY <2>2 DEF Slots
      <4>2. QED
        BY <4>1 DEF Covers
    <3>1. PICK j \in DOMAIN o[x] : o[x][j] = t
      BY <3>0
    <3>2. CASE x = k
      <4>1. j \in DOMAIN p /\ j + 1 \in DOMAIN u
        BY <1>1, <1>3, <3>1, <3>2
      <4>2. QED
        BY <1>3, <1>4, <3>1, <3>2, <4>1
    <3>3. CASE x # k
      BY <1>4, <3>1, <3>3
    <3>4. QED
      BY <3>2, <3>3
  <2>3. QED
    BY <2>1, <2>2
<1>9. QED
  <2>1. o2 \in Orders(m + 1)
    BY <1>2, <1>4 DEF Orders
  <2>2. Covers(o2, m + 1)
    BY <1>2, <1>7, <1>8 DEF Covers
  <2>3. QED
    BY <1>6, <2>1, <2>2 DEF o2

\* Pointers that agree on the sectors of a list spell the same list.
LEMMA ThreadsFrame ==
    ASSUME NEW q, NEW n, NEW n2, NEW h, Threads(q, n, h),
           \A i \in DOMAIN q : n2[q[i]].next = n[q[i]].next
    PROVE  Threads(q, n2, h)
  BY DEF Threads

\* Backwards too.
LEMMA ThreadsBackFrame ==
    ASSUME NEW q, NEW n, NEW n2, ThreadsBack(q, n),
           \A i \in DOMAIN q : n2[q[i]].prev = n[q[i]].prev
    PROVE  ThreadsBack(q, n2)
  BY DEF ThreadsBack

Parted(n, h, l, s)     == Unlink([node |-> n, head |-> h], l, s)
Rejoined(n, h, l, s, k) == LinkHead(Parted(n, h, l, s), k, s)

\* Unlinked from one list and linked at the head of another, a sector moves from one
\* sequence to the head of the other, and no pointer is met that is not as expected.
LEMMA MoveThreads ==
    ASSUME NEW m \in Nat, m <= MaxSectors, NEW n \in Nodes, NEW h \in Heads, NEW o,
           Spells(o, n, h, m), NEW l \in {"active", "tombstone"}, NEW k \in {"tombstone", "free"},
           l # k, NEW i \in DOMAIN o[l]
    PROVE  LET s == o[l][i]
               r == Rejoined(n, h, l, s, k)
           IN  /\ CanUnlink([node |-> n, head |-> h], l, s, m)
               /\ CanLink(Parted(n, h, l, s), k, s, m)
               /\ r.node \in Nodes /\ r.head \in Heads /\ OnlyPointers(n, r.node)
               /\ \A x \in DllList : Threads(Moved(o, l, i, k)[x], r.node, r.head[x])
               /\ ThreadsBack(Moved(o, l, i, k)["active"], r.node)
               /\ ThreadsBack(Moved(o, l, i, k)["tombstone"], r.node)
<1> DEFINE q == o[l]
           p == o[k]
           s == q[i]
           M == [node |-> n, head |-> h]
           U == Parted(n, h, l, s)
           r == Rejoined(n, h, l, s, k)
           a == n[s].prev
           b == n[s].next
           o2 == Moved(o, l, i, k)
<1>1. /\ l \in DllList /\ k \in DllList /\ o \in Orders(m) /\ Apart(o) /\ Covers(o, m)
      /\ \A x \in DllList : Threads(o[x], n, h[x])
      /\ ThreadsBack(o["active"], n) /\ ThreadsBack(o["tombstone"], n)
  BY DEF DllList, Spells
<1>2. \A x \in DllList : /\ o[x] \in Seq(Sectors) /\ Distinct(o[x])
                         /\ Len(o[x]) \in Nat /\ DOMAIN o[x] = 1 .. Len(o[x])
                         /\ \A j \in DOMAIN o[x] : o[x][j] \in Sectors
  BY <1>1, OrderFacts
<1>2a. \A x \in DllList : \A j \in DOMAIN o[x] : o[x][j] < m
  <2>1. \A x \in DllList : \A j \in DOMAIN o[x] : o[x][j] \in Slots(m)
    BY <1>1, OrderFacts
  <2>2. \A z \in Slots(m) : z < m
    BY DEF Slots
  <2>3. QED
    BY <2>1, <2>2
<1>3. /\ q \in Seq(Sectors) /\ Distinct(q) /\ Len(q) \in Nat /\ DOMAIN q = 1 .. Len(q)
      /\ p \in Seq(Sectors) /\ Distinct(p) /\ Len(p) \in Nat /\ DOMAIN p = 1 .. Len(p)
      /\ i \in DOMAIN q /\ s \in Sectors
      /\ Threads(q, n, h[l]) /\ Threads(p, n, h[k]) /\ ThreadsBack(q, n)
  BY <1>1, <1>2
<1>4. /\ a = IF i = 1 THEN Null ELSE q[i - 1]
      /\ b = IF i < Len(q) THEN q[i + 1] ELSE Null
  BY <1>3 DEF Threads, ThreadsBack
<1>5. /\ i # 1 => i - 1 \in DOMAIN q
      /\ i < Len(q) => i + 1 \in DOMAIN q
      /\ i \in Nat /\ i - 1 # i /\ i + 1 # i
  BY <1>3
<1>6. \A x \in DllList : \A j \in DOMAIN o[x] : o[x][j] # Null
  BY <1>2, NullAssumption
<1>7. \A x \in DllList : x # l => \A j \in DOMAIN o[x] : o[x][j] # s /\ o[x][j] # a /\ o[x][j] # b
  <2>1. \A x \in DllList : x # l => \A j \in DOMAIN o[x], d \in DOMAIN q : o[x][j] # q[d]
    BY <1>1 DEF Apart
  <2> HIDE DEF q, a, b
  <2>2. QED
    BY <1>3, <1>4, <1>5, <1>6, <2>1
<1>8. \A x \in DllList : x # k => \A j \in DOMAIN o[x] : o[x][j] # h[k]
  <2>1. h[k] = Null \/ (1 \in DOMAIN p /\ h[k] = p[1])
    BY <1>3 DEF Threads
  <2>2. \A x \in DllList : x # k => \A j \in DOMAIN o[x], d \in DOMAIN p : o[x][j] # p[d]
    BY <1>1 DEF Apart
  <2> HIDE DEF p
  <2>3. QED
    BY <1>6, <2>1, <2>2
<1>9. h[k] # s
  BY <1>1, <1>3, <1>8
<1>10. a # s /\ b # s
  <2>1. s # Null /\ (i # 1 => q[i - 1] # q[i]) /\ (i < Len(q) => q[i + 1] # q[i])
    BY <1>1, <1>3, <1>5, <1>6 DEF Distinct
  <2>2. QED
    BY <1>4, <2>1
<1> HIDE DEF q, p, s, a, b
<1>11. /\ U.node \in Nodes /\ U.head \in Heads
       /\ U.head = [h EXCEPT ![l] = IF a = Null THEN b ELSE @]
       /\ OnlyPointers(n, U.node)
       /\ U.node[s].next = Null /\ U.node[s].prev = Null
       /\ \A x \in Sectors : x # s =>
             /\ U.node[x].next = IF x = a THEN b ELSE n[x].next
             /\ U.node[x].prev = IF x = b THEN a ELSE n[x].prev
  <2>1. M.node = n /\ M.head = h
    OBVIOUS
  <2>2. M.node[s].next = b /\ M.node[s].prev = a
    BY <2>1 DEF a, b
  <2>3. U = Unlink(M, l, s)
    BY DEF Parted
  <2> HIDE DEF M, U
  <2>4. QED
    BY <1>1, <1>3, <1>10, <2>1, <2>2, <2>3, UnlinkEffect
<1>12. U.head[k] = h[k] /\ U.head[l] = (IF a = Null THEN b ELSE h[l])
       /\ \A x \in DllList : x # l => U.head[x] = h[x]
  BY <1>1, <1>11 DEF Heads
<1>13. /\ r.node \in Nodes /\ r.head \in Heads
       /\ r.head = [U.head EXCEPT ![k] = s]
       /\ OnlyPointers(U.node, r.node)
       /\ r.node[s].next = h[k] /\ r.node[s].prev = Null
       /\ \A x \in Sectors : x # s =>
             /\ r.node[x].next = U.node[x].next
             /\ r.node[x].prev = IF x = h[k] THEN s ELSE U.node[x].prev
  <2>1. r = LinkHead(U, k, s)
    BY DEF Rejoined
  <2> HIDE DEF U, r
  <2>2. /\ U.node \in Nodes /\ U.head \in Heads /\ k \in DllList /\ s \in Sectors
        /\ U.head[k] = h[k] /\ U.head[k] # s
    BY <1>1, <1>3, <1>9, <1>11, <1>12
  <2>3. /\ r.node \in Nodes /\ r.head \in Heads
        /\ r.head = [U.head EXCEPT ![k] = s]
        /\ OnlyPointers(U.node, r.node)
        /\ r.node[s].next = U.head[k] /\ r.node[s].prev = Null
        /\ \A x \in Sectors : x # s =>
              /\ r.node[x].next = U.node[x].next
              /\ r.node[x].prev = IF x = U.head[k] THEN s ELSE U.node[x].prev
    BY <2>1, <2>2, LinkHeadEffect
  <2>4. QED
    BY <2>2, <2>3
<1>14. /\ r.head[k] = s /\ r.head[l] = (IF a = Null THEN b ELSE h[l])
       /\ \A x \in DllList : x # l /\ x # k => r.head[x] = h[x]
  BY <1>1, <1>11, <1>12, <1>13 DEF Heads
<1>15. \A x \in Sectors : x # s =>
             /\ r.node[x].next = IF x = a THEN b ELSE n[x].next
             /\ r.node[x].prev = IF x = h[k] THEN s ELSE IF x = b THEN a ELSE n[x].prev
  BY <1>11, <1>13
<1>16. OnlyPointers(n, r.node)
  BY <1>11, <1>13 DEF OnlyPointers
<1>17. CanLink(U, k, s, m)
  <2>1. InSlab(h[k], m)
    <3>1. h[k] = Null \/ (1 \in DOMAIN p /\ h[k] = p[1])
      BY <1>3 DEF Threads
    <3>2. 1 \in DOMAIN p => p[1] < m
      BY <1>1, <1>2a DEF p
    <3>3. QED
      BY <3>1, <3>2 DEF InSlab
  <2>2. s < m
    BY <1>1, <1>3, <1>2a DEF s, q
  <2>3. QED
    BY <1>11, <1>12, <2>1, <2>2 DEF CanLink
<1> HIDE DEF U, r
<1>18. CanUnlink(M, l, s, m)
  <2>1. ASSUME a = Null
        PROVE  h[l] = s
    <3>1. i = 1
      BY <1>1, <1>3, <1>4, <1>5, <1>6, <2>1 DEF q
    <3>2. q # <<>>
      BY <1>3
    <3>3. QED
      BY <1>3, <3>1, <3>2 DEF Threads, s
  <2>2. InSlab(a, m) /\ InSlab(b, m) /\ s < m
    BY <1>1, <1>3, <1>4, <1>5, <1>2a DEF InSlab, s, q
  <2>3. QED
    BY <2>1, <2>2 DEF CanUnlink, a, b
<1>19. /\ o2[l] = Without(q, i) /\ o2[k] = Pushed(s, p)
       /\ \A x \in DllList : x \notin {l, k} => o2[x] = o[x]
  BY <1>1, MovedShares DEF q, p, s
<1> HIDE DEF o2
<1>20. \A j \in DOMAIN q : j # i => q[j] \in Sectors /\ q[j] # s /\ q[j] # h[k]
  BY <1>1, <1>2, <1>3, <1>8 DEF Distinct, q, s
<1>21. Threads(o2[l], r.node, r.head[l]) /\ ThreadsBack(o2[l], r.node)
  <2>1. /\ n[q[i]].prev = a /\ n[q[i]].next = b
    BY DEF a, b, s
  <2>2. \A j \in DOMAIN q : j # i =>
           /\ r.node[q[j]].next = IF q[j] = a THEN b ELSE n[q[j]].next
           /\ r.node[q[j]].prev = IF q[j] = b THEN a ELSE n[q[j]].prev
    BY <1>15, <1>20
  <2>3. Threads(Without(q, i), r.node, IF a = Null THEN b ELSE h[l])
    BY <1>3, <2>1, <2>2, WithoutThreads
  <2>4. ThreadsBack(Without(q, i), r.node)
    <3>1. \A j \in DOMAIN q : j # i =>
             r.node[q[j]].prev = IF q[j] = n[q[i]].next THEN n[q[i]].prev ELSE n[q[j]].prev
      BY <2>1, <2>2
    <3>2. q \in Seq(Sectors) /\ i \in DOMAIN q /\ Distinct(q) /\ Threads(q, n, h[l])
          /\ ThreadsBack(q, n)
      BY <1>3
    <3>3. QED
      BY <3>1, <3>2, WithoutThreadsBack
  <2>5. QED
    BY <1>14, <1>19, <2>3, <2>4
<1>22. \A j \in DOMAIN p : /\ p[j] \in Sectors /\ p[j] # s /\ p[j] # a /\ p[j] # b
                           /\ (p[j] = h[k] <=> j = 1)
  <2>1. \A j \in DOMAIN p : p[j] \in Sectors /\ p[j] # s /\ p[j] # a /\ p[j] # b
    BY <1>1, <1>2, <1>7 DEF p
  <2>2. ASSUME NEW j \in DOMAIN p
        PROVE  p[j] = h[k] <=> j = 1
    <3>1. 1 \in DOMAIN p /\ p # <<>>
      BY <1>3, <2>2
    <3>2. h[k] = p[1]
      BY <1>3, <3>1 DEF Threads
    <3>3. QED
      BY <1>3, <3>1, <3>2 DEF Distinct
  <2>3. QED
    BY <2>1, <2>2
<1>23. Threads(o2[k], r.node, r.head[k])
  <2>1. \A j \in DOMAIN p : r.node[p[j]].next = n[p[j]].next
    BY <1>15, <1>22
  <2>2. Threads(Pushed(s, p), r.node, s)
    BY <1>3, <1>13, <2>1, PushThreads
  <2>3. QED
    BY <1>14, <1>19, <2>2
<1>24. ASSUME k = "tombstone"
       PROVE  ThreadsBack(o2[k], r.node)
  <2>1. ThreadsBack(p, n)
    BY <1>1, <1>24 DEF p
  <2>2. \A j \in DOMAIN p : r.node[p[j]].prev = IF j = 1 THEN s ELSE n[p[j]].prev
    BY <1>15, <1>22
  <2>3. ThreadsBack(Pushed(s, p), r.node)
    <3>1. p \in Seq(Sectors) /\ s \in Sectors /\ r.node[s].prev = Null
      BY <1>3, <1>13
    <3>2. QED
      BY <2>1, <2>2, <3>1, PushThreadsBack
  <2>4. QED
    BY <1>19, <2>3
<1>25. ASSUME NEW x \in DllList, x # l, x # k
       PROVE  /\ Threads(o2[x], r.node, r.head[x])
              /\ ThreadsBack(o[x], n) => ThreadsBack(o2[x], r.node)
  <2>1. \A j \in DOMAIN o[x] : /\ o[x][j] \in Sectors /\ o[x][j] # s /\ o[x][j] # a
                               /\ o[x][j] # b /\ o[x][j] # h[k]
    BY <1>2, <1>7, <1>8, <1>25
  <2>2. \A j \in DOMAIN o[x] : /\ r.node[o[x][j]].next = n[o[x][j]].next
                               /\ r.node[o[x][j]].prev = n[o[x][j]].prev
    BY <1>15, <2>1
  <2>3. Threads(o[x], r.node, h[x])
    BY <1>1, <2>2, ThreadsFrame
  <2>4. ThreadsBack(o[x], n) => ThreadsBack(o[x], r.node)
    BY <2>2, ThreadsBackFrame
  <2>5. o2[x] = o[x] /\ r.head[x] = h[x]
    BY <1>14, <1>19, <1>25
  <2>6. QED
    BY <2>3, <2>4, <2>5
<1>26. \A x \in DllList : Threads(o2[x], r.node, r.head[x])
  BY <1>21, <1>23, <1>25
<1>27. ThreadsBack(o2["active"], r.node)
  <2>1. CASE l = "active"
    BY <1>21, <2>1
  <2>2. CASE l # "active"
    BY <1>1, <1>25, <2>2 DEF DllList
  <2>3. QED
    BY <2>1, <2>2
<1>28. ThreadsBack(o2["tombstone"], r.node)
  <2>1. CASE l = "tombstone"
    BY <1>21, <2>1
  <2>2. CASE k = "tombstone"
    BY <1>24, <2>2
  <2>3. CASE l # "tombstone" /\ k # "tombstone"
    BY <1>1, <1>25, <2>3 DEF DllList
  <2>4. QED
    BY <2>1, <2>2, <2>3
<1>29. QED
  BY <1>13, <1>16, <1>17, <1>18, <1>26, <1>27, <1>28 DEF o2, U, r, M, s, q

\* The head of a list taken off leaves the rest.
LEMMA TailThreads ==
    ASSUME NEW q \in Seq(Sectors), 1 \in DOMAIN q, Distinct(q), NEW n, NEW h, Threads(q, n, h)
    PROVE  h = q[1] /\ Threads(Without(q, 1), n, n[q[1]].next)
<1> DEFINE p == Without(q, 1)
<1>1. /\ p \in Seq(Sectors) /\ Len(p) = Len(q) - 1 /\ DOMAIN p = 1 .. Len(q) - 1
      /\ \A j \in DOMAIN p : /\ j \in DOMAIN q /\ j + 1 \in DOMAIN q
                             /\ p[j] = IF j < 1 THEN q[j] ELSE q[j + 1]
  BY WithoutIs
<1>2. Len(q) \in Nat /\ DOMAIN q = 1 .. Len(q) /\ q # <<>>
  OBVIOUS
<1> HIDE DEF p
<1>3. \A j \in DOMAIN p : j + 1 \in DOMAIN q /\ p[j] = q[j + 1] /\ j \in Nat
  <2>1. \A j \in DOMAIN p : j \in Nat /\ ~(j < 1)
    BY <1>1, <1>2
  <2>2. QED
    BY <1>1, <2>1
<1>4. ASSUME NEW j \in DOMAIN p
      PROVE  n[p[j]].next = IF j < Len(p) THEN p[j + 1] ELSE Null
  <2>1. n[q[j + 1]].next = IF j + 1 < Len(q) THEN q[(j + 1) + 1] ELSE Null
    BY <1>3 DEF Threads
  <2>2. j < Len(p) <=> j + 1 < Len(q)
    BY <1>1, <1>2, <1>3
  <2>3. j < Len(p) => j + 1 \in DOMAIN p
    BY <1>1, <1>2, <1>3
  <2>4. j < Len(p) => p[j + 1] = q[(j + 1) + 1]
    BY <1>3, <2>3
  <2>5. QED
    BY <1>3, <2>1, <2>2, <2>4
<1>5. n[q[1]].next = IF p = <<>> THEN Null ELSE p[1]
  <2>1. n[q[1]].next = IF 1 < Len(q) THEN q[1 + 1] ELSE Null
    BY DEF Threads
  <2>2. CASE 1 < Len(q)
    <3>1. 1 \in DOMAIN p /\ p # <<>>
      BY <1>1, <1>2, <2>2
    <3>2. p[1] = q[1 + 1]
      BY <1>3, <3>1
    <3>3. QED
      BY <2>1, <2>2, <3>1, <3>2
  <2>3. CASE ~(1 < Len(q))
    <3>1. p = <<>>
      BY <1>1, <1>2, <2>3
    <3>2. QED
      BY <2>1, <2>3, <3>1
  <2>4. QED
    BY <2>2, <2>3
<1>6. h = q[1]
  BY <1>2 DEF Threads
<1>7. QED
  BY <1>4, <1>5, <1>6 DEF Threads, p

\* A sector that is on no list, linked at the head of the active one.
LEMMA HandOutThreads ==
    ASSUME NEW n \in Nodes, NEW h \in Heads, NEW o, NEW s \in Sectors,
           \A x \in DllList : /\ o[x] \in Seq(Sectors) /\ Distinct(o[x])
                              /\ Threads(o[x], n, h[x])
                              /\ \A j \in DOMAIN o[x] : o[x][j] # s,
           \A x, y \in DllList : x # y =>
              \A j \in DOMAIN o[x], d \in DOMAIN o[y] : o[x][j] # o[y][d],
           ThreadsBack(o["active"], n), ThreadsBack(o["tombstone"], n),
           NEW r, r = LinkHead([node |-> n, head |-> h], "active", s),
           NEW o2, o2["active"] = Pushed(s, o["active"]),
           o2["tombstone"] = o["tombstone"], o2["free"] = o["free"]
    PROVE  /\ r.node \in Nodes /\ r.head \in Heads /\ OnlyPointers(n, r.node)
           /\ \A x \in DllList : Threads(o2[x], r.node, r.head[x])
           /\ ThreadsBack(o2["active"], r.node) /\ ThreadsBack(o2["tombstone"], r.node)
<1> DEFINE M == [node |-> n, head |-> h]
           p == o["active"]
           g == h["active"]
<1>1. "active" \in DllList /\ "tombstone" \in DllList /\ "free" \in DllList
      /\ \A x \in DllList : x = "active" \/ x = "tombstone" \/ x = "free"
  BY DEF DllList
<1>2. /\ p \in Seq(Sectors) /\ Distinct(p) /\ Threads(p, n, g)
      /\ Len(p) \in Nat /\ DOMAIN p = 1 .. Len(p)
      /\ \A j \in DOMAIN p : p[j] # s /\ p[j] \in Sectors
  BY <1>1
<1>3. g = Null \/ (1 \in DOMAIN p /\ g = p[1])
  BY <1>2 DEF Threads
<1>4. g # s
  BY <1>2, <1>3, NullAssumption
<1>5. /\ r.node \in Nodes /\ r.head \in Heads
      /\ r.head = [h EXCEPT !["active"] = s]
      /\ OnlyPointers(n, r.node)
      /\ r.node[s].next = g /\ r.node[s].prev = Null
      /\ \A x \in Sectors : x # s =>
            /\ r.node[x].next = n[x].next
            /\ r.node[x].prev = IF x = g THEN s ELSE n[x].prev
  <2>1. M.node = n /\ M.head = h /\ r = LinkHead(M, "active", s)
    OBVIOUS
  <2> HIDE DEF M
  <2>2. M.node \in Nodes /\ M.head \in Heads /\ M.head["active"] = g /\ M.head["active"] # s
    BY <1>4, <2>1
  <2> HIDE DEF g
  <2>3. QED
    BY <1>1, <2>1, <2>2, LinkHeadEffect
<1>6. r.head["active"] = s /\ r.head["tombstone"] = h["tombstone"] /\ r.head["free"] = h["free"]
  BY <1>1, <1>5 DEF Heads
<1>7. Threads(o2["active"], r.node, r.head["active"])
  <2>1. \A j \in DOMAIN p : r.node[p[j]].next = n[p[j]].next
    BY <1>2, <1>5
  <2> HIDE DEF p
  <2>2. Threads(Pushed(s, p), r.node, s)
    BY <1>2, <1>5, <2>1, PushThreads
  <2>3. QED
    BY <1>6, <2>2 DEF p
<1>8. ThreadsBack(o2["active"], r.node)
  <2>1. ASSUME NEW j \in DOMAIN p
        PROVE  r.node[p[j]].prev = IF j = 1 THEN s ELSE n[p[j]].prev
    <3>1. 1 \in DOMAIN p /\ p # <<>>
      BY <1>2
    <3>2. g = p[1]
      BY <1>2, <3>1 DEF Threads
    <3>3. p[j] = g <=> j = 1
      BY <1>2, <3>1, <3>2 DEF Distinct
    <3>4. p[j] \in Sectors /\ p[j] # s
      BY <1>2
    <3>5. QED
      BY <1>5, <3>3, <3>4
  <2>2. p \in Seq(Sectors) /\ ThreadsBack(p, n) /\ r.node[s].prev = Null
    BY <1>2, <1>5
  <2> HIDE DEF p
  <2>3. ThreadsBack(Pushed(s, p), r.node)
    BY <2>1, <2>2, PushThreadsBack
  <2>4. QED
    BY <2>3 DEF p
<1>9. ASSUME NEW x \in DllList, x # "active"
      PROVE  /\ Threads(o[x], r.node, h[x])
             /\ ThreadsBack(o[x], n) => ThreadsBack(o[x], r.node)
  <2>1. \A j \in DOMAIN o[x] : o[x][j] \in Sectors /\ o[x][j] # s /\ o[x][j] # g
    <3>1. \A j \in DOMAIN o[x] : o[x][j] \in Sectors /\ o[x][j] # s
      BY <1>9
    <3>2. \A j \in DOMAIN o[x], d \in DOMAIN p : o[x][j] # p[d]
      BY <1>1, <1>9
    <3> HIDE DEF p, g
    <3>3. QED
      BY <1>3, <3>1, <3>2, NullAssumption
  <2>2. \A j \in DOMAIN o[x] : /\ r.node[o[x][j]].next = n[o[x][j]].next
                               /\ r.node[o[x][j]].prev = n[o[x][j]].prev
    BY <1>5, <2>1
  <2>3. Threads(o[x], r.node, h[x])
    BY <2>2, ThreadsFrame
  <2>4. QED
    BY <2>2, <2>3, ThreadsBackFrame
<1>10. \A x \in DllList : Threads(o2[x], r.node, r.head[x])
  <2>1. Threads(o2["tombstone"], r.node, r.head["tombstone"])
    BY <1>1, <1>6, <1>9
  <2>2. Threads(o2["free"], r.node, r.head["free"])
    BY <1>1, <1>6, <1>9
  <2>3. QED
    BY <1>1, <1>7, <2>1, <2>2
<1>11. ThreadsBack(o2["tombstone"], r.node)
  BY <1>1, <1>9
<1>12. QED
  BY <1>5, <1>8, <1>10, <1>11

IsOn(o, s, l) == \E i \in DOMAIN o[l] : o[l][i] = s

\* Which list a sector is on after one of them has moved.
LEMMA MovedIsOn ==
    ASSUME NEW m \in Nat, NEW o \in Orders(m), Apart(o), Covers(o, m),
           NEW l \in DllList, NEW k \in DllList, l # k, NEW i \in DOMAIN o[l],
           NEW x \in DllList, NEW t \in Slots(m)
    PROVE  IsOn(Moved(o, l, i, k), t, x) <=> IF t = o[l][i] THEN x = k ELSE IsOn(o, t, x)
<1> DEFINE q == o[l]
           p == o[k]
           s == q[i]
           w == Without(q, i)
           u == Pushed(s, p)
           o2 == Moved(o, l, i, k)
<1>1. /\ o2 \in Orders(m) /\ Apart(o2) /\ Covers(o2, m) /\ o2[l] = w /\ o2[k] = u
      /\ \A y \in DllList : y \notin {l, k} => o2[y] = o[y]
  BY MovedShares
<1>2. /\ q \in Seq(Slots(m)) /\ p \in Seq(Slots(m)) /\ s \in Slots(m) /\ i \in DOMAIN q
      /\ Distinct(q) /\ Len(q) \in Nat /\ DOMAIN q = 1 .. Len(q)
      /\ Len(p) \in Nat /\ DOMAIN p = 1 .. Len(p)
  BY OrderFacts
<1>3. \A y \in DllList : y # l => \A j \in DOMAIN o[y] : o[y][j] # s
  BY DEF Apart
<1> HIDE DEF o2, q, p, s
<1>4. /\ DOMAIN w = 1 .. Len(q) - 1
      /\ \A j \in DOMAIN w : /\ j \in DOMAIN q /\ j + 1 \in DOMAIN q
                             /\ w[j] = IF j < i THEN q[j] ELSE q[j + 1]
  BY <1>2, WithoutIs
<1>5. /\ Len(u) = Len(p) + 1 /\ DOMAIN u = 1 .. Len(p) + 1 /\ u[1] = s
      /\ \A j \in DOMAIN u : j = 1 \/ (j - 1 \in DOMAIN p /\ u[j] = p[j - 1])
  <2>1. p \in Seq(Slots(m)) /\ s \in Slots(m)
    BY <1>2
  <2>2. QED
    BY <2>1, PushedIs
<1> HIDE DEF w, u
<1>6. CASE x # l /\ x # k
  <2>1. o2[x] = o[x]
    BY <1>1, <1>6
  <2>2. t = s => ~IsOn(o, t, x)
    BY <1>3, <1>6 DEF IsOn
  <2>3. QED
    BY <1>6, <2>1, <2>2 DEF IsOn, o2, s, q
<1>7. CASE x = l
  <2>1. ASSUME IsOn(o2, t, l)
        PROVE  t # s /\ IsOn(o, t, l)
    <3>1. PICK j \in DOMAIN w : w[j] = t
      BY <1>1, <2>1 DEF IsOn
    <3>2. CASE j < i
      BY <1>2, <1>4, <3>1, <3>2 DEF IsOn, Distinct, q, s
    <3>3. CASE ~(j < i)
      <4>1. j + 1 \in DOMAIN q /\ t = q[j + 1] /\ j + 1 # i
        BY <1>2, <1>4, <3>1, <3>3
      <4>2. QED
        BY <1>2, <4>1 DEF IsOn, Distinct, q, s
    <3>4. QED
      BY <3>2, <3>3
  <2>2. ASSUME t # s, IsOn(o, t, l)
        PROVE  IsOn(o2, t, l)
    <3>1. PICK j \in DOMAIN q : q[j] = t
      BY <2>2 DEF IsOn, q
    <3>2. j # i
      BY <2>2, <3>1 DEF s
    <3>3. CASE j < i
      <4>1. j \in DOMAIN w
        BY <1>2, <1>4, <3>1, <3>3
      <4>2. w[j] = t
        BY <1>4, <3>1, <3>3, <4>1
      <4>3. QED
        BY <1>1, <4>1, <4>2 DEF IsOn
    <3>4. CASE j > i
      <4>1. j - 1 \in DOMAIN w /\ ~(j - 1 < i) /\ (j - 1) + 1 = j
        BY <1>2, <1>4, <3>1, <3>4
      <4>2. w[j - 1] = t
        BY <1>4, <3>1, <4>1
      <4>3. QED
        BY <1>1, <4>1, <4>2 DEF IsOn
    <3>5. QED
      BY <1>2, <3>1, <3>2, <3>3, <3>4
  <2>3. QED
    BY <1>7, <2>1, <2>2 DEF o2, s, q
<1>8. CASE x = k
  <2>1. ASSUME IsOn(o2, t, k)
        PROVE  t = s \/ IsOn(o, t, k)
    <3>1. PICK j \in DOMAIN u : u[j] = t
      BY <1>1, <2>1 DEF IsOn
    <3>2. QED
      BY <1>5, <3>1 DEF IsOn, p
  <2>2. IsOn(o2, s, k)
    <3>1. 1 \in DOMAIN u
      BY <1>2, <1>5
    <3>2. QED
      BY <1>1, <1>5, <3>1 DEF IsOn
  <2>3. ASSUME IsOn(o, t, k)
        PROVE  IsOn(o2, t, k)
    <3>1. PICK j \in DOMAIN p : p[j] = t
      BY <2>3 DEF IsOn, p
    <3>2. j + 1 \in DOMAIN u /\ j + 1 # 1 /\ (j + 1) - 1 = j
      BY <1>2, <1>5, <3>1
    <3>3. u[j + 1] = t
      BY <1>5, <3>1, <3>2
    <3>4. QED
      BY <1>1, <3>2, <3>3 DEF IsOn
  <2>4. QED
    BY <1>8, <2>1, <2>2, <2>3 DEF o2, s, q
<1>9. QED
  BY <1>6, <1>7, <1>8

\* And after the slab has grown.
LEMMA GrownIsOn ==
    ASSUME NEW m \in Nat, NEW o \in Orders(m), Apart(o), Covers(o, m), NEW k \in DllList,
           NEW x \in DllList, NEW t \in Slots(m + 1)
    PROVE  IsOn([o EXCEPT ![k] = Pushed(m, @)], t, x) <=> IF t = m THEN x = k ELSE IsOn(o, t, x)
<1> DEFINE p == o[k]
           u == Pushed(m, p)
           o2 == [o EXCEPT ![k] = Pushed(m, @)]
<1>1. \A y \in DllList : /\ o[y] \in Seq(Slots(m))
                         /\ \A j \in DOMAIN o[y] : o[y][j] \in Slots(m) /\ o[y][j] # m
  BY OrderFacts DEF Slots
<1>2. o2[k] = u /\ \A y \in DllList : y # k => o2[y] = o[y]
  BY DEF Orders
<1>3. p \in Seq(Slots(m + 1)) /\ m \in Slots(m + 1)
  <2>1. Slots(m) \subseteq Slots(m + 1) /\ m \in Slots(m + 1)
    BY DEF Slots
  <2>2. QED
    BY <1>1, <2>1
<1> HIDE DEF o2, p
<1>4. /\ Len(u) = Len(p) + 1 /\ DOMAIN u = 1 .. Len(p) + 1 /\ u[1] = m
      /\ \A j \in DOMAIN u : j = 1 \/ (j - 1 \in DOMAIN p /\ u[j] = p[j - 1])
  BY <1>3, PushedIs
<1>5. Len(p) \in Nat /\ DOMAIN p = 1 .. Len(p)
  BY <1>3
<1> HIDE DEF u
<1>6. CASE x # k
  <2>1. o2[x] = o[x] /\ ~IsOn(o, m, x)
    BY <1>1, <1>2, <1>6 DEF IsOn
  <2>2. QED
    BY <1>6, <2>1 DEF IsOn, o2
<1>7. CASE x = k
  <2>1. IsOn(o2, t, k) => t = m \/ IsOn(o, t, k)
    BY <1>2, <1>4 DEF IsOn, p
  <2>2. IsOn(o2, m, k)
    <3>1. 1 \in DOMAIN u
      BY <1>4, <1>5
    <3>2. QED
      BY <1>2, <1>4, <3>1 DEF IsOn
  <2>3. ASSUME IsOn(o, t, k)
        PROVE  IsOn(o2, t, k)
    <3>1. PICK j \in DOMAIN p : p[j] = t
      BY <2>3 DEF IsOn, p
    <3>2. j + 1 \in DOMAIN u /\ j + 1 # 1 /\ (j + 1) - 1 = j
      BY <1>4, <1>5, <3>1
    <3>3. u[j + 1] = t
      BY <1>4, <3>1, <3>2
    <3>4. QED
      BY <1>2, <3>2, <3>3 DEF IsOn
  <2>4. QED
    BY <1>7, <2>1, <2>2, <2>3 DEF o2
<1>8. QED
  BY <1>6, <1>7

\* Who leads, in terms of lists.
LEMMA LedIs ==
    ASSUME NEW o, NEW n, NEW m,
           \A l \in DllList : \A t : IsOn(o, t, l) => n[t].led = (l # "free"),
           \A s \in Sectors : s >= m => ~n[s].led,
           \A t : IsOn(o, t, "tombstone") => n[t].tombstoned
    PROVE  Led(o, n, m)
<1>1. \A l \in DllList : \A i \in DOMAIN o[l] : IsOn(o, o[l][i], l)
  BY DEF IsOn
<1>2. "tombstone" \in DllList
  BY DEF DllList
<1>3. \A l \in DllList : \A i \in DOMAIN o[l] : n[o[l][i]].led = (l # "free")
  BY <1>1
<1>4. \A i \in DOMAIN o["tombstone"] : n[o["tombstone"][i]].tombstoned
  BY <1>1, <1>2
<1>5. QED
  BY <1>3, <1>4 DEF Led

\* What an order says of the lists as the program walks them.
LEMMA InvFacts ==
    ASSUME WellTyped, NEW o \in Orders(len), Spells(o, node, head, len)
    PROVE  /\ len \in Nat /\ len <= MaxSectors /\ node \in Nodes /\ head \in Heads
           /\ Apart(o) /\ Covers(o, len)
           /\ \A l \in DllList : /\ o[l] \in Seq(Sectors) /\ Distinct(o[l])
                                 /\ Len(o[l]) \in Nat /\ Len(o[l]) <= MaxSectors
                                 /\ \A i \in DOMAIN o[l] : o[l][i] \in Slots(len)
                                 /\ \A t : t \in Members(l) <=> IsOn(o, t, l)
                                 /\ Walk(l)[MaxSectors] = Null
                                 /\ Walk(l) = Steps(o[l])
<1>1. len \in Nat /\ len <= MaxSectors /\ node \in Nodes /\ head \in Heads
  BY SlabAssumption DEF WellTyped, Nodes, Heads
<1>2. Apart(o) /\ Covers(o, len) /\ \A l \in DllList : Threads(o[l], node, head[l])
  BY DEF Spells
<1>3. ASSUME NEW l \in DllList
      PROVE  /\ o[l] \in Seq(Sectors) /\ Distinct(o[l])
             /\ Len(o[l]) \in Nat /\ Len(o[l]) <= MaxSectors
             /\ \A i \in DOMAIN o[l] : o[l][i] \in Slots(len)
  <2>1. /\ o[l] \in Seq(Sectors) /\ Distinct(o[l]) /\ Len(o[l]) \in Nat /\ Len(o[l]) <= len
        /\ \A i \in DOMAIN o[l] : o[l][i] \in Slots(len)
    BY <1>1, <1>2, OrderFacts
  <2>2. QED
    BY <1>1, <2>1, SlabAssumption
<1>4. ASSUME NEW l \in DllList
      PROVE  /\ \A t : t \in Members(l) <=> IsOn(o, t, l)
             /\ Walk(l)[MaxSectors] = Null /\ Walk(l) = Steps(o[l])
  <2>1. Members(l) = {o[l][i] : i \in DOMAIN o[l]} /\ Walk(l)[MaxSectors] = Null
    BY <1>2, <1>3, MembersAre
  <2>2. Walk(l) = Steps(o[l])
    BY <1>2, <1>3, WalkIs
  <2>3. QED
    BY <2>1, <2>2 DEF IsOn
<1>5. QED
  BY <1>1, <1>2, <1>3, <1>4

\* A sector is on one list at most.
LEMMA OnOneAtMost ==
    ASSUME NEW o, Apart(o), NEW l \in DllList, NEW k \in DllList, NEW s, IsOn(o, s, l), IsOn(o, s, k)
    PROVE  l = k
  BY DEF IsOn, Apart

\* vault_list_of finds a vault on the list it is on.
LEMMA ListOfIs ==
    ASSUME WellTyped, NEW o \in Orders(len), Spells(o, node, head, len), NEW s
    PROVE  /\ \A l : l \in ListsHolding(s) <=> l \in {"active", "tombstone"} /\ IsOn(o, s, l)
           /\ \A l \in {"active", "tombstone"} : IsOn(o, s, l) => ListOf(s) = l
<1>1. "active" \in DllList /\ "tombstone" \in DllList
  BY DEF DllList
<1>2. \A l : l \in ListsHolding(s) <=> l \in {"active", "tombstone"} /\ IsOn(o, s, l)
  BY <1>1, InvFacts DEF ListsHolding
<1>3. ASSUME NEW l \in {"active", "tombstone"}, IsOn(o, s, l)
      PROVE  ListOf(s) = l
  <2>1. IsOn(o, s, "active") => l = "active"
    BY <1>1, <1>3, InvFacts, OnOneAtMost
  <2>2. QED
    BY <1>2, <1>3, <2>1 DEF ListOf
<1>4. QED
  BY <1>2, <1>3

------------------------------------------------------------------------------
(* Every instruction keeps an order there to be spelled.                    *)

\* Three empty lists are in order.
LEMMA ListsInvInit == ListsInit => ListsInv
<1> SUFFICES ASSUME ListsInit
             PROVE  ListsInv
  OBVIOUS
<1> DEFINE o == [l \in DllList |-> <<>>]
<1>1. WellTyped
  BY SlabAssumption DEF ListsInit, WellTyped, Detached, Link
<1>2. o \in Orders(len) /\ \A l \in DllList : o[l] = <<>> /\ DOMAIN o[l] = {}
  BY DEF Orders
<1>3. o["active"] = <<>> /\ o["tombstone"] = <<>> /\ o["free"] = <<>>
  BY DEF DllList
<1> HIDE DEF o
<1>4. Apart(o)
  BY <1>2 DEF Apart
<1>5. Covers(o, len)
  <2>1. len = 0 /\ Slots(len) = {}
    BY DEF ListsInit, Slots
  <2>2. QED
    BY <1>3, <2>1 DEF Covers
<1>6. Led(o, node, len)
  <2>1. \A s \in Sectors : ~node[s].led
    BY DEF ListsInit, Detached
  <2>2. "tombstone" \in DllList
    BY DEF DllList
  <2>3. QED
    BY <1>2, <2>1, <2>2 DEF Led
<1>7. \A l \in DllList : Threads(o[l], node, head[l])
  BY <1>2 DEF Threads, ListsInit
<1>8. ThreadsBack(o["active"], node) /\ ThreadsBack(o["tombstone"], node)
  BY <1>3 DEF ThreadsBack
<1>9. activeCount = Len(o["active"])
  BY <1>3 DEF ListsInit
<1>10. QED
  BY <1>1, <1>2, <1>4, <1>5, <1>6, <1>7, <1>8, <1>9 DEF ListsInv, Spells

Frees == head["free"] # Null

\* create_vault on a reclaimed sector: the head of the free list comes off it.
LEMMA ReuseSpells ==
    ASSUME WellTyped, NEW o \in Orders(len), Spells(o, node, head, len),
           activeCount = Len(o["active"]), CreateVault, Frees
    PROVE  LET o2 == Moved(o, "free", 1, "active")
           IN  /\ WellTyped' /\ o2 \in Orders(len') /\ Spells(o2, node', head', len')
               /\ activeCount' = Len(o2["active"])
               /\ 1 \in DOMAIN o["free"] /\ len' = len
<1> DEFINE s  == head["free"]
           q  == o["free"]
           o1 == [o EXCEPT !["free"] = Without(q, 1)]
           o2 == Moved(o, "free", 1, "active")
           n  == [node EXCEPT ![s] = [Detached EXCEPT !.led = TRUE]]
           h  == [head EXCEPT !["free"] = node[s].next]
           M  == [node |-> n, head |-> h]
           r  == LinkHead(M, "active", s)
<1>1. "active" \in DllList /\ "tombstone" \in DllList /\ "free" \in DllList
      /\ \A x \in DllList : x = "active" \/ x = "tombstone" \/ x = "free"
  BY DEF DllList
<1>2. /\ len \in Nat /\ len <= MaxSectors /\ node \in Nodes /\ head \in Heads
      /\ Apart(o) /\ Covers(o, len)
      /\ \A l \in DllList : /\ o[l] \in Seq(Sectors) /\ Distinct(o[l])
                            /\ Len(o[l]) \in Nat /\ DOMAIN o[l] = 1 .. Len(o[l])
                            /\ \A i \in DOMAIN o[l] : o[l][i] \in Sectors /\ o[l][i] \in Slots(len)
  BY InvFacts
<1>3. /\ \A l \in DllList : Threads(o[l], node, head[l])
      /\ ThreadsBack(o["active"], node) /\ ThreadsBack(o["tombstone"], node)
      /\ Led(o, node, len)
  BY DEF Spells
<1>4. /\ r.node = node' /\ r.head = head' /\ len' = len /\ activeCount' = activeCount + 1
      /\ activeCount < MaxVaults
  BY DEF CreateVault, Frees, Allocated, HasRoom
<1>5. 1 \in DOMAIN q /\ s = q[1] /\ q # <<>>
  <2>1. q # <<>>
    BY <1>1, <1>3 DEF Frees, Threads
  <2>2. q \in Seq(Sectors)
    BY <1>1, <1>2
  <2>3. s = q[1]
    BY <1>1, <1>3, <2>1 DEF Threads
  <2> HIDE DEF q
  <2>4. QED
    BY <2>1, <2>2, <2>3
<1>6. s \in Sectors /\ s \in Slots(len)
  BY <1>1, <1>2, <1>5
<1>7. /\ o2 \in Orders(len) /\ Apart(o2) /\ Covers(o2, len)
      /\ o2["free"] = Without(q, 1) /\ o2["active"] = Pushed(s, o["active"])
      /\ o2["tombstone"] = o["tombstone"]
  BY <1>1, <1>2, <1>5, MovedShares
<1>8. \A x \in DllList, t \in Slots(len) :
         IsOn(o2, t, x) <=> IF t = s THEN x = "active" ELSE IsOn(o, t, x)
  BY <1>1, <1>2, <1>5, MovedIsOn
<1>9. o1["free"] = Without(q, 1) /\ o1["active"] = o["active"] /\ o1["tombstone"] = o["tombstone"]
  BY <1>1 DEF Orders
<1> HIDE DEF o2, o1, q
<1>10. Without(q, 1) \in Seq(Sectors) /\ Distinct(Without(q, 1))
       /\ \A j \in DOMAIN Without(q, 1) : j + 1 \in DOMAIN q /\ Without(q, 1)[j] = q[j + 1] /\ j \in Nat
  <2>1. q \in Seq(Sectors) /\ Distinct(q)
    BY <1>1, <1>2 DEF q
  <2>2. /\ Without(q, 1) \in Seq(Sectors)
        /\ DOMAIN Without(q, 1) = 1 .. Len(q) - 1 /\ Len(q) \in Nat
        /\ \A j \in DOMAIN Without(q, 1) : /\ j \in DOMAIN q /\ j + 1 \in DOMAIN q
                             /\ Without(q, 1)[j] = IF j < 1 THEN q[j] ELSE q[j + 1]
    BY <1>5, <2>1, WithoutIs
  <2>3. \A j \in DOMAIN Without(q, 1) : j + 1 \in DOMAIN q /\ Without(q, 1)[j] = q[j + 1] /\ j \in Nat
    <3>1. \A j \in DOMAIN Without(q, 1) : j \in Nat /\ ~(j < 1)
      BY <2>2
    <3>2. QED
      BY <2>2, <3>1
  <2>4. Distinct(Without(q, 1))
    <3>1. SUFFICES ASSUME NEW a \in DOMAIN Without(q, 1), NEW b \in DOMAIN Without(q, 1),
                          Without(q, 1)[a] = Without(q, 1)[b]
                   PROVE  a = b
      BY DEF Distinct
    <3>2. a + 1 \in DOMAIN q /\ b + 1 \in DOMAIN q /\ q[a + 1] = q[b + 1] /\ a \in Nat /\ b \in Nat
      BY <2>3, <3>1
    <3>3. a + 1 = b + 1
      BY <2>1, <3>2 DEF Distinct
    <3>4. QED
      BY <3>2, <3>3
  <2>5. QED
    BY <2>2, <2>3, <2>4
<1>11. n \in Nodes /\ h \in Heads
       /\ n[s].led /\ (\A x \in Sectors : x # s => n[x] = node[x])
       /\ h["free"] = node[s].next /\ h["active"] = head["active"] /\ h["tombstone"] = head["tombstone"]
  <2>1. [Detached EXCEPT !.led = TRUE]
          \in [next : Link, prev : Link, led : BOOLEAN, tombstoned : BOOLEAN]
        /\ [Detached EXCEPT !.led = TRUE].led
    BY DEF Detached, Link
  <2>2. n \in Nodes /\ n[s].led /\ (\A x \in Sectors : x # s => n[x] = node[x])
    BY <1>2, <1>6, <2>1 DEF Nodes
  <2>3. node[s].next \in Link
    BY <1>2, <1>6 DEF Nodes
  <2>4. QED
    BY <1>1, <1>2, <2>2, <2>3 DEF Heads
<1> HIDE DEF n, h
<1>12. \A x \in DllList : \A j \in DOMAIN o1[x] :
          o1[x][j] # s /\ \E d \in DOMAIN o[x] : o1[x][j] = o[x][d]
  <2>1. ASSUME NEW j \in DOMAIN o1["free"]
        PROVE  o1["free"][j] # s /\ \E d \in DOMAIN o["free"] : o1["free"][j] = o["free"][d]
    <3>1. j + 1 \in DOMAIN q /\ o1["free"][j] = q[j + 1] /\ j + 1 # 1
      BY <1>9, <1>10, <2>1
    <3>2. q[j + 1] # q[1]
      BY <1>1, <1>2, <1>5, <3>1 DEF q, Distinct
    <3>3. QED
      BY <1>5, <3>1, <3>2 DEF q
  <2>2. ASSUME NEW x \in DllList, x # "free", NEW j \in DOMAIN o1[x]
        PROVE  o1[x][j] # s /\ \E d \in DOMAIN o[x] : o1[x][j] = o[x][d]
    <3>1. o1[x] = o[x]
      BY <1>1, <1>9, <2>2
    <3>2. o[x][j] # q[1]
      BY <1>1, <1>2, <1>5, <2>2, <3>1 DEF Apart, q
    <3>3. QED
      BY <1>5, <2>2, <3>1, <3>2
  <2>3. QED
    BY <2>1, <2>2
<1>13. \A x, y \in DllList : x # y =>
          \A j \in DOMAIN o1[x], d \in DOMAIN o1[y] : o1[x][j] # o1[y][d]
  BY <1>2, <1>12 DEF Apart
<1>14. \A x \in DllList : Threads(o1[x], n, h[x])
  <2>1. Threads(Without(q, 1), node, node[q[1]].next)
    <3>1. q \in Seq(Sectors) /\ Distinct(q) /\ Threads(q, node, head["free"])
      BY <1>1, <1>2, <1>3 DEF q
    <3>2. QED
      BY <1>5, <3>1, TailThreads
  <2>2. \A x \in DllList : \A j \in DOMAIN o1[x] : o1[x][j] \in Sectors /\ n[o1[x][j]] = node[o1[x][j]]
    BY <1>2, <1>11, <1>12
  <2>3. Threads(o1["free"], node, h["free"])
    BY <1>5, <1>9, <1>11, <2>1
  <2>4. Threads(o1["active"], node, h["active"]) /\ Threads(o1["tombstone"], node, h["tombstone"])
    BY <1>1, <1>3, <1>9, <1>11
  <2>5. \A x \in DllList : Threads(o1[x], node, h[x])
    BY <1>1, <2>3, <2>4
  <2>6. QED
    BY <2>2, <2>5, ThreadsFrame
<1>15. ThreadsBack(o1["active"], n) /\ ThreadsBack(o1["tombstone"], n)
  <2>1. \A x \in DllList : \A j \in DOMAIN o1[x] : n[o1[x][j]] = node[o1[x][j]]
    BY <1>2, <1>11, <1>12
  <2>2. ThreadsBack(o1["active"], node) /\ ThreadsBack(o1["tombstone"], node)
    BY <1>3, <1>9
  <2>3. QED
    BY <1>1, <2>1, <2>2, ThreadsBackFrame
<1>16. /\ r.node \in Nodes /\ r.head \in Heads /\ OnlyPointers(n, r.node)
       /\ \A x \in DllList : Threads(o2[x], r.node, r.head[x])
       /\ ThreadsBack(o2["active"], r.node) /\ ThreadsBack(o2["tombstone"], r.node)
  <2>1. \A x \in DllList : /\ o1[x] \in Seq(Sectors) /\ Distinct(o1[x])
                           /\ Threads(o1[x], n, h[x])
                           /\ \A j \in DOMAIN o1[x] : o1[x][j] # s
    <3>1. \A x \in DllList : o1[x] \in Seq(Sectors) /\ Distinct(o1[x])
      BY <1>1, <1>2, <1>9, <1>10
    <3>2. QED
      BY <1>12, <1>14, <3>1
  <2>2. /\ o2["active"] = Pushed(s, o1["active"])
        /\ o2["tombstone"] = o1["tombstone"] /\ o2["free"] = o1["free"]
    BY <1>7, <1>9
  <2>3. r = LinkHead([node |-> n, head |-> h], "active", s)
    OBVIOUS
  <2> HIDE DEF r, s
  <2>4. QED
    BY <1>6, <1>11, <1>13, <1>15, <2>1, <2>2, <2>3, HandOutThreads
<1>17. Led(o2, node', len')
  <2>1. \A l \in DllList : \A t : IsOn(o2, t, l) => t \in Slots(len) /\ t \in Sectors
    <3>1. \A l \in DllList : \A i \in DOMAIN o2[l] : o2[l][i] \in Slots(len) /\ o2[l][i] \in Sectors
      BY <1>2, <1>7, OrderFacts
    <3>2. QED
      BY <3>1 DEF IsOn
  <2>2. \A t \in Sectors : /\ node'[t].led = n[t].led
                           /\ node'[t].tombstoned = n[t].tombstoned
    BY <1>4, <1>16 DEF OnlyPointers
  <2>3. \A l \in DllList : \A t : IsOn(o2, t, l) => node'[t].led = (l # "free")
    <3>1. SUFFICES ASSUME NEW l \in DllList, NEW t, IsOn(o2, t, l)
                   PROVE  node'[t].led = (l # "free")
      OBVIOUS
    <3>2. CASE t = s
      <4>1. l = "active"
        BY <1>6, <1>8, <3>1, <3>2
      <4>2. n[s].led = TRUE
        BY <1>6, <1>11 DEF Nodes
      <4>3. QED
        BY <1>6, <2>2, <3>2, <4>1, <4>2
    <3>3. CASE t # s
      <4>1. IsOn(o, t, l) /\ t \in Sectors
        BY <1>8, <2>1, <3>1, <3>3
      <4>2. node[t].led = (l # "free")
        BY <1>3, <4>1 DEF Led, IsOn
      <4>3. QED
        BY <1>11, <2>2, <3>3, <4>1, <4>2
    <3>4. QED
      BY <3>2, <3>3
  <2>4. \A t \in Sectors : t >= len' => ~node'[t].led
    <3>1. \A t \in Sectors : t >= len => t # s
      BY <1>2, <1>6 DEF Slots
    <3>2. QED
      BY <1>3, <1>4, <1>11, <2>2, <3>1 DEF Led
  <2>5. \A t : IsOn(o2, t, "tombstone") => node'[t].tombstoned
    <3>1. SUFFICES ASSUME NEW t, IsOn(o2, t, "tombstone")
                   PROVE  node'[t].tombstoned
      OBVIOUS
    <3>2. t # s /\ IsOn(o, t, "tombstone") /\ t \in Sectors
      BY <1>1, <1>8, <2>1, <3>1
    <3>3. node[t].tombstoned
      BY <1>3, <3>2 DEF Led, IsOn
    <3>4. QED
      BY <1>11, <2>2, <3>2, <3>3
  <2>6. QED
    BY <2>3, <2>4, <2>5, LedIs
<1>18. activeCount' = Len(o2["active"]) /\ activeCount' \in 0 .. MaxVaults
  <2>1. Len(o2["active"]) = Len(o["active"]) + 1
    <3>1. o["active"] \in Seq(Sectors) /\ s \in Sectors
      BY <1>1, <1>2, <1>6
    <3>2. Len(Pushed(s, o["active"])) = Len(o["active"]) + 1
      <4> DEFINE p == o["active"]
      <4>1. p \in Seq(Sectors) /\ s \in Sectors
        BY <3>1
      <4> HIDE DEF p, s
      <4>2. Len(Pushed(s, p)) = Len(p) + 1
        BY <4>1, PushedIs
      <4>3. QED
        BY <4>2 DEF p
    <3>3. QED
      BY <1>7, <3>2
  <2>2. activeCount \in Nat
    BY SlabAssumption DEF WellTyped
  <2>3. QED
    BY <1>4, <2>1, <2>2, SlabAssumption
<1>19. WellTyped'
  BY <1>4, <1>16, <1>18 DEF WellTyped, Nodes, Heads
<1>20. Spells(o2, node', head', len')
  BY <1>4, <1>7, <1>16, <1>17 DEF Spells
<1>21. QED
  BY <1>4, <1>5, <1>7, <1>18, <1>19, <1>20 DEF o2, q

\* create_vault on a new sector: the slab grows by it.
LEMMA GrowSpells ==
    ASSUME WellTyped, NEW o \in Orders(len), Spells(o, node, head, len),
           activeCount = Len(o["active"]), CreateVault, ~Frees
    PROVE  LET o2 == [o EXCEPT !["active"] = Pushed(len, @)]
           IN  /\ WellTyped' /\ o2 \in Orders(len') /\ Spells(o2, node', head', len')
               /\ activeCount' = Len(o2["active"])
               /\ o["free"] = <<>> /\ len' = len + 1 /\ len \in Sectors
<1> DEFINE s  == len
           o2 == [o EXCEPT !["active"] = Pushed(s, @)]
           n  == [node EXCEPT ![s] = [Detached EXCEPT !.led = TRUE]]
           M  == [node |-> n, head |-> head]
           r  == LinkHead(M, "active", s)
<1>1. "active" \in DllList /\ "tombstone" \in DllList /\ "free" \in DllList
      /\ \A x \in DllList : x = "active" \/ x = "tombstone" \/ x = "free"
  BY DEF DllList
<1>2. /\ len \in Nat /\ len <= MaxSectors /\ node \in Nodes /\ head \in Heads
      /\ Apart(o) /\ Covers(o, len)
      /\ \A l \in DllList : /\ o[l] \in Seq(Sectors) /\ Distinct(o[l])
                            /\ Len(o[l]) \in Nat /\ DOMAIN o[l] = 1 .. Len(o[l])
                            /\ \A i \in DOMAIN o[l] : o[l][i] \in Sectors /\ o[l][i] \in Slots(len)
  BY InvFacts
<1>3. /\ \A l \in DllList : Threads(o[l], node, head[l])
      /\ ThreadsBack(o["active"], node) /\ ThreadsBack(o["tombstone"], node)
      /\ Led(o, node, len)
  BY DEF Spells
<1>4. /\ r.node = node' /\ r.head = head' /\ len' = len + 1 /\ activeCount' = activeCount + 1
      /\ activeCount < MaxVaults /\ len < MaxSectors
  BY DEF CreateVault, Frees, Allocated, HasRoom
<1>5. s \in Sectors /\ s \notin Slots(len) /\ len' \in Nat /\ len' <= MaxSectors
  BY <1>2, <1>4, SlabAssumption DEF Sectors, Slots
<1>6. o["free"] = <<>>
  <2>1. head["free"] = Null
    BY DEF Frees
  <2>2. o["free"] # <<>> => 1 \in DOMAIN o["free"]
    BY <1>1, <1>2
  <2>3. o["free"] # <<>> => head["free"] = o["free"][1]
    BY <1>1, <1>3 DEF Threads
  <2>4. QED
    BY <1>1, <1>2, <2>1, <2>2, <2>3, NullAssumption
<1>7. /\ o2 \in Orders(len + 1) /\ Apart(o2) /\ Covers(o2, len + 1)
  BY <1>1, <1>2, GrownShares
<1>8. \A x \in DllList, t \in Slots(len + 1) :
         IsOn(o2, t, x) <=> IF t = s THEN x = "active" ELSE IsOn(o, t, x)
  BY ZenonT(30), <1>1, <1>2, GrownIsOn
<1>9. o2["active"] = Pushed(s, o["active"]) /\ o2["tombstone"] = o["tombstone"] /\ o2["free"] = o["free"]
  BY <1>1 DEF Orders
<1> HIDE DEF o2
<1>10. n \in Nodes /\ n[s].led /\ (\A x \in Sectors : x # s => n[x] = node[x])
  <2>1. [Detached EXCEPT !.led = TRUE]
          \in [next : Link, prev : Link, led : BOOLEAN, tombstoned : BOOLEAN]
        /\ [Detached EXCEPT !.led = TRUE].led
    BY DEF Detached, Link
  <2>2. QED
    BY <1>2, <1>5, <2>1 DEF Nodes
<1> HIDE DEF n
<1>11. \A x \in DllList : \A j \in DOMAIN o[x] : o[x][j] # s /\ n[o[x][j]] = node[o[x][j]]
  BY <1>2, <1>5, <1>10
<1>12. \A x, y \in DllList : x # y =>
          \A j \in DOMAIN o[x], d \in DOMAIN o[y] : o[x][j] # o[y][d]
  BY <1>2 DEF Apart
<1>13. /\ r.node \in Nodes /\ r.head \in Heads /\ OnlyPointers(n, r.node)
       /\ \A x \in DllList : Threads(o2[x], r.node, r.head[x])
       /\ ThreadsBack(o2["active"], r.node) /\ ThreadsBack(o2["tombstone"], r.node)
  <2>1. \A x \in DllList : Threads(o[x], n, head[x])
    BY <1>3, <1>11, ThreadsFrame
  <2>2. ThreadsBack(o["active"], n) /\ ThreadsBack(o["tombstone"], n)
    BY <1>1, <1>3, <1>11, ThreadsBackFrame
  <2>3. \A x \in DllList : /\ o[x] \in Seq(Sectors) /\ Distinct(o[x])
                           /\ Threads(o[x], n, head[x])
                           /\ \A j \in DOMAIN o[x] : o[x][j] # s
    BY <1>2, <1>11, <2>1
  <2>4. r = LinkHead([node |-> n, head |-> head], "active", s)
    OBVIOUS
  <2> HIDE DEF r, s
  <2>5. QED
    BY <1>2, <1>5, <1>9, <1>10, <1>12, <2>2, <2>3, <2>4, HandOutThreads
<1>14. Led(o2, node', len')
  <2>1. \A l \in DllList : \A t : IsOn(o2, t, l) => t \in Slots(len + 1) /\ t \in Sectors
    <3>1. Slots(len + 1) \subseteq Sectors
      BY <1>2, <1>4, SlabAssumption DEF Slots, Sectors
    <3>2. \A l \in DllList : \A i \in DOMAIN o2[l] : o2[l][i] \in Slots(len + 1)
      BY <1>2, <1>7, OrderFacts
    <3>3. QED
      BY <3>1, <3>2 DEF IsOn
  <2>2. \A t \in Sectors : /\ node'[t].led = n[t].led
                           /\ node'[t].tombstoned = n[t].tombstoned
    BY <1>4, <1>13 DEF OnlyPointers
  <2>3. \A l \in DllList : \A t : IsOn(o2, t, l) => node'[t].led = (l # "free")
    <3>1. SUFFICES ASSUME NEW l \in DllList, NEW t, IsOn(o2, t, l)
                   PROVE  node'[t].led = (l # "free")
      OBVIOUS
    <3>2. CASE t = s
      <4>1. l = "active"
        BY <1>8, <2>1, <3>1, <3>2
      <4>2. n[s].led = TRUE
        BY <1>5, <1>10 DEF Nodes
      <4>3. QED
        BY <1>5, <2>2, <3>2, <4>1, <4>2
    <3>3. CASE t # s
      <4>1. IsOn(o, t, l) /\ t \in Sectors
        BY <1>8, <2>1, <3>1, <3>3
      <4>2. node[t].led = (l # "free")
        BY <1>3, <4>1 DEF Led, IsOn
      <4>3. QED
        BY <1>10, <2>2, <3>3, <4>1, <4>2
    <3>4. QED
      BY <3>2, <3>3
  <2>4. \A t \in Sectors : t >= len' => ~node'[t].led
    <3>1. \A t \in Sectors : t >= len + 1 => t # s /\ t >= len
      BY <1>2, SlabAssumption DEF Sectors
    <3>2. QED
      BY <1>3, <1>4, <1>10, <2>2, <3>1 DEF Led
  <2>5. \A t : IsOn(o2, t, "tombstone") => node'[t].tombstoned
    <3>1. SUFFICES ASSUME NEW t, IsOn(o2, t, "tombstone")
                   PROVE  node'[t].tombstoned
      OBVIOUS
    <3>2. t # s /\ IsOn(o, t, "tombstone") /\ t \in Sectors
      BY <1>1, <1>8, <2>1, <3>1
    <3>3. node[t].tombstoned
      BY <1>3, <3>2 DEF Led, IsOn
    <3>4. QED
      BY <1>10, <2>2, <3>2, <3>3
  <2>6. QED
    BY <2>3, <2>4, <2>5, LedIs
<1>15. activeCount' = Len(o2["active"]) /\ activeCount' \in 0 .. MaxVaults
  <2>1. Len(o2["active"]) = Len(o["active"]) + 1
    <3> DEFINE p == o["active"]
    <3>1. p \in Seq(Sectors) /\ s \in Sectors
      BY <1>1, <1>2, <1>5
    <3> HIDE DEF p, s
    <3>2. Len(Pushed(s, p)) = Len(p) + 1
      BY <3>1, PushedIs
    <3>3. QED
      BY <1>9, <3>2 DEF p
  <2>2. activeCount \in Nat
    BY SlabAssumption DEF WellTyped
  <2>3. QED
    BY <1>4, <2>1, <2>2, SlabAssumption
<1>16. WellTyped'
  BY <1>4, <1>5, <1>13, <1>15, SlabAssumption DEF WellTyped, Nodes, Heads
<1>17. Spells(o2, node', head', len')
  BY <1>4, <1>7, <1>13, <1>14 DEF Spells
<1>18. QED
  BY <1>4, <1>5, <1>6, <1>7, <1>15, <1>16, <1>17 DEF o2

\* A flag is set and no pointer moves.
LEMMA FlagSet ==
    ASSUME NEW n \in Nodes, NEW s \in Sectors, NEW n2,
           \/ n2 = [n EXCEPT ![s].tombstoned = TRUE]
           \/ n2 = [n EXCEPT ![s].led = FALSE]
    PROVE  /\ n2 \in Nodes
           /\ \A x \in Sectors : n2[x].next = n[x].next /\ n2[x].prev = n[x].prev
           /\ \A x \in Sectors : x # s => n2[x] = n[x]
           /\ n2 = [n EXCEPT ![s].tombstoned = TRUE]
                 => n2[s].tombstoned /\ n2[s].led = n[s].led
           /\ n2 = [n EXCEPT ![s].led = FALSE] => ~n2[s].led
<1>1. CASE n2 = [n EXCEPT ![s].tombstoned = TRUE]
  <2>1. /\ n2 \in Nodes
        /\ \A x \in Sectors : n2[x].next = n[x].next /\ n2[x].prev = n[x].prev
        /\ \A x \in Sectors : x # s => n2[x] = n[x]
        /\ n2[s].tombstoned /\ n2[s].led = n[s].led
    BY <1>1 DEF Nodes
  <2>2. n2 = [n EXCEPT ![s].led = FALSE] => ~n2[s].led
    BY DEF Nodes
  <2>3. QED
    BY <2>1, <2>2
<1>2. CASE n2 = [n EXCEPT ![s].led = FALSE]
  <2>1. /\ n2 \in Nodes
        /\ \A x \in Sectors : n2[x].next = n[x].next /\ n2[x].prev = n[x].prev
        /\ \A x \in Sectors : x # s => n2[x] = n[x]
        /\ ~n2[s].led
    BY <1>2 DEF Nodes
  <2>2. n2 = [n EXCEPT ![s].tombstoned = TRUE] => n2[s].tombstoned /\ n2[s].led = n[s].led
    BY DEF Nodes
  <2>3. QED
    BY <2>1, <2>2
<1>3. QED
  BY <1>1, <1>2

\* A step that moves a sector from a list of vaults to the head of another list, and sets
\* its leader and its tombstone flag to go with it.
LEMMA MoveSpells ==
    ASSUME WellTyped, NEW o \in Orders(len), Spells(o, node, head, len),
           NEW l \in {"active", "tombstone"}, NEW k \in {"tombstone", "free"}, l # k,
           NEW i \in DOMAIN o[l], len' = len,
           NEW r, r = Rejoined(node, head, l, o[l][i], k), head' = r.head,
           \/ /\ k = "tombstone" /\ node' = [r.node EXCEPT ![o[l][i]].tombstoned = TRUE]
           \/ /\ k = "free"      /\ node' = [r.node EXCEPT ![o[l][i]].led = FALSE]
    PROVE  LET o2 == Moved(o, l, i, k)
           IN  /\ node' \in Nodes /\ head' \in Heads
               /\ o2 \in Orders(len') /\ Spells(o2, node', head', len')
               /\ Len(o2["active"]) = IF l = "active" THEN Len(o["active"]) - 1 ELSE Len(o["active"])
<1> DEFINE s  == o[l][i]
           o2 == Moved(o, l, i, k)
<1>1. l \in DllList /\ k \in DllList /\ "active" \in DllList /\ "tombstone" \in DllList
  BY DEF DllList
<1>2. /\ len \in Nat /\ len <= MaxSectors /\ node \in Nodes /\ head \in Heads
      /\ Apart(o) /\ Covers(o, len)
      /\ o["active"] \in Seq(Sectors)
      /\ s \in Sectors /\ s \in Slots(len)
  BY <1>1, InvFacts
<1>3. Led(o, node, len)
  BY DEF Spells
<1>4. /\ r.node \in Nodes /\ r.head \in Heads /\ OnlyPointers(node, r.node)
      /\ \A x \in DllList : Threads(o2[x], r.node, r.head[x])
      /\ ThreadsBack(o2["active"], r.node) /\ ThreadsBack(o2["tombstone"], r.node)
  BY ZenonT(30), <1>2, MoveThreads
<1>5. /\ o2 \in Orders(len) /\ Apart(o2) /\ Covers(o2, len)
      /\ o2[l] = Without(o[l], i) /\ \A x \in DllList : x \notin {l, k} => o2[x] = o[x]
  BY <1>1, <1>2, MovedShares
<1>6. \A x \in DllList, t \in Slots(len) :
         IsOn(o2, t, x) <=> IF t = s THEN x = k ELSE IsOn(o, t, x)
  BY <1>1, <1>2, MovedIsOn
<1> HIDE DEF o2, s
<1>7. /\ node' \in Nodes
      /\ \A x \in Sectors : node'[x].next = r.node[x].next /\ node'[x].prev = r.node[x].prev
      /\ \A x \in Sectors : x # s => node'[x] = r.node[x]
      /\ k = "tombstone" => node'[s].tombstoned /\ node'[s].led = r.node[s].led
      /\ k = "free" => ~node'[s].led
  <2> DEFINE n == r.node
             n2 == node'
  <2>1. /\ n \in Nodes
        /\ \/ n2 = [n EXCEPT ![s].tombstoned = TRUE]
           \/ n2 = [n EXCEPT ![s].led = FALSE]
        /\ k = "tombstone" => n2 = [n EXCEPT ![s].tombstoned = TRUE]
        /\ k = "free" => n2 = [n EXCEPT ![s].led = FALSE]
    BY <1>4 DEF s
  <2> HIDE DEF n, n2
  <2>2. /\ n2 \in Nodes
        /\ \A x \in Sectors : n2[x].next = n[x].next /\ n2[x].prev = n[x].prev
        /\ \A x \in Sectors : x # s => n2[x] = n[x]
        /\ k = "tombstone" => n2[s].tombstoned /\ n2[s].led = n[s].led
        /\ k = "free" => ~n2[s].led
    BY <1>2, <2>1, FlagSet
  <2>3. QED
    BY <2>2 DEF n, n2
<1>8. \A x \in DllList : \A j \in DOMAIN o2[x] : o2[x][j] \in Slots(len) /\ o2[x][j] \in Sectors
  BY <1>2, <1>5, OrderFacts
<1>9. \A x \in DllList : Threads(o2[x], node', head'[x])
  <2>1. \A x \in DllList : Threads(o2[x], r.node, head'[x])
    BY <1>4
  <2>2. \A x \in DllList : \A j \in DOMAIN o2[x] : node'[o2[x][j]].next = r.node[o2[x][j]].next
    BY <1>7, <1>8
  <2> DEFINE n2 == node'
             h2 == head'
             n  == r.node
  <2> HIDE DEF n2, h2, n
  <2>3. \A x \in DllList : Threads(o2[x], n, h2[x])
    BY <2>1 DEF n, h2
  <2>4. \A x \in DllList : \A j \in DOMAIN o2[x] : n2[o2[x][j]].next = n[o2[x][j]].next
    BY <2>2 DEF n, n2
  <2>5. \A x \in DllList : Threads(o2[x], n2, h2[x])
    BY <2>3, <2>4, ThreadsFrame
  <2>6. QED
    BY <2>5 DEF n2, h2
<1>10. ThreadsBack(o2["active"], node') /\ ThreadsBack(o2["tombstone"], node')
  <2>1. \A x \in DllList : \A j \in DOMAIN o2[x] : node'[o2[x][j]].prev = r.node[o2[x][j]].prev
    BY <1>7, <1>8
  <2> DEFINE n2 == node'
             n  == r.node
  <2> HIDE DEF n2, n
  <2>2. ThreadsBack(o2["active"], n) /\ ThreadsBack(o2["tombstone"], n)
    BY <1>4 DEF n
  <2>3. \A x \in DllList : \A j \in DOMAIN o2[x] : n2[o2[x][j]].prev = n[o2[x][j]].prev
    BY <2>1 DEF n, n2
  <2>4. ThreadsBack(o2["active"], n2) /\ ThreadsBack(o2["tombstone"], n2)
    BY <1>1, <2>2, <2>3, ThreadsBackFrame
  <2>5. QED
    BY <2>4 DEF n2
<1>11. Led(o2, node', len')
  <2>1. \A x \in DllList : \A t : IsOn(o2, t, x) => t \in Slots(len) /\ t \in Sectors
    BY <1>8 DEF IsOn
  <2>2. node[s].led = TRUE
    BY <1>1, <1>3 DEF Led, s
  <2>3. \A x \in DllList : \A t : IsOn(o2, t, x) => node'[t].led = (x # "free")
    <3>1. SUFFICES ASSUME NEW x \in DllList, NEW t, IsOn(o2, t, x)
                   PROVE  node'[t].led = (x # "free")
      OBVIOUS
    <3>2. CASE t = s
      <4>1. x = k
        BY <1>2, <1>6, <3>1, <3>2
      <4>2. r.node[s].led = TRUE
        BY <1>2, <1>4, <2>2 DEF OnlyPointers
      <4>3. node'[s].led \in BOOLEAN
        BY <1>2, <1>7 DEF Nodes
      <4>4. QED
        BY <1>7, <3>2, <4>1, <4>2, <4>3
    <3>3. CASE t # s
      <4>1. IsOn(o, t, x) /\ t \in Sectors
        BY <1>6, <2>1, <3>1, <3>3
      <4>2. node[t].led = (x # "free")
        BY <1>3, <4>1 DEF Led, IsOn
      <4>3. node'[t].led = node[t].led
        BY <1>4, <1>7, <3>3, <4>1 DEF OnlyPointers
      <4>4. QED
        BY <4>2, <4>3
    <3>4. QED
      BY <3>2, <3>3
  <2>4. \A t \in Sectors : t >= len' => ~node'[t].led
    <3>1. \A t \in Sectors : t >= len => t # s
      BY <1>2 DEF Slots
    <3>2. \A t \in Sectors : t # s => node'[t].led = node[t].led
      BY <1>4, <1>7 DEF OnlyPointers
    <3>3. QED
      BY <1>3, <3>1, <3>2 DEF Led
  <2>5. \A t : IsOn(o2, t, "tombstone") => node'[t].tombstoned
    <3>1. SUFFICES ASSUME NEW t, IsOn(o2, t, "tombstone")
                   PROVE  node'[t].tombstoned
      OBVIOUS
    <3>2. t \in Slots(len) /\ t \in Sectors
      BY <1>1, <2>1, <3>1
    <3>3. CASE t = s
      BY <1>1, <1>6, <1>7, <3>1, <3>2, <3>3
    <3>4. CASE t # s
      <4>1. IsOn(o, t, "tombstone")
        BY <1>1, <1>6, <3>1, <3>2, <3>4
      <4>2. node[t].tombstoned
        BY <1>3, <4>1 DEF Led, IsOn
      <4>3. QED
        BY <1>4, <1>7, <3>2, <3>4, <4>2 DEF OnlyPointers
    <3>5. QED
      BY <3>3, <3>4
  <2>6. QED
    BY <2>3, <2>4, <2>5, LedIs
<1>12. Len(o2["active"]) = IF l = "active" THEN Len(o["active"]) - 1 ELSE Len(o["active"])
  <2>1. CASE l = "active"
    <3> DEFINE p == o["active"]
    <3>1. p \in Seq(Sectors) /\ i \in DOMAIN p /\ o2["active"] = Without(p, i)
      BY <1>2, <1>5, <2>1
    <3> HIDE DEF p
    <3>2. Len(Without(p, i)) = Len(p) - 1
      BY <3>1, WithoutIs
    <3>3. QED
      BY <2>1, <3>1, <3>2 DEF p
  <2>2. CASE l # "active"
    BY <1>1, <1>5, <2>2
  <2>3. QED
    BY <2>1, <2>2
<1>13. Spells(o2, node', head', len')
  BY <1>5, <1>9, <1>10, <1>11 DEF Spells
<1>14. QED
  BY <1>4, <1>5, <1>7, <1>12, <1>13 DEF o2

\* What the lists spell after an instruction, in terms of what they spelled before.
Reused(o, o2)   == 1 \in DOMAIN o["free"] /\ o2 = Moved(o, "free", 1, "active") /\ len' = len
Grown(o, o2)    == /\ o["free"] = <<>> /\ len \in Sectors /\ len' = len + 1
                   /\ o2 = [o EXCEPT !["active"] = Pushed(len, @)]
Shifted(o, o2, l, k) == len' = len /\ \E i \in DOMAIN o[l] : o2 = Moved(o, l, i, k)

\* Every instruction of the lists does one of these to the order they spell.
LEMMA InstructionSpells ==
    ASSUME WellTyped, NEW o \in Orders(len), Spells(o, node, head, len),
           activeCount = Len(o["active"]), ListsNext
    PROVE  \E o2 \in Orders(len') :
              /\ WellTyped' /\ Spells(o2, node', head', len') /\ activeCount' = Len(o2["active"])
              /\ \/ HasRoom /\ (Reused(o, o2) \/ Grown(o, o2))
                 \/ Shifted(o, o2, "active", "tombstone")
                 \/ \E l \in {"active", "tombstone"} : Shifted(o, o2, l, "free")
<1>1. activeCount \in Nat /\ activeCount <= MaxVaults /\ MaxVaults \in Nat
  BY SlabAssumption DEF WellTyped
<1>2. CASE CreateVault /\ Frees
  <2> DEFINE o2 == Moved(o, "free", 1, "active")
  <2>1. /\ WellTyped' /\ o2 \in Orders(len') /\ Spells(o2, node', head', len')
        /\ activeCount' = Len(o2["active"]) /\ 1 \in DOMAIN o["free"] /\ len' = len
    BY <1>2, ReuseSpells
  <2>2. HasRoom
    BY <1>2 DEF CreateVault
  <2>3. Reused(o, o2)
    BY <2>1 DEF Reused
  <2> HIDE DEF o2
  <2>4. QED
    BY <2>1, <2>2, <2>3
<1>3. CASE CreateVault /\ ~Frees
  <2> DEFINE o2 == [o EXCEPT !["active"] = Pushed(len, @)]
  <2>1. /\ WellTyped' /\ o2 \in Orders(len') /\ Spells(o2, node', head', len')
        /\ activeCount' = Len(o2["active"]) /\ o["free"] = <<>> /\ len' = len + 1 /\ len \in Sectors
    BY <1>3, GrowSpells
  <2>2. HasRoom
    BY <1>3 DEF CreateVault
  <2>3. Grown(o, o2)
    BY <2>1 DEF Grown
  <2> HIDE DEF o2
  <2>4. QED
    BY <2>1, <2>2, <2>3
<1>4. ASSUME NEW s \in Sectors, CloseVault(s)
      PROVE  \E o2 \in Orders(len') :
                /\ WellTyped' /\ Spells(o2, node', head', len') /\ activeCount' = Len(o2["active"])
                /\ Shifted(o, o2, "active", "tombstone")
  <2>1. IsOn(o, s, "active")
    BY <1>4, ListOfIs DEF CloseVault
  <2>2. PICK i \in DOMAIN o["active"] : o["active"][i] = s
    BY <2>1 DEF IsOn
  <2> DEFINE r  == Rejoined(node, head, "active", o["active"][i], "tombstone")
             o2 == Moved(o, "active", i, "tombstone")
  <2>3. /\ len' = len /\ head' = r.head
        /\ node' = [r.node EXCEPT ![o["active"][i]].tombstoned = TRUE]
        /\ activeCount' = IF activeCount = 0 THEN 0 ELSE activeCount - 1
    BY <1>4, <2>2 DEF CloseVault, Rejoined, Parted, Lists
  <2> HIDE DEF r
  <2>4. /\ node' \in Nodes /\ head' \in Heads
        /\ o2 \in Orders(len') /\ Spells(o2, node', head', len')
        /\ Len(o2["active"]) = Len(o["active"]) - 1
    BY <2>3, MoveSpells DEF r
  <2>5. Len(o["active"]) # 0
    <3>1. "active" \in DllList
      BY DEF DllList
    <3>2. o["active"] \in Seq(Sectors)
      BY <3>1, InvFacts
    <3>3. QED
      BY <3>2
  <2> HIDE DEF o2
  <2>6. activeCount' = Len(o2["active"]) /\ activeCount' \in 0 .. MaxVaults
    BY <1>1, <2>3, <2>4, <2>5
  <2>7. WellTyped'
    BY <2>3, <2>4, <2>6 DEF WellTyped, Nodes, Heads
  <2>8. Shifted(o, o2, "active", "tombstone")
    BY <2>3 DEF Shifted, o2
  <2>9. QED
    BY <2>4, <2>6, <2>7, <2>8
<1>5. ASSUME NEW s \in Sectors, ReclaimSector(s)
      PROVE  \E o2 \in Orders(len') :
                /\ WellTyped' /\ Spells(o2, node', head', len') /\ activeCount' = Len(o2["active"])
                /\ \E l \in {"active", "tombstone"} : Shifted(o, o2, l, "free")
  <2>1. PICK l \in {"active", "tombstone"} : IsOn(o, s, l)
    BY <1>5, ListOfIs DEF ReclaimSector, CanReclaim
  <2>2. ListOf(s) = l
    BY <2>1, ListOfIs
  <2>3. PICK i \in DOMAIN o[l] : o[l][i] = s
    BY <2>1 DEF IsOn
  <2> DEFINE r  == Rejoined(node, head, l, o[l][i], "free")
             o2 == Moved(o, l, i, "free")
  <2>4. /\ len' = len /\ head' = r.head
        /\ node' = [r.node EXCEPT ![o[l][i]].led = FALSE]
        /\ activeCount' = IF l = "active" /\ activeCount > 0 THEN activeCount - 1 ELSE activeCount
    BY <1>5, <2>2, <2>3 DEF ReclaimSector, CountAfterReclaim, Rejoined, Parted, Lists
  <2> HIDE DEF r
  <2>5. /\ node' \in Nodes /\ head' \in Heads
        /\ o2 \in Orders(len') /\ Spells(o2, node', head', len')
        /\ Len(o2["active"]) = IF l = "active" THEN Len(o["active"]) - 1 ELSE Len(o["active"])
    BY <2>4, MoveSpells DEF r
  <2>6. l = "active" => Len(o["active"]) # 0
    <3>1. "active" \in DllList
      BY DEF DllList
    <3>2. o["active"] \in Seq(Sectors)
      BY <3>1, InvFacts
    <3>3. QED
      BY <3>2
  <2> HIDE DEF o2
  <2>7. activeCount' = Len(o2["active"]) /\ activeCount' \in 0 .. MaxVaults
    BY <1>1, <2>4, <2>5, <2>6
  <2>8. WellTyped'
    BY <2>4, <2>5, <2>7 DEF WellTyped, Nodes, Heads
  <2>9. Shifted(o, o2, l, "free")
    BY <2>4 DEF Shifted, o2
  <2>10. QED
    BY <2>5, <2>7, <2>8, <2>9
<1>6. QED
  BY <1>2, <1>3, <1>4, <1>5 DEF ListsNext

\* So an order survives every instruction.
LEMMA ListsInvStep == ListsInv /\ [ListsNext]_listVars => ListsInv'
<1> SUFFICES ASSUME ListsInv, [ListsNext]_listVars
             PROVE  ListsInv'
  OBVIOUS
<1>1. WellTyped
  BY DEF ListsInv
<1>2. PICK o \in Orders(len) : Spells(o, node, head, len) /\ activeCount = Len(o["active"])
  BY DEF ListsInv
<1>3. CASE ListsNext
  <2>1. WellTyped' /\ \E o2 \in Orders(len') :
                         Spells(o2, node', head', len') /\ activeCount' = Len(o2["active"])
    BY <1>1, <1>2, <1>3, InstructionSpells
  <2>2. QED
    BY <2>1 DEF ListsInv
<1>4. CASE UNCHANGED listVars
  BY <1>4 DEF ListsInv, listVars, WellTyped
<1>5. QED
  BY <1>3, <1>4

\* And there is one in every state.
LEMMA ListsStayInOrder == ListsSpec => []ListsInv
  BY ListsInvInit, ListsInvStep, PTL DEF ListsSpec

------------------------------------------------------------------------------
\* In order, no pointer check fails and every walk ends.
LEMMA InOrderIsSound == ListsInv => NoListIsCorrupt
<1> SUFFICES ASSUME ListsInv
             PROVE  NoListIsCorrupt
  OBVIOUS
<1>1. WellTyped
  BY DEF ListsInv
<1>2. PICK o \in Orders(len) : Spells(o, node, head, len) /\ activeCount = Len(o["active"])
  BY DEF ListsInv
<1>3. /\ len \in Nat /\ len <= MaxSectors /\ node \in Nodes /\ head \in Heads
      /\ Apart(o) /\ Covers(o, len)
      /\ \A l \in DllList : /\ o[l] \in Seq(Sectors) /\ Distinct(o[l])
                            /\ \A i \in DOMAIN o[l] : o[l][i] \in Slots(len)
                            /\ \A t : t \in Members(l) <=> IsOn(o, t, l)
                            /\ Walk(l)[MaxSectors] = Null
  BY <1>1, <1>2, InvFacts
<1>4. /\ \A l \in DllList : Threads(o[l], node, head[l])
      /\ ThreadsBack(o["active"], node) /\ ThreadsBack(o["tombstone"], node)
      /\ Led(o, node, len)
  BY <1>2 DEF Spells
<1>5. "active" \in DllList /\ "tombstone" \in DllList /\ "free" \in DllList
      /\ \A x \in DllList : x = "active" \/ x = "tombstone" \/ x = "free"
  BY DEF DllList
<1>6. \A l \in {"active", "tombstone"} : WalksBackAsForth(l)
  <2>1. SUFFICES ASSUME NEW l \in {"active", "tombstone"}
                 PROVE  WalksBackAsForth(l)
    OBVIOUS
  <2> DEFINE q == o[l]
  <2>2. /\ q \in Seq(Sectors) /\ Threads(q, node, head[l]) /\ ThreadsBack(q, node) /\ l \in DllList
    BY <1>3, <1>4, <1>5, <2>1
  <2>3. \A t : t \in Members(l) <=> \E i \in DOMAIN q : q[i] = t
    BY <1>3, <2>2 DEF IsOn
  <2> HIDE DEF q
  <2>4. head[l] # Null => node[head[l]].prev = Null
    <3>1. q # <<>> => 1 \in DOMAIN q
      BY <2>2
    <3>2. QED
      BY <2>2, <3>1 DEF Threads, ThreadsBack
  <2>5. ASSUME NEW t \in Members(l), node[t].next # Null
        PROVE  node[node[t].next].prev = t
    <3>1. PICK i \in DOMAIN q : q[i] = t
      BY <2>3, <2>5
    <3>2. i < Len(q) /\ node[t].next = q[i + 1]
      BY <2>2, <2>5, <3>1 DEF Threads
    <3>3. i + 1 \in DOMAIN q /\ i + 1 # 1 /\ (i + 1) - 1 = i
      BY <2>2, <3>1, <3>2
    <3>4. node[q[i + 1]].prev = q[i]
      BY <2>2, <3>3 DEF ThreadsBack
    <3>5. QED
      BY <3>1, <3>2, <3>4
  <2>6. QED
    BY <2>4, <2>5 DEF WalksBackAsForth
<1>7. ASSUME NEW s \in 0 .. len - 1
      PROVE  OnOneList(s)
  <2>1. PICK l \in DllList : IsOn(o, s, l)
    BY <1>3 DEF Covers, Slots, IsOn
  <2>2. {k \in DllList : s \in Members(k)} = {l}
    BY <1>3, <2>1, OnOneAtMost
  <2>3. Cardinality({l}) = 1
    BY FS_Singleton
  <2>4. QED
    BY <2>2, <2>3 DEF OnOneList
<1>8. ASSUME NEW s \in Sectors
      PROVE  CanAlwaysMove(s)
  <2>1. SUFFICES ASSUME node[s].led
                 PROVE  /\ s < len /\ CanReclaim(s)
                        /\ CanLink(Unlink(Lists, ListOf(s), s), "free", s, len)
                        /\ ~node[s].tombstoned =>
                              /\ "active" \in ListsHolding(s) /\ CanTombstone(s)
                              /\ CanLink(Unlink(Lists, "active", s), "tombstone", s, len)
    BY DEF CanAlwaysMove
  <2>2. s < len /\ s \in Slots(len)
    BY <1>3, <1>4, <2>1, SlabAssumption DEF Led, Sectors, Slots
  <2>3. PICK l \in DllList : IsOn(o, s, l)
    BY <1>3, <2>2 DEF Covers, IsOn
  <2>4. l # "free"
    <3>1. node[s].led = (l # "free")
      BY <1>4, <2>3 DEF Led, IsOn
    <3>2. QED
      BY <2>1, <3>1
  <2>5. l \in {"active", "tombstone"}
    BY <1>5, <2>4
  <2>6. ListOf(s) = l /\ l \in ListsHolding(s)
    BY <1>1, <1>2, <2>3, <2>5, ListOfIs
  <2>7. ~node[s].tombstoned => l = "active"
    <3>1. ASSUME l = "tombstone"
          PROVE  node[s].tombstoned
      BY <1>4, <2>3, <3>1 DEF Led, IsOn
    <3>2. QED
      BY <2>5, <3>1
  <2>8. PICK i \in DOMAIN o[l] : o[l][i] = s
    BY <2>3 DEF IsOn
  <2>9. ASSUME NEW k \in {"tombstone", "free"}, k # l
        PROVE  /\ CanUnlink([node |-> node, head |-> head], l, s, len)
               /\ CanLink(Parted(node, head, l, s), k, s, len)
    BY <1>2, <1>3, <2>5, <2>8, <2>9, MoveThreads
  <2>10. CanUnlink(Lists, l, s, len) /\ CanLink(Unlink(Lists, l, s), "free", s, len)
    BY <2>4, <2>9 DEF Parted, Lists
  <2>11. l = "active" => CanLink(Unlink(Lists, l, s), "tombstone", s, len)
    BY <2>9 DEF Parted, Lists
  <2>12. QED
    BY <2>2, <2>6, <2>7, <2>10, <2>11 DEF CanReclaim, CanTombstone
<1>9. QED
  BY <1>1, <1>3, <1>6, <1>7, <1>8 DEF NoListIsCorrupt

\* dll.rs, close_vault.rs, withdraw.rs: no pointer the program trusts is ever wrong, so every
\* vault with a leader can be closed while active and reclaimed when drained, whatever came
\* before, and every walk of a list ends.
THEOREM ListsAreNeverCorrupt == ListsSpec => []NoListIsCorrupt
  BY ListsStayInOrder, InOrderIsSound, PTL

------------------------------------------------------------------------------
(* The pointers implement the allocator.                                    *)

\* The lists and the free stack of an order, as the allocator has them.
ListIn(o) == [s \in Sectors |-> IF \E l \in DllList : IsOn(o, s, l)
                                THEN CHOOSE l \in DllList : IsOn(o, s, l) ELSE "none"]

\* What the refinement mapping takes them to be.
ListNow == [s \in Sectors |-> IF s < len THEN CHOOSE l \in DllList : s \in Members(l) ELSE "none"]
FreeNow == [k \in 1 .. FreeLength |-> Walk("free")[k - 1]]

\* The list a sector is on.
LEMMA ListInIs ==
    ASSUME NEW o, Apart(o), NEW s \in Sectors
    PROVE  /\ \A l \in DllList : ListIn(o)[s] = l <=> IsOn(o, s, l)
           /\ (\A l \in DllList : ~IsOn(o, s, l)) => ListIn(o)[s] = "none"
<1>1. CASE \E l \in DllList : IsOn(o, s, l)
  <2>1. PICK l \in DllList : IsOn(o, s, l)
    BY <1>1
  <2>2. \A k \in DllList : IsOn(o, s, k) <=> k = l
    BY <2>1, OnOneAtMost
  <2>3. ListIn(o)[s] = CHOOSE k \in DllList : IsOn(o, s, k)
    BY <1>1 DEF ListIn
  <2>4. ListIn(o)[s] = l
    BY <2>1, <2>2, <2>3
  <2>5. QED
    BY <2>1, <2>2, <2>4
<1>2. CASE \A l \in DllList : ~IsOn(o, s, l)
  <2>1. ListIn(o)[s] = "none" /\ "none" \notin DllList
    BY <1>2 DEF ListIn, DllList
  <2>2. QED
    BY <1>2, <2>1
<1>3. QED
  BY <1>1, <1>2

\* As many sectors are on a list as it is long.
LEMMA OnCount ==
    ASSUME NEW q \in Seq(Sectors), Distinct(q)
    PROVE  Cardinality({t \in Sectors : \E i \in DOMAIN q : q[i] = t}) = Len(q)
<1> DEFINE T == {t \in Sectors : \E i \in DOMAIN q : q[i] = t}
           D == 1 .. Len(q)
<1>1. DOMAIN q = D /\ Len(q) \in Nat
  OBVIOUS
<1>2. \A i \in D : q[i] \in T
  BY <1>1
<1>3. q \in [D -> T]
  <2>1. q = [i \in D |-> q[i]]
    BY <1>1
  <2> HIDE DEF T, D
  <2>2. QED
    BY <1>2, <2>1
<1>4. q \in Injection(D, T) /\ q \in Surjection(D, T)
  <2>1. IsInjective(q)
    BY DEF Distinct, IsInjective
  <2>2. \A t \in T : \E i \in D : q[i] = t
    BY <1>1
  <2> HIDE DEF T, D
  <2>3. QED
    BY <1>3, <2>1, <2>2 DEF Injection, Surjection
<1>5. ExistsBijection(D, T)
  BY <1>4 DEF ExistsBijection, Bijection
<1>6. IsFiniteSet(D) /\ Cardinality(D) = Len(q)
  BY <1>1, FS_Interval
<1> HIDE DEF T, D
<1>7. Cardinality(T) = Len(q)
  BY <1>5, <1>6, FS_Bijection
<1>8. QED
  BY <1>7 DEF T

\* The mapping reads off the pointers what they spell.
Reads ==
    \A o \in Orders(len) :
       WellTyped /\ Spells(o, node, head, len) => ListNow = ListIn(o) /\ FreeNow = o["free"]
LEMMA MappingReads == Reads
<1> SUFFICES ASSUME NEW o \in Orders(len), WellTyped, Spells(o, node, head, len)
             PROVE  ListNow = ListIn(o) /\ FreeNow = o["free"]
  BY DEF Reads
<1>1. /\ Apart(o) /\ len \in Nat /\ len <= MaxSectors
      /\ \A l \in DllList : /\ o[l] \in Seq(Sectors) /\ Distinct(o[l])
                            /\ Len(o[l]) \in Nat /\ Len(o[l]) <= MaxSectors
                            /\ \A t : t \in Members(l) <=> IsOn(o, t, l)
                            /\ Walk(l) = Steps(o[l])
  BY InvFacts
<1>2. ListNow = ListIn(o)
  <2>1. \A s \in Sectors : s < len <=> \E l \in DllList : IsOn(o, s, l)
    BY <1>1 DEF Spells, Covers, Orders, Slots, Sectors, IsOn
  <2>2. ASSUME NEW s \in Sectors
        PROVE  ListNow[s] = ListIn(o)[s]
    <3>1. \A l \in DllList : s \in Members(l) <=> IsOn(o, s, l)
      BY <1>1
    <3> DEFINE found == CHOOSE l \in DllList : s \in Members(l)
               on    == CHOOSE l \in DllList : IsOn(o, s, l)
    <3>2. found = on
      BY <3>1
    <3>3. ListNow[s] = IF s < len THEN found ELSE "none"
      BY Zenon DEF ListNow
    <3>4. ListIn(o)[s] = IF \E l \in DllList : IsOn(o, s, l) THEN on ELSE "none"
      BY Zenon DEF ListIn
    <3> HIDE DEF found, on
    <3>5. QED
      BY <2>1, <3>2, <3>3, <3>4
  <2>3. QED
    BY <2>2 DEF ListNow, ListIn
<1> DEFINE q == o["free"]
<1>3. /\ q \in Seq(Sectors) /\ Distinct(q) /\ Len(q) \in Nat /\ Len(q) <= MaxSectors
      /\ \A t : t \in Members("free") <=> \E i \in DOMAIN q : q[i] = t
      /\ Walk("free") = Steps(q)
  <2>1. "free" \in DllList
    BY DEF DllList
  <2>2. QED
    BY <1>1, <2>1 DEF IsOn
<1> HIDE DEF q
<1>4. FreeLength = Len(q)
  <2>1. Members("free") = {t \in Sectors : \E i \in DOMAIN q : q[i] = t}
    BY <1>3
  <2>2. QED
    BY <1>3, <2>1, OnCount DEF FreeLength
<1>5. \A k \in 1 .. Len(q) : Walk("free")[k - 1] = q[k]
  <2>1. SUFFICES ASSUME NEW k \in 1 .. Len(q)
                 PROVE  Steps(q)[k - 1] = q[k]
    BY <1>3
  <2>2. k - 1 \in 0 .. MaxSectors /\ k - 1 < Len(q) /\ (k - 1) + 1 = k
    BY <1>3, SlabAssumption
  <2>3. QED
    BY <2>2 DEF Steps
<1>6. q = [k \in 1 .. Len(q) |-> q[k]]
  BY <1>3
<1>7. FreeNow = q
  BY <1>4, <1>5, <1>6 DEF FreeNow
<1>8. QED
  BY <1>2, <1>7 DEF q

\* Taken off the head of the free list, the allocator's stack loses its head.
LEMMA WithoutHead ==
    ASSUME NEW S, NEW q \in Seq(S), 1 \in DOMAIN q
    PROVE  Without(q, 1) = Tail(q) /\ Head(q) = q[1] /\ q # <<>>
<1> DEFINE p == Without(q, 1)
           t == Tail(q)
<1>1. q # <<>> /\ Len(q) \in Nat /\ Len(q) >= 1
  OBVIOUS
<1>2. /\ p \in Seq(S) /\ Len(p) = Len(q) - 1 /\ DOMAIN p = 1 .. Len(q) - 1
      /\ \A j \in DOMAIN p : j + 1 \in DOMAIN q /\ p[j] = IF j < 1 THEN q[j] ELSE q[j + 1]
  BY WithoutIs
<1>3. /\ t \in Seq(S) /\ Len(t) = Len(q) - 1 /\ DOMAIN t = 1 .. Len(q) - 1
      /\ \A j \in 1 .. Len(q) - 1 : t[j] = q[j + 1]
  BY <1>1
<1> HIDE DEF p, t
<1>4. \A j \in 1 .. Len(q) - 1 : p[j] = t[j]
  <2>1. ASSUME NEW j \in 1 .. Len(q) - 1
        PROVE  p[j] = t[j]
    <3>1. ~(j < 1) /\ j \in DOMAIN p
      BY <1>2
    <3>2. QED
      BY <1>2, <1>3, <3>1
  <2>2. QED
    BY <2>1
<1>5. p = t
  BY <1>2, <1>3, <1>4
<1>6. QED
  BY <1>1, <1>5 DEF p, t

\* The allocator counts as its caller does.
LEMMA SameCardinality == ASSUME NEW S PROVE Slab!Cardinality(S) = Cardinality(S)
  BY DEF Slab!Cardinality, Cardinality

\* An empty slab is an empty allocator.
LEMMA SlabInit == ListsInit => Slab!Init
<1> SUFFICES ASSUME ListsInit
             PROVE  Slab!Init
  OBVIOUS
<1>1. WellTyped
  BY ListsInvInit DEF ListsInv
<1>2. PICK o \in Orders(len) : Spells(o, node, head, len) /\ activeCount = Len(o["active"])
  BY ListsInvInit DEF ListsInv
<1>3. Apart(o) /\ Covers(o, len) /\ len = 0
  BY <1>2 DEF Spells, ListsInit
<1>4. "active" \in DllList /\ "tombstone" \in DllList /\ "free" \in DllList
  BY DEF DllList
<1>5. \A l \in DllList : o[l] = <<>>
  <2>1. \A l \in DllList : o[l] \in Seq(Slots(len)) /\ Len(o[l]) \in Nat /\ Len(o[l]) <= len
    BY <1>3, OrderFacts
  <2>2. QED
    BY <1>3, <2>1
<1>6. ListIn(o) = [s \in Sectors |-> "none"]
  <2>1. \A s \in Sectors : \A l \in DllList : ~IsOn(o, s, l)
    BY <1>5 DEF IsOn
  <2>2. QED
    BY <2>1 DEF ListIn
<1>7. ListNow = [s \in Sectors |-> "none"] /\ FreeNow = <<>>
  BY <1>1, <1>2, <1>4, <1>5, <1>6, MappingReads DEF Reads
<1>8. QED
  BY <1>3, <1>7 DEF Slab!Init, Slab!Sectors, Sectors, ListNow, FreeNow

\* Each thing that can happen to the order is a step of the allocator.
LEMMA SlabStep == ListsInv /\ ListsInv' /\ [ListsNext]_listVars => [Slab!Next]_(Slab!vars)
<1> SUFFICES ASSUME ListsInv, ListsInv', [ListsNext]_listVars
             PROVE  [Slab!Next]_(Slab!vars)
  OBVIOUS
<1>1. WellTyped
  BY DEF ListsInv
<1>2. PICK o \in Orders(len) : Spells(o, node, head, len) /\ activeCount = Len(o["active"])
  BY DEF ListsInv
<1>3. ListNow = ListIn(o) /\ FreeNow = o["free"]
  BY <1>1, <1>2, MappingReads DEF Reads
<1>4. CASE UNCHANGED listVars
  <2>1. UNCHANGED <<ListNow, FreeNow, len>>
    BY <1>4 DEF listVars, ListNow, FreeNow, FreeLength, Members, Walk, After
  <2>2. QED
    BY <2>1 DEF Slab!vars, ListNow, FreeNow
<1>5. CASE ListsNext
  <2>1. PICK o2 \in Orders(len') :
              /\ WellTyped' /\ Spells(o2, node', head', len') /\ activeCount' = Len(o2["active"])
              /\ \/ HasRoom /\ (Reused(o, o2) \/ Grown(o, o2))
                 \/ Shifted(o, o2, "active", "tombstone")
                 \/ \E l \in {"active", "tombstone"} : Shifted(o, o2, l, "free")
    BY <1>1, <1>2, <1>5, InstructionSpells
  <2>2. ListNow' = ListIn(o2) /\ FreeNow' = o2["free"]
    <3>1. Reads'
      BY MappingReads, PTL
    <3>2. QED
      BY <2>1, <3>1 DEF Reads
  <2>3. Slab!Sectors = Sectors
    BY DEF Slab!Sectors, Sectors
  <2>4. /\ Apart(o) /\ Apart(o2) /\ Covers(o, len) /\ Covers(o2, len') /\ len \in Nat
        /\ len <= MaxSectors
        /\ \A l \in DllList : o[l] \in Seq(Sectors) /\ Distinct(o[l]) /\ o[l] \in Seq(Slots(len))
                              /\ \A i \in DOMAIN o[l] : o[l][i] \in Sectors
    <3>1. /\ Apart(o) /\ Covers(o, len) /\ len \in Nat /\ len <= MaxSectors
          /\ \A l \in DllList : o[l] \in Seq(Sectors) /\ Distinct(o[l])
      BY <1>1, <1>2, InvFacts
    <3>2. Apart(o2) /\ Covers(o2, len')
      BY <2>1 DEF Spells
    <3>3. \A l \in DllList : o[l] \in Seq(Slots(len))
      BY <3>1, OrderFacts
    <3>4. QED
      BY <3>1, <3>2, <3>3
  <2>5. "active" \in DllList /\ "tombstone" \in DllList /\ "free" \in DllList
        /\ "active" # "free" /\ "active" # "tombstone"
    BY DEF DllList
  <2>6. \A t \in Sectors : t \notin Slots(len) => \A x \in DllList : ~IsOn(o, t, x)
    <3>1. \A x \in DllList : \A i \in DOMAIN o[x] : o[x][i] \in Slots(len)
      BY <2>4
    <3>2. QED
      BY <3>1 DEF IsOn
  <2>7. \A t \in Sectors : t \notin Slots(len') => \A x \in DllList : ~IsOn(o2, t, x)
    <3>1. len' \in Nat
      BY <2>1, <2>4 DEF Reused, Grown, Shifted
    <3>2. \A x \in DllList : \A i \in DOMAIN o2[x] : o2[x][i] \in Slots(len')
      BY <2>1, <2>4, <3>1, OrderFacts
    <3>3. QED
      BY <3>2 DEF IsOn
  <2>8. ASSUME NEW s \in Sectors, NEW k \in DllList,
               \A t \in Sectors, x \in DllList : IsOn(o2, t, x) <=> IF t = s THEN x = k ELSE IsOn(o, t, x)
        PROVE  ListIn(o2) = [ListIn(o) EXCEPT ![s] = k]
    <3>1. ASSUME NEW t \in Sectors
          PROVE  ListIn(o2)[t] = IF t = s THEN k ELSE ListIn(o)[t]
      <4>1. CASE t = s
        BY <2>4, <2>8, <4>1, ListInIs
      <4>2. CASE t # s /\ \E x \in DllList : IsOn(o, t, x)
        <5>1. PICK x \in DllList : IsOn(o, t, x)
          BY <4>2
        <5>2. IsOn(o2, t, x)
          BY <2>8, <4>2, <5>1
        <5>3. ListIn(o)[t] = x /\ ListIn(o2)[t] = x
          BY <2>4, <5>1, <5>2, ListInIs
        <5>4. QED
          BY <4>2, <5>3
      <4>3. CASE t # s /\ \A x \in DllList : ~IsOn(o, t, x)
        <5>1. \A x \in DllList : ~IsOn(o2, t, x)
          BY <2>8, <4>3
        <5>2. ListIn(o)[t] = "none" /\ ListIn(o2)[t] = "none"
          BY <2>4, <4>3, <5>1, ListInIs
        <5>3. QED
          BY <4>3, <5>2
      <4>4. QED
        BY <4>1, <4>2, <4>3
    <3> DEFINE f == ListIn(o)
               g == ListIn(o2)
    <3>2. f = [t \in Sectors |-> f[t]] /\ g = [t \in Sectors |-> g[t]]
      BY DEF ListIn
    <3> HIDE DEF f, g
    <3>3. \A t \in Sectors : g[t] = IF t = s THEN k ELSE f[t]
      BY <3>1 DEF f, g
    <3>4. g = [f EXCEPT ![s] = k]
      BY <3>2, <3>3
    <3>5. QED
      BY <3>4 DEF f, g
  <2>9. ASSUME NEW l \in DllList, NEW k \in DllList, l # k, NEW i \in DOMAIN o[l],
               o2 = Moved(o, l, i, k), len' = len
        PROVE  ListIn(o2) = [ListIn(o) EXCEPT ![o[l][i]] = k]
    <3>1. \A t \in Slots(len), x \in DllList :
             IsOn(o2, t, x) <=> IF t = o[l][i] THEN x = k ELSE IsOn(o, t, x)
      BY <2>4, <2>9, MovedIsOn
    <3>2. o[l][i] \in Slots(len) /\ o[l][i] \in Sectors
      BY <2>4
    <3>3. \A t \in Sectors, x \in DllList :
             IsOn(o2, t, x) <=> IF t = o[l][i] THEN x = k ELSE IsOn(o, t, x)
      <4>1. \A t \in Sectors, x \in DllList : t \notin Slots(len) =>
               ~IsOn(o2, t, x) /\ ~IsOn(o, t, x) /\ t # o[l][i]
        BY <2>6, <2>7, <2>9, <3>2
      <4>2. QED
        BY <3>1, <4>1
    <3>4. QED
      BY <2>8, <3>2, <3>3
  <2>10. HasRoom => Cardinality(Slab!On("active")) < MaxVaults
    <3> DEFINE q == o["active"]
    <3>1. q \in Seq(Sectors) /\ Distinct(q)
      BY <2>4, <2>5
    <3>2. \A t \in Sectors : ListNow[t] = "active" <=> \E i \in DOMAIN q : q[i] = t
      BY <1>3, <2>4, <2>5, ListInIs DEF IsOn
    <3> HIDE DEF q
    <3>3. {t \in Sectors : ListNow[t] = "active"} = {t \in Sectors : \E i \in DOMAIN q : q[i] = t}
      BY <3>2
    <3>4. Cardinality({t \in Sectors : ListNow[t] = "active"}) = activeCount
      BY <1>2, <3>1, <3>3, OnCount DEF q
    <3>5. Slab!On("active") = {t \in Sectors : ListNow[t] = "active"}
      BY <2>3 DEF Slab!On, ListNow
    <3>6. QED
      BY <3>4, <3>5 DEF HasRoom
  <2>11. CASE HasRoom /\ Reused(o, o2)
    <3> DEFINE q == o["free"]
    <3>1. 1 \in DOMAIN q /\ o2 = Moved(o, "free", 1, "active") /\ len' = len /\ q \in Seq(Sectors)
      BY <2>4, <2>5, <2>11 DEF Reused
    <3>2. ListNow' = [ListNow EXCEPT ![q[1]] = "active"]
      BY <1>3, <2>2, <2>5, <2>9, <3>1
    <3>3. o2["free"] = Without(q, 1)
      BY <2>4, <2>5, <3>1, MovedShares
    <3> HIDE DEF q
    <3>4. Without(q, 1) = Tail(q) /\ Head(q) = q[1] /\ q # <<>>
      BY <3>1, WithoutHead
    <3>5. FreeNow # <<>> /\ FreeNow' = Tail(FreeNow) /\ ListNow' = [ListNow EXCEPT ![Head(FreeNow)] = "active"]
      <4>1. FreeNow = q
        BY <1>3 DEF q
      <4>2. FreeNow' = Without(q, 1)
        BY <2>2, <3>3
      <4>3. Head(FreeNow) = q[1] /\ FreeNow # <<>>
        BY <3>4, <4>1
      <4>4. FreeNow' = Tail(FreeNow)
        BY <3>4, <4>1, <4>2
      <4>5. QED
        BY <3>2, <4>3, <4>4
    <3>6. Slab!Reuse
      <4>1. Slab!Cardinality(Slab!On("active")) < MaxVaults
        BY <2>10, <2>11, SameCardinality
      <4>2. QED
        BY <3>1, <3>5, <4>1 DEF Slab!Reuse, ListNow, FreeNow
    <3>7. QED
      BY <3>6 DEF Slab!Next
  <2>12. CASE HasRoom /\ Grown(o, o2)
    <3>1. /\ o["free"] = <<>> /\ len \in Sectors /\ len' = len + 1
          /\ o2 = [o EXCEPT !["active"] = Pushed(len, @)]
      BY <2>12 DEF Grown
    <3>2. \A t \in Slots(len + 1), x \in DllList :
             IsOn(o2, t, x) <=> IF t = len THEN x = "active" ELSE IsOn(o, t, x)
      <4> DEFINE u == [o EXCEPT !["active"] = Pushed(len, @)]
      <4>1. Apart(o) /\ Covers(o, len) /\ len \in Nat
        BY <2>4
      <4>2. \A t \in Slots(len + 1), x \in DllList :
               IsOn(u, t, x) <=> IF t = len THEN x = "active" ELSE IsOn(o, t, x)
        BY <2>5, <4>1, GrownIsOn
      <4> HIDE DEF u
      <4>3. o2 = u
        BY <3>1 DEF u
      <4>4. QED
        BY <4>2, <4>3
    <3>3. \A t \in Sectors : t \notin Slots(len + 1) => t \notin Slots(len) /\ t # len
      BY <2>4 DEF Slots
    <3>4. \A t \in Sectors, x \in DllList :
             IsOn(o2, t, x) <=> IF t = len THEN x = "active" ELSE IsOn(o, t, x)
      BY <2>6, <2>7, <3>1, <3>2, <3>3
    <3>5. ListNow' = [ListNow EXCEPT ![len] = "active"]
      BY <1>3, <2>2, <2>5, <2>8, <3>1, <3>4
    <3>6. o2["free"] = o["free"]
      BY <2>5, <3>1 DEF Orders
    <3>7. FreeNow = <<>> /\ FreeNow' = FreeNow
      BY <1>3, <2>2, <3>1, <3>6
    <3>8. len < MaxSectors
      BY <3>1, SlabAssumption DEF Sectors
    <3>9. Slab!Grow
      <4>1. Slab!Cardinality(Slab!On("active")) < MaxVaults
        BY <2>10, <2>12, SameCardinality
      <4>2. QED
        BY <3>1, <3>5, <3>7, <3>8, <4>1 DEF Slab!Grow, ListNow, FreeNow
    <3>10. QED
      BY <3>9 DEF Slab!Next
  <2>13. CASE Shifted(o, o2, "active", "tombstone")
    <3>1. PICK i \in DOMAIN o["active"] : o2 = Moved(o, "active", i, "tombstone")
      BY <2>13 DEF Shifted
    <3>2. len' = len
      BY <2>13 DEF Shifted
    <3> DEFINE s == o["active"][i]
    <3>3. s \in Sectors
      BY <2>4, <2>5
    <3>4. ListNow' = [ListNow EXCEPT ![s] = "tombstone"]
      BY <1>3, <2>2, <2>5, <2>9, <3>1, <3>2
    <3>5. ListNow[s] = "active"
      BY <1>3, <2>4, <2>5, <3>3, ListInIs DEF IsOn
    <3>6. FreeNow' = FreeNow
      <4>1. o2["free"] = o["free"]
        BY <2>4, <2>5, <3>1, MovedShares
      <4>2. QED
        BY <1>3, <2>2, <4>1
    <3> HIDE DEF s
    <3>7. Slab!Retire(s)
      BY <3>2, <3>4, <3>5, <3>6 DEF Slab!Retire, ListNow, FreeNow
    <3>8. QED
      BY <2>3, <3>3, <3>7 DEF Slab!Next
  <2>14. ASSUME NEW l \in {"active", "tombstone"}, Shifted(o, o2, l, "free")
         PROVE  Slab!Next
    <3>1. PICK i \in DOMAIN o[l] : o2 = Moved(o, l, i, "free")
      BY <2>14 DEF Shifted
    <3>2. len' = len /\ l \in DllList /\ l # "free"
      BY <2>5, <2>14 DEF Shifted
    <3> DEFINE s == o[l][i]
    <3>3. s \in Sectors
      BY <2>4, <3>2
    <3>4. ListNow' = [ListNow EXCEPT ![s] = "free"]
      BY <1>3, <2>2, <2>5, <2>9, <3>1, <3>2
    <3>5. ListNow[s] = l
      BY <1>3, <2>4, <3>2, <3>3, ListInIs DEF IsOn
    <3>6. FreeNow' = <<s>> \o FreeNow
      <4>1. o2["free"] = Pushed(s, o["free"])
        BY <2>4, <2>5, <3>1, <3>2, MovedShares
      <4>2. QED
        BY <1>3, <2>2, <4>1 DEF Pushed
    <3> HIDE DEF s
    <3>7. Slab!Release(s)
      BY <2>14, <3>2, <3>4, <3>5, <3>6 DEF Slab!Release, ListNow, FreeNow
    <3>8. QED
      BY <2>3, <3>3, <3>7 DEF Slab!Next
  <2>15. QED
    BY <2>1, <2>11, <2>12, <2>13, <2>14
<1>6. QED
  BY <1>4, <1>5

\* dll.rs: what create_vault, close_vault and the last withdrawal do to the pointers is what
\* the allocator promises: the stack of free sectors is handed out last in, first out, and
\* before the slab grows.
THEOREM PointersImplementSlab == ListsSpec => ListsImplementSlab
<1>1. ListsInit => Slab!Init
  BY SlabInit
<1>2. QED
  BY <1>1, SlabStep, ListsStayInOrder, PTL DEF ListsSpec, ListsImplementSlab, Slab!Spec
=============================================================================
