--------------------------- MODULE InstructionWire ---------------------------
(***************************************************************************)
(* Instructions on their way from the generated client to the program.     *)
(*                                                                         *)
(* A client names accounts and privileges, the runtime locks what they     *)
(* name (transactions run side by side unless one writes what another      *)
(* names), and the program binds the accounts to the fields it declares,   *)
(* by position, and reads its parameters from the data in order. The two   *)
(* sides are written down apart: what the client names has to be enough    *)
(* for the handler, and no more, or markets would wait for one another.    *)
(*                                                                         *)
(* A transaction has one instruction, one wallet that signs, one market    *)
(* and one counterpart that does not sign (a depositor forced out, the     *)
(* receiver of a close). Token accounts stand for their owner and mint.    *)
(***************************************************************************)
EXTENDS WebInstructions, FiniteSets

CONSTANTS Wallets, Markets, Counterpart

VARIABLE flight    \* the transactions that run at this moment

Names == DOMAIN Client
Vias  == {"struct", "builder", "cpi", "cpi_builder", "web_sync", "web_async"}
NoAccount == <<"program">>    \* the program's own address

------------------------------------------------------------------------------
(* What a field's name stands for.                                          *)

Signers   == {"admin", "payer", "signer", "taker"}
Partner   == {"owner", "leader", "rent_recipient", "platform_fee_authority"}
OwnTokens == {"signer_base_ata", "taker_base_ata", "signer_quote_ata", "taker_quote_ata",
              "payer_fee_source"}
PartnerTokens == {"owner_base_ata", "leader_base_ata", "owner_quote_ata", "leader_quote_ata",
                  "token_recipient", "platform_fee_ata"}
MarketOwn == {"market", "market_base_treasury", "market_quote_treasury", "base_mint",
              "quote_mint", "base_treasury", "quote_treasury", "treasury", "mint"}
Leg(field) == CASE field \in {"base_treasury", "treasury"} -> "market_base_treasury"
                [] field = "quote_treasury" -> "market_quote_treasury"
                [] field = "mint"           -> "base_mint"
                [] OTHER                    -> field
Mint(field) == CASE field \in {"signer_base_ata", "taker_base_ata", "owner_base_ata",
                               "leader_base_ata", "token_recipient"} -> "base"
                 [] field = "payer_fee_source" -> "fee"
                 [] OTHER -> "quote"

Fixed == [system |-> <<"system_program">>, token |-> <<"token_program">>, clock |-> <<"clock">>,
          associated_token |-> <<"associated_token_program">>]

PdaAddress(prefix, seeds) == <<prefix>> \o seeds
MarketAddress(m) == PdaAddress("market", <<<<"base_mint", m>>, <<"quote_mint", m>>>>)

Seedless(t, field) ==
    CASE field \in Signers       -> <<"wallet", t.wallet>>
      [] field \in Partner       -> <<"wallet", Counterpart>>
      [] field \in OwnTokens     -> <<Mint(field), t.wallet>>
      [] field \in PartnerTokens -> <<Mint(field), Counterpart>>
      [] field = "market"        -> MarketAddress(t.market)
      [] field \in MarketOwn     -> <<Leg(field), t.market>>
      [] field = "registry_fee_treasury" -> <<"fee_vault">>
      [] field = "program"       -> NoAccount
      [] OTHER                   -> <<field>>
Addressed(t, field) ==
    IF field = "vault_depositor"
    THEN PdaAddress(field, [i \in DOMAIN PositionSeeds[t.name] |->
                               Seedless(t, PositionSeeds[t.name][i])])
    ELSE Seedless(t, field)

------------------------------------------------------------------------------
(* The clients.                                                             *)

Web == {"web_async", "web_sync"}
Named(t) == IF t.via \in Web THEN WebClient[t.name][t.via].metas
            ELSE IF t.via \in {"cpi", "cpi_builder"} THEN Client[t.name].cpi
            ELSE Client[t.name].metas
\* What fills in an account the caller has not given.
Defaults(name, via) ==
    IF via \in Web THEN WebClient[name][via].resolved
    ELSE IF via = "builder"
    THEN [field \in DOMAIN Client[name].builder.defaults |->
             Literal(Client[name].builder.defaults[field])]
    ELSE NoDefaults
Nullable(name, via) ==
    IF via = "builder" THEN Client[name].builder.nullable
    ELSE IF via = "cpi_builder" THEN Client[name].cpi_builder.passes
    ELSE LET metas == Named([name |-> name, via |-> via])
         IN  {metas[i].name : i \in {j \in DOMAIN metas : metas[j].optional}}

IsAddress(default) == default.prefix = "literal" => default.seeds[1] \in DOMAIN Fixed
\* The builder in Rust evaluates every default it has and refuses to build without the
\* rest; the web client evaluates those it needs. Nobody else has any.
Evaluated(t) == IF t.via = "builder" THEN DOMAIN Defaults(t.name, t.via)
                ELSE t.unset \cap DOMAIN Defaults(t.name, t.via)
Builds(t) ==
    /\ \A field \in Evaluated(t) : IsAddress(Defaults(t.name, t.via)[field])
    /\ t.unset \subseteq DOMAIN Defaults(t.name, t.via) \cup Nullable(t.name, t.via)
    /\ t.via = "cpi_builder" => t.unset \cap Client[t.name].cpi_builder.requires = {}

Resolved(t, default) ==
    IF default.prefix = "literal" THEN Fixed[default.seeds[1]]
    ELSE PdaAddress(default.prefix,
                    [i \in DOMAIN default.seeds |-> Seedless(t, default.seeds[i])])
MetaOf(t, a) ==
    IF a.name \notin t.unset
    THEN [address |-> Addressed(t, a.name), writable |-> a.writable, signer |-> a.signer]
    ELSE IF a.name \in DOMAIN Defaults(t.name, t.via)
    THEN [address  |-> Resolved(t, Defaults(t.name, t.via)[a.name]),
          writable |-> a.writable, signer |-> a.signer]
    ELSE [address |-> NoAccount, writable |-> FALSE, signer |-> FALSE]

Message(t) ==
    LET data == IF t.via \in Web THEN WebClient[t.name].data ELSE Client[t.name].data
    IN  [metas |-> [i \in DOMAIN Named(t) |-> MetaOf(t, Named(t)[i])],
         discriminator |-> data.discriminator,
         args |-> IF t.via \in Web THEN data.encoded ELSE data.args]

------------------------------------------------------------------------------
(* The runtime: locks.                                                      *)

Mentioned(m) == {m.metas[i].address : i \in DOMAIN m.metas}
Locked(m)    == {m.metas[i].address : i \in {j \in DOMAIN m.metas : m.metas[j].writable}}
Contend(m, n) == Locked(m) \cap Mentioned(n) # {} \/ Locked(n) \cap Mentioned(m) # {}

------------------------------------------------------------------------------
(* The program.                                                             *)

Dispatched(m) == {name \in Names : Program[name].handler.discrim = m.discriminator}
Fields(name)  == Program[name].fields
\* What the handler of t may write, and what it looks at.
Bound(t)   == {i \in DOMAIN Fields(t.name) :
                  ~(Fields(t.name)[i].optional /\ Fields(t.name)[i].name \in t.unset)}
Touched(t) == {Addressed(t, Fields(t.name)[i].name) : i \in Bound(t)}
Written(t) == {Addressed(t, Fields(t.name)[i].name) :
                  i \in {j \in Bound(t) : Fields(t.name)[j].writable}}

Accepts(field, meta) ==
    \/ field.optional /\ meta.address = NoAccount
    \/ (field.signer => meta.signer) /\ (field.writable => meta.writable)

\* The instruction whose discriminator leads the data runs, if it finds its accounts.
Runs(name, m) ==
    /\ name \in Dispatched(m)
    /\ Len(m.metas) >= Len(Fields(name))
    /\ \A i \in DOMAIN Fields(name) : Accepts(Fields(name)[i], m.metas[i])

------------------------------------------------------------------------------
\* What a caller may leave to the client: nothing, one account, or all it can.
Omissible(name, via) == DOMAIN Defaults(name, via) \cup Nullable(name, via)
Omissions(name, via) ==
    {{}, Omissible(name, via)} \cup {{field} : field \in Omissible(name, via)}

Transactions ==
    UNION {{[name |-> name, via |-> via, unset |-> unset, wallet |-> w, market |-> m] :
               w \in Wallets, m \in Markets, unset \in Omissions(name, via)} :
              name \in Names, via \in Vias}

WireInit == flight = {}

\* The runtime takes up a transaction that contends with none that runs. Of two at a time
\* one is plain: what a client fills in changes no account and no privilege (Understood).
Plain(t) == t.via = "struct" /\ t.unset = {}
Submit(t) ==
    /\ Cardinality(flight) < 2
    /\ flight = {} \/ Plain(t)
    /\ Builds(t)
    /\ \A u \in flight : ~Contend(Message(t), Message(u))
    /\ flight' = flight \cup {t}

\* Whatever runs in its name, the transaction is over then. (One that the program refused
\* would stay in flight: Understood says that there is none.)
Executes(t) ==
    /\ \E name \in Names : Runs(name, Message(t))
    /\ flight' = flight \ {t}

WireNext == \/ \E t \in Transactions : Submit(t)
            \/ \E t \in flight : Executes(t)

------------------------------------------------------------------------------
\* The program does what the client asked for: it dispatches to that instruction, binds
\* every field to the account the client meant, finds the privileges it needs, and reads
\* the arguments in the order and at the widths in which they were written; the web
\* client's parser reads the same accounts and arguments back.
Understood(t) ==
    LET m == Message(t)
        web == WebClient[t.name]
    IN  /\ Dispatched(m) = {t.name}
        /\ Len(m.metas) = Len(Fields(t.name))
        /\ \A i \in DOMAIN m.metas :
              /\ IF i \in Bound(t)
                 THEN m.metas[i].address = Addressed(t, Fields(t.name)[i].name)
                 ELSE m.metas[i].address = NoAccount
              /\ Accepts(Fields(t.name)[i], m.metas[i])
              /\ web.parsed[i] = Fields(t.name)[i].name
        /\ m.args = Program[t.name].handler.params /\ web.data.decoded = m.args

\* Transactions that run at the same time touch nothing that either of them writes.
Isolated == \A t, u \in flight : t # u => Written(t) \cap Touched(u) = {}

\* No lock is wider than the handler needs: two transactions of different wallets on
\* different markets wait for one another only over an account they share by design.
Shared == {<<"registry">>, <<"fee_vault">>} \cup {<<"wallet", Counterpart>>}
             \cup {<<mint, Counterpart>> : mint \in {"base", "quote"}}
Parallel ==
    \A t, u \in flight : t # u =>
        \A v \in {[t EXCEPT !.wallet = w, !.market = m] :
                     w \in Wallets \ {u.wallet}, m \in Markets \ {u.market}} :
            Contend(Message(v), Message(u)) =>
                (Written(v) \cup Written(u)) \cap Shared # {}

WireAgrees == (\A t \in flight : Understood(t)) /\ Isolated /\ Parallel
=============================================================================
