--------------------------- MODULE PortfolioValue ---------------------------
(***************************************************************************)
(* What a user's positions are worth: the summary that the app asks for    *)
(* and the nightly snapshot read the vaults one by one, with the prices of *)
(* an oracle that one instance caches.  A position is nothing or           *)
(* something, and a price is known by its age.                             *)
(*                                                                         *)
(* Time passes in ticks of the oracle's resolution; a valuation lasts less *)
(* than a tick.                                                            *)
(***************************************************************************)
EXTENDS Naturals

CONSTANTS
    Vaults,
    Assets,
    AssetOf,        \* the asset of each vault
    Feeds,          \* assets with a reflectorFeed
    Static,         \* PRICING_STATIC_USD: assets with a price of last resort
    PriceTtl,       \* PRICE_CACHE_TTL_MS, in ticks
    StaleAfter,     \* STALE_AFTER_MS, in ticks
    Valuers         \* summaries and snapshots that may overlap

ASSUME AssetOfAssumption == AssetOf \in [Vaults -> Assets] /\ Feeds \subseteq Assets
ASSUME PriceTtlAssumption == PriceTtl \in Nat \ {0}
ASSUME StaleAfterAssumption == StaleAfter \in Nat

VARIABLES
    held,           \* vaults in which the user has a position
    touched,        \* vaults with an intent of the user, or a PortfolioSnapshot
    shown,          \* vaults that are active, and allowed
    oracle,         \* per feed: the age of the oracle's last price
    priceCache,     \* per asset: the cached price and the ticks it has left
    valuer          \* per call: what it is after, and what it has got

valueVars == <<held, touched, shown, oracle, priceCache, valuer>>

\* An older price is no different.
Ages == 0 .. StaleAfter + PriceTtl + 1

Unknown == [known |-> FALSE, age |-> 0, stale |-> TRUE]
Price == [known: BOOLEAN, age: Ages, stale: BOOLEAN]

NoValuer == [kind |-> "idle", ask |-> {}, keep |-> {}, price |-> [a \in Assets |-> Unknown],
             scope |-> {}, todo |-> {}, counted |-> {}, anyUnpriced |-> FALSE, anyStale |-> FALSE,
             oldest |-> 0, quiet |-> TRUE]

ValuerRow == [kind: {"idle", "summary", "snapshot", "answered"}, ask: SUBSET Assets, keep: SUBSET Assets,
              price: [Assets -> Price], scope: SUBSET Vaults, todo: SUBSET Vaults, counted: SUBSET Vaults,
              anyUnpriced: BOOLEAN, anyStale: BOOLEAN, oldest: Ages, quiet: BOOLEAN]

CachedPrice == [price: Price, left: 0 .. PriceTtl]

ValueTypeOK ==
    /\ held \in SUBSET Vaults /\ touched \in SUBSET Vaults /\ shown \in SUBSET Vaults
    /\ oracle \in [Feeds -> Ages]
    /\ priceCache \in [Assets -> CachedPrice]
    /\ valuer \in [Valuers -> ValuerRow]
    /\ \A r \in Valuers : valuer[r].counted \subseteq valuer[r].scope

\* An entry whose time is over is as good as none.
NoPrice == [price |-> Unknown, left |-> 0]

ValueInit ==
    /\ held = {} /\ touched = {}
    /\ shown \in SUBSET Vaults
    /\ oracle = [a \in Feeds |-> 0]
    /\ priceCache = [a \in Assets |-> NoPrice]
    /\ valuer = [r \in Valuers |-> NoValuer]

Max2(a, b) == IF a < b THEN b ELSE a
Stirred == [r \in Valuers |-> IF valuer[r].kind = "idle" THEN valuer[r] ELSE [valuer[r] EXCEPT !.quiet = FALSE]]

-----------------------------------------------------------------------------
(* The user and the operator meanwhile.                                    *)

\* A deposit through the backend leaves an intent; another one does not.
Deposits(v, through) ==
    /\ v \notin held
    /\ held' = held \cup {v}
    /\ touched' = IF through THEN touched \cup {v} ELSE touched
    /\ valuer' = Stirred
    /\ UNCHANGED <<shown, oracle, priceCache>>

Withdraws(v) ==
    /\ v \in held
    /\ held' = held \ {v}
    /\ touched' = touched \cup {v}
    /\ valuer' = Stirred
    /\ UNCHANGED <<shown, oracle, priceCache>>

\* The operator lists a vault, or takes it off the list.
ListsVault(v) ==
    /\ shown' = IF v \in shown THEN shown \ {v} ELSE shown \cup {v}
    /\ UNCHANGED <<held, touched, oracle, priceCache, valuer>>

OraclePublishes(a) ==
    /\ oracle[a] > 0
    /\ oracle' = [oracle EXCEPT ![a] = 0]
    /\ UNCHANGED <<held, touched, shown, priceCache, valuer>>

-----------------------------------------------------------------------------
(* summary and takeSnapshots: the vaults, and then their prices.           *)

Starts(r, kind, scope) ==
    /\ valuer[r].kind = "idle"
    /\ valuer' = [valuer EXCEPT ![r] = [NoValuer EXCEPT !.kind = kind, !.scope = scope, !.todo = scope,
                                        !.ask = {AssetOf[v] : v \in shown}]]
    /\ UNCHANGED <<held, touched, shown, oracle, priceCache>>

StartSummary(r) == Starts(r, "summary", shown)

\* Of the listed vaults those with a deposit, a withdrawal or a snapshot of the user.
VaultsTouchedBy == shown \cap touched

StartSnapshot(r, fullSweep) ==
    Starts(r, "snapshot", IF fullSweep THEN shown ELSE VaultsTouchedBy)

Priced(c, a, price) == [c EXCEPT !.ask = @ \ {a}, !.price = [@ EXCEPT ![a] = price]]

\* getUsdPrice, for all the assets at once: the cache, or the oracle and then the cache.
PriceCached(r, a) ==
    /\ a \in valuer[r].ask /\ priceCache[a].left > 0
    /\ valuer' = [valuer EXCEPT ![r] = Priced(@, a, priceCache[a].price)]
    /\ UNCHANGED <<held, touched, shown, oracle, priceCache>>

\* Mutant: the quote is as old as the reading of it.
QuoteOfNow(a) == [known |-> TRUE, age |-> oracle[a], stale |-> FALSE]

\* fromOracle: asOf is the oracle's timestamp.
Quote(a) == [known |-> TRUE, age |-> oracle[a], stale |-> oracle[a] > StaleAfter]

\* fromStatic: a constant is always flagged.
Fallback(a) == IF a \in Static THEN [Unknown EXCEPT !.known = TRUE] ELSE Unknown

PriceAsked(r, a, answers) ==
    /\ a \in valuer[r].ask /\ priceCache[a].left = 0
    /\ valuer' = [valuer EXCEPT ![r] = Priced([valuer[r] EXCEPT !.keep = @ \cup {a}], a,
                                              IF answers /\ a \in Feeds THEN Quote(a) ELSE Fallback(a))]
    /\ UNCHANGED <<held, touched, shown, oracle, priceCache>>

\* What nothing can price is not cached.
PriceKept(r, a) ==
    LET price == valuer[r].price[a] IN
    /\ a \in valuer[r].keep
    /\ priceCache' = IF price.known THEN [priceCache EXCEPT ![a] = [price |-> price, left |-> PriceTtl]]
                     ELSE priceCache
    /\ valuer' = [valuer EXCEPT ![r].keep = @ \ {a}]
    /\ UNCHANGED <<held, touched, shown, oracle>>

-----------------------------------------------------------------------------
(* ... and then one position after another.                                *)

Reading(r, kind, v) ==
    /\ valuer[r].kind = kind /\ v \in valuer[r].todo
    /\ valuer[r].ask = {} /\ valuer[r].keep = {}

\* Mutant: a vault that cannot be read is passed over.
PassedOver(c) == c

\* A vault that cannot be read is not a vault holding nothing.
Unread(c) == [c EXCEPT !.anyUnpriced = TRUE]

\* c, with v in the total or out of it.
Counted(c, v) ==
    LET price == c.price[AssetOf[v]] IN
    IF price.known
    THEN [c EXCEPT !.counted = @ \cup {v}, !.anyStale = @ \/ price.stale,
                   !.oldest = IF price.stale THEN @ ELSE Max2(@, price.age)]
    ELSE [c EXCEPT !.anyUnpriced = TRUE]

Passed(c, v) == [c EXCEPT !.todo = @ \ {v}]

SummaryReads(r, v) ==
    /\ Reading(r, "summary", v)
    /\ valuer' = [valuer EXCEPT ![r] = Passed(IF v \in held THEN Counted(@, v) ELSE @, v)]
    /\ UNCHANGED <<held, touched, shown, oracle, priceCache>>

SummaryCannotRead(r, v) ==
    /\ Reading(r, "summary", v)
    /\ valuer' = [valuer EXCEPT ![r] = Passed(Unread(@), v)]
    /\ UNCHANGED <<held, touched, shown, oracle, priceCache>>

SummaryEnd(r) ==
    /\ valuer[r].kind = "summary"
    /\ valuer[r].ask \cup valuer[r].keep \cup valuer[r].todo = {}
    /\ valuer' = [valuer EXCEPT ![r].kind = "answered"]
    /\ UNCHANGED <<held, touched, shown, oracle, priceCache>>

\* The row is written with or without a value: it is not skipped for want of a price.
SnapshotReads(r, v) ==
    /\ Reading(r, "snapshot", v)
    /\ touched' = IF v \in held THEN touched \cup {v} ELSE touched
    /\ valuer' = [valuer EXCEPT ![r] = Passed(@, v)]
    /\ UNCHANGED <<held, shown, oracle, priceCache>>

\* The read, or the insert, fails: the vault is left for another night.
SnapshotSkips(r, v) ==
    /\ Reading(r, "snapshot", v)
    /\ valuer' = [valuer EXCEPT ![r] = Passed(@, v)]
    /\ UNCHANGED <<held, touched, shown, oracle, priceCache>>

\* The valuation is over, or fails.
ValuerLeaves(r) ==
    /\ valuer[r].kind # "idle"
    /\ valuer' = [valuer EXCEPT ![r] = NoValuer]
    /\ UNCHANGED <<held, touched, shown, oracle, priceCache>>

-----------------------------------------------------------------------------
Older(age) == IF age + 1 \in Ages THEN age + 1 ELSE age

PriceTick ==
    /\ \A r \in Valuers : valuer[r].kind = "idle"
    /\ oracle' = [a \in Feeds |-> Older(oracle[a])]
    /\ priceCache' = [a \in Assets |->
           IF priceCache[a].left < 2 THEN NoPrice
           ELSE [price |-> [priceCache[a].price EXCEPT !.age = Older(@)], left |-> priceCache[a].left - 1]]
    /\ UNCHANGED <<held, touched, shown, valuer>>

ValueNext ==
    \/ \E v \in Vaults :
        \/ \E through \in BOOLEAN : Deposits(v, through)
        \/ Withdraws(v) \/ ListsVault(v)
    \/ \E a \in Feeds : OraclePublishes(a)
    \/ \E r \in Valuers :
        \/ StartSummary(r) \/ SummaryEnd(r) \/ ValuerLeaves(r)
        \/ \E fullSweep \in BOOLEAN : StartSnapshot(r, fullSweep)
        \/ \E a \in Assets :
            \/ PriceCached(r, a) \/ PriceKept(r, a)
            \/ \E answers \in BOOLEAN : PriceAsked(r, a, answers)
        \/ \E v \in Vaults :
            \/ SummaryReads(r, v) \/ SummaryCannotRead(r, v)
            \/ SnapshotReads(r, v) \/ SnapshotSkips(r, v)
    \/ PriceTick

ValueSpec == ValueInit /\ [][ValueNext]_valueVars

-----------------------------------------------------------------------------
(* Properties *)

Answered(r) == valuer[r].kind = "answered"

\* "A partial total is worse than none."  A summary that gives a total counts every
\* position in the vaults that were listed when it began, unless money moved since.
TotalIsWhole ==
    \A r \in Valuers : Answered(r) /\ ~valuer[r].anyUnpriced /\ valuer[r].quiet =>
        valuer[r].counted = held \cap valuer[r].scope

\* An answer that is not flagged rests on prices no older than what is vouched for
\* and the cache's time together, whichever valuation asked the oracle for them.
UnflaggedPriceIsRecent ==
    \A r \in Valuers : Answered(r) /\ ~valuer[r].anyStale =>
        valuer[r].oldest <= StaleAfter + PriceTtl
=============================================================================
