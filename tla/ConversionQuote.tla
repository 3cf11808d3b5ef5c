-------------------------- MODULE ConversionQuote ---------------------------
(***************************************************************************)
(* What a conversion is offered at: the registry of assets that the        *)
(* backend boots with, and the quote, a price that Horizon finds and the   *)
(* least that the user accepts to receive.  Amounts are in stroops; a      *)
(* quote is exact below 10^9 units, where the 20 digits of decimal.js hold *)
(* the product.                                                            *)
(***************************************************************************)
EXTENDS Integers, Sequences, FiniteSets

CONSTANTS
    Names,      \* symbols as they are spelled, by the registry or by a caller
    Upper,      \* Upper[n]: n in capitals
    Trimmed,    \* Trimmed[n]: n without the blanks around it
    Xlm, Native,\* two of them: the asset's symbol, and what DeFindex calls it
    Blank       \* no symbol at all

-----------------------------------------------------------------------------
(* The registry: validateAssetRegistry on what is built in, or on          *)
(* STELLAR_ASSETS_JSON in its place.                                       *)

AssetOk(a) ==
    /\ Trimmed[a.symbol] # Blank /\ a.code # Blank
    /\ \/ a.kind = "NATIVE" /\ a.issuer = "null"
       \/ a.kind = "CLASSIC" /\ a.issuer = "account"
    /\ a.contractId \in {"null", "contract"}
    /\ a.decimals \in Nat /\ a.maxSlippageBps \in Nat

Funding(r) == {i \in DOMAIN r : r[i].funding}

\* Symbols are compared as they are spelled.
RegistryOk(r) ==
    /\ r # <<>>
    /\ \A i \in DOMAIN r : AssetOk(r[i])
    /\ \A i, j \in DOMAIN r : i # j => r[i].symbol # r[j].symbol
    /\ \E i \in DOMAIN r : Funding(r) = {i}

\* readAssetRegistry: the override, if there is one, replaces the whole list; the boot
\* fails on what is no list or not valid, and on a network without a list of its own.
Boots(builtin, override) ==
    LET chosen == IF override.given = "none" THEN builtin ELSE override
    IN chosen.given = "list" /\ RegistryOk(chosen.assets)

\* findAssetBySymbol: the first of that name in capitals; 0: null.  What the caller says
\* is trimmed, what the registry says is not.
Wanted(s) == IF Upper[Trimmed[s]] = Native THEN Xlm ELSE Upper[Trimmed[s]]
Matches(r, s) == {i \in DOMAIN r : Upper[r[i].symbol] = Wanted(s)}
Find(r, s) ==
    IF s = Blank \/ Matches(r, s) = {} THEN 0
    ELSE CHOOSE i \in Matches(r, s) : \A j \in Matches(r, s) : i <= j

\* As the path finder takes an asset: not as assetIdOf names it in balances.
PathParam(a) == IF a.kind = "NATIVE" THEN "native" ELSE <<a.code, a.issuer>>

-----------------------------------------------------------------------------
(* QuoteService.quote.                                                     *)

\* "Best price wins": the first record among the best.
Best(records) ==
    CHOOSE i \in DOMAIN records : \A j \in DOMAIN records :
        /\ records[j].dest <= records[i].dest
        /\ records[j].dest = records[i].dest => i <= j

\* destAmount less the slippage, rounded down to a stroop.  No check bounds the slippage
\* from above: over 10000 the least is below zero, where the code rounds up instead.
DestMin(dest, bps) == (dest * (10000 - bps)) \div 10000

\* toPathAssets throws at a hop that is neither native nor complete.
PathOk(path) == \A h \in DOMAIN path : path[h] \in {"native", "credit"}

\* The slippage is the target's, and what Horizon does not answer is no quote.
Quote(answered, records, target) ==
    CASE ~answered                   -> [refused |-> "QUOTE_UNAVAILABLE"]
      [] answered /\ records = <<>>  -> [refused |-> "NO_CONVERSION_ROUTE"]
      [] OTHER -> LET best == records[Best(records)] IN
                  IF PathOk(best.path)
                  THEN [refused |-> "none", dest |-> best.dest, path |-> best.path,
                        destMin |-> DestMin(best.dest, target.maxSlippageBps)]
                  ELSE [refused |-> "error"]
=============================================================================
