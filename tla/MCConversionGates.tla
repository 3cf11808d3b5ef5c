-------------------------- MODULE MCConversionGates --------------------------
(* Conversions, the learning trail, the education gate and the disclosures  *)
(* share no row: a behaviour exercises one of them, and the others stay     *)
(* where they begin.                                                        *)
EXTENDS ConversionProperties, LearningXp, VaultEligibility,
        VaultDisclosure, TLC

CONSTANTS l1, l2, q1, q2, q3
VARIABLE focus

\* Two questions in one lesson, one in another.
MCLessonOf == (q1 :> l1) @@ (q2 :> l1) @@ (q3 :> l2)

\* The first level is reached by a daily reward or by the introduction, whichever
\* comes last; the second takes everything.
MCThresholds == <<40, 85>>

MCInit ==
    /\ focus \in {"conversions", "trail", "gate", "disclosure"}
    /\ Init
    /\ LearnInit
    /\ GateInit /\ (focus # "gate" => lite = [u \in Learners |-> TRUE])
    /\ DiscInit

MCNext ==
    /\ UNCHANGED focus
    /\ \/ focus = "conversions" /\ Next /\ UNCHANGED <<learnVars, gateVars, discVars>>
       \/ focus = "trail" /\ LearnNext /\ UNCHANGED <<vars, gateVars, discVars>>
       \/ focus = "gate" /\ GateNext /\ UNCHANGED <<vars, learnVars, discVars>>
       \/ focus = "disclosure" /\ DiscNext /\ UNCHANGED <<vars, learnVars, gateVars>>

MCSpec == MCInit /\ [][MCNext]_<<focus, vars, learnVars, gateVars, discVars>>

-----------------------------------------------------------------------------
(* The pure parts beside them, on small inputs: their theorems once more,  *)
(* and the cases in which the two sides of each disagree.                  *)

Access == INSTANCE DepositAccess WITH Texts <- 1 .. 2, Courses <- {l1}, TopLevel <- 1, NoPolicy <- l2

ASSUME AccessAgrees ==
    \A v \in Access!Vaults, u \in Access!Users, s \in Access!Switches :
        /\ Access!Listed(v) /\ Access!Current(v) # 0 /\ Access!CanDeposit(v, u, s) => Access!Admits(v, u, s)
        /\ ~v.usdc /\ Access!Admits(v, u, s) => Access!Listed(v) /\ Access!CanDeposit(v, u, s)

\* A vault without a disclosure is shown as open and refuses; a USDC vault is shown as
\* closed and accepts; money is converted for a deposit that will be refused.
ASSUME AccessDisagrees ==
    /\ \E v \in Access!Vaults, u \in Access!Users, s \in Access!Switches :
        Access!Listed(v) /\ Access!CanDeposit(v, u, s) /\ ~Access!Admits(v, u, s)
    /\ \E v \in Access!Vaults, u \in Access!Users, s \in Access!Switches :
        v.usdc /\ ~Access!CanDeposit(v, u, s) /\ Access!Admits(v, u, s)
    /\ \E v \in Access!Vaults, u \in Access!Users, s \in Access!Switches :
        Access!Listed(v) /\ v.enabled /\ Access!Converts(v, u, s) /\ ~Access!Admits(v, u, s)

Introduction == INSTANCE LearningCatalogue

ASSUME CatalogueIsSound ==
    LET C == Introduction!Catalogue IN
    /\ Introduction!Valid(C) /\ Introduction!OneOrder(C) /\ Introduction!ReviewIsBehind(C)
    /\ Introduction!WellKeyed(Introduction!Entries(C))

\* A position on a question's legacy key is not taken along: it is the first screen again.
ASSUME LegacyPositionIsLost ==
    \A l \in DOMAIN Introduction!Catalogue : \A q \in Introduction!Catalogue[l].questions :
        Introduction!SeededPosition(Introduction!Catalogue, l, Introduction!LegacyKey(l, q))
            = Introduction!FirstStep(Introduction!Catalogue, l)

Words == {"", "usdc", "USDC", "XLM", "NATIVE"}
Pricing == INSTANCE ConversionQuote WITH
    Names <- Words, Blank <- "", Xlm <- "XLM", Native <- "NATIVE", Trimmed <- [n \in Words |-> n],
    Upper <- [n \in Words |-> IF n = "usdc" THEN "USDC" ELSE n]

MCAsset(symbol, bps, funding) ==
    [symbol |-> symbol, code |-> "code", kind |-> "CLASSIC", issuer |-> "account", contractId |-> "null",
     decimals |-> 7, maxSlippageBps |-> bps, funding |-> funding]

ASSUME FloorIsSound ==
    \A dest \in {0, 1, 199, 200, 9999, 10000, 123457}, bps \in {0, 1, 50, 100, 9999, 10000} :
        /\ Pricing!DestMin(dest, bps) \in 0 .. dest
        /\ 10000 * (dest - Pricing!DestMin(dest, bps)) < dest * bps + 10000

\* The registry takes a slippage above 100%, whose floor is negative, symbols that differ
\* in their case only, and an asset that is called native: the last two are never found.
ASSUME RegistryLetsThrough ==
    LET r == <<MCAsset("USDC", 10001, TRUE), MCAsset("usdc", 50, FALSE), MCAsset("NATIVE", 50, FALSE)>>
        quote == Pricing!Quote(TRUE, <<[dest |-> 10000, path |-> <<>>], [dest |-> 20000, path |-> <<"native">>]>>, r[1])
    IN  /\ Pricing!RegistryOk(r)
        /\ Pricing!Find(r, "usdc") = 1 /\ Pricing!Find(r, "NATIVE") = 0
        /\ quote.dest = 20000 /\ quote.destMin < 0

\* The requests, devices, operators and visits of the four are named alike, and so
\* are conversions and instances.
Symmetry == Permutations(Requests) \cup Permutations(Instances)
=============================================================================
