------------------------- MODULE DeletionEligibility ------------------------
(***************************************************************************)
(* The check that decides whether an account may be deleted: a dozen reads *)
(* of the database, of Horizon and of DeFindex, on their way at the same   *)
(* time, while the owner's operations go on.  An amount is nothing, dust   *)
(* or above the dust threshold.  The wallet is active and activated; a     *)
(* position in a vault comes of a deposit through the backend.             *)
(***************************************************************************)
EXTENDS Naturals, FiniteSets

CONSTANTS
    Vaults,         \* the catalog, retired vaults included
    Ops             \* deposits, withdrawals and ramp orders of the account

VARIABLES
    op,             \* per operation: kind and vault, if any (fixed), and its row
    gift,           \* a gift the account sends: its row, and whether balanceId is set
    funds,          \* what there is in the wallet, in each vault and in the gift's escrow
    allowed,        \* ALLOWED_VAULT_IDS; empty: no allowlist
    check           \* a run of the check, or the last one

eligVars == <<op, gift, funds, allowed, check>>

\* An Etherfuse order is an onramp or an offramp, of which it has a count of its own.
Kinds == {"deposit", "withdrawal", "onramp", "offramp"}
Places == {"wallet", "escrow"} \cup Vaults
ReadNames == {"scope", "wallet", "gifts"} \cup Kinds \cup Vaults

\* A vault's name is its own.
ASSUME NameAssumption == Vaults \cap ({"scope", "wallet", "gifts", "escrow", "outside"} \cup Kinds) = {}

InFlight(o) == op[o].row \in {"open", "sent"}

OpRow == [kind: Kinds, vault: Vaults \cup {"none"}, row: {"none", "open", "sent", "closed"}]
CheckRow == [reading: BOOLEAN, todo: SUBSET ReadNames, blocked: BOOLEAN, throttled: BOOLEAN, stayed: SUBSET Ops,
             giftKnown: BOOLEAN, quiet: BOOLEAN, unread: BOOLEAN,
             answer: {"none", "eligible", "blocked", "unavailable"}]

EligTypeOK ==
    /\ op \in [Ops -> OpRow]
    /\ gift \in [row: {"none", "CREATED", "FUNDED", "CLAIMING", "CLAIMED", "EXPIRED", "REFUNDED"},
                 balanceId: BOOLEAN]
    /\ funds \in [Places -> {"dust", "above"}]
    /\ allowed \in SUBSET Vaults
    /\ check \in CheckRow

\* history: stayed, giftKnown, quiet and unread are for the properties: what was in
\* flight all the while, whether the gift's row named its balance when the check
\* began, whether no money moved, and whether Horizon failed.
NoCheck == [reading |-> FALSE, todo |-> {}, blocked |-> FALSE, throttled |-> FALSE,
            stayed |-> {}, giftKnown |-> FALSE, quiet |-> TRUE, unread |-> FALSE, answer |-> "none"]

AnyOp ==
    [kind: {"deposit", "withdrawal"}, vault: Vaults, row: {"none"}]
    \cup [kind: {"onramp", "offramp"}, vault: {"none"}, row: {"none"}]

EligInit ==
    /\ op \in [Ops -> AnyOp]
    /\ gift = [row |-> "none", balanceId |-> FALSE]
    /\ funds = [[p \in Places |-> "dust"] EXCEPT !["wallet"] = "above"]
    /\ allowed \in SUBSET Vaults
    /\ check = NoCheck

-----------------------------------------------------------------------------
(* What goes on in the account meanwhile.                                  *)

Moves(from, to) ==
    /\ from # "outside" => funds[from] = "above"
    /\ funds' = [p \in Places |-> IF p = to THEN "above" ELSE IF p = from THEN "dust" ELSE funds[p]]
    /\ check' = [check EXCEPT !.quiet = FALSE]

From(o) == CASE op[o].kind = "deposit" -> "wallet"
             [] op[o].kind = "withdrawal" -> op[o].vault
             [] op[o].kind = "offramp" -> "wallet"
             [] OTHER -> "outside"

To(o) == CASE op[o].kind = "deposit" -> op[o].vault
           [] op[o].kind = "offramp" -> "outside"
           [] OTHER -> "wallet"

Opens(o) ==
    /\ op[o].row = "none"
    /\ op[o].kind = "deposit" => allowed = {} \/ op[o].vault \in allowed
    /\ op' = [op EXCEPT ![o].row = "open"]
    /\ UNCHANGED <<gift, funds, allowed, check>>

\* Its transaction, or the partner's, is applied while the row is in flight.
Settles(o) ==
    /\ op[o].row = "open"
    /\ op' = [op EXCEPT ![o].row = "sent"]
    /\ Moves(From(o), To(o))
    /\ UNCHANGED <<gift, allowed>>

\* The row is closed: confirmed after the money moved, or given up before it.
Closes(o) ==
    /\ InFlight(o)
    /\ op' = [op EXCEPT ![o].row = "closed"]
    /\ check' = [check EXCEPT !.stayed = @ \ {o}]
    /\ UNCHANGED <<gift, funds, allowed>>

Pays == Moves("outside", "wallet") /\ UNCHANGED <<op, gift, allowed>>

GiftGoes(from, to, id) ==
    /\ gift.row \in from
    /\ gift' = [row |-> to, balanceId |-> id]
    /\ UNCHANGED <<op, funds, allowed, check>>

\* The sender's transaction is applied before any row says so, and it may not be
\* noticed before the gift expires.
GiftLands ==
    /\ gift.row = "CREATED" /\ funds["escrow"] = "dust"
    /\ Moves("wallet", "escrow")
    /\ UNCHANGED <<op, gift, allowed>>

\* A claim is paid, or the sender takes the balance back.
EscrowPays(to) ==
    /\ to = "wallet" => gift.row = "EXPIRED"
    /\ to = "outside" => gift.row = "CLAIMING"
    /\ Moves("escrow", to)
    /\ UNCHANGED <<op, gift, allowed>>

GiftMoves ==
    \/ GiftGoes({"none"}, "CREATED", FALSE)
    \/ funds["escrow"] = "above" /\ GiftGoes({"CREATED"}, "FUNDED", TRUE)
    \/ GiftGoes({"FUNDED"}, "CLAIMING", TRUE)
    \/ GiftGoes({"CREATED", "FUNDED"}, "EXPIRED", gift.balanceId)
    \/ funds["escrow"] # "above" /\ GiftGoes({"CLAIMING"}, "CLAIMED", TRUE)
    \/ funds["escrow"] # "above" /\ gift.balanceId /\ GiftGoes({"EXPIRED"}, "REFUNDED", TRUE)
    \/ GiftLands
    \/ EscrowPays("outside") \/ EscrowPays("wallet")

\* The instances are started again with another list; a check that runs dies.
Redeploy(list) ==
    /\ allowed' = list
    /\ check' = NoCheck
    /\ UNCHANGED <<op, gift, funds>>

-----------------------------------------------------------------------------
(* check.                                                                  *)

\* A count of a kind of which the account has no operation finds nothing.
CheckStart ==
    /\ ~check.reading
    /\ check' = [NoCheck EXCEPT !.reading = TRUE,
                                !.todo = {"scope", "wallet", "gifts"} \cup {op[o].kind : o \in Ops},
                                !.stayed = {o \in Ops : InFlight(o)},
                                !.giftKnown = gift.balanceId]
    /\ UNCHANGED <<op, gift, funds, allowed>>

Sees(what, found) ==
    /\ what \in check.todo
    /\ check' = [check EXCEPT !.todo = @ \ {what}, !.blocked = @ \/ found]
    /\ UNCHANGED <<op, gift, funds, allowed>>

\* The vaults of deposits and withdrawals, whatever became of them.  The snapshots
\* of the portfolio are of positions in such vaults.
Touched == {op[o].vault : o \in {q \in Ops : /\ op[q].kind \in {"deposit", "withdrawal"}
                                            /\ op[q].row # "none"}}

\* Mutant: the vaults the app offers today.
AllowedOnly == IF allowed = {} THEN Vaults ELSE allowed

\* inspectionScope.
Scope == IF allowed = {} THEN Vaults ELSE allowed \cup Touched

ReadScope ==
    /\ "scope" \in check.todo
    /\ check' = [check EXCEPT !.todo = (@ \ {"scope"}) \cup Scope]
    /\ UNCHANGED <<op, gift, funds, allowed>>

\* One of at most three at a time.  After a read was throttled, no other is made.
ReadVault(v) == ~check.throttled /\ Sees(v, funds[v] = "above")

\* DeFindex answers with an error of its own: VAULT_BALANCE_UNKNOWN.
ReadVaultFails(v) == ~check.throttled /\ Sees(v, TRUE)

ReadVaultThrottled(v) ==
    /\ v \in check.todo
    /\ check' = [check EXCEPT !.todo = @ \ {v}, !.throttled = TRUE]
    /\ UNCHANGED <<op, gift, funds, allowed>>

ReadWallet == Sees("wallet", funds["wallet"] = "above")

\* getWalletBalances answers with no balances when Horizon fails.
ReadWalletFails ==
    /\ "wallet" \in check.todo
    /\ check' = [check EXCEPT !.todo = @ \ {"wallet"}, !.unread = TRUE]
    /\ UNCHANGED <<op, gift, funds, allowed>>

\* giftBlockers: an expired gift only if it names its balance.
ReadGifts == Sees("gifts", gift.row \in {"FUNDED", "CLAIMING"} \/ (gift.row = "EXPIRED" /\ gift.balanceId))

\* inFlightBlockers: one count for a kind of row.  A pending record of a transaction
\* is counted too, and finds nothing that the count of its intent does not.
ReadCount(k) == Sees(k, \E o \in Ops : op[o].kind = k /\ InFlight(o))

Answer(c) == IF c.throttled THEN "unavailable" ELSE IF c.blocked THEN "blocked" ELSE "eligible"

CheckEnd ==
    /\ check.reading /\ check.todo \cap ({"scope", "wallet", "gifts"} \cup Kinds) = {}
    /\ check.todo = {} \/ check.throttled
    /\ check' = [check EXCEPT !.reading = FALSE, !.todo = {}, !.answer = Answer(check)]
    /\ UNCHANGED <<op, gift, funds, allowed>>

CheckFails ==
    /\ check.reading
    /\ check' = NoCheck
    /\ UNCHANGED <<op, gift, funds, allowed>>

-----------------------------------------------------------------------------
AccountGoesOn ==
    \/ \E o \in Ops : Opens(o) \/ Settles(o) \/ Closes(o)
    \/ Pays \/ GiftMoves
    \/ \E list \in SUBSET Vaults : Redeploy(list)

CheckGoesOn ==
    \/ CheckStart \/ ReadScope \/ ReadWallet \/ ReadWalletFails \/ ReadGifts
    \/ CheckEnd \/ CheckFails
    \/ \E v \in Vaults : ReadVault(v) \/ ReadVaultFails(v) \/ ReadVaultThrottled(v)
    \/ \E k \in Kinds : ReadCount(k)

EligNext == AccountGoesOn \/ CheckGoesOn

EligSpec == EligInit /\ [][EligNext]_eligVars

-----------------------------------------------------------------------------
(* Properties *)

\* "When in doubt, block."  An account that was found eligible had nothing in
\* flight all the while, and, if no money moved during the check, there is no more
\* than dust in its vaults, those left out of the allowlist since included, and in
\* its wallet if Horizon answered; of gifts, only one whose row did not name its balance yet.
EligibleMeansFree ==
    check.answer = "eligible" =>
        /\ check.stayed = {}
        /\ check.quiet =>
              \A p \in Places : funds[p] = "above" =>
                  \/ p = "wallet" /\ check.unread
                  \/ p = "escrow" /\ ~check.giftKnown
=============================================================================
