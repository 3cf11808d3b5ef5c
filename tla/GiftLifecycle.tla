--------------------------- MODULE GiftLifecycle ---------------------------
(***************************************************************************)
(* Gifts of one sender: created in the database, funded by the sender as a *)
(* claimable balance on the ledger, claimed by a new user through the      *)
(* backend's claim agent, or expired and reclaimed by the sender.          *)
(*                                                                         *)
(* The row and the ledger change separately: the backend learns of the     *)
(* ledger from two jobs and from the answer to the one payment it submits, *)
(* and that answer may not come although the payment is applied.           *)
(***************************************************************************)
EXTENDS Naturals, FiniteSets

CONSTANTS
    Gifts,          \* idempotency keys, each naming at most one gift
    Creators,       \* requests that create gifts
    Claims,         \* claim requests, each made once; it stands for its account too
    Jobs,           \* overlapping runs of the gift reconciliation job
    MaxPending,     \* GIFT_MAX_PENDING_PER_USER
    NoGift, NoClaim

ASSUME MaxPendingAssumption == MaxPending \in Nat
ASSUME NoneAssumption == NoGift \notin Gifts /\ NoClaim \notin Claims

VARIABLES
    status,         \* Gift.status ("absent": no row yet)
    hasBalanceId,   \* Gift.balanceId is set
    recipient,      \* Gift.recipientUserId, as the claim that recorded it
    late,           \* now > expiresAt
    balance,        \* the claimable balance on the ledger
    paidBy,         \* the claim whose payment took the balance
    flying,         \* claims whose payment was submitted and may still be applied
    pushed,         \* gifts whose sender was told of the claim
    creating,       \* the gift a creating request passed the pending cap for
    claimPc, claimGift,
    found,          \* per job run: gifts it saw a matching balance for
    gone            \* per job run: expired gifts it saw no balance for

row     == <<status, hasBalanceId, recipient>>
ledger  == <<balance, paidBy>>
claims  == <<claimPc, claimGift>>
scans   == <<found, gone>>
vars    == <<status, hasBalanceId, recipient, late, balance, paidBy, flying, pushed,
             creating, claimPc, claimGift, found, gone>>

GiftStatus == {"CREATED", "FUNDED", "CLAIMING", "CLAIMED", "EXPIRED", "REFUNDED"}

TypeOK ==
    /\ status \in [Gifts -> GiftStatus \cup {"absent"}]
    /\ hasBalanceId \in [Gifts -> BOOLEAN]
    /\ recipient \in [Gifts -> Claims \cup {NoClaim}]
    /\ late \in [Gifts -> BOOLEAN]
    /\ balance \in [Gifts -> {"none", "open", "paid", "reclaimed"}]
    /\ paidBy \in [Gifts -> Claims \cup {NoClaim}]
    /\ flying \in SUBSET Claims
    /\ pushed \in SUBSET Gifts
    /\ creating \in [Creators -> Gifts \cup {NoGift}]
    /\ claimPc \in [Claims -> {"new", "checked", "locked", "submitted", "paid", "marked", "done"}]
    /\ claimGift \in [Claims -> Gifts \cup {NoGift}]
    /\ found \in [Jobs -> SUBSET Gifts]
    /\ gone \in [Jobs -> SUBSET Gifts]

Init ==
    /\ status = [g \in Gifts |-> "absent"]
    /\ hasBalanceId = [g \in Gifts |-> FALSE]
    /\ recipient = [g \in Gifts |-> NoClaim]
    /\ late = [g \in Gifts |-> FALSE]
    /\ balance = [g \in Gifts |-> "none"]
    /\ paidBy = [g \in Gifts |-> NoClaim]
    /\ flying = {}
    /\ pushed = {}
    /\ creating = [r \in Creators |-> NoGift]
    /\ claimPc = [c \in Claims |-> "new"]
    /\ claimGift = [c \in Claims |-> NoGift]
    /\ found = [j \in Jobs |-> {}]
    /\ gone = [j \in Jobs |-> {}]

Gone(g) == balance[g] \in {"paid", "reclaimed"}

-----------------------------------------------------------------------------
(* createGift: the cap is read, then the row is inserted.                  *)

Pending == {g \in Gifts : status[g] \in {"CREATED", "FUNDED"}}

CreateCheck(r, g) ==
    /\ creating[r] = NoGift
    /\ status[g] = "absent"
    /\ Cardinality(Pending) < MaxPending
    /\ creating' = [creating EXCEPT ![r] = g]
    /\ UNCHANGED <<row, late, ledger, flying, pushed, claims, scans>>

\* The insert fails on the key's uniqueness when another request was faster.
CreateInsert(r) ==
    /\ creating[r] # NoGift
    /\ status' = [status EXCEPT ![creating[r]] = IF @ = "absent" THEN "CREATED" ELSE @]
    /\ creating' = [creating EXCEPT ![r] = NoGift]
    /\ UNCHANGED <<hasBalanceId, recipient, late, ledger, flying, pushed, claims, scans>>

-----------------------------------------------------------------------------
(* claimGift                                                               *)

Move(c, from, to) ==
    /\ claimPc[c] = from
    /\ claimPc' = [claimPc EXCEPT ![c] = to]
    /\ UNCHANGED claimGift

\* A claim of a gift past its expiry expires it, and is answered 410.
ClaimLate(c, g) ==
    /\ claimPc[c] = "new"
    /\ late[g]
    /\ status[g] # "absent"
    /\ status' = [status EXCEPT ![g] = IF @ \in {"CREATED", "FUNDED"} THEN "EXPIRED" ELSE @]
    /\ claimPc' = [claimPc EXCEPT ![c] = "done"]
    /\ UNCHANGED <<hasBalanceId, recipient, late, ledger, flying, pushed, creating, claimGift,
                   scans>>

\* The status, the expiry and the balance id that were read, once.
ClaimCheck(c, g) ==
    /\ claimPc[c] = "new"
    /\ status[g] = "FUNDED"
    /\ ~late[g]
    /\ hasBalanceId[g]
    /\ claimPc' = [claimPc EXCEPT ![c] = "checked"]
    /\ claimGift' = [claimGift EXCEPT ![c] = g]
    /\ UNCHANGED <<row, late, ledger, flying, pushed, creating, scans>>

Lockable(g) == status[g] = "FUNDED"

\* updateMany FUNDED -> CLAIMING; count = 0 is answered 409.
ClaimLock(c) ==
    LET g == claimGift[c] IN
    /\ claimPc[c] = "checked"
    /\ \/ /\ Lockable(g)
          /\ status' = [status EXCEPT ![g] = "CLAIMING"]
          /\ recipient' = [recipient EXCEPT ![g] = c]
          /\ claimPc' = [claimPc EXCEPT ![c] = "locked"]
       \/ /\ ~Lockable(g)
          /\ claimPc' = [claimPc EXCEPT ![c] = "done"]
          /\ UNCHANGED <<status, recipient>>
    /\ UNCHANGED <<hasBalanceId, late, ledger, flying, pushed, creating, claimGift, scans>>

\* claimAndPay: one ledger transaction claims the balance and pays the recipient.
ClaimSubmit(c) ==
    /\ Move(c, "locked", "submitted")
    /\ flying' = flying \cup {c}
    /\ UNCHANGED <<row, late, ledger, pushed, creating, scans>>

\* Mutant: an answer without a hash is taken for a success.
AnyAnswer(c) == TRUE

Applied(c) == paidBy[claimGift[c]] = c

ClaimPaid(c) ==
    /\ Move(c, "submitted", "paid")
    /\ Applied(c)
    /\ UNCHANGED <<row, late, ledger, flying, pushed, creating, scans>>

ClaimMark(c) ==
    /\ Move(c, "paid", "marked")
    /\ status' = [status EXCEPT ![claimGift[c]] = "CLAIMED"]
    /\ UNCHANGED <<hasBalanceId, recipient, late, ledger, flying, pushed, creating, scans>>

\* Outside the try: a push that fails never reverts a gift that was paid.
ClaimNotify(c) ==
    /\ Move(c, "marked", "done")
    /\ pushed' = pushed \cup {claimGift[c]}
    /\ UNCHANGED <<row, late, ledger, flying, creating, scans>>

\* updateMany CLAIMING -> FUNDED: another claim may try.
Revert(c) ==
    LET g == claimGift[c] IN
    IF status[g] = "CLAIMING"
    THEN /\ status' = [status EXCEPT ![g] = "FUNDED"]
         /\ recipient' = [recipient EXCEPT ![g] = NoClaim]
    ELSE UNCHANGED <<status, recipient>>

\* Anything thrown inside the try: the agent's account did not load, the
\* submission was rejected or timed out, or the row could not be marked.
ClaimFails(c) ==
    /\ claimPc[c] \in {"locked", "submitted", "paid"}
    /\ Revert(c)
    /\ claimPc' = [claimPc EXCEPT ![c] = "done"]
    /\ UNCHANGED <<hasBalanceId, late, ledger, flying, pushed, creating, claimGift, scans>>

\* The row was marked, but its update's answer was lost: the revert finds CLAIMED.
ClaimMarkUnanswered(c) ==
    /\ claimPc[c] = "marked"
    /\ Revert(c)
    /\ claimPc' = [claimPc EXCEPT ![c] = "done"]
    /\ UNCHANGED <<hasBalanceId, late, ledger, flying, pushed, creating, claimGift, scans>>

\* The instance dies, or a push fails.
ClaimCrash(c) ==
    /\ claimPc[c] \notin {"new", "done"}
    /\ claimPc' = [claimPc EXCEPT ![c] = "done"]
    /\ UNCHANGED <<row, late, ledger, flying, pushed, creating, claimGift, scans>>

-----------------------------------------------------------------------------
(* The ledger and the clock.                                               *)

\* The sender signs the funding transaction the app built from the new row.
Fund(g) ==
    /\ status[g] # "absent"
    /\ balance[g] = "none"
    /\ ~late[g]
    /\ balance' = [balance EXCEPT ![g] = "open"]
    /\ UNCHANGED <<row, late, paidBy, flying, pushed, creating, claims, scans>>

\* The claim agent may take the balance until the expiry.
PaymentApplied(c) ==
    LET g == claimGift[c] IN
    /\ c \in flying
    /\ balance[g] = "open"
    /\ ~late[g]
    /\ balance' = [balance EXCEPT ![g] = "paid"]
    /\ paidBy' = [paidBy EXCEPT ![g] = c]
    /\ flying' = flying \ {c}
    /\ UNCHANGED <<row, late, pushed, creating, claims, scans>>

PaymentDropped(c) ==
    /\ c \in flying
    /\ flying' = flying \ {c}
    /\ UNCHANGED <<row, late, ledger, pushed, creating, claims, scans>>

\* The sender may take it after the expiry.
Reclaim(g) ==
    /\ balance[g] = "open"
    /\ late[g]
    /\ balance' = [balance EXCEPT ![g] = "reclaimed"]
    /\ UNCHANGED <<row, late, paidBy, flying, pushed, creating, claims, scans>>

ExpiryPasses(g) ==
    /\ status[g] # "absent"
    /\ ~late[g]
    /\ late' = [late EXCEPT ![g] = TRUE]
    /\ UNCHANGED <<row, ledger, flying, pushed, creating, claims, scans>>

-----------------------------------------------------------------------------
(* The jobs.                                                               *)

\* A balance of the amount, funded by a transaction that carries the gift's memo.
Matched(g) == balance[g] = "open"

\* One pass over the ledger; limits, amounts that differ and errors leave gifts out.
FundScan(j) ==
    /\ found[j] = {}
    /\ \E seen \in SUBSET {g \in Gifts : status[g] = "CREATED" /\ Matched(g)} :
          /\ seen # {}
          /\ found' = [found EXCEPT ![j] = seen]
    /\ UNCHANGED <<row, late, ledger, flying, pushed, creating, claims, gone>>

Fundable(g) == status[g] = "CREATED"

\* updateMany CREATED -> FUNDED.
FundMark(j, g) ==
    /\ g \in found[j]
    /\ found' = [found EXCEPT ![j] = @ \ {g}]
    /\ IF Fundable(g)
       THEN /\ status' = [status EXCEPT ![g] = "FUNDED"]
            /\ hasBalanceId' = [hasBalanceId EXCEPT ![g] = TRUE]
       ELSE UNCHANGED <<status, hasBalanceId>>
    /\ UNCHANGED <<recipient, late, ledger, flying, pushed, creating, claims, gone>>

\* Mutant: an error of the ledger API is taken for "no such balance".
SeenGoneOnError(g) == status[g] = "EXPIRED" /\ hasBalanceId[g]

\* EXPIRED with a balance id, and the ledger answers 404.
SeenGone(g) == status[g] = "EXPIRED" /\ hasBalanceId[g] /\ Gone(g)

RefundScan(j, g) ==
    /\ SeenGone(g)
    /\ g \notin gone[j]
    /\ gone' = [gone EXCEPT ![j] = @ \cup {g}]
    /\ UNCHANGED <<row, late, ledger, flying, pushed, creating, claims, found>>

\* Mutant: the update looks for the status that funding left.
RefundFunded(g) == status' = [status EXCEPT ![g] = IF @ = "FUNDED" THEN "REFUNDED" ELSE @]

\* An update by id.
Refund(g) == status' = [status EXCEPT ![g] = "REFUNDED"]

RefundMark(j, g) ==
    /\ g \in gone[j]
    /\ gone' = [gone EXCEPT ![j] = @ \ {g}]
    /\ Refund(g)
    /\ UNCHANGED <<hasBalanceId, recipient, late, ledger, flying, pushed, creating, claims,
                   found>>

\* The instance running the job dies, or an update fails.
JobCrash(j) ==
    /\ found[j] # {} \/ gone[j] # {}
    /\ found' = [found EXCEPT ![j] = {}]
    /\ gone' = [gone EXCEPT ![j] = {}]
    /\ UNCHANGED <<row, late, ledger, flying, pushed, creating, claims>>

\* Mutant: CLAIMING gifts expire too.
ExpirableOpen == {g \in Gifts : status[g] \in {"CREATED", "FUNDED", "CLAIMING"} /\ late[g]}

Expirable == {g \in Gifts : status[g] \in {"CREATED", "FUNDED"} /\ late[g]}

ExpireGifts ==
    /\ Expirable # {}
    /\ status' = [g \in Gifts |-> IF g \in Expirable THEN "EXPIRED" ELSE status[g]]
    /\ UNCHANGED <<hasBalanceId, recipient, late, ledger, flying, pushed, creating, claims, scans>>

-----------------------------------------------------------------------------
ClaimNext(c) ==
    \/ \E g \in Gifts : ClaimLate(c, g) \/ ClaimCheck(c, g)
    \/ ClaimLock(c) \/ ClaimSubmit(c) \/ ClaimPaid(c) \/ ClaimMark(c) \/ ClaimNotify(c)
    \/ ClaimFails(c) \/ ClaimMarkUnanswered(c) \/ ClaimCrash(c)
    \/ PaymentApplied(c) \/ PaymentDropped(c)

JobNext(j) ==
    \/ FundScan(j) \/ JobCrash(j)
    \/ \E g \in Gifts : FundMark(j, g) \/ RefundScan(j, g) \/ RefundMark(j, g)

GiftNext(g) == Fund(g) \/ Reclaim(g) \/ ExpiryPasses(g)

Next ==
    \/ \E r \in Creators : CreateInsert(r) \/ \E g \in Gifts : CreateCheck(r, g)
    \/ \E c \in Claims : ClaimNext(c)
    \/ \E j \in Jobs : JobNext(j)
    \/ \E g \in Gifts : GiftNext(g)
    \/ ExpireGifts

Spec == Init /\ [][Next]_vars

(* The hourly job runs for ever, and of the runs of the reconciliation job   *)
(* that look at a gift not every one dies at the same point.                 *)
Fairness ==
    /\ WF_vars(ExpireGifts)
    /\ \A j \in Jobs, g \in Gifts :
          WF_vars(RefundScan(j, g)) /\ SF_vars(RefundMark(j, g))

FairSpec == Spec /\ Fairness
=============================================================================
