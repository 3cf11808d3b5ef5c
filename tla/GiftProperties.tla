--------------------------- MODULE GiftProperties ---------------------------
(***************************************************************************)
(* The correctness properties of gifts.                                    *)
(***************************************************************************)
EXTENDS GiftLifecycle

Holds(c) == claimPc[c] \in {"locked", "submitted", "paid"}

\* The lock of claimGift is exclusive: two claims never work on a gift at once,
\* and the gift names the claim that holds it.
LockIsExclusive ==
    \A c \in Claims :
        Holds(c) => status[claimGift[c]] = "CLAIMING" /\ recipient[claimGift[c]] = c

\* A gift marked CLAIMED was paid, and to the recipient the row names, although
\* the payment of an earlier claim may be applied while a later claim holds the lock.
ClaimedIsPaidToRecipient ==
    \A g \in Gifts : status[g] = "CLAIMED" => recipient[g] # NoClaim /\ paidBy[g] = recipient[g]

\* A gift that can be claimed, or was, is backed by a balance the backend knows.
ClaimableIsBacked ==
    \A g \in Gifts :
        status[g] \in {"FUNDED", "CLAIMING", "CLAIMED", "REFUNDED"} =>
            hasBalanceId[g] /\ balance[g] # "none"

\* A gift is closed as REFUNDED only when no money is left in escrow.
RefundedLeavesNothing ==
    \A g \in Gifts : status[g] = "REFUNDED" => Gone(g)

\* The sender is told of a claim only when the gift stays claimed.
PushedMeansClaimed == \A g \in pushed : status[g] = "CLAIMED"

\* CLAIMED and REFUNDED are final and EXPIRED only becomes REFUNDED, although
\* markClaimed and the refund update name the row by id only.
EndsAreFinal ==
    [][\A g \in Gifts :
          /\ status[g] = "CLAIMED" => status[g]' = "CLAIMED"
          /\ status[g] = "REFUNDED" => status[g]' = "REFUNDED"
          /\ status[g] = "EXPIRED" => status[g]' \in {"EXPIRED", "REFUNDED"}]_vars

\* An expired gift whose balance left the ledger is eventually closed.
ExpiredGoneIsClosed ==
    \A g \in Gifts : SeenGone(g) ~> status[g] = "REFUNDED"

-----------------------------------------------------------------------------
(* The inductive invariant behind the safety properties.                   *)

RowInv(g) ==
    /\ status[g] \in {"FUNDED", "CLAIMING", "CLAIMED", "REFUNDED"} => hasBalanceId[g]
    /\ status[g] = "absent" => balance[g] = "none"
    /\ hasBalanceId[g] => balance[g] # "none"
    /\ status[g] = "CLAIMED" => recipient[g] # NoClaim /\ paidBy[g] = recipient[g]
    /\ status[g] = "REFUNDED" => Gone(g)
    /\ paidBy[g] # NoClaim => balance[g] = "paid"

ClaimInv(c) ==
    LET g == claimGift[c] IN
    /\ claimPc[c] \notin {"new", "done"} => g \in Gifts
    /\ c \in flying => g \in Gifts
    /\ claimPc[c] = "checked" => status[g] # "absent"
    /\ Holds(c) => status[g] = "CLAIMING" /\ recipient[g] = c
    /\ claimPc[c] = "paid" => paidBy[g] = c
    /\ claimPc[c] = "marked" => status[g] = "CLAIMED"

ScanInv(j) ==
    /\ \A g \in found[j] : status[g] # "absent" /\ balance[g] # "none"
    /\ \A g \in gone[j] : status[g] \in {"EXPIRED", "REFUNDED"} /\ hasBalanceId[g] /\ Gone(g)

GiftInv ==
    /\ TypeOK
    /\ \A g \in Gifts : RowInv(g)
    /\ \A c \in Claims : ClaimInv(c)
    /\ \A j \in Jobs : ScanInv(j)
    /\ PushedMeansClaimed
=============================================================================
