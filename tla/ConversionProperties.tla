----------------------- MODULE ConversionProperties -----------------------
(***************************************************************************)
(* The correctness properties of conversions and the deposits made from    *)
(* them.                                                                   *)
(***************************************************************************)
EXTENDS ConversionLifecycle

\* CONFIRMED is never said of a conversion that did not happen, although every
\* write of the status names the row by id only.
ConfirmedMeansConverted ==
    \A c \in Conversions : status[c] = "CONFIRMED" => chain[c] = "landed"

\* "Nothing moved on chain" when the sweep closes a conversion: a request that
\* read the row before the sweep does not send the transaction of an EXPIRED row.
ExpiredNeverMoved ==
    \A c \in Conversions : status[c] = "EXPIRED" => chain[c] = "idle"

\* A deposit is sized by what arrived and never by the quote, although a second
\* submission may have failed the conversion since it was checked.
DepositSizedByArrival ==
    \A d \in Deposits :
        deposit[d] # "absent" => chain[source[d]] = "landed" /\ received[source[d]]

\* An amount that was read once stays known: a second submission whose effects
\* could not be read does not erase it.
ReceivedAmountIsKept ==
    [][\A c \in Conversions : received[c] => received'[c]]_vars

-----------------------------------------------------------------------------
(* What the repository says of conversions, and the code does not do.      *)

\* A conversion is consumed by one deposit: "the user is not offered the same
\* leftover balance twice".
OneDepositPerConversion ==
    \A c \in Conversions : Cardinality({d \in Deposits : source[d] = c}) <= 1

\* A conversion that landed is surfaced until its deposit is made.
LandedIsSurfaced ==
    \A c \in Conversions :
        chain[c] = "landed" ~> ListedAsPending(c) \/ depositIntent[c] # NoDeposit

-----------------------------------------------------------------------------
(* The inductive invariant behind the safety properties.                   *)

Submitting == {"signed", "sent", "landed", "read", "unread"}

RowInv(c) ==
    /\ status[c] = "absent" => ~late[c]
    /\ chain[c] # "idle" => status[c] \in {"SIGNED_XDR_RECEIVED", "CONFIRMED", "FAILED"}
    /\ status[c] = "CONFIRMED" => chain[c] = "landed"
    /\ received[c] => chain[c] = "landed"
    /\ hasXdr[c] => status[c] \notin {"absent", "CREATED"}

HandlerInv(r) ==
    LET c == reqConversion[r]
        d == reqDeposit[r]
    IN
    /\ reqPc[r] # "idle" => c \in Conversions
    /\ reqPc[r] = "building" => status[c] = "CREATED" /\ ~hasXdr[c] /\ ~late[c]
    /\ reqPc[r] \in {"checked", "failing"} => status[c] # "absent"
    /\ reqPc[r] = "checked" => hasXdr[c]
    /\ reqPc[r] \in Submitting =>
          hasXdr[c] /\ status[c] \in {"SIGNED_XDR_RECEIVED", "CONFIRMED", "FAILED"}
    /\ reqPc[r] \in {"landed", "read", "unread"} => chain[c] = "landed"
    /\ reqPc[r] \in {"consuming", "attaching", "attached"} =>
          d \in Deposits /\ chain[c] = "landed" /\ received[c]
    /\ reqPc[r] \in {"attaching", "attached"} => source[d] = c /\ deposit[d] # "absent"

\* The key's uniqueness gives a row one creator.
OneBuilder ==
    \A r, q \in Requests :
        /\ reqPc[r] = "building"
        /\ reqConversion[q] = reqConversion[r]
        /\ reqPc[q] \in {"building", "failing"}
        => r = q

DepositInv(d) ==
    deposit[d] # "absent" =>
        source[d] \in Conversions /\ chain[source[d]] = "landed" /\ received[source[d]]

ConversionInv ==
    /\ TypeOK
    /\ \A c \in Conversions : RowInv(c)
    /\ \A r \in Requests : HandlerInv(r)
    /\ OneBuilder
    /\ \A d \in Deposits : DepositInv(d)
=============================================================================
