----------------------------- MODULE RampOrders -----------------------------
(***************************************************************************)
(* Buying and selling through the two ramp partners: the on-ramp and       *)
(* off-ramp transactions of BlindPay, and the orders of Etherfuse.  The    *)
(* partner reports by webhooks, which come late, twice or out of order,    *)
(* and the app asks for a sync; both write the status by id, decide the    *)
(* push on the status they read first, and may be cut off in between.      *)
(***************************************************************************)
EXTENDS Naturals

CONSTANTS
    Orders,
    Askers,   \* the owner's calls: create, refresh, submit
    Reporters,  \* webhook deliveries and syncs
    MaxQuotes,  \* bound: quotes of one off-ramp
    NoOrder

ASSUME MaxQuotesAssumption == MaxQuotes \in Nat \ {0}
ASSUME NoOrderAssumption == NoOrder \notin Orders

Quotes == 1 .. MaxQuotes

VARIABLES
    kind,       \* which flow the order belongs to; fixed
    orderStatus,     \* OnrampTransaction, OfframpTransaction or EtherfuseOrder; "absent": no row
    quote,      \* blindpayQuoteId
    xdr,        \* the quote that the unsigned XDR of the row delegates; 0: no XDR
    ref,        \* which payin, payout or order of the partner the row names; 0: none
    offered,    \* quotes whose XDR the owner was handed
    partner,    \* per quote: the partner's status of what it made of it
    emitted,    \* statuses the partner sent webhooks with
    req,        \* per request: where it is, and what it read
    rep,        \* per reporter: where it is, and what it read
    notified,     \* notifications of the outbox: dedupe keys <<order, outcome>>
    untold,     \* history: outcomes written by a reporter that was cut off before the push
    paid        \* history: <<order, quote, signed quote>> of every payout made

row == <<kind, orderStatus, quote, xdr, ref, offered>>
rampVars == <<kind, orderStatus, quote, xdr, ref, offered, partner, emitted, req, rep, notified, untold, paid>>

Kind == {"payin", "payout", "etherfuse in", "etherfuse out"}
Ended == {"COMPLETED", "FAILED", "REFUNDED"}
Status == {"absent", "AWAITING_PAYMENT", "DELEGATION_NEEDED", "PENDING_SIGNATURE", "PROCESSING"} \cup Ended
PartnerStatus == {"none", "processing", "on_hold", "created", "funded", "completed", "finalized",
                  "failed", "refunded"}

NoRequest == [pc |-> "idle", order |-> NoOrder, quote |-> 0, signed |-> 0]
NoReport == [pc |-> "idle", order |-> NoOrder, read |-> "absent", ref |-> 0, next |-> "absent"]

RequestRow == [pc: {"idle", "insert", "refresh", "rewrite", "payout", "record"},
               order: Orders \cup {NoOrder}, quote: Quotes \cup {0}, signed: Quotes \cup {0}]
ReportRow == [pc: {"idle", "ask", "write", "tell"}, order: Orders \cup {NoOrder},
              read: Status, ref: Quotes \cup {0}, next: Status]

RampTypeOK ==
    /\ kind \in [Orders -> Kind]
    /\ orderStatus \in [Orders -> Status]
    /\ quote \in [Orders -> Quotes \cup {0}]
    /\ xdr \in [Orders -> Quotes \cup {0}]
    /\ ref \in [Orders -> Quotes \cup {0}]
    /\ offered \in [Orders -> SUBSET Quotes]
    /\ partner \in [Orders -> [Quotes -> PartnerStatus]]
    /\ emitted \in SUBSET (Orders \X Quotes \X PartnerStatus)
    /\ req \in [Askers -> RequestRow]
    /\ rep \in [Reporters -> ReportRow]
    /\ notified \in SUBSET (Orders \X {"COMPLETED", "FAILED"})
    /\ untold \in SUBSET (Orders \X {"COMPLETED", "FAILED"})
    /\ paid \in SUBSET (Orders \X Quotes \X Quotes)

RampInit ==
    /\ kind \in [Orders -> Kind]
    /\ orderStatus = [o \in Orders |-> "absent"]
    /\ quote = [o \in Orders |-> 0]
    /\ xdr = [o \in Orders |-> 0]
    /\ ref = [o \in Orders |-> 0]
    /\ offered = [o \in Orders |-> {}]
    /\ partner = [o \in Orders |-> [q \in Quotes |-> "none"]]
    /\ emitted = {}
    /\ req = [r \in Askers |-> NoRequest]
    /\ rep = [w \in Reporters |-> NoReport]
    /\ notified = {}
    /\ untold = {}
    /\ paid = {}

-----------------------------------------------------------------------------
(* The partner.                                                            *)

FirstStatus(k) == IF k \in {"payin", "payout"} THEN "processing" ELSE "created"

\* A partner's status ends; money that failed to arrive may be given back.
PartnerNext(k, s) ==
    CASE s \in {"processing", "on_hold"} ->
            {"completed", "failed", "on_hold"} \cup (IF k = "payin" THEN {"refunded"} ELSE {})
      [] s = "created" -> {"funded", "failed"}
      [] s = "funded" -> {"completed", "failed"}
      [] s = "completed" /\ k \in {"etherfuse in", "etherfuse out"} -> {"finalized"}
      [] s = "failed" /\ k # "payout" -> {"refunded"}
      [] OTHER -> {}

\* What the partner was asked to do begins, and its first webhook is on the way.
PartnerTakes(o, q) ==
    /\ partner' = [partner EXCEPT ![o][q] = FirstStatus(kind[o])]
    /\ emitted' = emitted \cup {<<o, q, FirstStatus(kind[o])>>}

PartnerMoves(o, q) ==
    \E s \in PartnerNext(kind[o], partner[o][q]) :
        /\ partner' = [partner EXCEPT ![o][q] = s]
        /\ emitted' = emitted \cup {<<o, q, s>>}
        /\ UNCHANGED <<row, req, rep, notified, untold, paid>>

-----------------------------------------------------------------------------
(* The owner's calls.                                                      *)

\* The partner is asked first: its webhooks may come before there is a row.  An
\* off-ramp of BlindPay only takes a quote and the XDR that delegates it.
OrderAsk(r, o) ==
    /\ req[r].pc = "idle" /\ orderStatus[o] = "absent"
    /\ \A p \in Askers : req[p].order # o
    /\ partner[o][1] = "none"
    /\ IF kind[o] = "payout" THEN UNCHANGED <<partner, emitted>> ELSE PartnerTakes(o, 1)
    /\ req' = [req EXCEPT ![r] = [pc |-> "insert", order |-> o, quote |-> 1, signed |-> 0]]
    /\ UNCHANGED <<row, rep, notified, untold, paid>>

\* What each of the four creations inserts: a status, and the quote of its XDR.
PayinRow == <<"AWAITING_PAYMENT", 0>>
PayoutRow == <<"DELEGATION_NEEDED", 1>>
OrderInRow == <<"PROCESSING", 0>>

\* Etherfuse may not have the burn transaction of an off-ramp yet.
OrderOutRow == {<<"PENDING_SIGNATURE", 1>>, <<"PROCESSING", 0>>}

Inserted(k) ==
    CASE k = "payin"         -> {PayinRow}
      [] k = "payout"        -> {PayoutRow}
      [] k = "etherfuse in"  -> {OrderInRow}
      [] k = "etherfuse out" -> OrderOutRow

OrderInsert(r) ==
    LET o == req[r].order IN
    /\ req[r].pc = "insert"
    /\ \E new \in Inserted(kind[o]) :
        /\ orderStatus' = [orderStatus EXCEPT ![o] = new[1]]
        /\ xdr' = [xdr EXCEPT ![o] = new[2]]
        /\ offered' = [offered EXCEPT ![o] = IF new[2] = 0 THEN {} ELSE {new[2]}]
    /\ quote' = [quote EXCEPT ![o] = 1]
    /\ ref' = [ref EXCEPT ![o] = IF kind[o] = "payout" THEN 0 ELSE 1]
    /\ req' = [req EXCEPT ![r] = NoRequest]
    /\ UNCHANGED <<kind, partner, emitted, rep, notified, untold, paid>>

\* A fresh quote and a fresh XDR for an off-ramp that is not delegated yet.
RefreshRead(r, o) ==
    /\ req[r].pc = "idle"
    /\ kind[o] = "payout" /\ orderStatus[o] = "DELEGATION_NEEDED"
    /\ \E q \in Quotes \ offered[o] :
        /\ \A p \in Askers : ~ (req[p].order = o /\ req[p].pc = "refresh" /\ req[p].quote = q)
        /\ req' = [req EXCEPT ![r] = [pc |-> "refresh", order |-> o, quote |-> q, signed |-> 0]]
    /\ UNCHANGED <<row, partner, emitted, rep, notified, untold, paid>>

\* Mutant: the refreshed row is put back to the status it was read with.
RefreshReopens(o) == "DELEGATION_NEEDED"

\* The status is not among the columns that a refresh writes.
RefreshStatus(o) == orderStatus[o]

\* Mutant: only the XDR is written.
RefreshXdrOnly(o, q) == quote[o]

RefreshQuote(o, q) == q

RefreshWrite(r) ==
    LET o == req[r].order  q == req[r].quote IN
    /\ req[r].pc = "refresh"
    /\ quote' = [quote EXCEPT ![o] = RefreshQuote(o, q)]
    /\ xdr' = [xdr EXCEPT ![o] = q]
    /\ orderStatus' = [orderStatus EXCEPT ![o] = RefreshStatus(o)]
    /\ offered' = [offered EXCEPT ![o] = @ \cup {q}]
    /\ req' = [req EXCEPT ![r] = NoRequest]
    /\ UNCHANGED <<kind, ref, partner, emitted, rep, notified, untold, paid>>

\* Etherfuse's refresh asks for the burn transaction, whatever the row's status is...
RefreshOrderRead(r, o) ==
    /\ req[r].pc = "idle"
    /\ kind[o] = "etherfuse out" /\ orderStatus[o] # "absent"
    /\ req' = [req EXCEPT ![r] = [pc |-> "rewrite", order |-> o, quote |-> 1, signed |-> 0]]
    /\ UNCHANGED <<row, partner, emitted, rep, notified, untold, paid>>

\* ...and writes it with PENDING_SIGNATURE over the status.
RefreshOrderWrite(r) ==
    LET o == req[r].order IN
    /\ req[r].pc = "rewrite"
    /\ xdr' = [xdr EXCEPT ![o] = 1]
    /\ orderStatus' = [orderStatus EXCEPT ![o] = "PENDING_SIGNATURE"]
    /\ offered' = [offered EXCEPT ![o] = {1}]
    /\ req' = [req EXCEPT ![r] = NoRequest]
    /\ UNCHANGED <<kind, quote, ref, partner, emitted, rep, notified, untold, paid>>

\* submitOfframp reads the row once.  The owner signed one of the XDRs it was
\* handed; the fee bump accepts the one the row had when it was read.
SubmitRead(r, o) ==
    /\ req[r].pc = "idle"
    /\ kind[o] = "payout" /\ orderStatus[o] = "DELEGATION_NEEDED" /\ xdr[o] # 0
    /\ \E signed \in offered[o] :
        /\ signed = xdr[o]
        /\ req' = [req EXCEPT ![r] = [pc |-> "payout", order |-> o,
                                      quote |-> quote[o], signed |-> signed]]
    /\ UNCHANGED <<row, partner, emitted, rep, notified, untold, paid>>

\* BlindPay makes one payout of a quote.  Its answer may be lost.
SubmitPayout(r) ==
    LET o == req[r].order  q == req[r].quote IN
    /\ req[r].pc = "payout"
    /\ partner[o][q] = "none"
    /\ PartnerTakes(o, q)
    /\ paid' = paid \cup {<<o, q, req[r].signed>>}
    /\ \E heard \in BOOLEAN :
        req' = [req EXCEPT ![r] = IF heard THEN [@ EXCEPT !.pc = "record"] ELSE NoRequest]
    /\ UNCHANGED <<row, rep, notified, untold>>

\* By id: the payout of the last writer is the one the row names.
SubmitRecord(r) ==
    LET o == req[r].order IN
    /\ req[r].pc = "record"
    /\ ref' = [ref EXCEPT ![o] = req[r].quote]
    /\ orderStatus' = [orderStatus EXCEPT ![o] = "PROCESSING"]
    /\ req' = [req EXCEPT ![r] = NoRequest]
    /\ UNCHANGED <<kind, quote, xdr, offered, partner, emitted, rep, notified, untold, paid>>

\* The app sends an Etherfuse burn to the network itself; the row only notes it.
SubmitOrderRead(r, o) ==
    /\ req[r].pc = "idle"
    /\ kind[o] = "etherfuse out" /\ orderStatus[o] = "PENDING_SIGNATURE"
    /\ req' = [req EXCEPT ![r] = [pc |-> "record", order |-> o, quote |-> 1, signed |-> 1]]
    /\ UNCHANGED <<row, partner, emitted, rep, notified, untold, paid>>

\* The partner refuses, the network fails or the instance dies.
RequestFails(r) ==
    /\ req[r].pc # "idle"
    /\ req' = [req EXCEPT ![r] = NoRequest]
    /\ UNCHANGED <<row, partner, emitted, rep, notified, untold, paid>>

-----------------------------------------------------------------------------
(* Reports: webhooks and syncs.                                            *)

\* mapPayinStatus, mapPayoutStatus and Etherfuse's mapOrderStatus.
HookStatus(k, s) ==
    CASE s = "completed" -> "COMPLETED"
      [] s = "failed" -> "FAILED"
      [] s = "refunded" /\ k # "payout" -> "REFUNDED"
      [] OTHER -> "PROCESSING"

\* Etherfuse's sync maps by a table of its own, which knows more words.
SyncStatus(k, s) ==
    IF k \in {"etherfuse in", "etherfuse out"} /\ s = "finalized" THEN "COMPLETED" ELSE HookStatus(k, s)

\* The signature of a webhook shows that the partner sent it: once, or again.
Signed(o, q, s) == <<o, q, s>> \in emitted

\* The row is found by the partner's id; unknown ids are dropped.
Webhook(w, o, q, s) ==
    /\ rep[w].pc = "idle"
    /\ Signed(o, q, s) /\ ref[o] = q
    /\ rep' = [rep EXCEPT ![w] = [pc |-> "write", order |-> o, read |-> orderStatus[o], ref |-> q,
                                  next |-> HookStatus(kind[o], s)]]
    /\ UNCHANGED <<row, partner, emitted, req, notified, untold, paid>>

SyncRead(w, o) ==
    /\ rep[w].pc = "idle"
    /\ ref[o] # 0
    /\ rep' = [rep EXCEPT ![w] = [pc |-> "ask", order |-> o, read |-> orderStatus[o], ref |-> ref[o],
                                  next |-> "absent"]]
    /\ UNCHANGED <<row, partner, emitted, req, notified, untold, paid>>

\* Nothing is written when the status is the one that was read.
SyncAsk(w) ==
    LET o == rep[w].order  next == SyncStatus(kind[o], partner[o][rep[w].ref]) IN
    /\ rep[w].pc = "ask"
    /\ rep' = [rep EXCEPT ![w] =
                IF next = @.read THEN NoReport ELSE [@ EXCEPT !.pc = "write", !.next = next]]
    /\ UNCHANGED <<row, partner, emitted, req, notified, untold, paid>>

\* FAILED and REFUNDED are one outcome to the owner.
Outcome(s) == CASE s = "COMPLETED" -> {"COMPLETED"} [] s \in {"FAILED", "REFUNDED"} -> {"FAILED"}
                [] OTHER -> {}

\* Mutant: an order that had ended is not told of again.
TellsOnce(w) == {x \in Outcome(rep[w].next) : rep[w].read \notin Ended}

\* notifyRampTransition, notifyOrderTransition: only a change of the status it read.
Tells(w) == {x \in Outcome(rep[w].next) : rep[w].next # rep[w].read}

ReportWrite(w) ==
    /\ rep[w].pc = "write"
    /\ orderStatus' = [orderStatus EXCEPT ![rep[w].order] = rep[w].next]
    /\ rep' = [rep EXCEPT ![w] = IF Tells(w) = {} THEN NoReport ELSE [@ EXCEPT !.pc = "tell"]]
    /\ UNCHANGED <<kind, quote, xdr, ref, offered, partner, emitted, req, notified, untold, paid>>

\* The dedupe key names the order and the outcome.
ReportTell(w) ==
    /\ rep[w].pc = "tell"
    /\ notified' = notified \cup ({rep[w].order} \X Outcome(rep[w].next))
    /\ rep' = [rep EXCEPT ![w] = NoReport]
    /\ UNCHANGED <<row, partner, emitted, req, untold, paid>>

\* The instance dies, the partner does not answer, or the outbox cannot be written.
ReportFails(w) ==
    /\ rep[w].pc # "idle"
    /\ untold' = IF rep[w].pc = "tell" THEN untold \cup ({rep[w].order} \X Outcome(rep[w].next))
                 ELSE untold
    /\ rep' = [rep EXCEPT ![w] = NoReport]
    /\ UNCHANGED <<row, partner, emitted, req, notified, paid>>

-----------------------------------------------------------------------------
Request(r) ==
    \/ \E o \in Orders :
        OrderAsk(r, o) \/ RefreshRead(r, o) \/ RefreshOrderRead(r, o) \/ SubmitRead(r, o)
        \/ SubmitOrderRead(r, o)
    \/ OrderInsert(r) \/ RefreshWrite(r) \/ RefreshOrderWrite(r) \/ SubmitPayout(r)
    \/ SubmitRecord(r) \/ RequestFails(r)

Report(w) ==
    \/ \E o \in Orders, q \in Quotes, s \in PartnerStatus : Webhook(w, o, q, s)
    \/ \E o \in Orders : SyncRead(w, o)
    \/ SyncAsk(w) \/ ReportWrite(w) \/ ReportTell(w) \/ ReportFails(w)

RampNext ==
    \/ \E o \in Orders, q \in Quotes : PartnerMoves(o, q)
    \/ \E r \in Askers : Request(r)
    \/ \E w \in Reporters : Report(w)

RampSpec == RampInit /\ [][RampNext]_rampVars

-----------------------------------------------------------------------------
(* Properties *)

\* A payout is made of the quote whose delegation its owner signed, however
\* refreshes and submissions of the order interleave.
PayoutIsOfSignedQuote == \A p \in paid : p[2] = p[3]

\* An off-ramp that names its payout is not offered for another signature: a
\* second payout can only come of a submission that was already on its way.
RecordedPayoutClosesOrder ==
    \A o \in Orders :
        kind[o] = "payout" /\ ref[o] # 0 => orderStatus[o] # "DELEGATION_NEEDED"

Telling(o) == {x \in {"COMPLETED", "FAILED"} :
                \E w \in Reporters : rep[w].pc = "tell" /\ rep[w].order = o /\ x \in Outcome(rep[w].next)}

\* An order that shows its end has had its push, is about to have it, or was
\* ended by a report that was cut off between the status and the push.  Two
\* reports of one end both see it come, and one push is made of them.
EndIsTold ==
    \A o \in Orders : \A x \in Outcome(orderStatus[o]) :
        <<o, x>> \in notified \cup untold \/ x \in Telling(o)
=============================================================================
