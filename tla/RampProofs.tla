----------------------------- MODULE RampProofs -----------------------------
(***************************************************************************)
(* What the backend believes of the partners that move fiat money, and of  *)
(* an account that is about to be deleted, for any number of orders,       *)
(* customers, requests and reports.                                        *)
(***************************************************************************)
EXTENDS RampOrders, CustomerKyc, DeletionEligibility, RfiAnswer, TLAPS

-----------------------------------------------------------------------------
(* Orders of the ramps.                                                    *)

USE MaxQuotesAssumption, NoOrderAssumption

-----------------------------------------------------------------------------
\* The push of an end is out, on its way, or was cut off.
Told(o, x) == <<o, x>> \in notified \cup untold \/ x \in Telling(o)

\* The row of an order: what a payout's XDR delegates is the quote beside it, and a
\* row that names its payout waits for no signature.
OrderInv(o) ==
    /\ ref[o] # 0 => orderStatus[o] # "absent"
    /\ kind[o] = "payout" => /\ xdr[o] # 0 => xdr[o] = quote[o]
                             /\ ref[o] # 0 => orderStatus[o] # "DELEGATION_NEEDED"
    /\ \A x \in Outcome(orderStatus[o]) : Told(o, x)

\* What a request may still rely on: of which kind its order is, and that the row is
\* not there, if the request is to insert it, or there to stay.
RequestInv(r) ==
    LET o == req[r].order  pc == req[r].pc IN
    /\ pc # "idle" => o \in Orders
    /\ pc = "insert" => orderStatus[o] = "absent"
    /\ pc \in {"refresh", "rewrite", "payout", "record"} => orderStatus[o] # "absent"
    /\ pc \in {"refresh", "payout"} => kind[o] = "payout" /\ req[r].quote \in Quotes
    /\ pc = "rewrite" => kind[o] = "etherfuse out"
    /\ pc = "payout" => req[r].quote = req[r].signed

\* One request at most is to insert an order.
OneInserter ==
    \A r, p \in Askers :
        req[r].pc = "insert" /\ req[p].pc = "insert" /\ req[r].order = req[p].order => r = p

\* What a report may still rely on: an end that it found was told.
ReportInv(w) ==
    LET o == rep[w].order IN
    /\ rep[w].pc # "idle" => o \in Orders /\ orderStatus[o] # "absent"
    /\ rep[w].pc \in {"write", "tell"} => rep[w].next \in Ended \cup {"PROCESSING"}
    /\ rep[w].pc \in {"ask", "write"} => \A x \in Outcome(rep[w].read) : Told(o, x)

\* The inductive invariant of the orders.
RampInv ==
    /\ RampTypeOK /\ OneInserter /\ PayoutIsOfSignedQuote
    /\ \A o \in Orders : OrderInv(o)
    /\ \A r \in Askers : RequestInv(r)
    /\ \A w \in Reporters : ReportInv(w)

-----------------------------------------------------------------------------
\* The end that a status stands for.
LEMMA OutcomeIs ==
    \A s : Outcome(s) = IF s = "COMPLETED" THEN {"COMPLETED"}
                        ELSE IF s \in {"FAILED", "REFUNDED"} THEN {"FAILED"} ELSE {}
BY DEF Outcome

\* A request and a report that have ended are rows.
LEMMA IdleRows == NoRequest \in RequestRow /\ NoReport \in ReportRow
BY DEF NoRequest, NoReport, RequestRow, ReportRow, Status, Ended, Quotes

\* What the partner does changes no row.
LEMMA PartnerKeeps ==
    ASSUME RampInv, NEW o \in Orders, NEW q \in Quotes, PartnerMoves(o, q)
    PROVE  RampInv'
<1>1. PICK s \in PartnerNext(kind[o], partner[o][q]) :
          /\ partner' = [partner EXCEPT ![o][q] = s]
          /\ emitted' = emitted \cup {<<o, q, s>>}
          /\ UNCHANGED <<row, req, rep, notified, untold, paid>>
  BY DEF PartnerMoves
<1>2. s \in PartnerStatus
  BY DEF PartnerNext, PartnerStatus
<1>3. RampTypeOK'
  BY <1>1, <1>2 DEF RampInv, RampTypeOK, row
<1>4. ASSUME NEW d \in Orders PROVE OrderInv(d)'
  BY <1>1 DEF RampInv, OrderInv, row, Told, Telling
<1>5. ASSUME NEW r \in Askers PROVE RequestInv(r)'
  BY <1>1 DEF RampInv, RequestInv, row
<1>6. ASSUME NEW w \in Reporters PROVE ReportInv(w)'
  BY <1>1 DEF RampInv, ReportInv, row, Told, Telling
<1> QED
  BY <1>1, <1>3, <1>4, <1>5, <1>6 DEF RampInv, OneInserter, PayoutIsOfSignedQuote

\* A step of a request that leaves the rows as they are.
LEMMA ReadKeeps ==
    ASSUME RampInv, NEW r \in Askers,
           UNCHANGED <<row, rep, notified, untold, paid>>,
           partner' \in [Orders -> [Quotes -> PartnerStatus]],
           emitted' \in SUBSET (Orders \X Quotes \X PartnerStatus),
           NEW new \in RequestRow, req' = [req EXCEPT ![r] = new],
           RequestInv(r)',
           new.pc = "insert" => \A p \in Askers : req[p].order # new.order
    PROVE  RampInv'
<1> USE DEF RampInv
<1>1. RampTypeOK'
  BY DEF RampTypeOK, row
<1>2. OneInserter'
  BY DEF OneInserter, RampTypeOK
<1>3. ASSUME NEW p \in Askers PROVE RequestInv(p)'
  BY DEF RequestInv, RampTypeOK, row
<1>4. ASSUME NEW w \in Reporters PROVE ReportInv(w)'
  BY DEF ReportInv, row, Told, Telling
<1>5. ASSUME NEW o \in Orders PROVE OrderInv(o)'
  BY DEF OrderInv, row, Told, Telling
<1> QED
  BY <1>1, <1>2, <1>3, <1>4, <1>5 DEF PayoutIsOfSignedQuote

\* The last step of a request: it writes the row of its order, which no other request
\* is to insert.
LEMMA WriteKeeps ==
    ASSUME RampInv, NEW r \in Askers, NEW o \in Orders, NEW s \in Status \ {"absent"},
           req' = [req EXCEPT ![r] = NoRequest],
           \A p \in Askers \ {r} : req[p].pc = "insert" => req[p].order # o,
           orderStatus' = [orderStatus EXCEPT ![o] = s],
           quote' \in [Orders -> Quotes \cup {0}], xdr' \in [Orders -> Quotes \cup {0}],
           ref' \in [Orders -> Quotes \cup {0}], offered' \in [Orders -> SUBSET Quotes],
           \A d \in Orders \ {o} : quote'[d] = quote[d] /\ xdr'[d] = xdr[d] /\ ref'[d] = ref[d],
           kind[o] = "payout" => /\ xdr'[o] # 0 => xdr'[o] = quote'[o]
                                 /\ ref'[o] # 0 => s # "DELEGATION_NEEDED",
           \A x \in Outcome(s) : Told(o, x),
           UNCHANGED <<kind, partner, emitted, rep, notified, untold, paid>>
    PROVE  RampInv'
<1> USE DEF RampInv
<1>1. RampTypeOK'
  BY IdleRows DEF RampTypeOK
<1>2. OneInserter'
  BY DEF OneInserter, RampTypeOK, NoRequest
<1>3. \A d \in Orders : orderStatus'[d] = IF d = o THEN s ELSE orderStatus[d]
  BY DEF RampTypeOK
<1>4. ASSUME NEW p \in Askers PROVE RequestInv(p)'
  BY <1>3 DEF RequestInv, RampTypeOK, NoRequest
<1>5. \A d, x : Told(d, x)' = Told(d, x)
  BY DEF Told, Telling
<1>6. ASSUME NEW w \in Reporters PROVE ReportInv(w)'
  BY <1>3, <1>5 DEF ReportInv
<1>7. ASSUME NEW d \in Orders PROVE OrderInv(d)'
  BY <1>3, <1>5 DEF OrderInv
<1> QED
  BY <1>1, <1>2, <1>4, <1>6, <1>7 DEF PayoutIsOfSignedQuote

\* Where a request's new state is read off.
LEMMA RequestBecomes ==
    ASSUME RampTypeOK, NEW r \in Askers, NEW new, req' = [req EXCEPT ![r] = new]
    PROVE  req'[r] = new /\ \A p \in Askers \ {r} : req'[p] = req[p]
BY DEF RampTypeOK

\* A request of the owner, up to the point where it writes the row.
LEMMA RequestReads ==
    ASSUME RampInv, NEW r \in Askers, NEW d \in Orders,
           OrderAsk(r, d) \/ RefreshRead(r, d) \/ RefreshOrderRead(r, d) \/ SubmitRead(r, d)
               \/ SubmitOrderRead(r, d) \/ RequestFails(r)
    PROVE  RampInv'
<1>1. RampTypeOK /\ kind[d] \in Kind /\ 1 \in Quotes /\ quote[d] \in Quotes \cup {0}
      /\ xdr[d] \in Quotes \cup {0} /\ OrderInv(d)
      /\ partner \in [Orders -> [Quotes -> PartnerStatus]]
      /\ emitted \in SUBSET (Orders \X Quotes \X PartnerStatus)
  BY DEF RampInv, RampTypeOK, Quotes
<1>2. CASE OrderAsk(r, d)
  <2> DEFINE new == [pc |-> "insert", order |-> d, quote |-> 1, signed |-> 0]
  <2>1. new \in RequestRow
    BY <1>1 DEF RequestRow
  <2>2. req' = [req EXCEPT ![r] = new] /\ UNCHANGED <<row, rep, notified, untold, paid>>
        /\ (\A p \in Askers : req[p].order # d) /\ orderStatus[d] = "absent"
    BY <1>2 DEF OrderAsk
  <2>3. partner' \in [Orders -> [Quotes -> PartnerStatus]]
        /\ emitted' \in SUBSET (Orders \X Quotes \X PartnerStatus)
    <3>1. CASE kind[d] = "payout"
      BY <1>1, <1>2, <3>1 DEF OrderAsk
    <3>2. CASE kind[d] # "payout"
      <4>1. FirstStatus(kind[d]) \in PartnerStatus
        BY DEF FirstStatus, PartnerStatus
      <4>2. partner' = [partner EXCEPT ![d][1] = FirstStatus(kind[d])]
            /\ emitted' = emitted \cup {<<d, 1, FirstStatus(kind[d])>>}
        BY <1>2, <3>2 DEF OrderAsk, PartnerTakes
      <4> QED
        BY <1>1, <4>1, <4>2
    <3> QED
      BY <3>1, <3>2
  <2>4. RequestInv(r)'
    <3>1. new.pc = "insert" /\ new.order = d
      OBVIOUS
    <3> HIDE DEF new
    <3>2. req'[r] = new
      BY <1>1, <2>2, RequestBecomes
    <3>3. kind' = kind /\ orderStatus' = orderStatus
      BY <2>2 DEF row
    <3> QED
      BY <2>2, <3>1, <3>2, <3>3 DEF RequestInv
  <2> QED
    BY <2>1, <2>2, <2>3, <2>4, ReadKeeps
<1>3. CASE RefreshRead(r, d)
  <2>1. PICK k \in Quotes \ offered[d] :
            req' = [req EXCEPT ![r] = [pc |-> "refresh", order |-> d, quote |-> k, signed |-> 0]]
    BY <1>3 DEF RefreshRead
  <2> DEFINE new == [pc |-> "refresh", order |-> d, quote |-> k, signed |-> 0]
  <2>2. new \in RequestRow
    BY DEF RequestRow
  <2>3. UNCHANGED <<row, partner, emitted, rep, notified, untold, paid>>
        /\ kind[d] = "payout" /\ orderStatus[d] = "DELEGATION_NEEDED"
    BY <1>3 DEF RefreshRead
  <2>4. RequestInv(r)'
    <3>1. req'[r] = new
      BY <1>1, <2>1, RequestBecomes
    <3> QED
      BY <2>3, <3>1 DEF RequestInv, row
  <2> QED
    BY <1>1, <2>1, <2>2, <2>3, <2>4, ReadKeeps
<1>4. CASE RefreshOrderRead(r, d)
  <2> DEFINE new == [pc |-> "rewrite", order |-> d, quote |-> 1, signed |-> 0]
  <2>1. new \in RequestRow
    BY <1>1 DEF RequestRow
  <2>2. req' = [req EXCEPT ![r] = new]
        /\ UNCHANGED <<row, partner, emitted, rep, notified, untold, paid>>
        /\ kind[d] = "etherfuse out" /\ orderStatus[d] # "absent"
    BY <1>4 DEF RefreshOrderRead
  <2>3. RequestInv(r)'
    <3>1. new.pc = "rewrite" /\ new.order = d
      OBVIOUS
    <3> HIDE DEF new
    <3>2. req'[r] = new
      BY <1>1, <2>2, RequestBecomes
    <3>3. kind' = kind /\ orderStatus' = orderStatus
      BY <2>2 DEF row
    <3> QED
      BY <2>2, <3>1, <3>2, <3>3 DEF RequestInv
  <2> QED
    BY <1>1, <2>1, <2>2, <2>3, ReadKeeps
<1>5. CASE SubmitRead(r, d)
  <2> DEFINE new == [pc |-> "payout", order |-> d, quote |-> quote[d], signed |-> xdr[d]]
  <2>1. new \in RequestRow
    BY <1>1 DEF RequestRow
  <2>2. req' = [req EXCEPT ![r] = new]
        /\ UNCHANGED <<row, partner, emitted, rep, notified, untold, paid>>
        /\ kind[d] = "payout" /\ orderStatus[d] = "DELEGATION_NEEDED" /\ xdr[d] # 0
    BY <1>5 DEF SubmitRead
  <2>3. quote[d] = xdr[d] /\ quote[d] \in Quotes
    BY <1>1, <2>2 DEF OrderInv
  <2>4. RequestInv(r)'
    <3>1. new.pc = "payout" /\ new.order = d /\ new.quote = quote[d] /\ new.signed = quote[d]
      BY <2>3
    <3> HIDE DEF new
    <3>2. req'[r] = new
      BY <1>1, <2>2, RequestBecomes
    <3>3. kind' = kind /\ orderStatus' = orderStatus
      BY <2>2 DEF row
    <3> QED
      BY <2>2, <2>3, <3>1, <3>2, <3>3 DEF RequestInv
  <2> QED
    BY <1>1, <2>1, <2>2, <2>4, ReadKeeps
<1>6. CASE SubmitOrderRead(r, d)
  <2> DEFINE new == [pc |-> "record", order |-> d, quote |-> 1, signed |-> 1]
  <2>1. new \in RequestRow
    BY <1>1 DEF RequestRow
  <2>2. req' = [req EXCEPT ![r] = new]
        /\ UNCHANGED <<row, partner, emitted, rep, notified, untold, paid>>
        /\ kind[d] = "etherfuse out" /\ orderStatus[d] = "PENDING_SIGNATURE"
    BY <1>6 DEF SubmitOrderRead
  <2>3. RequestInv(r)'
    <3>1. new.pc = "record" /\ new.order = d
      OBVIOUS
    <3> HIDE DEF new
    <3>2. req'[r] = new
      BY <1>1, <2>2, RequestBecomes
    <3>3. kind' = kind /\ orderStatus' = orderStatus
      BY <2>2 DEF row
    <3> QED
      BY <2>2, <3>1, <3>2, <3>3 DEF RequestInv
  <2> QED
    BY <1>1, <2>1, <2>2, <2>3, ReadKeeps
<1>7. CASE RequestFails(r)
  <2>1. req' = [req EXCEPT ![r] = NoRequest]
        /\ UNCHANGED <<row, partner, emitted, rep, notified, untold, paid>>
    BY <1>7 DEF RequestFails
  <2>2. RequestInv(r)'
    <3>1. req'[r] = NoRequest
      BY <1>1, <2>1, RequestBecomes
    <3> QED
      BY <3>1 DEF RequestInv, NoRequest
  <2>3. NoRequest.pc # "insert"
    BY DEF NoRequest
  <2> QED
    BY <1>1, <2>1, <2>2, <2>3, ReadKeeps, IdleRows
<1> QED
  BY <1>2, <1>3, <1>4, <1>5, <1>6, <1>7

\* The payout is asked for, of the quote that was signed.
LEMMA PayoutKeeps ==
    ASSUME RampInv, NEW r \in Askers, SubmitPayout(r)
    PROVE  RampInv'
<1> DEFINE o == req[r].order
           q == req[r].quote
<1>1. RampTypeOK /\ req[r] \in RequestRow /\ RequestInv(r) /\ req[r].pc = "payout"
  BY DEF RampInv, RampTypeOK, SubmitPayout
<1>2. o \in Orders /\ kind[o] = "payout" /\ q \in Quotes /\ q = req[r].signed
      /\ orderStatus[o] # "absent"
  BY <1>1 DEF RequestInv
<1>3. /\ partner' = [partner EXCEPT ![o][q] = FirstStatus(kind[o])]
      /\ emitted' = emitted \cup {<<o, q, FirstStatus(kind[o])>>}
      /\ paid' = paid \cup {<<o, q, q>>}
      /\ UNCHANGED <<row, rep, notified, untold>>
  BY <1>2 DEF SubmitPayout, PartnerTakes
<1>4. FirstStatus(kind[o]) \in PartnerStatus
  BY DEF FirstStatus, PartnerStatus
<1>5. PICK new \in {[req[r] EXCEPT !.pc = "record"], NoRequest} : req' = [req EXCEPT ![r] = new]
  <2>1. PICK heard \in BOOLEAN :
            req' = [req EXCEPT ![r] = IF heard THEN [req[r] EXCEPT !.pc = "record"] ELSE NoRequest]
    BY <1>1 DEF SubmitPayout, RampTypeOK
  <2>2. CASE heard
    BY <2>1, <2>2
  <2>3. CASE ~ heard
    BY <2>1, <2>3
  <2> QED
    BY <2>2, <2>3
<1>6. new \in RequestRow
  BY <1>1, IdleRows DEF RequestRow
<1>7. new.pc \in {"record", "idle"} /\ (new.pc = "record" => new.order = o)
  BY <1>1 DEF RequestRow, NoRequest
<1>8. req'[r] = new /\ \A p \in Askers \ {r} : req'[p] = req[p]
  BY <1>1, <1>5, RequestBecomes
<1>9. RampTypeOK'
  <2>1. partner' \in [Orders -> [Quotes -> PartnerStatus]]
    BY <1>1, <1>2, <1>3, <1>4 DEF RampTypeOK
  <2>2. emitted' \in SUBSET (Orders \X Quotes \X PartnerStatus)
    BY <1>1, <1>2, <1>3, <1>4 DEF RampTypeOK
  <2>3. req' \in [Askers -> RequestRow]
    BY <1>1, <1>5, <1>6 DEF RampTypeOK
  <2>4. paid' \in SUBSET (Orders \X Quotes \X Quotes)
    BY <1>1, <1>2, <1>3 DEF RampTypeOK
  <2> QED
    BY <1>1, <1>3, <2>1, <2>2, <2>3, <2>4 DEF RampTypeOK, row
<1>10. OneInserter'
  BY <1>7, <1>8 DEF OneInserter, RampInv
<1>11. PayoutIsOfSignedQuote'
  BY <1>3 DEF RampInv, PayoutIsOfSignedQuote
<1>12. ASSUME NEW p \in Askers PROVE RequestInv(p)'
  <2>1. CASE p = r
    BY <1>2, <1>3, <1>7, <1>8, <2>1 DEF RequestInv, row
  <2>2. CASE p # r
    <3>1. RequestInv(p) /\ req'[p] = req[p] /\ kind' = kind /\ orderStatus' = orderStatus
      BY <1>3, <1>8, <2>2 DEF RampInv, row
    <3> QED
      BY <3>1 DEF RequestInv
  <2> QED
    BY <2>1, <2>2
<1>13. ASSUME NEW w \in Reporters PROVE ReportInv(w)'
  BY <1>3 DEF RampInv, ReportInv, row, Told, Telling
<1>14. ASSUME NEW d \in Orders PROVE OrderInv(d)'
  BY <1>3 DEF RampInv, OrderInv, row, Told, Telling
<1> QED
  BY <1>9, <1>10, <1>11, <1>12, <1>13, <1>14 DEF RampInv

\* A request writes the row of its order.
LEMMA RequestWrites ==
    ASSUME RampInv, NEW r \in Askers,
           OrderInsert(r) \/ RefreshWrite(r) \/ RefreshOrderWrite(r) \/ SubmitRecord(r)
    PROVE  RampInv'
<1> DEFINE o == req[r].order
           q == req[r].quote
<1>1. RampTypeOK /\ req[r] \in RequestRow /\ RequestInv(r) /\ OneInserter
      /\ req[r].pc \in {"insert", "refresh", "rewrite", "record"} /\ 1 \in Quotes
      /\ \A p \in Askers : RequestInv(p)
  BY DEF RampInv, RampTypeOK, OrderInsert, RefreshWrite, RefreshOrderWrite, SubmitRecord, Quotes
<1>2. o \in Orders
  BY <1>1 DEF RequestInv
<1>3. \A p \in Askers \ {r} : req[p].pc = "insert" => req[p].order # o
  <2>1. CASE req[r].pc = "insert"
    BY <1>1, <2>1 DEF OneInserter
  <2>2. CASE req[r].pc # "insert"
    BY <1>1, <2>2 DEF RequestInv
  <2> QED
    BY <2>1, <2>2
<1>4. /\ orderStatus[o] \in Status /\ quote[o] \in Quotes \cup {0} /\ xdr[o] \in Quotes \cup {0}
      /\ ref[o] \in Quotes \cup {0} /\ offered[o] \in SUBSET Quotes /\ kind[o] \in Kind
      /\ OrderInv(o) /\ q \in Quotes \cup {0}
  BY <1>1, <1>2 DEF RampInv, RampTypeOK, RequestRow
<1>5. CASE OrderInsert(r)
  <2>1. PICK new \in Inserted(kind[o]) :
            /\ orderStatus' = [orderStatus EXCEPT ![o] = new[1]]
            /\ xdr' = [xdr EXCEPT ![o] = new[2]]
            /\ offered' = [offered EXCEPT ![o] = IF new[2] = 0 THEN {} ELSE {new[2]}]
    BY <1>5 DEF OrderInsert
  <2>2. new \in {<<"AWAITING_PAYMENT", 0>>, <<"DELEGATION_NEEDED", 1>>, <<"PROCESSING", 0>>,
                 <<"PENDING_SIGNATURE", 1>>}
    BY <1>4, <2>1 DEF Inserted, PayinRow, PayoutRow, OrderInRow, OrderOutRow, Kind
  <2> DEFINE s == new[1]
             x == new[2]
  <2>3. s \in {"AWAITING_PAYMENT", "DELEGATION_NEEDED", "PROCESSING", "PENDING_SIGNATURE"}
        /\ x \in {0, 1}
    BY <2>2
  <2>4. s \in Status \ {"absent"} /\ \A y \in Outcome(s) : Told(o, y)
    BY <2>3, OutcomeIs DEF Status
  <2>5. quote' = [quote EXCEPT ![o] = 1] /\ ref' = [ref EXCEPT ![o] = IF kind[o] = "payout" THEN 0 ELSE 1]
        /\ req' = [req EXCEPT ![r] = NoRequest]
        /\ UNCHANGED <<kind, partner, emitted, rep, notified, untold, paid>>
    BY <1>5 DEF OrderInsert
  <2>6. quote' \in [Orders -> Quotes \cup {0}] /\ \A d \in Orders \ {o} : quote'[d] = quote[d]
    BY <1>1, <2>5 DEF RampTypeOK
  <2>7. xdr' \in [Orders -> Quotes \cup {0}] /\ \A d \in Orders \ {o} : xdr'[d] = xdr[d]
    BY <1>1, <2>1, <2>3 DEF RampTypeOK
  <2>8. ref' \in [Orders -> Quotes \cup {0}] /\ \A d \in Orders \ {o} : ref'[d] = ref[d]
    BY <1>1, <2>5 DEF RampTypeOK
  <2>9. offered' \in [Orders -> SUBSET Quotes]
    <3>1. (IF x = 0 THEN {} ELSE {x}) \in SUBSET Quotes
      BY <1>1, <2>3
    <3> QED
      BY <1>1, <2>1, <3>1 DEF RampTypeOK
  <2>10. kind[o] = "payout" => /\ xdr'[o] # 0 => xdr'[o] = quote'[o]
                               /\ ref'[o] # 0 => s # "DELEGATION_NEEDED"
    BY <1>1, <1>2, <2>1, <2>3, <2>5 DEF RampTypeOK
  <2>11. \A d \in Orders \ {o} : quote'[d] = quote[d] /\ xdr'[d] = xdr[d] /\ ref'[d] = ref[d]
    BY <2>6, <2>7, <2>8
  <2>12. orderStatus' = [orderStatus EXCEPT ![o] = s]
    BY <2>1
  <2> HIDE DEF o, s, x
  <2> QED
    BY <1>2, <1>3, <2>4, <2>5, <2>6, <2>7, <2>8, <2>9, <2>10, <2>11, <2>12, WriteKeeps
<1>6. CASE RefreshWrite(r)
  <2>1. kind[o] = "payout" /\ q \in Quotes /\ orderStatus[o] \in Status \ {"absent"}
    BY <1>1, <1>4, <1>6 DEF RefreshWrite, RequestInv
  <2>2. /\ quote' = [quote EXCEPT ![o] = q] /\ xdr' = [xdr EXCEPT ![o] = q]
        /\ orderStatus' = [orderStatus EXCEPT ![o] = orderStatus[o]]
        /\ offered' = [offered EXCEPT ![o] = offered[o] \cup {q}]
        /\ req' = [req EXCEPT ![r] = NoRequest]
        /\ UNCHANGED <<kind, ref, partner, emitted, rep, notified, untold, paid>>
    BY <1>1, <1>2, <1>6 DEF RefreshWrite, RefreshQuote, RefreshStatus, RampTypeOK
  <2>3. quote' \in [Orders -> Quotes \cup {0}] /\ xdr' \in [Orders -> Quotes \cup {0}]
        /\ ref' \in [Orders -> Quotes \cup {0}] /\ xdr'[o] = quote'[o] /\ ref'[o] = ref[o]
        /\ \A d \in Orders \ {o} : quote'[d] = quote[d] /\ xdr'[d] = xdr[d] /\ ref'[d] = ref[d]
    BY <1>1, <1>2, <2>1, <2>2 DEF RampTypeOK
  <2>4. offered' \in [Orders -> SUBSET Quotes]
    BY <1>1, <1>2, <1>4, <2>1, <2>2 DEF RampTypeOK
  <2>5. (ref[o] # 0 => orderStatus[o] # "DELEGATION_NEEDED")
        /\ \A x \in Outcome(orderStatus[o]) : Told(o, x)
    BY <1>4, <2>1 DEF OrderInv
  <2> HIDE DEF o, q
  <2> QED
    BY <1>2, <1>3, <2>1, <2>2, <2>3, <2>4, <2>5, WriteKeeps
<1>7. CASE RefreshOrderWrite(r)
  <2>1. kind[o] # "payout"
    BY <1>1, <1>7 DEF RefreshOrderWrite, RequestInv
  <2>2. /\ xdr' = [xdr EXCEPT ![o] = 1] /\ orderStatus' = [orderStatus EXCEPT ![o] = "PENDING_SIGNATURE"]
        /\ offered' = [offered EXCEPT ![o] = {1}] /\ req' = [req EXCEPT ![r] = NoRequest]
        /\ UNCHANGED <<kind, quote, ref, partner, emitted, rep, notified, untold, paid>>
    BY <1>7 DEF RefreshOrderWrite
  <2>3. quote' \in [Orders -> Quotes \cup {0}] /\ xdr' \in [Orders -> Quotes \cup {0}]
        /\ ref' \in [Orders -> Quotes \cup {0}]
        /\ \A d \in Orders \ {o} : quote'[d] = quote[d] /\ xdr'[d] = xdr[d] /\ ref'[d] = ref[d]
    BY <1>1, <1>2, <2>2 DEF RampTypeOK
  <2>4. offered' \in [Orders -> SUBSET Quotes]
    BY <1>1, <1>2, <2>2 DEF RampTypeOK
  <2>5. "PENDING_SIGNATURE" \in Status \ {"absent"}
        /\ \A x \in Outcome("PENDING_SIGNATURE") : Told(o, x)
    BY OutcomeIs DEF Status
  <2> HIDE DEF o
  <2> QED
    BY <1>2, <1>3, <2>1, <2>2, <2>3, <2>4, <2>5, WriteKeeps
<1>8. CASE SubmitRecord(r)
  <2>1. /\ ref' = [ref EXCEPT ![o] = q] /\ orderStatus' = [orderStatus EXCEPT ![o] = "PROCESSING"]
        /\ req' = [req EXCEPT ![r] = NoRequest]
        /\ UNCHANGED <<kind, quote, xdr, offered, partner, emitted, rep, notified, untold, paid>>
    BY <1>8 DEF SubmitRecord
  <2>2. quote' \in [Orders -> Quotes \cup {0}] /\ xdr' \in [Orders -> Quotes \cup {0}]
        /\ ref' \in [Orders -> Quotes \cup {0}]
        /\ \A d \in Orders \ {o} : quote'[d] = quote[d] /\ xdr'[d] = xdr[d] /\ ref'[d] = ref[d]
    BY <1>1, <1>2, <1>4, <2>1 DEF RampTypeOK
  <2>3. offered' \in [Orders -> SUBSET Quotes]
    BY <1>1, <2>1 DEF RampTypeOK
  <2>4. "PROCESSING" \in Status \ {"absent"} /\ \A x \in Outcome("PROCESSING") : Told(o, x)
    BY OutcomeIs DEF Status
  <2>5. kind[o] = "payout" => (xdr'[o] # 0 => xdr'[o] = quote'[o])
    BY <1>4, <2>1 DEF OrderInv
  <2> HIDE DEF o, q
  <2> QED
    BY <1>2, <1>3, <2>1, <2>2, <2>3, <2>4, <2>5, WriteKeeps
<1> QED
  BY <1>5, <1>6, <1>7, <1>8

-----------------------------------------------------------------------------
\* A step of a report that leaves the rows as they are, and forgets no push.
LEMMA ReportReads ==
    ASSUME RampInv, NEW w \in Reporters, NEW new \in ReportRow, rep' = [rep EXCEPT ![w] = new],
           UNCHANGED <<row, partner, emitted, req, paid>>,
           notified' \in SUBSET (Orders \X {"COMPLETED", "FAILED"}),
           untold' \in SUBSET (Orders \X {"COMPLETED", "FAILED"}),
           notified \cup untold \subseteq notified' \cup untold',
           rep[w].pc = "tell" => {rep[w].order} \X Outcome(rep[w].next) \subseteq notified' \cup untold',
           new.pc \in {"idle", "ask", "write"},
           new.pc # "idle" => /\ new.order \in Orders /\ orderStatus[new.order] # "absent"
                              /\ \A x \in Outcome(new.read) : Told(new.order, x),
           new.pc = "write" => new.next \in Ended \cup {"PROCESSING"}
    PROVE  RampInv'
<1>1. RampTypeOK /\ rep'[w] = new /\ \A v \in Reporters \ {w} : rep'[v] = rep[v]
  BY DEF RampInv, RampTypeOK
<1>2. RampTypeOK'
  <2>1. rep' \in [Reporters -> ReportRow]
    BY <1>1 DEF RampTypeOK
  <2> QED
    BY <1>1, <2>1 DEF RampTypeOK, row
<1>3. \A d, x : Told(d, x) => Told(d, x)'
  BY <1>1 DEF Told, Telling
<1>4. ASSUME NEW d \in Orders PROVE OrderInv(d)'
  BY <1>3 DEF RampInv, OrderInv, row
<1>5. ASSUME NEW v \in Reporters PROVE ReportInv(v)'
  <2>1. CASE v = w
    BY <1>1, <1>3, <2>1 DEF ReportInv, row
  <2>2. CASE v # w
    BY <1>1, <1>3, <2>2 DEF RampInv, ReportInv, row
  <2> QED
    BY <2>1, <2>2
<1>6. ASSUME NEW r \in Askers PROVE RequestInv(r)'
  BY DEF RampInv, RequestInv, row
<1> QED
  BY <1>2, <1>4, <1>5, <1>6 DEF RampInv, OneInserter, PayoutIsOfSignedQuote

\* A report says an end, or that the order is processing.
LEMMA HookSays ==
    \A k, s : /\ HookStatus(k, s) \in Ended \cup {"PROCESSING"}
              /\ SyncStatus(k, s) \in Ended \cup {"PROCESSING"}
BY DEF HookStatus, SyncStatus, Ended

\* What a report says is a status of an order that is there and was signed.
LEMMA EndsAreStatuses ==
    Ended \cup {"PROCESSING"} \subseteq Status \ {"absent", "DELEGATION_NEEDED"}
BY DEF Ended, Status

\* A report reads, gives up, or writes the status and makes the push of it.
LEMMA ReportKeeps ==
    ASSUME RampInv, NEW w \in Reporters, Report(w)
    PROVE  RampInv'
<1>1. RampTypeOK /\ rep[w] \in ReportRow /\ ReportInv(w)
      /\ notified \in SUBSET (Orders \X {"COMPLETED", "FAILED"})
      /\ untold \in SUBSET (Orders \X {"COMPLETED", "FAILED"})
  BY DEF RampInv, RampTypeOK
<1>2. \A o \in Orders : OrderInv(o) /\ orderStatus[o] \in Status /\ ref[o] \in Quotes \cup {0}
  BY <1>1 DEF RampInv, RampTypeOK
<1>3. ASSUME NEW o \in Orders, NEW q \in Quotes, NEW s \in PartnerStatus, Webhook(w, o, q, s)
      PROVE  RampInv'
  <2> DEFINE next == HookStatus(kind[o], s)
             new == [pc |-> "write", order |-> o, read |-> orderStatus[o], ref |-> q, next |-> next]
  <2>1. rep' = [rep EXCEPT ![w] = new] /\ rep[w].pc = "idle" /\ ref[o] = q
        /\ UNCHANGED <<row, partner, emitted, req, notified, untold, paid>>
    BY <1>3 DEF Webhook
  <2>2. orderStatus[o] # "absent" /\ \A x \in Outcome(orderStatus[o]) : Told(o, x)
    BY <1>2, <2>1 DEF OrderInv, Quotes
  <2>3. next \in Ended \cup {"PROCESSING"} /\ next \in Status
    BY HookSays, EndsAreStatuses
  <2>4. new \in ReportRow
    BY <1>2, <2>3 DEF ReportRow
  <2> HIDE DEF next
  <2> QED
    BY <1>1, <2>1, <2>2, <2>3, <2>4, ReportReads
<1>4. ASSUME NEW o \in Orders, SyncRead(w, o)
      PROVE  RampInv'
  <2> DEFINE new == [pc |-> "ask", order |-> o, read |-> orderStatus[o], ref |-> ref[o],
                     next |-> "absent"]
  <2>1. rep' = [rep EXCEPT ![w] = new] /\ rep[w].pc = "idle" /\ ref[o] # 0
        /\ UNCHANGED <<row, partner, emitted, req, notified, untold, paid>>
    BY <1>4 DEF SyncRead
  <2>2. orderStatus[o] # "absent" /\ \A x \in Outcome(orderStatus[o]) : Told(o, x)
    BY <1>2, <2>1 DEF OrderInv
  <2>3. new \in ReportRow
    BY <1>2 DEF ReportRow, Status
  <2> QED
    BY <1>1, <2>1, <2>2, <2>3, ReportReads
<1>5. CASE SyncAsk(w)
  <2> DEFINE o == rep[w].order
             next == SyncStatus(kind[o], partner[o][rep[w].ref])
  <2>1. rep' = [rep EXCEPT ![w] = IF next = rep[w].read THEN NoReport
                                  ELSE [rep[w] EXCEPT !.pc = "write", !.next = next]]
        /\ rep[w].pc = "ask" /\ UNCHANGED <<row, partner, emitted, req, notified, untold, paid>>
    BY <1>1, <1>5 DEF SyncAsk, RampTypeOK
  <2>2. o \in Orders /\ orderStatus[o] # "absent" /\ \A x \in Outcome(rep[w].read) : Told(o, x)
    BY <1>1, <2>1 DEF ReportInv
  <2>3. next \in Ended \cup {"PROCESSING"} /\ next \in Status
    BY HookSays, EndsAreStatuses
  <2>4. CASE next = rep[w].read
    <3>1. rep' = [rep EXCEPT ![w] = NoReport] /\ NoReport.pc = "idle"
      BY <2>1, <2>4 DEF NoReport
    <3> QED
      BY <1>1, <2>1, <3>1, IdleRows, ReportReads
  <2>5. CASE next # rep[w].read
    <3> DEFINE new == [rep[w] EXCEPT !.pc = "write", !.next = next]
    <3>1. new \in ReportRow /\ new.pc = "write" /\ new.next = next /\ new.order = o
          /\ new.read = rep[w].read
      BY <1>1, <2>3 DEF ReportRow
    <3>2. rep' = [rep EXCEPT ![w] = new]
      BY <2>1, <2>5
    <3>3. rep[w].pc # "tell" /\ UNCHANGED <<row, partner, emitted, req, notified, untold, paid>>
          /\ notified \cup untold \subseteq notified' \cup untold'
      BY <2>1
    <3> HIDE DEF new, next, o
    <3> QED
      BY <1>1, <2>2, <2>3, <3>1, <3>2, <3>3, ReportReads
  <2> QED
    BY <2>4, <2>5
<1>6. CASE ReportWrite(w)
  <2> PICK o, s : o = rep[w].order /\ s = rep[w].next
    OBVIOUS
  <2>1. /\ orderStatus' = [orderStatus EXCEPT ![o] = s] /\ rep[w].pc = "write"
        /\ rep' = [rep EXCEPT ![w] = IF Tells(w) = {} THEN NoReport ELSE [rep[w] EXCEPT !.pc = "tell"]]
        /\ UNCHANGED <<kind, quote, xdr, ref, offered, partner, emitted, req, notified, untold, paid>>
    BY <1>1, <1>6 DEF ReportWrite, RampTypeOK
  <2>2. o \in Orders /\ orderStatus[o] # "absent" /\ s \in Ended \cup {"PROCESSING"}
        /\ (\A x \in Outcome(rep[w].read) : Told(o, x))
        /\ s \in Status \ {"absent", "DELEGATION_NEEDED"}
    BY <1>1, <2>1, EndsAreStatuses DEF ReportInv
  <2>3. PICK new \in ReportRow : /\ rep' = [rep EXCEPT ![w] = new]
                                 /\ Tells(w) = {} => new = NoReport
                                 /\ Tells(w) # {} => new = [rep[w] EXCEPT !.pc = "tell"]
    <3>1. [rep[w] EXCEPT !.pc = "tell"] \in ReportRow
      BY <1>1 DEF ReportRow
    <3>2. CASE Tells(w) = {}
      BY <2>1, <3>2, IdleRows
    <3>3. CASE Tells(w) # {}
      BY <2>1, <3>1, <3>3
    <3> QED
      BY <3>2, <3>3
  <2>4. rep'[w] = new /\ \A v \in Reporters \ {w} : rep'[v] = rep[v]
    BY <1>1, <2>3 DEF RampTypeOK
  <2>5. \A d \in Orders : orderStatus'[d] = IF d = o THEN s ELSE orderStatus[d]
    BY <1>1, <2>1 DEF RampTypeOK
  <2>6. \A d, x : Told(d, x) => Told(d, x)'
    BY <2>1, <2>4 DEF Told, Telling
  <2>7. \A x \in Outcome(s) : Told(o, x)'
    <3>1. CASE Tells(w) = {}
      <4>1. \A x \in Outcome(s) : s = rep[w].read
        BY <3>1 DEF Tells
      <4>2. \A x \in Outcome(s) : Told(o, x)
        BY <2>2, <4>1
      <4> QED
        BY <2>6, <4>2
    <3>2. CASE Tells(w) # {}
      <4>1. rep'[w].pc = "tell" /\ rep'[w].order = o /\ rep'[w].next = s
        BY <1>1, <2>3, <2>4, <3>2 DEF ReportRow
      <4>2. Outcome(s) \subseteq {"COMPLETED", "FAILED"}
        BY OutcomeIs
      <4> QED
        BY <4>1, <4>2 DEF Told, Telling
    <3> QED
      BY <3>1, <3>2
  <2>8. RampTypeOK'
    <3>1. orderStatus' \in [Orders -> Status]
      BY <1>1, <2>1, <2>2 DEF RampTypeOK
    <3>2. rep' \in [Reporters -> ReportRow]
      BY <1>1, <2>3 DEF RampTypeOK
    <3> QED
      BY <1>1, <2>1, <3>1, <3>2 DEF RampTypeOK
  <2>9. ASSUME NEW d \in Orders PROVE OrderInv(d)'
    <3>1. CASE d = o
      <4>1. orderStatus'[o] = s /\ OrderInv(o) /\ UNCHANGED <<kind, quote, xdr, ref>>
        BY <2>1, <2>2, <2>5 DEF RampInv
      <4> QED
        BY <2>2, <2>7, <3>1, <4>1 DEF OrderInv
    <3>2. CASE d # o
      BY <2>1, <2>5, <2>6, <3>2 DEF RampInv, OrderInv
    <3> QED
      BY <3>1, <3>2
  <2>10. ASSUME NEW v \in Reporters PROVE ReportInv(v)'
    <3>1. CASE v = w
      <4>1. CASE Tells(w) = {}
        BY <2>3, <2>4, <3>1, <4>1 DEF ReportInv, NoReport
      <4>2. CASE Tells(w) # {}
        <5>1. rep'[w].pc = "tell" /\ rep'[w].order = o /\ rep'[w].next = s
          BY <1>1, <2>3, <2>4, <4>2 DEF ReportRow
        <5> QED
          BY <2>2, <2>5, <3>1, <5>1 DEF ReportInv
      <4> QED
        BY <4>1, <4>2
    <3>2. CASE v # w
      BY <2>2, <2>4, <2>5, <2>6, <3>2 DEF RampInv, ReportInv
    <3> QED
      BY <3>1, <3>2
  <2>11. ASSUME NEW r \in Askers PROVE RequestInv(r)'
    <3>1. RequestInv(r) /\ req' = req /\ kind' = kind
      BY <2>1 DEF RampInv
    <3>2. \A d \in Orders : (orderStatus[d] = "absent") <=> (orderStatus'[d] = "absent")
      BY <2>2, <2>5
    <3> QED
      BY <3>1, <3>2 DEF RequestInv
  <2> QED
    BY <2>1, <2>8, <2>9, <2>10, <2>11 DEF RampInv, OneInserter, PayoutIsOfSignedQuote
<1>7. \A o \in Orders, s \in Status : {o} \X Outcome(s) \subseteq Orders \X {"COMPLETED", "FAILED"}
  BY OutcomeIs
<1>8. CASE ReportTell(w)
  <2>1. /\ notified' = notified \cup ({rep[w].order} \X Outcome(rep[w].next)) /\ rep[w].pc = "tell"
        /\ rep' = [rep EXCEPT ![w] = NoReport]
        /\ UNCHANGED <<row, partner, emitted, req, untold, paid>>
    BY <1>8 DEF ReportTell
  <2>2. rep[w].order \in Orders /\ rep[w].next \in Status
    BY <1>1, <2>1 DEF ReportInv, ReportRow
  <2>3. NoReport.pc = "idle" /\ NoReport \in ReportRow
    BY IdleRows DEF NoReport
  <2>4. notified' \in SUBSET (Orders \X {"COMPLETED", "FAILED"})
    BY <1>1, <1>7, <2>1, <2>2
  <2> QED
    BY <1>1, <2>1, <2>3, <2>4, ReportReads
<1>9. CASE ReportFails(w)
  <2>1. /\ rep' = [rep EXCEPT ![w] = NoReport] /\ rep[w].pc # "idle"
        /\ untold' = IF rep[w].pc = "tell" THEN untold \cup ({rep[w].order} \X Outcome(rep[w].next))
                     ELSE untold
        /\ UNCHANGED <<row, partner, emitted, req, notified, paid>>
    BY <1>9 DEF ReportFails
  <2>2. rep[w].order \in Orders /\ rep[w].next \in Status
    BY <1>1, <2>1 DEF ReportInv, ReportRow
  <2>3. NoReport.pc = "idle" /\ NoReport \in ReportRow
    BY IdleRows DEF NoReport
  <2>4. untold' \in SUBSET (Orders \X {"COMPLETED", "FAILED"})
    BY <1>1, <1>7, <2>1, <2>2
  <2>5. untold \subseteq untold'
        /\ (rep[w].pc = "tell" => {rep[w].order} \X Outcome(rep[w].next) \subseteq untold')
    BY <2>1
  <2> QED
    BY <1>1, <2>1, <2>3, <2>4, <2>5, ReportReads
<1> QED
  BY <1>3, <1>4, <1>5, <1>6, <1>8, <1>9 DEF Report

-----------------------------------------------------------------------------
\* Everything the other theorems rest on: RampInv is inductive.
THEOREM RampInvariant == RampSpec => []RampInv
<1>1. RampInit => RampInv
  <2> SUFFICES ASSUME RampInit PROVE RampInv
    OBVIOUS
  <2>1. RampTypeOK
    BY IdleRows DEF RampInit, RampTypeOK, Status, PartnerStatus
  <2>2. \A o \in Orders : OrderInv(o)
    BY OutcomeIs DEF RampInit, OrderInv
  <2>3. \A r \in Askers : RequestInv(r)
    BY DEF RampInit, RequestInv, NoRequest
  <2>4. \A w \in Reporters : ReportInv(w)
    BY DEF RampInit, ReportInv, NoReport
  <2> QED
    BY <2>1, <2>2, <2>3, <2>4
       DEF RampInv, RampInit, OneInserter, NoRequest, PayoutIsOfSignedQuote
<1>2. RampInv /\ [RampNext]_rampVars => RampInv'
  <2> SUFFICES ASSUME RampInv, [RampNext]_rampVars PROVE RampInv'
    OBVIOUS
  <2>1. ASSUME NEW r \in Askers, Request(r) PROVE RampInv'
    <3>1. ASSUME NEW d \in Orders,
                 OrderAsk(r, d) \/ RefreshRead(r, d) \/ RefreshOrderRead(r, d) \/ SubmitRead(r, d)
                     \/ SubmitOrderRead(r, d)
          PROVE  RampInv'
      BY <3>1, RequestReads
    <3>2. CASE RequestFails(r)
      <4>1. req[r].order \in Orders
        BY <3>2 DEF RampInv, RequestInv, RequestFails
      <4> QED
        BY <3>2, <4>1, RequestReads
    <3>3. CASE OrderInsert(r) \/ RefreshWrite(r) \/ RefreshOrderWrite(r) \/ SubmitRecord(r)
      BY <3>3, RequestWrites
    <3>4. CASE SubmitPayout(r)
      BY <3>4, PayoutKeeps
    <3> QED
      BY <2>1, <3>1, <3>2, <3>3, <3>4 DEF Request
  <2>2. CASE UNCHANGED rampVars
    <3>1. RampTypeOK'
      BY <2>2 DEF RampInv, RampTypeOK, rampVars
    <3>2. \A o \in Orders : OrderInv(o)'
      BY <2>2 DEF RampInv, OrderInv, Told, Telling, rampVars
    <3>3. \A r \in Askers : RequestInv(r)'
      BY <2>2 DEF RampInv, RequestInv, rampVars
    <3>4. \A w \in Reporters : ReportInv(w)'
      BY <2>2 DEF RampInv, ReportInv, Told, Telling, rampVars
    <3> QED
      BY <2>2, <3>1, <3>2, <3>3, <3>4 DEF RampInv, OneInserter, PayoutIsOfSignedQuote, rampVars
  <2> QED
    BY <2>1, <2>2, PartnerKeeps, ReportKeeps DEF RampNext
<1> QED
  BY <1>1, <1>2, PTL DEF RampSpec

\* However refreshes and submissions interleave, BlindPay is asked to pay the quote that
\* the owner signed for.
THEOREM PayoutsAreSigned == RampSpec => []PayoutIsOfSignedQuote
<1>1. RampInv => PayoutIsOfSignedQuote
  BY DEF RampInv
<1> QED
  BY <1>1, RampInvariant, PTL

\* An off-ramp that names its payout is not offered for signature again.
THEOREM PayoutClosesOrder == RampSpec => []RecordedPayoutClosesOrder
<1>1. RampInv => RecordedPayoutClosesOrder
  BY DEF RampInv, OrderInv, RecordedPayoutClosesOrder
<1> QED
  BY <1>1, RampInvariant, PTL

\* However webhooks and syncs race, an order shows no end that its owner is not told of,
\* but for a report cut off in between.
THEOREM EndsAreTold == RampSpec => []EndIsTold
<1>1. RampInv => EndIsTold
  BY DEF RampInv, OrderInv, EndIsTold, Told
<1> QED
  BY <1>1, RampInvariant, PTL

-----------------------------------------------------------------------------
(* Customers of the ramp.                                                  *)

USE NoCustomerAssumption

-----------------------------------------------------------------------------
\* The partner said so of the customer, once.
WasSaid(c, status) == \E s \in Verdict : <<c, s>> \in given /\ StatusOf(s) = status

\* What a handler may still rely on of what it read.
CallerInv(k) ==
    /\ k.pc \in {"insert", "replace"} => k.fresh \in Customers
    /\ k.pc \in {"ask", "persist", "tell", "rebuild", "replace", "account", "answer", "mirror"} =>
           k.customer \in named
    /\ k.pc \in {"persist", "tell"} /\ k.next \in {"APPROVED", "REJECTED"} => WasSaid(k.customer, k.next)
    /\ k.pc = "tell" => k.next \in {"APPROVED", "REJECTED"}

\* The inductive invariant of the customers.
KycInv ==
    /\ KycTypeOK /\ FlagFollowsApproval /\ PushNamesItsCustomer
    /\ current \in named \cup {NoCustomer}
    /\ \A c \in Customers : verdict[c] # "none" => <<c, verdict[c]>> \in given
    /\ \A h \in Callers : CallerInv(call[h])

-----------------------------------------------------------------------------
\* The two verdicts that count come of one word of the partner each.
LEMMA StatusOfIs ==
    \A s : /\ StatusOf(s) \in KycStatus
           /\ StatusOf(s) = "APPROVED" => s = "approved"
           /\ StatusOf(s) = "REJECTED" => s = "rejected"
BY DEF StatusOf, KycStatus

\* A handler that has ended is a handler.
LEMMA IdleCaller == NoCall \in CallerRow /\ NoCall.pc = "idle"
BY DEF NoCall, CallerRow, KycStatus

\* A handler's step: it forgets no customer and no verdict.
LEMMA CallerSteps ==
    ASSUME KycInv, NEW h \in Callers, NEW new \in CallerRow, call' = [call EXCEPT ![h] = new],
           program' = program, kyc' \in KycStatus, onboarded' \in BOOLEAN, selfSet' \in BOOLEAN,
           archived' \in SUBSET Customers, payoutAccount' \in Customers \cup {NoCustomer},
           verdict' \in [Customers -> Verdict], given' \in SUBSET (Customers \X Verdict),
           named' \in SUBSET Customers, told' \in SUBSET (Customers \X {"APPROVED", "REJECTED"}),
           named \subseteq named', given \subseteq given',
           current' \in named' \cup {NoCustomer},
           \A c \in Customers : verdict'[c] # "none" => <<c, verdict'[c]>> \in given',
           CallerInv(new)',
           \/ UNCHANGED <<onboarded, selfSet>> /\ kyc' \in {kyc} \cup (KycStatus \ {"APPROVED"})
           \/ UNCHANGED <<onboarded, selfSet>> /\ program # "BlindPay"
           \/ onboarded' /\ \E c \in named' : <<c, "approved">> \in given',
           \A k \in told' \ told : WasSaid(k[1], k[2])'
    PROVE  KycInv'
<1>1. KycTypeOK'
  BY DEF KycInv, KycTypeOK
<1>2. FlagFollowsApproval'
  BY DEF KycInv, KycTypeOK, FlagFollowsApproval
<1>3. \A c, s : WasSaid(c, s) => WasSaid(c, s)'
  BY DEF WasSaid
<1>4. PushNamesItsCustomer'
  BY <1>3 DEF KycInv, PushNamesItsCustomer, WasSaid
<1>5. ASSUME NEW g \in Callers PROVE CallerInv(call[g])'
  <2>1. CASE g = h
    BY <2>1 DEF KycInv, KycTypeOK, CallerInv
  <2>2. CASE g # h
    <3>1. call'[g] = call[g] /\ CallerInv(call[g])
      BY <2>2 DEF KycInv, KycTypeOK
    <3> QED
      BY <1>3, <3>1 DEF CallerInv
  <2> QED
    BY <2>1, <2>2
<1> QED
  BY <1>1, <1>2, <1>4, <1>5 DEF KycInv

\* What the partner says of a customer is kept.
LEMMA JudgeKeeps ==
    ASSUME KycInv, NEW c \in Customers, NEW s \in Verdict, Judge(c, s)
    PROVE  /\ verdict' \in [Customers -> Verdict] /\ given' \in SUBSET (Customers \X Verdict)
           /\ given \subseteq given'
           /\ \A d \in Customers : verdict'[d] # "none" => <<d, verdict'[d]>> \in given'
BY DEF KycInv, KycTypeOK, Judge

\* The partner judges a customer.
LEMMA JudgementKeeps ==
    ASSUME KycInv, NEW c \in Customers, PartnerJudges(c)
    PROVE  KycInv'
<1>1. PICK s \in VerdictNext(verdict[c]) : Judge(c, s)
  BY DEF PartnerJudges
<1>2. s \in Verdict
  BY DEF VerdictNext, Verdict
<1>3. /\ verdict' \in [Customers -> Verdict] /\ given' \in SUBSET (Customers \X Verdict)
      /\ given \subseteq given'
      /\ \A d \in Customers : verdict'[d] # "none" => <<d, verdict'[d]>> \in given'
  BY <1>1, <1>2, JudgeKeeps
<1>4. UNCHANGED <<program, current, kyc, onboarded, selfSet, archived, payoutAccount, named, call, told>>
  BY DEF PartnerJudges, person
<1>5. \A d, t : WasSaid(d, t) => WasSaid(d, t)'
  BY <1>3 DEF WasSaid
<1>6. ASSUME NEW g \in Callers PROVE CallerInv(call[g])'
  BY <1>4, <1>5 DEF KycInv, CallerInv
<1>7. KycTypeOK'
  BY <1>3, <1>4 DEF KycInv, KycTypeOK
<1>8. FlagFollowsApproval'
  BY <1>3, <1>4 DEF KycInv, FlagFollowsApproval
<1>9. PushNamesItsCustomer'
  BY <1>3, <1>4 DEF KycInv, PushNamesItsCustomer
<1> QED
  BY <1>3, <1>4, <1>6, <1>7, <1>8, <1>9 DEF KycInv

\* A handler reads: the row, or what the partner says.
LEMMA HandlerReads ==
    ASSUME KycInv, NEW h \in Callers,
           \/ SignUpRead(h) \/ PollRead(h) \/ ResubmitRead(h) \/ AccountRead(h) \/ AnswerRead(h)
           \/ PollAsk(h) \/ CallFails(h) \/ \E w \in given : WebhookRead(h, w[1], w[2])
    PROVE  KycInv'
<1>1. KycTypeOK /\ CallerInv(call[h]) /\ call[h] \in CallerRow /\ current \in named \cup {NoCustomer}
      /\ (\A c \in Customers : verdict[c] # "none" => <<c, verdict[c]>> \in given)
      /\ kyc \in KycStatus /\ named \subseteq Customers /\ current \in Customers \cup {NoCustomer}
      /\ given \subseteq Customers \X Verdict /\ verdict \in [Customers -> Verdict]
  BY DEF KycInv, KycTypeOK
<1>2. UNCHANGED <<program, person, verdict, given, told>>
  BY DEF SignUpRead, PollRead, ResubmitRead, AccountRead, AnswerRead, PollAsk, CallFails, WebhookRead
<1>3. PICK new \in CallerRow : call' = [call EXCEPT ![h] = new] /\ CallerInv(new)
  <2>1. CASE SignUpRead(h)
    <3> DEFINE new == [NoCall EXCEPT !.pc = "sign", !.customer = current]
    <3>1. call' = [call EXCEPT ![h] = new]
      BY <2>1 DEF SignUpRead, Reads
    <3>2. new \in CallerRow /\ new.pc = "sign"
      BY <1>1, IdleCaller DEF CallerRow
    <3> QED
      BY <3>1, <3>2 DEF CallerInv
  <2>2. CASE PollRead(h)
    <3> DEFINE new == [NoCall EXCEPT !.pc = "ask", !.customer = current, !.read = kyc]
    <3>1. call' = [call EXCEPT ![h] = new] /\ current # NoCustomer
      BY <2>2 DEF PollRead
    <3>2. new \in CallerRow /\ new.pc = "ask" /\ new.customer = current
      BY <1>1, IdleCaller DEF CallerRow
    <3> QED
      BY <1>1, <3>1, <3>2 DEF CallerInv
  <2>3. CASE ResubmitRead(h)
    <3> DEFINE new == [NoCall EXCEPT !.pc = "rebuild", !.customer = current,
                                     !.accounts = payoutAccount # NoCustomer]
    <3>1. call' = [call EXCEPT ![h] = new] /\ current # NoCustomer
      BY <2>3 DEF ResubmitRead
    <3>2. (payoutAccount # NoCustomer) \in BOOLEAN
      OBVIOUS
    <3>3. new \in CallerRow /\ new.pc = "rebuild" /\ new.customer = current
      BY <1>1, <3>2, IdleCaller DEF CallerRow
    <3> QED
      BY <1>1, <3>1, <3>3 DEF CallerInv
  <2>4. CASE AccountRead(h)
    <3> DEFINE new == [NoCall EXCEPT !.pc = "account", !.customer = current]
    <3>1. call' = [call EXCEPT ![h] = new] /\ current # NoCustomer
      BY <2>4 DEF AccountRead, Reads
    <3>2. new \in CallerRow /\ new.pc = "account" /\ new.customer = current
      BY <1>1, IdleCaller DEF CallerRow
    <3> QED
      BY <1>1, <3>1, <3>2 DEF CallerInv
  <2>5. CASE AnswerRead(h)
    <3> DEFINE new == [NoCall EXCEPT !.pc = "answer", !.customer = current]
    <3>1. call' = [call EXCEPT ![h] = new] /\ current # NoCustomer
      BY <2>5 DEF AnswerRead, Reads
    <3>2. new \in CallerRow /\ new.pc = "answer" /\ new.customer = current
      BY <1>1, IdleCaller DEF CallerRow
    <3> QED
      BY <1>1, <3>1, <3>2 DEF CallerInv
  <2>6. CASE PollAsk(h)
    <3> DEFINE c == call[h].customer
               next == StatusOf(verdict[c])
    <3>1. c \in named /\ c \in Customers /\ next \in KycStatus
      BY <1>1, <2>6, StatusOfIs DEF PollAsk, At, CallerInv
    <3>2. next \in {"APPROVED", "REJECTED"} => WasSaid(c, next)
      <4>1. next \in {"APPROVED", "REJECTED"} => verdict[c] # "none"
        BY StatusOfIs
      <4>2. verdict[c] \in Verdict
        BY <1>1, <3>1
      <4> QED
        BY <1>1, <3>1, <4>1, <4>2 DEF WasSaid
    <3>3. CASE program = "Etherfuse" /\ next = call[h].read
      BY <2>6, <3>3, IdleCaller DEF PollAsk, Over, CallerInv
    <3>4. CASE ~ (program = "Etherfuse" /\ next = call[h].read)
      <4> DEFINE new == [call[h] EXCEPT !.pc = "persist", !.next = next]
      <4>1. call' = [call EXCEPT ![h] = new]
        BY <1>1, <2>6, <3>4 DEF PollAsk, KycTypeOK
      <4>2. new \in CallerRow /\ new.pc = "persist" /\ new.customer = c /\ new.next = next
        BY <1>1, <3>1 DEF CallerRow
      <4> HIDE DEF new, next
      <4> QED
        BY <3>1, <3>2, <4>1, <4>2 DEF CallerInv
    <3> QED
      BY <3>3, <3>4
  <2>7. CASE CallFails(h)
    BY <2>7, IdleCaller DEF CallFails, Over, CallerInv
  <2>8. ASSUME NEW w \in given, WebhookRead(h, w[1], w[2])
        PROVE  \E new \in CallerRow : call' = [call EXCEPT ![h] = new] /\ CallerInv(new)
    <3> DEFINE next == StatusOf(w[2])
               new == [NoCall EXCEPT !.pc = "persist", !.customer = w[1], !.read = kyc, !.next = next]
    <3>1. call' = [call EXCEPT ![h] = new] /\ current = w[1]
      BY <2>8 DEF WebhookRead
    <3>2. w[1] \in Customers /\ w[2] \in Verdict /\ w = <<w[1], w[2]>>
      BY <1>1
    <3>3. w[1] \in named /\ next \in KycStatus /\ WasSaid(w[1], next)
      BY <1>1, <3>1, <3>2, StatusOfIs DEF WasSaid
    <3>4. new \in CallerRow /\ new.pc = "persist" /\ new.customer = w[1] /\ new.next = next
      BY <1>1, <3>2, <3>3, IdleCaller DEF CallerRow
    <3> HIDE DEF new, next
    <3> QED
      BY <3>1, <3>3, <3>4 DEF CallerInv
  <2> QED
    BY <2>1, <2>2, <2>3, <2>4, <2>5, <2>6, <2>7, <2>8
<1>4. UNCHANGED <<program, current, kyc, onboarded, selfSet, archived, payoutAccount, named, verdict, given,
                  told>>
  BY <1>2 DEF person
<1>5. CallerInv(new)'
  BY <1>3, <1>4 DEF CallerInv, WasSaid
<1>6. onboarded \in BOOLEAN /\ selfSet \in BOOLEAN /\ archived \in SUBSET Customers
      /\ payoutAccount \in Customers \cup {NoCustomer}
      /\ told \in SUBSET (Customers \X {"APPROVED", "REJECTED"})
  BY <1>1 DEF KycTypeOK
<1> QED
  BY <1>1, <1>3, <1>4, <1>5, <1>6, CallerSteps

\* A handler asks the partner for a customer, or answers it.
LEMMA HandlerAsks ==
    ASSUME KycInv, NEW h \in Callers,
           AnswerAsk(h) \/ \E c \in Customers : SignUpAsk(h, c) \/ ResubmitAsk(h, c)
    PROVE  KycInv'
<1>1. KycTypeOK /\ CallerInv(call[h]) /\ call[h] \in CallerRow /\ current \in named \cup {NoCustomer}
      /\ kyc \in KycStatus /\ named \in SUBSET Customers
      /\ onboarded \in BOOLEAN /\ selfSet \in BOOLEAN
      /\ archived \in SUBSET Customers /\ payoutAccount \in Customers \cup {NoCustomer}
      /\ told \in SUBSET (Customers \X {"APPROVED", "REJECTED"})
  BY DEF KycInv, KycTypeOK
<1>2. UNCHANGED <<program, current, kyc, onboarded, selfSet, archived, payoutAccount, named, told>>
  BY DEF AnswerAsk, SignUpAsk, ResubmitAsk, person
<1>3. FirstVerdict \in Verdict /\ "verifying" \in Verdict /\ "proposed" \in Verdict
  BY DEF FirstVerdict, Verdict
<1>4. \E c \in Customers, s \in Verdict, new \in CallerRow :
          Judge(c, s) /\ call' = [call EXCEPT ![h] = new] /\ CallerInv(new)
  <2>1. CASE AnswerAsk(h)
    <3> DEFINE new == [call[h] EXCEPT !.pc = "mirror"]
    <3>1. new \in CallerRow /\ new.pc = "mirror" /\ new.customer = call[h].customer
      BY <1>1 DEF CallerRow
    <3>2. call' = [call EXCEPT ![h] = new]
      BY <1>1, <2>1 DEF AnswerAsk, Goto, KycTypeOK
    <3>3. call[h].customer \in named /\ call[h].customer \in Customers
      BY <1>1, <2>1 DEF AnswerAsk, At, CallerInv
    <3>4. CallerInv(new)
      BY <3>1, <3>3 DEF CallerInv
    <3>5. Judge(call[h].customer, "verifying") \/ Judge(call[h].customer, "proposed")
      BY <2>1 DEF AnswerAsk
    <3> HIDE DEF new
    <3> QED
      BY <1>3, <3>1, <3>2, <3>3, <3>4, <3>5
  <2>2. ASSUME NEW c \in Customers, SignUpAsk(h, c)
        PROVE  \E s \in Verdict, new \in CallerRow :
                   Judge(c, s) /\ call' = [call EXCEPT ![h] = new] /\ CallerInv(new)
    <3> DEFINE new == [call[h] EXCEPT !.pc = "insert", !.fresh = c]
    <3>1. new \in CallerRow /\ new.pc = "insert" /\ new.fresh = c
      BY <1>1 DEF CallerRow
    <3>2. call' = [call EXCEPT ![h] = new] /\ Judge(c, FirstVerdict)
      BY <1>1, <2>2 DEF SignUpAsk, KycTypeOK
    <3>3. CallerInv(new)
      BY <3>1 DEF CallerInv
    <3> QED
      BY <1>3, <3>1, <3>2, <3>3
  <2>3. ASSUME NEW c \in Customers, ResubmitAsk(h, c)
        PROVE  \E s \in Verdict, new \in CallerRow :
                   Judge(c, s) /\ call' = [call EXCEPT ![h] = new] /\ CallerInv(new)
    <3> DEFINE new == [call[h] EXCEPT !.pc = "replace", !.fresh = c]
    <3>1. new \in CallerRow /\ new.pc = "replace" /\ new.fresh = c /\ new.customer = call[h].customer
      BY <1>1 DEF CallerRow
    <3>2. call' = [call EXCEPT ![h] = new] /\ Judge(c, FirstVerdict)
      BY <1>1, <2>3 DEF ResubmitAsk, KycTypeOK
    <3>3. CallerInv(new)
      BY <1>1, <2>3, <3>1 DEF CallerInv, ResubmitAsk, At
    <3> QED
      BY <1>3, <3>1, <3>2, <3>3
  <2> QED
    BY <2>1, <2>2, <2>3
<1>5. PICK c \in Customers, s \in Verdict, new \in CallerRow :
          Judge(c, s) /\ call' = [call EXCEPT ![h] = new] /\ CallerInv(new)
  BY <1>4
<1>6. /\ verdict' \in [Customers -> Verdict] /\ given' \in SUBSET (Customers \X Verdict)
      /\ given \subseteq given'
      /\ \A d \in Customers : verdict'[d] # "none" => <<d, verdict'[d]>> \in given'
  BY <1>5, JudgeKeeps
<1>7. CallerInv(new)'
  BY <1>2, <1>5, <1>6 DEF CallerInv, WasSaid
<1> QED
  BY <1>1, <1>2, <1>5, <1>6, <1>7, CallerSteps

\* A handler writes the row, or makes the push, and is done.
LEMMA HandlerWrites ==
    ASSUME KycInv, NEW h \in Callers,
           \/ SignUpInsert(h) \/ Persist(h) \/ TellKyc(h) \/ ResubmitReplace(h) \/ AccountInsert(h)
           \/ AnswerMirror(h)
    PROVE  KycInv'
<1>1. KycTypeOK /\ CallerInv(call[h]) /\ call[h] \in CallerRow /\ current \in named \cup {NoCustomer}
      /\ kyc \in KycStatus /\ named \in SUBSET Customers
      /\ onboarded \in BOOLEAN /\ selfSet \in BOOLEAN
      /\ archived \in SUBSET Customers /\ payoutAccount \in Customers \cup {NoCustomer}
      /\ told \in SUBSET (Customers \X {"APPROVED", "REJECTED"})
      /\ verdict \in [Customers -> Verdict] /\ given \in SUBSET (Customers \X Verdict)
      /\ (\A c \in Customers : verdict[c] # "none" => <<c, verdict[c]>> \in given)
  BY DEF KycInv, KycTypeOK
<1>2. UNCHANGED <<program, verdict, given>>
  BY DEF SignUpInsert, Persist, TellKyc, ResubmitReplace, AccountInsert, AnswerMirror
<1>3. CallerInv(NoCall)'
  BY IdleCaller DEF CallerInv
<1>4. CASE SignUpInsert(h)
  <2>1. call' = [call EXCEPT ![h] = NoCall] /\ UNCHANGED <<onboarded, selfSet, archived, payoutAccount, told>>
        /\ call[h].fresh \in Customers
    BY <1>1, <1>4 DEF SignUpInsert, Over, At, CallerInv
  <2>2. kyc' \in KycStatus /\ named \subseteq named' /\ named' \in SUBSET Customers
        /\ current' \in named' \cup {NoCustomer}
    BY <1>1, <1>4, <2>1 DEF SignUpInsert, KycStatus
  <2>3. kyc' \in {kyc} \cup (KycStatus \ {"APPROVED"})
    BY <1>4 DEF SignUpInsert, KycStatus
  <2> QED
    BY <1>1, <1>2, <1>3, <2>1, <2>2, <2>3, CallerSteps, IdleCaller
<1>5. CASE Persist(h)
  <2> DEFINE next == call[h].next
  <2>1. /\ UNCHANGED <<current, archived, payoutAccount, named, told>> /\ kyc' = next
        /\ IF program = "BlindPay" /\ Onboards(next)
           THEN onboarded' = TRUE /\ selfSet' = FALSE
           ELSE UNCHANGED <<onboarded, selfSet>>
        /\ next \in KycStatus
    BY <1>1, <1>5 DEF Persist, CallerRow
  <2>2. call[h].pc = "persist" /\ call[h].customer \in named
    BY <1>1, <1>5 DEF Persist, At, CallerInv
  <2>3. onboarded' \in BOOLEAN /\ selfSet' \in BOOLEAN
    BY <1>1, <2>1
  <2>4. \/ UNCHANGED <<onboarded, selfSet>> /\ kyc' \in {kyc} \cup (KycStatus \ {"APPROVED"})
        \/ UNCHANGED <<onboarded, selfSet>> /\ program # "BlindPay"
        \/ onboarded' /\ \E c \in named' : <<c, "approved">> \in given'
    <3>1. next = "APPROVED" => <<call[h].customer, "approved">> \in given
      BY <1>1, <2>2, StatusOfIs DEF CallerInv, WasSaid
    <3> QED
      BY <1>2, <2>1, <2>2, <3>1 DEF Onboards
  <2>5. PICK new \in CallerRow : call' = [call EXCEPT ![h] = new] /\ CallerInv(new)
    <3>1. CASE call[h].read # next /\ next \in {"APPROVED", "REJECTED"}
      <4> DEFINE new == [call[h] EXCEPT !.pc = "tell", !.read = "VERIFYING"]
      <4>1. new \in CallerRow /\ new.pc = "tell" /\ new.next = next /\ new.customer = call[h].customer
        BY <1>1 DEF CallerRow, KycStatus
      <4>2. call' = [call EXCEPT ![h] = new]
        BY <1>1, <1>5, <3>1 DEF Persist, KycTypeOK
      <4>3. CallerInv(new)
        BY <1>1, <2>2, <3>1, <4>1 DEF CallerInv
      <4> QED
        BY <4>1, <4>2, <4>3
    <3>2. CASE ~ (call[h].read # next /\ next \in {"APPROVED", "REJECTED"})
      BY <1>5, <3>2, IdleCaller DEF Persist, Over, CallerInv
    <3> QED
      BY <3>1, <3>2
  <2>6. CallerInv(new)'
    BY <1>2, <2>1, <2>5 DEF CallerInv, WasSaid
  <2> HIDE DEF next
  <2> QED
    BY <1>1, <1>2, <2>1, <2>3, <2>4, <2>5, <2>6, CallerSteps
<1>6. CASE TellKyc(h)
  <2>1. call' = [call EXCEPT ![h] = NoCall] /\ told' = told \cup {<<call[h].customer, call[h].next>>}
        /\ UNCHANGED <<current, kyc, onboarded, selfSet, archived, payoutAccount, named>>
    BY <1>6 DEF TellKyc, KeyOf, Over, person
  <2>2. call[h].customer \in Customers /\ call[h].next \in {"APPROVED", "REJECTED"}
        /\ WasSaid(call[h].customer, call[h].next)
    BY <1>1, <1>6 DEF TellKyc, At, CallerInv
  <2>3. told' \in SUBSET (Customers \X {"APPROVED", "REJECTED"})
    BY <1>1, <2>1, <2>2
  <2>4. \A k \in told' \ told : WasSaid(k[1], k[2])'
    <3>1. \A k \in told' \ told : k = <<call[h].customer, call[h].next>>
      BY <2>1
    <3>2. ASSUME NEW k \in told' \ told PROVE WasSaid(k[1], k[2])'
      <4>1. \E s \in Verdict : <<k[1], s>> \in given /\ StatusOf(s) = k[2]
        BY <2>2, <3>1 DEF WasSaid
      <4> QED
        BY <1>2, <4>1 DEF WasSaid
    <3> QED
      BY <3>2
  <2> QED
    BY <1>1, <1>2, <1>3, <2>1, <2>3, <2>4, CallerSteps, IdleCaller
<1>7. CASE ResubmitReplace(h)
  <2>1. call' = [call EXCEPT ![h] = NoCall] /\ UNCHANGED <<onboarded, selfSet, told>>
        /\ kyc' = "VERIFYING" /\ named' = named \cup {call[h].fresh} /\ current' = call[h].fresh
        /\ archived' = archived \cup {call[h].customer}
        /\ payoutAccount' = IF call[h].accounts THEN call[h].fresh ELSE payoutAccount
    BY <1>7 DEF ResubmitReplace, Over
  <2>2. call[h].fresh \in Customers /\ call[h].customer \in Customers
    BY <1>1, <1>7 DEF ResubmitReplace, At, CallerInv
  <2>3. kyc' \in KycStatus \ {"APPROVED"} /\ named \subseteq named' /\ named' \in SUBSET Customers
        /\ current' \in named' \cup {NoCustomer} /\ archived' \in SUBSET Customers
        /\ payoutAccount' \in Customers \cup {NoCustomer}
    BY <1>1, <2>1, <2>2 DEF KycStatus
  <2> QED
    BY <1>1, <1>2, <1>3, <2>1, <2>3, CallerSteps, IdleCaller
<1>8. CASE AccountInsert(h)
  <2>1. call' = [call EXCEPT ![h] = NoCall] /\ payoutAccount' = call[h].customer
        /\ UNCHANGED <<current, kyc, onboarded, selfSet, archived, named, told>>
    BY <1>8 DEF AccountInsert, Over
  <2>2. payoutAccount' \in Customers \cup {NoCustomer}
    BY <1>1, <1>8, <2>1 DEF CallerRow
  <2> QED
    BY <1>1, <1>2, <1>3, <2>1, <2>2, CallerSteps, IdleCaller
<1>9. CASE AnswerMirror(h)
  <2>1. call' = [call EXCEPT ![h] = NoCall] /\ kyc' \in KycStatus \ {"APPROVED"}
        /\ UNCHANGED <<current, onboarded, selfSet, archived, payoutAccount, named, told>>
    BY <1>9 DEF AnswerMirror, Over, KycStatus
  <2> QED
    BY <1>1, <1>2, <1>3, <2>1, CallerSteps, IdleCaller
<1> QED
  BY <1>4, <1>5, <1>6, <1>7, <1>8, <1>9

\* The owner edits the profile: the flag is theirs until an approval.
LEMMA EditKeeps ==
    ASSUME KycInv, NEW flag \in BOOLEAN, EditProfile(flag)
    PROVE  KycInv'
<1>1. KycTypeOK'
  BY DEF KycInv, KycTypeOK, EditProfile
<1>2. \A h \in Callers : CallerInv(call[h])'
  BY DEF KycInv, CallerInv, WasSaid, EditProfile
<1> QED
  BY <1>1, <1>2 DEF KycInv, FlagFollowsApproval, PushNamesItsCustomer, EditProfile

-----------------------------------------------------------------------------
\* Everything the other theorems rest on: KycInv is inductive.
THEOREM KycInvariant == KycSpec => []KycInv
<1>1. KycInit => KycInv
  <2> SUFFICES ASSUME KycInit PROVE KycInv
    OBVIOUS
  <2>1. KycTypeOK
    BY IdleCaller DEF KycInit, KycTypeOK, KycStatus, Verdict
  <2>2. \A h \in Callers : CallerInv(call[h])
    BY IdleCaller DEF KycInit, CallerInv
  <2> QED
    BY <2>1, <2>2 DEF KycInv, KycInit, FlagFollowsApproval, PushNamesItsCustomer
<1>2. KycInv /\ [KycNext]_kycVars => KycInv'
  <2> SUFFICES ASSUME KycInv, [KycNext]_kycVars PROVE KycInv'
    OBVIOUS
  <2>1. ASSUME NEW h \in Callers, Handle(h) PROVE KycInv'
    BY <2>1, HandlerReads, HandlerAsks, HandlerWrites DEF Handle
  <2>2. CASE UNCHANGED kycVars
    <3>1. KycTypeOK'
      BY <2>2 DEF KycInv, KycTypeOK, kycVars
    <3>2. \A h \in Callers : CallerInv(call[h])'
      BY <2>2 DEF KycInv, CallerInv, WasSaid, kycVars
    <3> QED
      BY <2>2, <3>1, <3>2 DEF KycInv, FlagFollowsApproval, PushNamesItsCustomer, kycVars
  <2> QED
    BY <2>1, <2>2, JudgementKeeps, EditKeeps DEF KycNext
<1> QED
  BY <1>1, <1>2, PTL DEF KycSpec

\* But for an edit of the owner's own, the flag is up only by an approval of one of their
\* customers, and up while the row is approved, however verdicts and resubmissions overlap.
THEOREM FlagIsOfAnApproval == KycSpec => []FlagFollowsApproval
<1>1. KycInv => FlagFollowsApproval
  BY DEF KycInv
<1> QED
  BY <1>1, KycInvariant, PTL

\* However a resubmission races a verdict, the push names the customer it was given to.
THEOREM PushesNameTheirCustomer == KycSpec => []PushNamesItsCustomer
<1>1. KycInv => PushNamesItsCustomer
  BY DEF KycInv
<1> QED
  BY <1>1, KycInvariant, PTL

-----------------------------------------------------------------------------
(* The check before a deletion.                                            *)

\* Of the account: whatever is in a vault came of a deposit that is on record, and a
\* gift that is over left nothing in escrow.
WorldInv ==
    /\ \A o \in Ops : op[o].kind \in {"deposit", "withdrawal"} => op[o].vault \in Vaults
    /\ gift.row \in {"none", "CREATED"} => ~gift.balanceId
    /\ gift.row \in {"CLAIMED", "REFUNDED"} => funds["escrow"] = "dust"
    /\ \A v \in Vaults : funds[v] = "above" => v \in Touched

\* A check on its way, or one that found the account eligible: what would block the
\* deletion is still to be read, or has been noted.
Noted ==
    /\ \A o \in check.stayed : op[o].kind \in check.todo \/ check.blocked
    /\ check.quiet =>
        /\ funds["wallet"] = "above" => "wallet" \in check.todo \/ check.blocked \/ check.unread
        /\ funds["escrow"] = "above" /\ check.giftKnown => "gifts" \in check.todo \/ check.blocked
        /\ \A v \in Vaults : funds[v] = "above" =>
               v \in check.todo \/ "scope" \in check.todo \/ check.blocked \/ check.throttled

\* What a check has found is still so: rows that it saw in flight and that were not told to
\* it are in flight, a balance that it knew of is known, and what it has not noted it has
\* still to read.
CheckInv ==
    /\ \A o \in check.stayed : InFlight(o)
    /\ check.giftKnown => gift.balanceId
    /\ check.reading \/ check.answer = "eligible" => Noted
    /\ check.answer = "eligible" => ~check.blocked /\ ~check.throttled /\ check.todo = {}
    /\ ~check.reading => check.todo = {}

\* The inductive invariant of the check.
EligInv == EligTypeOK /\ WorldInv /\ CheckInv

\* No check is a check.
LEMMA NoCheckTypes == NoCheck \in CheckRow
  BY DEF NoCheck, CheckRow

\* Wallet, escrow and vaults are places, and different ones.
LEMMA PlacesAre ==
    {"wallet", "escrow"} \subseteq Places /\ Vaults \subseteq Places
    /\ "escrow" \notin Vaults /\ "wallet" \notin Vaults
  BY NameAssumption DEF Places

\* A check that is not on its way has nothing to keep.
LEMMA NoCheckHolds == ASSUME check' = NoCheck PROVE CheckInv'
  BY DEF CheckInv, NoCheck

\* The initial states satisfy the invariant.
LEMMA EligInitial == EligInit => EligInv
<1> SUFFICES ASSUME EligInit PROVE EligInv
  OBVIOUS
<1>1. op \in [Ops -> OpRow] /\ \A o \in Ops : op[o].kind \in {"deposit", "withdrawal"} => op[o].vault \in Vaults
  <2>1. AnyOp \subseteq OpRow /\ \A a \in AnyOp : a.kind \in {"deposit", "withdrawal"} => a.vault \in Vaults
    BY DEF AnyOp, OpRow, Kinds
  <2> QED
    BY <2>1 DEF EligInit
<1>2. funds \in [Places -> {"dust", "above"}] /\ \A p \in Places : funds[p] = "above" => p = "wallet"
  BY PlacesAre DEF EligInit
<1>3. EligTypeOK
  BY <1>1, <1>2, NoCheckTypes DEF EligInit, EligTypeOK
<1>4. WorldInv
  BY <1>1, <1>2, PlacesAre DEF EligInit, WorldInv
<1>5. CheckInv
  BY DEF EligInit, CheckInv, NoCheck
<1> QED
  BY <1>3, <1>4, <1>5 DEF EligInv

-----------------------------------------------------------------------------

\* What a step of the account has to respect for a check that is on its way: what was
\* in flight is, unless the check is told, and no row forgets its balance.
LEMMA CheckStands ==
    ASSUME EligInv, check' \in {check, [check EXCEPT !.quiet = FALSE]},
           funds' = funds \/ check' = [check EXCEPT !.quiet = FALSE],
           \A o \in Ops : op'[o].kind = op[o].kind,
           \A o \in check.stayed : InFlight(o)',
           gift.balanceId => gift'.balanceId
    PROVE  CheckInv' /\ check' \in CheckRow
<1>1. check \in CheckRow /\ check.stayed \subseteq Ops
  BY DEF EligInv, EligTypeOK, CheckRow
<1>2. /\ check' \in CheckRow /\ check'.reading = check.reading /\ check'.todo = check.todo
      /\ check'.blocked = check.blocked /\ check'.throttled = check.throttled /\ check'.stayed = check.stayed
      /\ check'.giftKnown = check.giftKnown /\ check'.unread = check.unread /\ check'.answer = check.answer
      /\ check'.quiet => check.quiet /\ funds' = funds
  BY <1>1 DEF CheckRow
<1>3. Noted => Noted'
  BY <1>1, <1>2 DEF Noted
<1> QED
  BY <1>1, <1>2, <1>3 DEF EligInv, CheckInv

\* The rows change, and no money moves.
LEMMA RowsKeep ==
    ASSUME EligInv, NEW o \in Ops, Opens(o) \/ Closes(o)
    PROVE  EligInv'
<1>1. /\ UNCHANGED <<gift, funds, allowed>> /\ op \in [Ops -> OpRow] /\ check \in CheckRow
  BY DEF EligInv, EligTypeOK, Opens, Closes
<1>2. PICK state \in {"open", "closed"} : op' = [op EXCEPT ![o] = [op[o] EXCEPT !.row = state]]
  BY <1>1 DEF Opens, Closes
<1>3. /\ op' \in [Ops -> OpRow]
      /\ \A q \in Ops : op'[q].kind = op[q].kind /\ op'[q].vault = op[q].vault /\ (q # o => op'[q] = op[q])
      /\ op'[o].row # "none" /\ op'[o].row = state
  <2>1. /\ [op[o] EXCEPT !.row = state] \in OpRow /\ [op[o] EXCEPT !.row = state].kind = op[o].kind
        /\ [op[o] EXCEPT !.row = state].vault = op[o].vault /\ [op[o] EXCEPT !.row = state].row = state
    BY <1>1 DEF OpRow
  <2> QED
    BY <1>1, <1>2, <2>1
<1>4. Touched \subseteq Touched'
  BY <1>3 DEF Touched
<1>5. WorldInv'
  BY <1>1, <1>3, <1>4 DEF EligInv, WorldInv
<1>6. CheckInv' /\ check' \in CheckRow
  <2>1. CASE Opens(o)
    <3>1. check' = check /\ \A q \in check.stayed : InFlight(q)'
      BY <1>1, <1>3, <2>1 DEF Opens, EligInv, CheckInv, InFlight, CheckRow
    <3> QED
      BY <1>1, <1>3, <3>1, CheckStands
  <2>2. CASE Closes(o)
    <3>1. check' = [check EXCEPT !.stayed = check.stayed \ {o}]
      BY <2>2 DEF Closes
    <3>2. /\ check' \in CheckRow /\ check'.reading = check.reading /\ check'.todo = check.todo
          /\ check'.blocked = check.blocked /\ check'.throttled = check.throttled
          /\ check'.stayed = check.stayed \ {o} /\ check.stayed \subseteq Ops
          /\ check'.giftKnown = check.giftKnown /\ check'.unread = check.unread /\ check'.answer = check.answer
          /\ check'.quiet = check.quiet
      BY <1>1, <3>1 DEF CheckRow
    <3>3. Noted => Noted'
      BY <1>1, <1>3, <3>2 DEF Noted
    <3>4. \A q \in check'.stayed : InFlight(q)'
      BY <1>3, <3>2 DEF EligInv, CheckInv, InFlight
    <3> QED
      BY <1>1, <3>2, <3>3, <3>4 DEF EligInv, CheckInv
  <2> QED
    BY <2>1, <2>2
<1> QED
  BY <1>1, <1>3, <1>5, <1>6 DEF EligInv, EligTypeOK

\* Money moves from one place to another, never to a vault that is not on record.
LEMMA MoneyKeeps ==
    ASSUME EligInv, NEW from, NEW to, Moves(from, to), UNCHANGED <<gift, allowed>>,
           op' \in [Ops -> OpRow], \A o \in Ops : op'[o].kind = op[o].kind /\ op'[o].vault = op[o].vault,
           \A o \in Ops : op[o].row # "none" => op'[o].row # "none",
           \A o \in Ops : InFlight(o) => InFlight(o)',
           to = "escrow" => gift.row = "CREATED",
           to \in Vaults => to \in Touched'
    PROVE  EligInv'
<1>1. /\ funds \in [Places -> {"dust", "above"}] /\ check \in CheckRow /\ op \in [Ops -> OpRow]
      /\ check.stayed \subseteq Ops
  BY DEF EligInv, EligTypeOK, CheckRow
<1>2. /\ funds' \in [Places -> {"dust", "above"}]
      /\ \A p \in Places : funds'[p] = "above" => p = to \/ funds[p] = "above"
  BY <1>1 DEF Moves
<1>3. Touched \subseteq Touched'
  BY DEF Touched
<1>4. WorldInv'
  BY <1>1, <1>2, <1>3, PlacesAre DEF EligInv, WorldInv
<1>5. CheckInv' /\ check' \in CheckRow
  <2>1. check' = [check EXCEPT !.quiet = FALSE]
    BY DEF Moves
  <2>2. \A o \in check.stayed : InFlight(o)'
    BY <1>1 DEF EligInv, CheckInv
  <2> QED
    BY <2>1, <2>2, CheckStands
<1> QED
  BY <1>2, <1>4, <1>5 DEF EligInv, EligTypeOK

\* The row of a gift moves on.
LEMMA GiftRowKeeps ==
    ASSUME EligInv, NEW from, NEW to \in {"none", "CREATED", "FUNDED", "CLAIMING", "CLAIMED", "EXPIRED", "REFUNDED"},
           NEW id \in BOOLEAN, GiftGoes(from, to, id),
           gift.balanceId => id, to \in {"none", "CREATED"} => ~id,
           to \in {"CLAIMED", "REFUNDED"} => funds["escrow"] # "above"
    PROVE  EligInv'
<1>1. /\ UNCHANGED <<op, funds, allowed, check>> /\ gift' = [row |-> to, balanceId |-> id]
      /\ check.stayed \subseteq Ops
  BY DEF GiftGoes, EligInv, EligTypeOK, CheckRow
<1>2. WorldInv'
  BY <1>1, PlacesAre DEF EligInv, EligTypeOK, WorldInv, Touched
<1>3. CheckInv' /\ check' \in CheckRow
  <2>1. \A o \in check.stayed : InFlight(o)'
    BY <1>1 DEF EligInv, CheckInv, InFlight
  <2> QED
    BY <1>1, <2>1, CheckStands
<1> QED
  BY <1>1, <1>2, <1>3 DEF EligInv, EligTypeOK

\* Whatever the account does while a check is on its way, what it has noted stands.
LEMMA AccountKeeps == ASSUME EligInv, AccountGoesOn PROVE EligInv'
<1>1. op \in [Ops -> OpRow] /\ gift.balanceId \in BOOLEAN /\ funds \in [Places -> {"dust", "above"}]
  BY DEF EligInv, EligTypeOK
<1>2. ASSUME NEW o \in Ops, Settles(o) PROVE EligInv'
  <2>1. /\ op' = [op EXCEPT ![o] = [op[o] EXCEPT !.row = "sent"]] /\ op[o].row = "open"
        /\ Moves(From(o), To(o)) /\ UNCHANGED <<gift, allowed>>
    BY <1>1, <1>2 DEF Settles
  <2>2. /\ [op[o] EXCEPT !.row = "sent"] \in OpRow /\ [op[o] EXCEPT !.row = "sent"].kind = op[o].kind
        /\ [op[o] EXCEPT !.row = "sent"].vault = op[o].vault /\ [op[o] EXCEPT !.row = "sent"].row = "sent"
    BY <1>1 DEF OpRow
  <2>3. /\ op' \in [Ops -> OpRow]
        /\ \A q \in Ops : op'[q].kind = op[q].kind /\ op'[q].vault = op[q].vault /\ (q # o => op'[q] = op[q])
        /\ op'[o].row = "sent"
    BY <1>1, <2>1, <2>2
  <2>4. To(o) # "escrow" /\ (To(o) \in Vaults => op[o].kind = "deposit" /\ To(o) = op[o].vault)
    <3>1. op[o].kind \in Kinds
      BY <1>1 DEF OpRow
    <3> QED
      BY <3>1, NameAssumption, PlacesAre DEF To, EligInv, WorldInv, Kinds
  <2>5. To(o) \in Vaults => To(o) \in Touched'
    BY <2>3, <2>4 DEF Touched
  <2>6. \A q \in Ops : (op[q].row # "none" => op'[q].row # "none") /\ (InFlight(q) => InFlight(q)')
    BY <2>3 DEF InFlight
  <2> HIDE DEF From, To
  <2> QED
    BY <2>1, <2>3, <2>4, <2>5, <2>6, MoneyKeeps
<1>3. ASSUME NEW from, NEW to \in {"wallet", "outside", "escrow"}, Moves(from, to), UNCHANGED <<op, gift, allowed>>,
             to = "escrow" => gift.row = "CREATED"
      PROVE  EligInv'
  <2>1. to \notin Vaults /\ \A q \in Ops : InFlight(q) => InFlight(q)'
    BY <1>3, NameAssumption, PlacesAre DEF InFlight
  <2> QED
    BY <1>1, <1>3, <2>1, MoneyKeeps
<1>4. CASE GiftMoves
  <2>1. gift.row \in {"none", "CREATED"} => ~gift.balanceId
    BY DEF EligInv, WorldInv
  <2>2. CASE GiftGoes({"none"}, "CREATED", FALSE)
    BY <2>1, <2>2, GiftRowKeeps DEF GiftGoes
  <2>3. ASSUME NEW from, NEW to \in {"FUNDED", "CLAIMING"}, GiftGoes(from, to, TRUE) PROVE EligInv'
    BY <2>3, GiftRowKeeps
  <2>4. CASE GiftGoes({"CREATED", "FUNDED"}, "EXPIRED", gift.balanceId)
    BY <1>1, <2>4, GiftRowKeeps
  <2>5. ASSUME NEW from, NEW to \in {"CLAIMED", "REFUNDED"}, GiftGoes(from, to, TRUE), funds["escrow"] # "above"
        PROVE  EligInv'
    BY <2>5, GiftRowKeeps
  <2>6. CASE GiftLands
    BY <1>3, <2>6 DEF GiftLands
  <2>7. CASE EscrowPays("outside") \/ EscrowPays("wallet")
    BY <1>3, <2>7 DEF EscrowPays
  <2> QED
    BY <1>4, <2>2, <2>3, <2>4, <2>5, <2>6, <2>7 DEF GiftMoves
<1>5. ASSUME NEW list \in SUBSET Vaults, Redeploy(list) PROVE EligInv'
  <2>1. CheckInv' /\ check' \in CheckRow
    BY <1>5, NoCheckHolds, NoCheckTypes DEF Redeploy
  <2> QED
    BY <1>5, <2>1 DEF Redeploy, EligInv, EligTypeOK, WorldInv, Touched
<1>6. CASE Pays
  BY <1>3, <1>6 DEF Pays
<1> QED
  BY <1>2, <1>4, <1>5, <1>6, RowsKeep DEF AccountGoesOn

\* A read of the check: what it takes off the list it has noted, if it found anything.
LEMMA ReadNotes ==
    ASSUME EligInv, UNCHANGED <<op, gift, funds, allowed>>, check.reading, check.answer # "eligible",
           NEW todo \in SUBSET ReadNames, NEW blocked \in BOOLEAN, NEW throttled \in BOOLEAN, NEW unread \in BOOLEAN,
           check.blocked => blocked, check.throttled => throttled, check.unread => unread,
           check' = [check EXCEPT !.todo = todo, !.blocked = blocked, !.throttled = throttled, !.unread = unread],
           \A o \in check.stayed : op[o].kind \in check.todo => op[o].kind \in todo \/ blocked,
           funds["wallet"] = "above" => ("wallet" \in check.todo => "wallet" \in todo \/ blocked \/ unread),
           funds["escrow"] = "above" /\ check.giftKnown => ("gifts" \in check.todo => "gifts" \in todo \/ blocked),
           \A v \in Vaults : funds[v] = "above" /\ (v \in check.todo \/ "scope" \in check.todo) =>
               v \in todo \/ "scope" \in todo \/ blocked \/ throttled
    PROVE  EligInv'
<1>1. check \in CheckRow
  BY DEF EligInv, EligTypeOK
<1>2. /\ check' \in CheckRow /\ check'.reading = check.reading /\ check'.todo = todo
      /\ check'.blocked = blocked /\ check'.throttled = throttled /\ check'.stayed = check.stayed
      /\ check'.giftKnown = check.giftKnown /\ check'.unread = unread /\ check'.answer = check.answer
      /\ check'.quiet = check.quiet
  BY <1>1 DEF CheckRow
<1>3. Noted /\ (\A o \in check.stayed : InFlight(o)) /\ (check.giftKnown => gift.balanceId)
  BY DEF EligInv, CheckInv
<1>4. Noted'
  <2>1. \A o \in check'.stayed : op'[o].kind \in check'.todo \/ check'.blocked
    BY <1>2, <1>3 DEF Noted
  <2>2. ASSUME check'.quiet
        PROVE  /\ funds'["wallet"] = "above" => "wallet" \in check'.todo \/ check'.blocked \/ check'.unread
               /\ funds'["escrow"] = "above" /\ check'.giftKnown => "gifts" \in check'.todo \/ check'.blocked
               /\ \A v \in Vaults : funds'[v] = "above" =>
                     v \in check'.todo \/ "scope" \in check'.todo \/ check'.blocked \/ check'.throttled
    <3>1. /\ funds["wallet"] = "above" => "wallet" \in check.todo \/ check.blocked \/ check.unread
          /\ funds["escrow"] = "above" /\ check.giftKnown => "gifts" \in check.todo \/ check.blocked
          /\ \A v \in Vaults : funds[v] = "above" =>
                v \in check.todo \/ "scope" \in check.todo \/ check.blocked \/ check.throttled
      BY <1>2, <1>3, <2>2 DEF Noted
    <3> QED
      BY <1>2, <3>1
  <2> QED
    BY <2>1, <2>2 DEF Noted
<1>5. CheckInv'
  BY <1>2, <1>3, <1>4 DEF CheckInv, InFlight
<1>6. WorldInv'
  BY DEF EligInv, WorldInv, Touched
<1> QED
  BY <1>2, <1>5, <1>6 DEF EligInv, EligTypeOK

\* What ReadNotes needs of the others is that they are left on the list.
LEMMA SeesNotes ==
    ASSUME EligInv, NEW what, NEW found \in BOOLEAN, Sees(what, found),
           \A o \in check.stayed : op[o].kind = what => found,
           funds["wallet"] = "above" /\ what = "wallet" => found,
           funds["escrow"] = "above" /\ check.giftKnown /\ what = "gifts" => found,
           what # "scope",
           \A v \in Vaults : funds[v] = "above" /\ what = v => found
    PROVE  EligInv'
<1>1. check \in CheckRow /\ what \in check.todo /\ UNCHANGED <<op, gift, funds, allowed>>
  BY DEF EligInv, EligTypeOK, Sees
<1>2. check.reading /\ check.answer # "eligible"
  BY <1>1 DEF EligInv, CheckInv
<1> DEFINE todo == check.todo \ {what}
           blocked == check.blocked \/ found
<1>3. /\ todo \in SUBSET ReadNames /\ blocked \in BOOLEAN /\ check.throttled \in BOOLEAN /\ check.unread \in BOOLEAN
      /\ check.blocked \in BOOLEAN
  BY <1>1 DEF CheckRow
<1>4. check' = [check EXCEPT !.todo = todo, !.blocked = blocked, !.throttled = check.throttled, !.unread = check.unread]
  <2>1. check' = [check EXCEPT !.todo = todo, !.blocked = blocked]
    BY DEF Sees
  <2> HIDE DEF todo, blocked
  <2> QED
    BY <1>1, <2>1 DEF CheckRow
<1>5. /\ \A o \in check.stayed : op[o].kind \in check.todo => op[o].kind \in todo \/ blocked
      /\ funds["wallet"] = "above" => ("wallet" \in check.todo => "wallet" \in todo \/ blocked \/ check.unread)
      /\ funds["escrow"] = "above" /\ check.giftKnown => ("gifts" \in check.todo => "gifts" \in todo \/ blocked)
      /\ \A v \in Vaults : funds[v] = "above" /\ (v \in check.todo \/ "scope" \in check.todo) =>
            v \in todo \/ "scope" \in todo \/ blocked \/ check.throttled
      /\ check.blocked => blocked
  OBVIOUS
<1> HIDE DEF todo, blocked
<1> QED
  BY <1>1, <1>2, <1>3, <1>4, <1>5, ReadNotes

\* A check that starts has everything still to read.
LEMMA CheckStartKeeps == ASSUME EligInv, CheckStart PROVE EligInv'
<1> DEFINE todo == {"scope", "wallet", "gifts"} \cup {op[o].kind : o \in Ops}
           stayed == {o \in Ops : InFlight(o)}
           new == [NoCheck EXCEPT !.reading = TRUE, !.todo = todo, !.stayed = stayed, !.giftKnown = gift.balanceId]
<1>1. check' = new /\ UNCHANGED <<op, gift, funds, allowed>> /\ op \in [Ops -> OpRow] /\ gift.balanceId \in BOOLEAN
  BY DEF CheckStart, EligInv, EligTypeOK
<1>2. todo \subseteq ReadNames /\ stayed \subseteq Ops
  BY <1>1 DEF ReadNames, OpRow
<1>3. /\ \A o \in stayed : InFlight(o) /\ op[o].kind \in todo
      /\ "scope" \in todo /\ "wallet" \in todo /\ "gifts" \in todo
  OBVIOUS
<1> HIDE DEF todo, stayed
<1>4. /\ new \in CheckRow /\ new.todo = todo /\ new.stayed = stayed /\ new.giftKnown = gift.balanceId
      /\ new.answer = "none" /\ new.reading = TRUE
  BY <1>1, <1>2, NoCheckTypes DEF NoCheck, CheckRow
<1> HIDE DEF new
<1>5. Noted'
  BY <1>1, <1>3, <1>4 DEF Noted
<1>6. CheckInv'
  BY <1>1, <1>3, <1>4, <1>5 DEF CheckInv, InFlight
<1>7. WorldInv'
  BY <1>1 DEF EligInv, WorldInv, Touched
<1> QED
  BY <1>1, <1>4, <1>6, <1>7 DEF EligInv, EligTypeOK

\* The vaults of the account are put on the list: those with money are among them.
LEMMA ScopeKeeps == ASSUME EligInv, ReadScope PROVE EligInv'
<1>1. /\ check \in CheckRow /\ "scope" \in check.todo /\ UNCHANGED <<op, gift, funds, allowed>>
      /\ allowed \subseteq Vaults /\ op \in [Ops -> OpRow]
  BY DEF EligInv, EligTypeOK, ReadScope
<1>2. check.reading /\ check.answer # "eligible"
  BY <1>1 DEF EligInv, CheckInv
<1>3. Scope \subseteq Vaults /\ \A v \in Vaults : funds[v] = "above" => v \in Scope
  BY <1>1 DEF Scope, Touched, EligInv, WorldInv
<1> DEFINE todo == (check.todo \ {"scope"}) \cup Scope
<1>4. todo \in SUBSET ReadNames
  BY <1>1, <1>3 DEF CheckRow, ReadNames
<1>5. check' = [check EXCEPT !.todo = todo, !.blocked = check.blocked, !.throttled = check.throttled,
                             !.unread = check.unread]
  <2>1. check' = [check EXCEPT !.todo = todo]
    BY DEF ReadScope
  <2> HIDE DEF todo
  <2> QED
    BY <1>1, <2>1 DEF CheckRow
<1>6. /\ \A o \in check.stayed : op[o].kind \in check.todo => op[o].kind \in todo
      /\ "wallet" \in check.todo => "wallet" \in todo
      /\ "gifts" \in check.todo => "gifts" \in todo
      /\ \A v \in Vaults : funds[v] = "above" => v \in todo
  <2>1. \A o \in check.stayed : op[o].kind # "scope"
    BY <1>1 DEF CheckRow, OpRow, Kinds
  <2> QED
    BY <1>3, <2>1
<1>7. check.blocked \in BOOLEAN /\ check.throttled \in BOOLEAN /\ check.unread \in BOOLEAN
  BY <1>1 DEF CheckRow
<1> HIDE DEF todo
<1> QED
  BY <1>1, <1>2, <1>4, <1>5, <1>6, <1>7, ReadNotes

\* Horizon does not answer, or DeFindex asks for patience.
LEMMA FailedReadsKeep ==
    ASSUME EligInv, ReadWalletFails \/ \E v \in Vaults : ReadVaultThrottled(v)
    PROVE  EligInv'
<1>1. check \in CheckRow /\ UNCHANGED <<op, gift, funds, allowed>> /\ op \in [Ops -> OpRow]
  BY DEF EligInv, EligTypeOK, ReadWalletFails, ReadVaultThrottled
<1>2. /\ check.blocked \in BOOLEAN /\ check.throttled \in BOOLEAN /\ check.unread \in BOOLEAN
      /\ check.todo \in SUBSET ReadNames /\ \A o \in check.stayed : op[o].kind \in Kinds
  BY <1>1 DEF CheckRow, OpRow
<1>3. CASE ReadWalletFails
  <2> DEFINE todo == check.todo \ {"wallet"}
  <2>1. "wallet" \in check.todo /\ check' = [check EXCEPT !.todo = todo, !.unread = TRUE]
    BY <1>3 DEF ReadWalletFails
  <2>2. check.reading /\ check.answer # "eligible"
    BY <2>1 DEF EligInv, CheckInv
  <2>3. /\ todo \in SUBSET ReadNames
        /\ \A o \in check.stayed : op[o].kind \in check.todo => op[o].kind \in todo
        /\ "gifts" \in check.todo => "gifts" \in todo
        /\ \A v \in Vaults : v \in check.todo => v \in todo
        /\ "scope" \in check.todo => "scope" \in todo
    BY <1>2, PlacesAre DEF Kinds
  <2> HIDE DEF todo
  <2>4. check' = [check EXCEPT !.todo = todo, !.blocked = check.blocked, !.throttled = check.throttled, !.unread = TRUE]
    BY <1>1, <2>1 DEF CheckRow
  <2> QED
    BY <1>1, <1>2, <2>2, <2>3, <2>4, ReadNotes
<1>4. ASSUME NEW v \in Vaults, ReadVaultThrottled(v) PROVE EligInv'
  <2> DEFINE todo == check.todo \ {v}
  <2>1. v \in check.todo /\ check' = [check EXCEPT !.todo = todo, !.throttled = TRUE]
    BY <1>4 DEF ReadVaultThrottled
  <2>2. check.reading /\ check.answer # "eligible"
    BY <2>1 DEF EligInv, CheckInv
  <2>3. /\ todo \in SUBSET ReadNames
        /\ \A o \in check.stayed : op[o].kind \in check.todo => op[o].kind \in todo
        /\ "gifts" \in check.todo => "gifts" \in todo
        /\ "wallet" \in check.todo => "wallet" \in todo
    BY <1>2, NameAssumption
  <2> HIDE DEF todo
  <2>4. check' = [check EXCEPT !.todo = todo, !.blocked = check.blocked, !.throttled = TRUE, !.unread = check.unread]
    BY <1>1, <2>1 DEF CheckRow
  <2> QED
    BY <1>1, <1>2, <2>2, <2>3, <2>4, ReadNotes
<1> QED
  BY <1>3, <1>4

\* A gift whose row named its balance when the check began, and whose money is still in
\* escrow, is one that blocks.
LEMMA ReadsKeep ==
    ASSUME EligInv,
           \/ ReadWallet \/ ReadGifts
           \/ \E v \in Vaults : ReadVault(v) \/ ReadVaultFails(v)
           \/ \E k \in Kinds : ReadCount(k)
    PROVE  EligInv'
<1>1. /\ op \in [Ops -> OpRow] /\ check.stayed \subseteq Ops /\ gift.balanceId \in BOOLEAN
      /\ funds \in [Places -> {"dust", "above"}]
      /\ gift.row \in {"none", "CREATED", "FUNDED", "CLAIMING", "CLAIMED", "EXPIRED", "REFUNDED"}
  BY DEF EligInv, EligTypeOK, CheckRow
<1>2. \A o \in check.stayed : op[o].kind \in Kinds /\ InFlight(o)
  BY <1>1 DEF OpRow, EligInv, CheckInv
<1>3. CASE ReadWallet
  <2>1. Sees("wallet", funds["wallet"] = "above") /\ (funds["wallet"] = "above") \in BOOLEAN
    BY <1>3 DEF ReadWallet
  <2>2. \A o \in check.stayed : op[o].kind # "wallet"
    BY <1>2 DEF Kinds
  <2> QED
    BY <2>1, <2>2, SeesNotes, PlacesAre
<1>4. CASE ReadGifts
  <2> DEFINE found == gift.row \in {"FUNDED", "CLAIMING"} \/ (gift.row = "EXPIRED" /\ gift.balanceId)
  <2>1. Sees("gifts", found) /\ found \in BOOLEAN
    BY <1>4 DEF ReadGifts
  <2>2. \A o \in check.stayed : op[o].kind # "gifts"
    BY <1>2 DEF Kinds
  <2>3. funds["escrow"] = "above" /\ check.giftKnown => found
    BY <1>1 DEF EligInv, CheckInv, WorldInv
  <2>4. "gifts" \notin Vaults
    BY NameAssumption
  <2> HIDE DEF found
  <2> QED
    BY <2>1, <2>2, <2>3, <2>4, SeesNotes
<1>5. ASSUME NEW v \in Vaults, ReadVault(v) \/ ReadVaultFails(v) PROVE EligInv'
  <2>1. PICK found \in BOOLEAN : Sees(v, found) /\ (funds[v] = "above" => found)
    <3>1. (funds[v] = "above") \in BOOLEAN
      OBVIOUS
    <3>2. CASE ReadVault(v)
      BY <3>1, <3>2 DEF ReadVault
    <3>3. CASE ReadVaultFails(v)
      BY <3>3 DEF ReadVaultFails
    <3> QED
      BY <1>5, <3>2, <3>3
  <2>2. v \notin Kinds /\ v \notin {"scope", "wallet", "gifts"}
    BY NameAssumption
  <2>3. \A o \in check.stayed : op[o].kind # v
    BY <1>2, <2>2
  <2> QED
    BY <2>1, <2>2, <2>3, SeesNotes
<1>6. ASSUME NEW k \in Kinds, ReadCount(k) PROVE EligInv'
  <2> DEFINE found == \E o \in Ops : op[o].kind = k /\ InFlight(o)
  <2>1. Sees(k, found) /\ found \in BOOLEAN
    BY <1>6 DEF ReadCount
  <2>2. \A o \in check.stayed : op[o].kind = k => found
    BY <1>1, <1>2
  <2>3. k \notin Vaults /\ k \notin {"scope", "wallet", "gifts"}
    BY NameAssumption DEF Kinds
  <2> HIDE DEF found
  <2> QED
    BY <2>1, <2>2, <2>3, SeesNotes
<1> QED
  BY <1>3, <1>4, <1>5, <1>6

\* A check that ends eligible had nothing left to read and nothing noted.
LEMMA CheckEndKeeps == ASSUME EligInv, CheckEnd PROVE EligInv'
<1> DEFINE new == [check EXCEPT !.reading = FALSE, !.todo = {}, !.answer = Answer(check)]
<1>1. check' = new /\ UNCHANGED <<op, gift, funds, allowed>> /\ check \in CheckRow /\ check.reading
      /\ (check.todo = {} \/ check.throttled)
  BY DEF CheckEnd, EligInv, EligTypeOK
<1>2. Answer(check) \in {"eligible", "blocked", "unavailable"}
      /\ (Answer(check) = "eligible" => ~check.throttled /\ ~check.blocked)
  BY DEF Answer
<1>3. /\ new \in CheckRow /\ new.reading = FALSE /\ new.todo = {} /\ new.answer = Answer(check)
      /\ new.blocked = check.blocked /\ new.throttled = check.throttled /\ new.stayed = check.stayed
      /\ new.giftKnown = check.giftKnown /\ new.unread = check.unread /\ new.quiet = check.quiet
  BY <1>1, <1>2 DEF CheckRow
<1> HIDE DEF new
<1>4. Answer(check) = "eligible" => Noted'
  <2> SUFFICES ASSUME Answer(check) = "eligible" PROVE Noted'
    OBVIOUS
  <2>1. Noted /\ check.todo = {}
    BY <1>1, <1>2 DEF EligInv, CheckInv
  <2> QED
    BY <1>1, <1>3, <2>1 DEF Noted
<1>5. CheckInv'
  BY <1>1, <1>2, <1>3, <1>4 DEF EligInv, CheckInv, InFlight
<1>6. WorldInv'
  BY <1>1 DEF EligInv, WorldInv, Touched
<1> QED
  BY <1>1, <1>3, <1>5, <1>6 DEF EligInv, EligTypeOK

\* EligInv is inductive: it holds whatever the account does between two reads of a check.
THEOREM EligibilityInvariant == EligSpec => []EligInv
<1>1. EligInit => EligInv
  BY EligInitial
<1>2. EligInv /\ [EligNext]_eligVars => EligInv'
  <2> SUFFICES ASSUME EligInv, [EligNext]_eligVars PROVE EligInv'
    OBVIOUS
  <2>1. CASE UNCHANGED eligVars
    BY <2>1 DEF eligVars, EligInv, EligTypeOK, WorldInv, Touched, CheckInv, Noted, InFlight
  <2>2. CASE CheckFails
    <3>1. CheckInv' /\ check' \in CheckRow
      BY <2>2, NoCheckHolds, NoCheckTypes DEF CheckFails
    <3> QED
      BY <2>2, <3>1 DEF CheckFails, EligInv, EligTypeOK, WorldInv, Touched
  <2>3. CASE CheckGoesOn
    BY <2>2, <2>3, CheckStartKeeps, ScopeKeeps, ReadsKeep, FailedReadsKeep, CheckEndKeeps DEF CheckGoesOn
  <2> QED
    BY <2>1, <2>3, AccountKeeps DEF EligNext
<1> QED
  BY <1>1, <1>2, PTL DEF EligSpec

\* An account that the check found eligible has no operation on its way that was there all
\* along and, if nothing moved meanwhile, nothing left above the dust in any place that
\* the check was able to read.
THEOREM EligibleIsFree == EligSpec => []EligibleMeansFree
<1>1. EligInv => EligibleMeansFree
  <2> SUFFICES ASSUME EligInv, check.answer = "eligible" PROVE EligibleMeansFree
    BY DEF EligibleMeansFree
  <2>1. Noted /\ ~check.blocked /\ ~check.throttled /\ check.todo = {}
    BY DEF EligInv, CheckInv
  <2>2. check.stayed = {}
    BY <2>1 DEF Noted
  <2>3. \A p \in Places : p \in {"wallet", "escrow"} \/ p \in Vaults
    BY DEF Places
  <2> QED
    BY <2>1, <2>2, <2>3 DEF Noted, EligibleMeansFree
<1> QED
  BY <1>1, EligibilityInvariant, PTL

-----------------------------------------------------------------------------
(* The answers to a request for information.                               *)

\* An answer without a fault is complete and within what was asked: it is "a single
\* submission" that a fault would burn (rfi-validation.ts:64-65).
THEOREM FaultlessAnswerIsComplete ==
    ASSUME NEW asked \in SUBSET Fields, NEW responses,
           \A f, g \in asked : f.key = g.key => f = g,
           Faults(asked, responses) = {}
    PROVE  /\ DOMAIN Body(asked, responses) \subseteq {f.key : f \in asked}
           /\ \A f \in asked : f.required => f.key \in DOMAIN Body(asked, responses)
<1>1. DOMAIN Body(asked, responses) = {f.key : f \in Sent(asked, responses)}
  BY DEF Body
<1>2. Sent(asked, responses) \subseteq asked
  BY DEF Sent
<1>3. ASSUME NEW f \in asked, f.required
      PROVE  f \in Sent(asked, responses)
  <2>1. ~(IF IsBlank(responses[f.key]) THEN f.required ELSE ~ValueOk(f, responses[f.key]))
    BY DEF Faults
  <2> QED
    BY <2>1, <1>3 DEF Sent
<1> QED
  BY <1>1, <1>2, <1>3

\* Of a field with a list of options, only options are sent, and never more than 20
\* (rfi-validation.ts:36-42, :84-90).
THEOREM OnlyOptionsAreSent ==
    ASSUME NEW asked \in SUBSET Fields, NEW responses,
           NEW f \in Sent(asked, responses), f.multiple, f.items # {}
    PROVE  /\ Len(AsList(responses[f.key])) <= 20
           /\ \A i \in DOMAIN AsList(responses[f.key]) : AsList(responses[f.key])[i] \in f.items
<1>1. ValueOk(f, responses[f.key])
  BY DEF Sent
<1> QED
  BY <1>1 DEF ValueOk, ScalarOk, Max_Multiple_Values
=============================================================================
