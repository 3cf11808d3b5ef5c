-------------------------- MODULE ConversionProofs --------------------------
(***************************************************************************)
(* The safety of conversions, for any number of conversions, deposits and  *)
(* requests: every action preserves ConversionInv.                         *)
(***************************************************************************)
EXTENDS ConversionProperties, ConversionQuote, TLAPS

USE NoneAssumption

\* The initial states satisfy the invariant.
LEMMA InitInv == Init => ConversionInv
BY DEF Init, ConversionInv, TypeOK, RowInv, HandlerInv, OneBuilder, DepositInv, Submitting,
       ConversionStatus

\* A request that creates a conversion is the only one to move it until it is built.
LEMMA CreateStep ==
    ASSUME ConversionInv, NEW r \in Requests,
           \/ \E c \in Conversions : CreateLookup(r, c)
           \/ CreateInsert(r) \/ BuildXdr(r) \/ BuildXdrFails(r)
    PROVE  ConversionInv'
<1> USE DEF ConversionInv, TypeOK, ConversionStatus, Take, Step, Return, Write, conversion,
            deposits
<1>1. CASE \E c \in Conversions : CreateLookup(r, c)
  <2>1. PICK c \in Conversions : CreateLookup(r, c)
    BY <1>1
  <2>2. TypeOK'
    BY <2>1 DEF CreateLookup
  <2>3. ASSUME NEW k \in Conversions PROVE RowInv(k)'
    BY <2>1 DEF CreateLookup, RowInv
  <2>4. ASSUME NEW q \in Requests PROVE HandlerInv(q)'
    BY <2>1 DEF CreateLookup, HandlerInv, Submitting
  <2>5. OneBuilder'
    BY <2>1 DEF CreateLookup, OneBuilder
  <2>6. ASSUME NEW d \in Deposits PROVE DepositInv(d)'
    BY <2>1 DEF CreateLookup, DepositInv
  <2> QED
    BY <2>2, <2>3, <2>4, <2>5, <2>6
<1>2. CASE CreateInsert(r)
  <2>1. TypeOK'
    BY <1>2 DEF CreateInsert, HandlerInv
  <2>2. ASSUME NEW k \in Conversions PROVE RowInv(k)'
    BY <1>2 DEF CreateInsert, RowInv, HandlerInv
  <2>3. ASSUME NEW q \in Requests PROVE HandlerInv(q)'
    BY <1>2 DEF CreateInsert, HandlerInv, RowInv, Submitting
  <2>4. OneBuilder'
    BY <1>2 DEF CreateInsert, OneBuilder, HandlerInv
  <2>5. ASSUME NEW d \in Deposits PROVE DepositInv(d)'
    BY <1>2 DEF CreateInsert, DepositInv
  <2> QED
    BY <2>1, <2>2, <2>3, <2>4, <2>5
<1>3. CASE BuildXdr(r)
  <2>1. TypeOK'
    BY <1>3 DEF BuildXdr, HandlerInv
  <2>2. ASSUME NEW k \in Conversions PROVE RowInv(k)'
    BY <1>3 DEF BuildXdr, RowInv, HandlerInv
  <2>3. ASSUME NEW q \in Requests PROVE HandlerInv(q)'
    BY <1>3 DEF BuildXdr, HandlerInv, RowInv, Submitting, OneBuilder
  <2>4. OneBuilder'
    BY <1>3 DEF BuildXdr, OneBuilder, HandlerInv
  <2>5. ASSUME NEW d \in Deposits PROVE DepositInv(d)'
    BY <1>3 DEF BuildXdr, DepositInv
  <2> QED
    BY <2>1, <2>2, <2>3, <2>4, <2>5
<1>4. CASE BuildXdrFails(r)
  <2>1. TypeOK'
    BY <1>4 DEF BuildXdrFails
  <2>2. ASSUME NEW k \in Conversions PROVE RowInv(k)'
    BY <1>4 DEF BuildXdrFails, RowInv
  <2>3. ASSUME NEW q \in Requests PROVE HandlerInv(q)'
    BY <1>4 DEF BuildXdrFails, HandlerInv, Submitting
  <2>4. OneBuilder'
    BY <1>4 DEF BuildXdrFails, OneBuilder
  <2>5. ASSUME NEW d \in Deposits PROVE DepositInv(d)'
    BY <1>4 DEF BuildXdrFails, DepositInv
  <2> QED
    BY <2>1, <2>2, <2>3, <2>4, <2>5
<1> QED
  BY <1>1, <1>2, <1>3, <1>4

\* A submission writes over whatever status the row has by then, but never over
\* one that says the transaction was not sent.
LEMMA SubmitStep ==
    ASSUME ConversionInv, NEW r \in Requests,
           \/ \E c \in Conversions : SubmitCheck(r, c)
           \/ SubmitSign(r) \/ SubmitSend(r) \/ SubmitLanded(r) \/ SubmitThrows(r)
           \/ SubmitRead(r) \/ SubmitConfirm(r) \/ Fail(r)
    PROVE  ConversionInv'
<1> USE DEF ConversionInv, TypeOK, ConversionStatus, Take, Step, Return, Write, conversion,
            deposits
<1>1. CASE \E c \in Conversions : SubmitCheck(r, c)
  <2>1. PICK c \in Conversions : SubmitCheck(r, c)
    BY <1>1
  <2>2. TypeOK'
    BY <2>1 DEF SubmitCheck
  <2>3. ASSUME NEW k \in Conversions PROVE RowInv(k)'
    BY <2>1 DEF SubmitCheck, RowInv
  <2>4. ASSUME NEW q \in Requests PROVE HandlerInv(q)'
    BY <2>1 DEF SubmitCheck, Submittable, HandlerInv, Submitting
  <2>5. OneBuilder'
    BY <2>1 DEF SubmitCheck, Submittable, OneBuilder, HandlerInv
  <2>6. ASSUME NEW d \in Deposits PROVE DepositInv(d)'
    BY <2>1 DEF SubmitCheck, DepositInv
  <2> QED
    BY <2>2, <2>3, <2>4, <2>5, <2>6
<1>2. CASE SubmitSign(r)
  <2>1. TypeOK'
    BY <1>2 DEF SubmitSign, HandlerInv
  <2>2. ASSUME NEW k \in Conversions PROVE RowInv(k)'
    BY <1>2 DEF SubmitSign, RowInv, HandlerInv
  <2>3. ASSUME NEW q \in Requests PROVE HandlerInv(q)'
    BY <1>2 DEF SubmitSign, HandlerInv, RowInv, Submitting
  <2>4. OneBuilder'
    BY <1>2 DEF SubmitSign, OneBuilder
  <2>5. ASSUME NEW d \in Deposits PROVE DepositInv(d)'
    BY <1>2 DEF SubmitSign, DepositInv
  <2> QED
    BY <2>1, <2>2, <2>3, <2>4, <2>5
<1>3. CASE SubmitSend(r)
  <2>1. TypeOK'
    BY <1>3 DEF SubmitSend, HandlerInv
  <2>2. ASSUME NEW k \in Conversions PROVE RowInv(k)'
    BY <1>3 DEF SubmitSend, RowInv, HandlerInv, Submitting
  <2>3. ASSUME NEW q \in Requests PROVE HandlerInv(q)'
    BY <1>3 DEF SubmitSend, HandlerInv, Submitting
  <2>4. OneBuilder'
    BY <1>3 DEF SubmitSend, OneBuilder
  <2>5. ASSUME NEW d \in Deposits PROVE DepositInv(d)'
    BY <1>3 DEF SubmitSend, DepositInv
  <2> QED
    BY <2>1, <2>2, <2>3, <2>4, <2>5
<1>4. CASE SubmitLanded(r) \/ SubmitThrows(r) \/ SubmitRead(r)
  <2> USE DEF SubmitLanded, SubmitThrows, SubmitRead
  <2>1. TypeOK'
    BY <1>4
  <2>2. ASSUME NEW k \in Conversions PROVE RowInv(k)'
    BY <1>4 DEF RowInv
  <2>3. ASSUME NEW q \in Requests PROVE HandlerInv(q)'
    BY <1>4 DEF HandlerInv, Submitting, Success
  <2>4. OneBuilder'
    BY <1>4 DEF OneBuilder, HandlerInv, Submitting
  <2>5. ASSUME NEW d \in Deposits PROVE DepositInv(d)'
    BY <1>4 DEF DepositInv
  <2> QED
    BY <2>1, <2>2, <2>3, <2>4, <2>5
<1>5. CASE SubmitConfirm(r)
  <2>1. TypeOK'
    BY <1>5 DEF SubmitConfirm, ReceivedAmount, HandlerInv
  <2>2. ASSUME NEW k \in Conversions PROVE RowInv(k)'
    BY <1>5 DEF SubmitConfirm, ReceivedAmount, RowInv, HandlerInv
  <2>3. ASSUME NEW q \in Requests PROVE HandlerInv(q)'
    BY <1>5 DEF SubmitConfirm, ReceivedAmount, HandlerInv, RowInv, Submitting
  <2>4. OneBuilder'
    BY <1>5 DEF SubmitConfirm, OneBuilder, HandlerInv
  <2>5. ASSUME NEW d \in Deposits PROVE DepositInv(d)'
    BY <1>5 DEF SubmitConfirm, ReceivedAmount, DepositInv
  <2> QED
    BY <2>1, <2>2, <2>3, <2>4, <2>5
<1>6. CASE Fail(r)
  <2>1. TypeOK'
    BY <1>6 DEF Fail, HandlerInv
  <2>2. ASSUME NEW k \in Conversions PROVE RowInv(k)'
    BY <1>6 DEF Fail, RowInv, HandlerInv
  <2>3. ASSUME NEW q \in Requests PROVE HandlerInv(q)'
    BY <1>6 DEF Fail, HandlerInv, RowInv, Submitting, OneBuilder
  <2>4. OneBuilder'
    BY <1>6 DEF Fail, OneBuilder, HandlerInv
  <2>5. ASSUME NEW d \in Deposits PROVE DepositInv(d)'
    BY <1>6 DEF Fail, DepositInv
  <2> QED
    BY <2>1, <2>2, <2>3, <2>4, <2>5
<1> QED
  BY <1>1, <1>2, <1>3, <1>4, <1>5, <1>6

\* A deposit starts from a conversion that was seen confirmed and measured, and
\* neither the landing nor the amount is ever taken back.
LEMMA DepositStep ==
    ASSUME ConversionInv, NEW r \in Requests,
           \/ \E c \in Conversions : \E d \in Deposits : DepositCheck(r, c, d)
           \/ DepositInsert(r) \/ DepositAttach(r) \/ DepositBuild(r)
    PROVE  ConversionInv'
<1> USE DEF ConversionInv, TypeOK, ConversionStatus, Take, Step, Return, conversion, deposits
<1>1. CASE \E c \in Conversions : \E d \in Deposits : DepositCheck(r, c, d)
  <2>1. PICK c \in Conversions, d \in Deposits : DepositCheck(r, c, d)
    BY <1>1
  <2>2. TypeOK'
    BY <2>1 DEF DepositCheck
  <2>3. ASSUME NEW k \in Conversions PROVE RowInv(k)'
    BY <2>1 DEF DepositCheck, RowInv
  <2>4. ASSUME NEW q \in Requests PROVE HandlerInv(q)'
    BY <2>1 DEF DepositCheck, Consumable, HandlerInv, RowInv, Submitting
  <2>5. OneBuilder'
    BY <2>1 DEF DepositCheck, OneBuilder
  <2>6. ASSUME NEW k \in Deposits PROVE DepositInv(k)'
    BY <2>1 DEF DepositCheck, DepositInv
  <2> QED
    BY <2>2, <2>3, <2>4, <2>5, <2>6
<1>2. CASE DepositInsert(r)
  <2>1. TypeOK'
    BY <1>2 DEF DepositInsert, HandlerInv
  <2>2. ASSUME NEW k \in Conversions PROVE RowInv(k)'
    BY <1>2 DEF DepositInsert, RowInv
  <2>3. ASSUME NEW q \in Requests PROVE HandlerInv(q)'
    BY <1>2 DEF DepositInsert, HandlerInv, Submitting
  <2>4. OneBuilder'
    BY <1>2 DEF DepositInsert, OneBuilder
  <2>5. ASSUME NEW d \in Deposits PROVE DepositInv(d)'
    BY <1>2 DEF DepositInsert, DepositInv, HandlerInv
  <2> QED
    BY <2>1, <2>2, <2>3, <2>4, <2>5
<1>3. CASE DepositAttach(r)
  <2>1. TypeOK'
    BY <1>3 DEF DepositAttach, HandlerInv
  <2>2. ASSUME NEW k \in Conversions PROVE RowInv(k)'
    BY <1>3 DEF DepositAttach, RowInv
  <2>3. ASSUME NEW q \in Requests PROVE HandlerInv(q)'
    BY <1>3 DEF DepositAttach, HandlerInv, Submitting
  <2>4. OneBuilder'
    BY <1>3 DEF DepositAttach, OneBuilder
  <2>5. ASSUME NEW d \in Deposits PROVE DepositInv(d)'
    BY <1>3 DEF DepositAttach, DepositInv
  <2> QED
    BY <2>1, <2>2, <2>3, <2>4, <2>5
<1>4. CASE DepositBuild(r)
  <2>1. PICK built \in {"XDR_GENERATED", "FAILED"} :
            deposit' = [deposit EXCEPT ![reqDeposit[r]] = built]
    BY <1>4 DEF DepositBuild
  <2>2. TypeOK'
    BY <1>4, <2>1 DEF DepositBuild, HandlerInv
  <2>3. ASSUME NEW k \in Conversions PROVE RowInv(k)'
    BY <1>4 DEF DepositBuild, RowInv
  <2>4. ASSUME NEW q \in Requests PROVE HandlerInv(q)'
    BY <1>4, <2>1 DEF DepositBuild, HandlerInv, Submitting
  <2>5. OneBuilder'
    BY <1>4 DEF DepositBuild, OneBuilder, HandlerInv
  <2>6. ASSUME NEW d \in Deposits PROVE DepositInv(d)'
    BY <1>4, <2>1 DEF DepositBuild, DepositInv, HandlerInv
  <2> QED
    BY <2>2, <2>3, <2>4, <2>5, <2>6
<1> QED
  BY <1>1, <1>2, <1>3, <1>4

\* The client leaves, the sweep runs, the clock passes and the network settles.
LEMMA EnvironmentStep ==
    ASSUME ConversionInv,
           \/ \E r \in Requests : Abort(r)
           \/ ExpireUnsigned
           \/ \E c \in Conversions : ExpiryPasses(c) \/ Settle(c)
    PROVE  ConversionInv'
<1> USE DEF ConversionInv, TypeOK, ConversionStatus, Return, conversion, deposits, reqVars
<1>1. CASE \E r \in Requests : Abort(r)
  <2>1. PICK r \in Requests : Abort(r)
    BY <1>1
  <2>2. TypeOK'
    BY <2>1 DEF Abort
  <2>3. ASSUME NEW k \in Conversions PROVE RowInv(k)'
    BY <2>1 DEF Abort, RowInv
  <2>4. ASSUME NEW q \in Requests PROVE HandlerInv(q)'
    BY <2>1 DEF Abort, HandlerInv, Submitting
  <2>5. OneBuilder'
    BY <2>1 DEF Abort, OneBuilder, HandlerInv
  <2>6. ASSUME NEW d \in Deposits PROVE DepositInv(d)'
    BY <2>1 DEF Abort, DepositInv
  <2> QED
    BY <2>2, <2>3, <2>4, <2>5, <2>6
<1>2. CASE ExpireUnsigned
  <2> USE DEF Expirable
  <2>1. TypeOK'
    BY <1>2 DEF ExpireUnsigned
  <2>2. ASSUME NEW k \in Conversions PROVE RowInv(k)'
    BY <1>2 DEF ExpireUnsigned, RowInv
  <2>3. ASSUME NEW q \in Requests PROVE HandlerInv(q)'
    BY <1>2 DEF ExpireUnsigned, HandlerInv, Submitting
  <2>4. OneBuilder'
    BY <1>2 DEF ExpireUnsigned, OneBuilder
  <2>5. ASSUME NEW d \in Deposits PROVE DepositInv(d)'
    BY <1>2 DEF ExpireUnsigned, DepositInv
  <2> QED
    BY <2>1, <2>2, <2>3, <2>4, <2>5
<1>3. CASE \E c \in Conversions : ExpiryPasses(c)
  <2>1. PICK c \in Conversions : ExpiryPasses(c)
    BY <1>3
  <2>2. TypeOK'
    BY <2>1 DEF ExpiryPasses
  <2>3. ASSUME NEW k \in Conversions PROVE RowInv(k)'
    BY <2>1 DEF ExpiryPasses, RowInv
  <2>4. ASSUME NEW q \in Requests PROVE HandlerInv(q)'
    BY <2>1 DEF ExpiryPasses, HandlerInv, Submitting
  <2>5. OneBuilder'
    BY <2>1 DEF ExpiryPasses, OneBuilder
  <2>6. ASSUME NEW d \in Deposits PROVE DepositInv(d)'
    BY <2>1 DEF ExpiryPasses, DepositInv
  <2> QED
    BY <2>2, <2>3, <2>4, <2>5, <2>6
<1>4. CASE \E c \in Conversions : Settle(c)
  <2>1. PICK c \in Conversions, outcome \in {"landed", "void"} :
            /\ Settle(c)
            /\ chain' = [chain EXCEPT ![c] = outcome]
    BY <1>4 DEF Settle
  <2>2. TypeOK'
    BY <2>1 DEF Settle
  <2>3. ASSUME NEW k \in Conversions PROVE RowInv(k)'
    BY <2>1 DEF Settle, RowInv
  <2>4. ASSUME NEW q \in Requests PROVE HandlerInv(q)'
    BY <2>1 DEF Settle, HandlerInv, Submitting
  <2>5. OneBuilder'
    BY <2>1 DEF Settle, OneBuilder
  <2>6. ASSUME NEW d \in Deposits PROVE DepositInv(d)'
    BY <2>1 DEF Settle, DepositInv
  <2> QED
    BY <2>2, <2>3, <2>4, <2>5, <2>6
<1> QED
  BY <1>1, <1>2, <1>3, <1>4

\* Every step, and every stutter, preserves the invariant.
LEMMA NextInv == ConversionInv /\ [Next]_vars => ConversionInv'
<1> SUFFICES ASSUME ConversionInv, [Next]_vars
             PROVE  ConversionInv'
  OBVIOUS
<1>1. ASSUME NEW r \in Requests, RequestNext(r)
      PROVE  ConversionInv'
  <2>1. CASE \/ \E c \in Conversions : CreateLookup(r, c)
             \/ CreateInsert(r) \/ BuildXdr(r) \/ BuildXdrFails(r)
    BY <2>1, CreateStep
  <2>2. CASE \/ \E c \in Conversions : SubmitCheck(r, c)
             \/ SubmitSign(r) \/ SubmitSend(r) \/ SubmitLanded(r) \/ SubmitThrows(r)
             \/ SubmitRead(r) \/ SubmitConfirm(r) \/ Fail(r)
    BY <2>2, SubmitStep
  <2>3. CASE \/ \E c \in Conversions : \E d \in Deposits : DepositCheck(r, c, d)
             \/ DepositInsert(r) \/ DepositAttach(r) \/ DepositBuild(r)
    BY <2>3, DepositStep
  <2>4. CASE Abort(r)
    BY <2>4, EnvironmentStep
  <2> QED
    BY <1>1, <2>1, <2>2, <2>3, <2>4 DEF RequestNext, Handle
<1>2. CASE UNCHANGED vars
  BY <1>2 DEF vars, ConversionInv, TypeOK, RowInv, HandlerInv, OneBuilder, DepositInv
<1> QED
  BY <1>1, <1>2, EnvironmentStep DEF Next

-----------------------------------------------------------------------------
\* The inductive invariant holds in every behaviour of the program.
THEOREM ConversionInvariant == Spec => []ConversionInv
<1>1. Init => ConversionInv
  BY InitInv
<1>2. ConversionInv /\ [Next]_vars => ConversionInv'
  BY NextInv
<1> QED
  BY <1>1, <1>2, PTL DEF Spec

\* A confirmed conversion happened, whatever requests overlapped with each other and
\* with the sweep.
THEOREM ConfirmedWasConverted == Spec => []ConfirmedMeansConverted
<1>1. ConversionInv => ConfirmedMeansConverted
  BY DEF ConversionInv, TypeOK, RowInv, ConfirmedMeansConverted
<1> QED
  BY <1>1, ConversionInvariant, PTL

\* A conversion that is told to be expired never moved anything, and never will: the sweep
\* spares what was sent.
THEOREM ExpiredDidNotMove == Spec => []ExpiredNeverMoved
<1>1. ConversionInv => ExpiredNeverMoved
  BY DEF ConversionInv, TypeOK, RowInv, ExpiredNeverMoved
<1> QED
  BY <1>1, ConversionInvariant, PTL

\* No deposit is made from a conversion that did not land or was not measured.
THEOREM DepositsAreSized == Spec => []DepositSizedByArrival
<1>1. ConversionInv => DepositSizedByArrival
  BY DEF ConversionInv, DepositInv, DepositSizedByArrival
<1> QED
  BY <1>1, ConversionInvariant, PTL

\* An amount that is known stays known.
THEOREM AmountsStay == Spec => ReceivedAmountIsKept
<1>1. ConversionInv /\ [Next]_vars =>
          [\A c \in Conversions : received[c] => received'[c]]_vars
  <2> SUFFICES ASSUME ConversionInv, Next, NEW c \in Conversions, received[c]
               PROVE  received'[c]
    BY DEF vars
  <2>1. CASE \E r \in Requests : SubmitConfirm(r)
    BY <2>1 DEF ConversionInv, TypeOK, HandlerInv, SubmitConfirm, ReceivedAmount
  <2>2. CASE received' = received
    BY <2>2
  <2>3. received' = received \/ \E r \in Requests : SubmitConfirm(r)
    BY DEF Next, RequestNext, Handle, CreateLookup, CreateInsert, BuildXdr, BuildXdrFails,
           SubmitCheck, SubmitSign, SubmitSend, SubmitLanded, SubmitThrows, SubmitRead, Fail,
           DepositCheck, DepositInsert, DepositAttach, DepositBuild, Abort, ExpireUnsigned,
           ExpiryPasses, Settle, conversion
  <2> QED
    BY <2>1, <2>2, <2>3
<1> QED
  BY <1>1, ConversionInvariant, PTL DEF Spec, ReceivedAmountIsKept

-----------------------------------------------------------------------------
(* The floor of a conversion, and the registry of its assets.              *)

\* Products grow with their factors.
LEMMA TimesGrows ==
    ASSUME NEW a \in Nat, NEW b \in Nat, NEW c \in Nat, a <= b
    PROVE  a * c <= b * c /\ c * a <= c * b
<1>1. PICK d \in Nat : b = a + d
  BY a <= b
<1>2. b * c = a * c + d * c /\ d * c \in Nat
  BY <1>1
<1> QED
  BY <1>2

\* The quotient rounds down by less than one.
LEMMA QuotientIsNear ==
    ASSUME NEW n \in Nat
    PROVE  /\ n \div 10000 \in Nat
           /\ 10000 * (n \div 10000) <= n
           /\ n < 10000 * (n \div 10000) + 10000
  OBVIOUS

\* "destMin is the floor the operation enforces on chain: below it the payment fails
\* atomically and the user keeps their funds" (quote.service.ts:97-99): a floor that is
\* negative or above the price would protect no one, or fail every payment.
THEOREM FloorIsBelowPrice ==
    ASSUME NEW dest \in Nat, NEW bps \in 0 .. 10000
    PROVE  DestMin(dest, bps) \in Nat /\ DestMin(dest, bps) <= dest
<1> DEFINE n == dest * (10000 - bps)
<1>1. 10000 - bps \in Nat /\ 10000 - bps <= 10000
  OBVIOUS
<1>2. n \in Nat /\ n <= dest * 10000
  BY <1>1, TimesGrows
<1>3. DestMin(dest, bps) = n \div 10000
  BY DEF DestMin
<1> HIDE DEF n
<1>4. n \div 10000 \in Nat /\ 10000 * (n \div 10000) <= n
  BY <1>2, QuotientIsNear
<1> QED
  BY <1>2, <1>3, <1>4

\* What the floor gives away is the slippage, and less than one stroop of rounding.
THEOREM FloorGivesAwayTheSlippage ==
    ASSUME NEW dest \in Nat, NEW bps \in 0 .. 10000
    PROVE  /\ dest * bps <= 10000 * (dest - DestMin(dest, bps))
           /\ 10000 * (dest - DestMin(dest, bps)) < dest * bps + 10000
<1> DEFINE n == dest * (10000 - bps)
<1>0. 10000 - bps \in Nat
  OBVIOUS
<1>1. n = dest * 10000 - dest * bps
  OBVIOUS
<1>n. n \in Nat
  BY <1>0
<1>2. DestMin(dest, bps) = n \div 10000
  BY DEF DestMin
<1>3. dest * bps \in Nat
  OBVIOUS
<1> HIDE DEF n
<1>4. /\ n \div 10000 \in Nat
      /\ 10000 * (n \div 10000) <= n
      /\ n < 10000 * (n \div 10000) + 10000
  BY <1>n, QuotientIsNear
<1> QED
  BY <1>1, <1>2, <1>3, <1>4

\* A better price never has a lower floor.
THEOREM BetterPriceBetterFloor ==
    ASSUME NEW dest \in Nat, NEW more \in Nat, dest <= more, NEW bps \in 0 .. 10000
    PROVE  DestMin(dest, bps) <= DestMin(more, bps)
<1> DEFINE c == 10000 - bps
<1>1. c \in Nat
  OBVIOUS
<1>2. DestMin(dest, bps) = (dest * c) \div 10000 /\ DestMin(more, bps) = (more * c) \div 10000
  BY DEF DestMin
<1> HIDE DEF c
<1>3. dest * c \in Nat /\ more * c \in Nat
  BY <1>1
<1>4. dest * c <= more * c
  BY <1>1, TimesGrows
<1> DEFINE m == dest * c
           n == more * c
<1>5. m \in Nat /\ n \in Nat /\ m <= n
  BY <1>3, <1>4
<1>6. DestMin(dest, bps) = m \div 10000 /\ DestMin(more, bps) = n \div 10000
  BY <1>2
<1> HIDE DEF m, n
<1>7. /\ m \div 10000 \in Nat /\ 10000 * (m \div 10000) <= m
      /\ n \div 10000 \in Nat /\ n < 10000 * (n \div 10000) + 10000
  BY <1>5, QuotientIsNear
<1> QED
  BY <1>5, <1>6, <1>7

\* In a valid registry whose symbols differ in capitals too, and none of which is called
\* "native", every asset is found by its own symbol, however the caller spells it.
THEOREM SymbolFindsItsAsset ==
    ASSUME NEW r, RegistryOk(r), DOMAIN r \subseteq Nat \ {0},
           \A i, j \in DOMAIN r : i # j => Upper[r[i].symbol] # Upper[r[j].symbol],
           NEW i \in DOMAIN r, Upper[r[i].symbol] # Native,
           NEW s, s # Blank, Upper[Trimmed[s]] = Upper[r[i].symbol]
    PROVE  Find(r, s) = i
<1>1. Wanted(s) = Upper[r[i].symbol]
  BY DEF Wanted
<1>2. Matches(r, s) = {i}
  BY <1>1 DEF Matches
<1>3. \A j \in Matches(r, s) : i <= j
  BY <1>2
<1> QED
  BY <1>2, <1>3 DEF Find
=============================================================================
