----------------------------- MODULE GiftProofs -----------------------------
(***************************************************************************)
(* The safety of gifts, for any number of gifts, claims and job runs:      *)
(* every action preserves GiftInv.                                         *)
(***************************************************************************)
EXTENDS GiftProperties, TLAPS

USE NoneAssumption

\* The initial states satisfy the invariant.
LEMMA InitInv == Init => GiftInv
BY DEF Init, GiftInv, TypeOK, GiftStatus, RowInv, ClaimInv, Holds, ScanInv,
       PushedMeansClaimed, Gone

\* Creating a gift changes no gift that exists.
LEMMA CreateStep ==
    ASSUME GiftInv, NEW r \in Creators,
           \/ \E g \in Gifts : CreateCheck(r, g)
           \/ CreateInsert(r)
    PROVE  GiftInv'
<1> USE DEF GiftInv, TypeOK, GiftStatus, row, ledger, claims, scans
<1>1. CASE \E g \in Gifts : CreateCheck(r, g)
  <2>1. PICK g \in Gifts : CreateCheck(r, g)
    BY <1>1
  <2>2. TypeOK'
    BY <2>1 DEF CreateCheck
  <2>3. ASSUME NEW k \in Gifts PROVE RowInv(k)'
    BY <2>1 DEF CreateCheck, RowInv, Gone
  <2>4. ASSUME NEW d \in Claims PROVE ClaimInv(d)'
    BY <2>1 DEF CreateCheck, ClaimInv, Holds
  <2>5. ASSUME NEW q \in Jobs PROVE ScanInv(q)'
    BY <2>1 DEF CreateCheck, ScanInv, Gone
  <2>6. PushedMeansClaimed'
    BY <2>1 DEF CreateCheck, PushedMeansClaimed
  <2> QED
    BY <2>2, <2>3, <2>4, <2>5, <2>6
<1>2. CASE CreateInsert(r)
  <2>1. TypeOK'
    BY <1>2 DEF CreateInsert
  <2>2. ASSUME NEW k \in Gifts PROVE RowInv(k)'
    BY <1>2 DEF CreateInsert, RowInv, Gone
  <2>3. ASSUME NEW d \in Claims PROVE ClaimInv(d)'
    BY <1>2 DEF CreateInsert, ClaimInv, Holds, RowInv
  <2>4. ASSUME NEW q \in Jobs PROVE ScanInv(q)'
    BY <1>2 DEF CreateInsert, ScanInv, Gone
  <2>5. PushedMeansClaimed'
    BY <1>2 DEF CreateInsert, PushedMeansClaimed
  <2> QED
    BY <2>1, <2>2, <2>3, <2>4, <2>5
<1> QED
  BY <1>1, <1>2

\* A claim writes the row only under the lock it took, or expires a gift nobody holds.
LEMMA ClaimStep ==
    ASSUME GiftInv, NEW c \in Claims,
           \/ \E g \in Gifts : ClaimLate(c, g)
           \/ \E g \in Gifts : ClaimCheck(c, g)
           \/ ClaimLock(c)
           \/ ClaimSubmit(c)
           \/ ClaimPaid(c)
           \/ ClaimMark(c)
           \/ ClaimNotify(c)
           \/ ClaimFails(c)
           \/ ClaimMarkUnanswered(c)
           \/ ClaimCrash(c)
    PROVE  GiftInv'
<1> USE DEF GiftInv, TypeOK, GiftStatus, row, ledger, claims, scans
<1>1. CASE \E g \in Gifts : ClaimLate(c, g)
  <2>1. PICK g \in Gifts : ClaimLate(c, g)
    BY <1>1
  <2>2. TypeOK'
    BY <2>1 DEF ClaimLate
  <2>3. ASSUME NEW k \in Gifts PROVE RowInv(k)'
    BY <2>1 DEF ClaimLate, RowInv, Gone
  <2>4. ASSUME NEW d \in Claims PROVE ClaimInv(d)'
    BY <2>1 DEF ClaimLate, ClaimInv, Holds
  <2>5. ASSUME NEW q \in Jobs PROVE ScanInv(q)'
    BY <2>1 DEF ClaimLate, ScanInv, Gone
  <2>6. PushedMeansClaimed'
    BY <2>1 DEF ClaimLate, PushedMeansClaimed
  <2> QED
    BY <2>2, <2>3, <2>4, <2>5, <2>6
<1>2. CASE \E g \in Gifts : ClaimCheck(c, g)
  <2>1. PICK g \in Gifts : ClaimCheck(c, g)
    BY <1>2
  <2>2. TypeOK'
    BY <2>1 DEF ClaimCheck
  <2>3. ASSUME NEW k \in Gifts PROVE RowInv(k)'
    BY <2>1 DEF ClaimCheck, RowInv, Gone
  <2>4. ASSUME NEW d \in Claims PROVE ClaimInv(d)'
    BY <2>1 DEF ClaimCheck, ClaimInv, Holds
  <2>5. ASSUME NEW q \in Jobs PROVE ScanInv(q)'
    BY <2>1 DEF ClaimCheck, ScanInv, Gone
  <2>6. PushedMeansClaimed'
    BY <2>1 DEF ClaimCheck, PushedMeansClaimed
  <2> QED
    BY <2>2, <2>3, <2>4, <2>5, <2>6
<1>3. CASE ClaimLock(c)
  <2>1. TypeOK'
    BY <1>3 DEF ClaimLock, Lockable, ClaimInv
  <2>2. ASSUME NEW k \in Gifts PROVE RowInv(k)'
    BY <1>3 DEF ClaimLock, Lockable, RowInv, Gone
  <2>3. ASSUME NEW d \in Claims PROVE ClaimInv(d)'
    BY <1>3 DEF ClaimLock, Lockable, ClaimInv, Holds
  <2>4. ASSUME NEW q \in Jobs PROVE ScanInv(q)'
    BY <1>3 DEF ClaimLock, Lockable, ScanInv, Gone, ClaimInv
  <2>5. PushedMeansClaimed'
    BY <1>3 DEF ClaimLock, Lockable, PushedMeansClaimed, ClaimInv
  <2> QED
    BY <2>1, <2>2, <2>3, <2>4, <2>5
<1>4. CASE ClaimSubmit(c)
  <2>1. TypeOK'
    BY <1>4 DEF ClaimSubmit, Move
  <2>2. ASSUME NEW k \in Gifts PROVE RowInv(k)'
    BY <1>4 DEF ClaimSubmit, Move, RowInv, Gone
  <2>3. ASSUME NEW d \in Claims PROVE ClaimInv(d)'
    BY <1>4 DEF ClaimSubmit, Move, ClaimInv, Holds
  <2>4. ASSUME NEW q \in Jobs PROVE ScanInv(q)'
    BY <1>4 DEF ClaimSubmit, Move, ScanInv, Gone
  <2>5. PushedMeansClaimed'
    BY <1>4 DEF ClaimSubmit, Move, PushedMeansClaimed
  <2> QED
    BY <2>1, <2>2, <2>3, <2>4, <2>5
<1>5. CASE ClaimPaid(c)
  <2>1. TypeOK'
    BY <1>5 DEF ClaimPaid, Move, Applied
  <2>2. ASSUME NEW k \in Gifts PROVE RowInv(k)'
    BY <1>5 DEF ClaimPaid, Move, Applied, RowInv, Gone
  <2>3. ASSUME NEW d \in Claims PROVE ClaimInv(d)'
    BY <1>5 DEF ClaimPaid, Move, Applied, ClaimInv, Holds
  <2>4. ASSUME NEW q \in Jobs PROVE ScanInv(q)'
    BY <1>5 DEF ClaimPaid, Move, Applied, ScanInv, Gone
  <2>5. PushedMeansClaimed'
    BY <1>5 DEF ClaimPaid, Move, Applied, PushedMeansClaimed
  <2> QED
    BY <2>1, <2>2, <2>3, <2>4, <2>5
<1>6. CASE ClaimMark(c)
  <2>1. TypeOK'
    BY <1>6 DEF ClaimMark, Move, ClaimInv
  <2>2. ASSUME NEW k \in Gifts PROVE RowInv(k)'
    BY <1>6 DEF ClaimMark, Move, RowInv, Gone, ClaimInv, Holds
  <2>3. ASSUME NEW d \in Claims PROVE ClaimInv(d)'
    BY <1>6 DEF ClaimMark, Move, ClaimInv, Holds
  <2>4. ASSUME NEW q \in Jobs PROVE ScanInv(q)'
    BY <1>6 DEF ClaimMark, Move, ScanInv, Gone, ClaimInv, Holds
  <2>5. PushedMeansClaimed'
    BY <1>6 DEF ClaimMark, Move, PushedMeansClaimed, ClaimInv, Holds
  <2> QED
    BY <2>1, <2>2, <2>3, <2>4, <2>5
<1>7. CASE ClaimNotify(c)
  <2>1. TypeOK'
    BY <1>7 DEF ClaimNotify, Move, ClaimInv
  <2>2. ASSUME NEW k \in Gifts PROVE RowInv(k)'
    BY <1>7 DEF ClaimNotify, Move, RowInv, Gone
  <2>3. ASSUME NEW d \in Claims PROVE ClaimInv(d)'
    BY <1>7 DEF ClaimNotify, Move, ClaimInv, Holds
  <2>4. ASSUME NEW q \in Jobs PROVE ScanInv(q)'
    BY <1>7 DEF ClaimNotify, Move, ScanInv, Gone
  <2>5. PushedMeansClaimed'
    BY <1>7 DEF ClaimNotify, Move, PushedMeansClaimed, ClaimInv
  <2> QED
    BY <2>1, <2>2, <2>3, <2>4, <2>5
<1>8. CASE ClaimFails(c)
  <2>1. TypeOK'
    BY <1>8 DEF ClaimFails, Revert, ClaimInv
  <2>2. ASSUME NEW k \in Gifts PROVE RowInv(k)'
    BY <1>8 DEF ClaimFails, Revert, RowInv, Gone, ClaimInv, Holds
  <2>3. ASSUME NEW d \in Claims PROVE ClaimInv(d)'
    BY <1>8 DEF ClaimFails, Revert, ClaimInv, Holds
  <2>4. ASSUME NEW q \in Jobs PROVE ScanInv(q)'
    BY <1>8 DEF ClaimFails, Revert, ScanInv, Gone, ClaimInv, Holds
  <2>5. PushedMeansClaimed'
    BY <1>8 DEF ClaimFails, Revert, PushedMeansClaimed, ClaimInv, Holds
  <2> QED
    BY <2>1, <2>2, <2>3, <2>4, <2>5
<1>9. CASE ClaimMarkUnanswered(c)
  <2>1. TypeOK'
    BY <1>9 DEF ClaimMarkUnanswered, Revert, ClaimInv
  <2>2. ASSUME NEW k \in Gifts PROVE RowInv(k)'
    BY <1>9 DEF ClaimMarkUnanswered, Revert, RowInv, Gone, ClaimInv
  <2>3. ASSUME NEW d \in Claims PROVE ClaimInv(d)'
    BY <1>9 DEF ClaimMarkUnanswered, Revert, ClaimInv, Holds
  <2>4. ASSUME NEW q \in Jobs PROVE ScanInv(q)'
    BY <1>9 DEF ClaimMarkUnanswered, Revert, ScanInv, Gone, ClaimInv
  <2>5. PushedMeansClaimed'
    BY <1>9 DEF ClaimMarkUnanswered, Revert, PushedMeansClaimed, ClaimInv
  <2> QED
    BY <2>1, <2>2, <2>3, <2>4, <2>5
<1>10. CASE ClaimCrash(c)
  <2>1. TypeOK'
    BY <1>10 DEF ClaimCrash
  <2>2. ASSUME NEW k \in Gifts PROVE RowInv(k)'
    BY <1>10 DEF ClaimCrash, RowInv, Gone
  <2>3. ASSUME NEW d \in Claims PROVE ClaimInv(d)'
    BY <1>10 DEF ClaimCrash, ClaimInv, Holds
  <2>4. ASSUME NEW q \in Jobs PROVE ScanInv(q)'
    BY <1>10 DEF ClaimCrash, ScanInv, Gone
  <2>5. PushedMeansClaimed'
    BY <1>10 DEF ClaimCrash, PushedMeansClaimed
  <2> QED
    BY <2>1, <2>2, <2>3, <2>4, <2>5
<1> QED
  BY <1>1, <1>2, <1>3, <1>4, <1>5, <1>6, <1>7, <1>8, <1>9, <1>10

\* The ledger pays a balance once, and never gives it back.
LEMMA LedgerStep ==
    ASSUME GiftInv,
           \/ \E c \in Claims : PaymentApplied(c)
           \/ \E c \in Claims : PaymentDropped(c)
           \/ \E g \in Gifts : Fund(g)
           \/ \E g \in Gifts : Reclaim(g)
           \/ \E g \in Gifts : ExpiryPasses(g)
    PROVE  GiftInv'
<1> USE DEF GiftInv, TypeOK, GiftStatus, row, ledger, claims, scans
<1>1. CASE \E c \in Claims : PaymentApplied(c)
  <2>1. PICK c \in Claims : PaymentApplied(c)
    BY <1>1
  <2>2. TypeOK'
    BY <2>1 DEF PaymentApplied, ClaimInv
  <2>3. ASSUME NEW k \in Gifts PROVE RowInv(k)'
    BY <2>1 DEF PaymentApplied, RowInv, Gone, ClaimInv
  <2>4. ASSUME NEW d \in Claims PROVE ClaimInv(d)'
    BY <2>1 DEF PaymentApplied, ClaimInv, Holds, RowInv
  <2>5. ASSUME NEW q \in Jobs PROVE ScanInv(q)'
    BY <2>1 DEF PaymentApplied, ScanInv, Gone
  <2>6. PushedMeansClaimed'
    BY <2>1 DEF PaymentApplied, PushedMeansClaimed
  <2> QED
    BY <2>2, <2>3, <2>4, <2>5, <2>6
<1>2. CASE \E c \in Claims : PaymentDropped(c)
  <2>1. PICK c \in Claims : PaymentDropped(c)
    BY <1>2
  <2>2. TypeOK'
    BY <2>1 DEF PaymentDropped
  <2>3. ASSUME NEW k \in Gifts PROVE RowInv(k)'
    BY <2>1 DEF PaymentDropped, RowInv, Gone
  <2>4. ASSUME NEW d \in Claims PROVE ClaimInv(d)'
    BY <2>1 DEF PaymentDropped, ClaimInv, Holds
  <2>5. ASSUME NEW q \in Jobs PROVE ScanInv(q)'
    BY <2>1 DEF PaymentDropped, ScanInv, Gone
  <2>6. PushedMeansClaimed'
    BY <2>1 DEF PaymentDropped, PushedMeansClaimed
  <2> QED
    BY <2>2, <2>3, <2>4, <2>5, <2>6
<1>3. CASE \E g \in Gifts : Fund(g)
  <2>1. PICK g \in Gifts : Fund(g)
    BY <1>3
  <2>2. TypeOK'
    BY <2>1 DEF Fund
  <2>3. ASSUME NEW k \in Gifts PROVE RowInv(k)'
    BY <2>1 DEF Fund, RowInv, Gone
  <2>4. ASSUME NEW d \in Claims PROVE ClaimInv(d)'
    BY <2>1 DEF Fund, ClaimInv, Holds
  <2>5. ASSUME NEW q \in Jobs PROVE ScanInv(q)'
    BY <2>1 DEF Fund, ScanInv, Gone
  <2>6. PushedMeansClaimed'
    BY <2>1 DEF Fund, PushedMeansClaimed
  <2> QED
    BY <2>2, <2>3, <2>4, <2>5, <2>6
<1>4. CASE \E g \in Gifts : Reclaim(g)
  <2>1. PICK g \in Gifts : Reclaim(g)
    BY <1>4
  <2>2. TypeOK'
    BY <2>1 DEF Reclaim
  <2>3. ASSUME NEW k \in Gifts PROVE RowInv(k)'
    BY <2>1 DEF Reclaim, RowInv, Gone
  <2>4. ASSUME NEW d \in Claims PROVE ClaimInv(d)'
    BY <2>1 DEF Reclaim, ClaimInv, Holds, RowInv
  <2>5. ASSUME NEW q \in Jobs PROVE ScanInv(q)'
    BY <2>1 DEF Reclaim, ScanInv, Gone
  <2>6. PushedMeansClaimed'
    BY <2>1 DEF Reclaim, PushedMeansClaimed
  <2> QED
    BY <2>2, <2>3, <2>4, <2>5, <2>6
<1>5. CASE \E g \in Gifts : ExpiryPasses(g)
  <2>1. PICK g \in Gifts : ExpiryPasses(g)
    BY <1>5
  <2>2. TypeOK'
    BY <2>1 DEF ExpiryPasses
  <2>3. ASSUME NEW k \in Gifts PROVE RowInv(k)'
    BY <2>1 DEF ExpiryPasses, RowInv, Gone
  <2>4. ASSUME NEW d \in Claims PROVE ClaimInv(d)'
    BY <2>1 DEF ExpiryPasses, ClaimInv, Holds
  <2>5. ASSUME NEW q \in Jobs PROVE ScanInv(q)'
    BY <2>1 DEF ExpiryPasses, ScanInv, Gone
  <2>6. PushedMeansClaimed'
    BY <2>1 DEF ExpiryPasses, PushedMeansClaimed
  <2> QED
    BY <2>2, <2>3, <2>4, <2>5, <2>6
<1> QED
  BY <1>1, <1>2, <1>3, <1>4, <1>5

\* A run that acts on what it saw earlier finds the gift where it left it, or moved on.
LEMMA JobStep ==
    ASSUME GiftInv, NEW j \in Jobs,
           \/ FundScan(j)
           \/ \E g \in Gifts : FundMark(j, g)
           \/ \E g \in Gifts : RefundScan(j, g)
           \/ \E g \in Gifts : RefundMark(j, g)
           \/ JobCrash(j)
    PROVE  GiftInv'
<1> USE DEF GiftInv, TypeOK, GiftStatus, row, ledger, claims, scans
<1>1. CASE FundScan(j)
  <2>1. TypeOK'
    BY <1>1 DEF FundScan, Matched
  <2>2. ASSUME NEW k \in Gifts PROVE RowInv(k)'
    BY <1>1 DEF FundScan, Matched, RowInv, Gone
  <2>3. ASSUME NEW d \in Claims PROVE ClaimInv(d)'
    BY <1>1 DEF FundScan, Matched, ClaimInv, Holds
  <2>4. ASSUME NEW q \in Jobs PROVE ScanInv(q)'
    BY <1>1 DEF FundScan, Matched, ScanInv, Gone
  <2>5. PushedMeansClaimed'
    BY <1>1 DEF FundScan, Matched, PushedMeansClaimed
  <2> QED
    BY <2>1, <2>2, <2>3, <2>4, <2>5
<1>2. CASE \E g \in Gifts : FundMark(j, g)
  <2>1. PICK g \in Gifts : FundMark(j, g)
    BY <1>2
  <2>2. TypeOK'
    BY <2>1 DEF FundMark, Fundable
  <2>3. ASSUME NEW k \in Gifts PROVE RowInv(k)'
    BY <2>1 DEF FundMark, Fundable, RowInv, Gone, ScanInv
  <2>4. ASSUME NEW d \in Claims PROVE ClaimInv(d)'
    BY <2>1 DEF FundMark, Fundable, ClaimInv, Holds
  <2>5. ASSUME NEW q \in Jobs PROVE ScanInv(q)'
    BY <2>1 DEF FundMark, Fundable, ScanInv, Gone
  <2>6. PushedMeansClaimed'
    BY <2>1 DEF FundMark, Fundable, PushedMeansClaimed
  <2> QED
    BY <2>2, <2>3, <2>4, <2>5, <2>6
<1>3. CASE \E g \in Gifts : RefundScan(j, g)
  <2>1. PICK g \in Gifts : RefundScan(j, g)
    BY <1>3
  <2>2. TypeOK'
    BY <2>1 DEF RefundScan, SeenGone
  <2>3. ASSUME NEW k \in Gifts PROVE RowInv(k)'
    BY <2>1 DEF RefundScan, SeenGone, RowInv, Gone
  <2>4. ASSUME NEW d \in Claims PROVE ClaimInv(d)'
    BY <2>1 DEF RefundScan, SeenGone, ClaimInv, Holds
  <2>5. ASSUME NEW q \in Jobs PROVE ScanInv(q)'
    BY <2>1 DEF RefundScan, SeenGone, ScanInv, Gone
  <2>6. PushedMeansClaimed'
    BY <2>1 DEF RefundScan, SeenGone, PushedMeansClaimed
  <2> QED
    BY <2>2, <2>3, <2>4, <2>5, <2>6
<1>4. CASE \E g \in Gifts : RefundMark(j, g)
  <2>1. PICK g \in Gifts : RefundMark(j, g)
    BY <1>4
  <2>2. TypeOK'
    BY <2>1 DEF RefundMark, Refund
  <2>3. ASSUME NEW k \in Gifts PROVE RowInv(k)'
    BY <2>1 DEF RefundMark, Refund, RowInv, Gone, ScanInv
  <2>4. ASSUME NEW d \in Claims PROVE ClaimInv(d)'
    BY <2>1 DEF RefundMark, Refund, ClaimInv, Holds, ScanInv
  <2>5. ASSUME NEW q \in Jobs PROVE ScanInv(q)'
    BY <2>1 DEF RefundMark, Refund, ScanInv, Gone
  <2>6. PushedMeansClaimed'
    BY <2>1 DEF RefundMark, Refund, PushedMeansClaimed, ScanInv
  <2> QED
    BY <2>2, <2>3, <2>4, <2>5, <2>6
<1>5. CASE JobCrash(j)
  <2>1. TypeOK'
    BY <1>5 DEF JobCrash
  <2>2. ASSUME NEW k \in Gifts PROVE RowInv(k)'
    BY <1>5 DEF JobCrash, RowInv, Gone
  <2>3. ASSUME NEW d \in Claims PROVE ClaimInv(d)'
    BY <1>5 DEF JobCrash, ClaimInv, Holds
  <2>4. ASSUME NEW q \in Jobs PROVE ScanInv(q)'
    BY <1>5 DEF JobCrash, ScanInv, Gone
  <2>5. PushedMeansClaimed'
    BY <1>5 DEF JobCrash, PushedMeansClaimed
  <2> QED
    BY <2>1, <2>2, <2>3, <2>4, <2>5
<1> QED
  BY <1>1, <1>2, <1>3, <1>4, <1>5

\* The expiry leaves alone what a claim holds.
LEMMA ExpiryStep ==
    ASSUME GiftInv,
           ExpireGifts
    PROVE  GiftInv'
<1> USE DEF GiftInv, TypeOK, GiftStatus, row, ledger, claims, scans
<1>1. CASE ExpireGifts
  <2>1. TypeOK'
    BY <1>1 DEF ExpireGifts, Expirable
  <2>2. ASSUME NEW k \in Gifts PROVE RowInv(k)'
    BY <1>1 DEF ExpireGifts, Expirable, RowInv, Gone
  <2>3. ASSUME NEW d \in Claims PROVE ClaimInv(d)'
    BY <1>1 DEF ExpireGifts, Expirable, ClaimInv, Holds
  <2>4. ASSUME NEW q \in Jobs PROVE ScanInv(q)'
    BY <1>1 DEF ExpireGifts, Expirable, ScanInv, Gone
  <2>5. PushedMeansClaimed'
    BY <1>1 DEF ExpireGifts, Expirable, PushedMeansClaimed
  <2> QED
    BY <2>1, <2>2, <2>3, <2>4, <2>5
<1> QED
  BY <1>1

\* The invariant is inductive.
LEMMA NextInv == GiftInv /\ [Next]_vars => GiftInv'
<1> SUFFICES ASSUME GiftInv, [Next]_vars PROVE GiftInv'
  OBVIOUS
<1>1. CASE UNCHANGED vars
  BY <1>1 DEF vars, GiftInv, TypeOK, GiftStatus, RowInv, ClaimInv, Holds, ScanInv,
              PushedMeansClaimed, Gone
<1>2. CASE \E r \in Creators : CreateInsert(r) \/ \E g \in Gifts : CreateCheck(r, g)
  BY <1>2, CreateStep
<1>3. CASE \E c \in Claims : ClaimNext(c)
  BY <1>3, ClaimStep, LedgerStep DEF ClaimNext
<1>4. CASE \E j \in Jobs : JobNext(j)
  BY <1>4, JobStep DEF JobNext
<1>5. CASE \E g \in Gifts : GiftNext(g)
  BY <1>5, LedgerStep DEF GiftNext
<1>6. CASE ExpireGifts
  BY <1>6, ExpiryStep
<1> QED
  BY <1>1, <1>2, <1>3, <1>4, <1>5, <1>6 DEF Next

\* Every reachable state satisfies the invariant.
THEOREM GiftInvariant == Spec => []GiftInv
<1>1. Init => GiftInv
  BY InitInv
<1>2. GiftInv /\ [Next]_vars => GiftInv'
  BY NextInv
<1> QED
  BY <1>1, <1>2, PTL DEF Spec

\* Two claims never work on a gift at once, whatever fails or is answered late.
THEOREM LockHolds == Spec => []LockIsExclusive
<1>1. GiftInv => LockIsExclusive
  BY DEF GiftInv, ClaimInv, LockIsExclusive
<1> QED
  BY <1>1, GiftInvariant, PTL

\* A gift marked CLAIMED was paid to the recipient its row names.
THEOREM ClaimedWasPaid == Spec => []ClaimedIsPaidToRecipient
<1>1. GiftInv => ClaimedIsPaidToRecipient
  BY DEF GiftInv, RowInv, ClaimedIsPaidToRecipient
<1> QED
  BY <1>1, GiftInvariant, PTL

\* A gift that is offered, claimed or refunded was funded on chain, under the balance that
\* its row names.
THEOREM ClaimableGiftsAreFunded == Spec => []ClaimableIsBacked
<1>1. GiftInv => ClaimableIsBacked
  BY DEF GiftInv, RowInv, ClaimableIsBacked
<1> QED
  BY <1>1, GiftInvariant, PTL

\* A REFUNDED gift leaves nothing in escrow: its balance was claimed or reclaimed, whichever
\* job run or claim was on its way when the row was closed.
THEOREM RefundsLeaveNothing == Spec => []RefundedLeavesNothing
<1>1. GiftInv => RefundedLeavesNothing
  BY DEF GiftInv, RowInv, RefundedLeavesNothing
<1> QED
  BY <1>1, GiftInvariant, PTL

\* CLAIMED and REFUNDED are final, and EXPIRED only becomes REFUNDED.
THEOREM EndsStay == Spec => EndsAreFinal
<1> DEFINE Final ==
      \A g \in Gifts : /\ status[g] = "CLAIMED" => status[g]' = "CLAIMED"
                       /\ status[g] = "REFUNDED" => status[g]' = "REFUNDED"
                       /\ status[g] = "EXPIRED" => status[g]' \in {"EXPIRED", "REFUNDED"}
<1>1. GiftInv /\ [Next]_vars => [Final]_vars
  <2> SUFFICES ASSUME GiftInv, Next, NEW g \in Gifts,
                      status[g] \in {"CLAIMED", "REFUNDED", "EXPIRED"}
               PROVE  \/ status[g]' = status[g]
                      \/ status[g] = "EXPIRED" /\ status[g]' = "REFUNDED"
    OBVIOUS
  <2> USE DEF GiftInv, TypeOK, row
  <2>1. CASE \E r \in Creators : CreateInsert(r)
    BY <2>1 DEF CreateInsert
  <2>2. CASE \E c \in Claims : \E k \in Gifts : ClaimLate(c, k)
    BY <2>2 DEF ClaimLate
  <2>3. CASE \E c \in Claims : ClaimLock(c) \/ ClaimMark(c)
    BY <2>3 DEF ClaimLock, Lockable, ClaimMark, Move, ClaimInv, Holds
  <2>4. CASE \E c \in Claims : ClaimFails(c) \/ ClaimMarkUnanswered(c)
    BY <2>4 DEF ClaimFails, ClaimMarkUnanswered, Revert
  <2>5. CASE \E j \in Jobs : \E k \in Gifts : FundMark(j, k) \/ RefundMark(j, k)
    BY <2>5 DEF FundMark, Fundable, RefundMark, Refund, ScanInv
  <2>6. CASE ExpireGifts
    BY <2>6 DEF ExpireGifts, Expirable
  <2>7. CASE status' = status
    BY <2>7
  <2>8. \/ status' = status \/ ExpireGifts
        \/ \E r \in Creators : CreateInsert(r)
        \/ \E c \in Claims : \/ ClaimLock(c) \/ ClaimMark(c) \/ ClaimFails(c)
                             \/ ClaimMarkUnanswered(c) \/ \E k \in Gifts : ClaimLate(c, k)
        \/ \E j \in Jobs : \E k \in Gifts : FundMark(j, k) \/ RefundMark(j, k)
    BY DEF Next, ClaimNext, JobNext, GiftNext, CreateCheck, ClaimCheck, ClaimSubmit, ClaimPaid,
           ClaimNotify, ClaimCrash, PaymentApplied, PaymentDropped, Fund, Reclaim, ExpiryPasses,
           FundScan, Matched, RefundScan, JobCrash
  <2> QED
    BY <2>1, <2>2, <2>3, <2>4, <2>5, <2>6, <2>7, <2>8
<1> QED
  BY <1>1, GiftInvariant, PTL DEF Spec, EndsAreFinal
=============================================================================
