--------------------------- MODULE PushProperties ---------------------------
(***************************************************************************)
(* The correctness properties of the push outbox.                          *)
(***************************************************************************)
EXTENDS PushOutbox

\* "A duplicated push about money confuses more than a lost one": crashes, rows
\* taken for stale, overlapping instances and repeated events never make a second
\* push.  Only an answer of Expo that was lost does, as the row is then sent again.
DuplicateNeedsLostAnswer ==
    \A e \in Events : delivered[e] > 1 => e \in lostAnswer

\* The attempts exceed the limit by what the other instances had read before, and
\* by no more.
AttemptsStayNearLimit ==
    \A e \in Events : pushAttempts[e] <= MaxPushAttempts + Cardinality(Dispatchers) - 1

\* The receipts of a row are not asked for again only when all of them came and
\* were acted on, whichever run read them, or when Expo is about to drop them.
ClosedMeansAnswered ==
    \A e \in Events :
        checked[e] =>
            \/ age[e] \in {"old", "lost"}
            \/ \A t \in tickets[e] : <<e, t>> \in answered

\* A row does not wait for ever, however instances crash and overlap, as long as one of
\* them goes on: it is sent, or given up, with no answer of Expo needed.
OutboxDrains ==
    \A e \in Events : rowStatus[e] \in {"PENDING", "SENDING"} ~> rowStatus[e] \notin {"PENDING", "SENDING"}
=============================================================================
