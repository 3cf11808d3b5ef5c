------------------------- MODULE IntentProperties -------------------------
(***************************************************************************)
(* The correctness properties of deposit and withdrawal intents.           *)
(***************************************************************************)
EXTENDS IntentLifecycle

Landed(i) == chain[i] = "landed"

\* SUCCESS is never shown for money that did not move: whatever handlers and job
\* runs overlap, a confirmed row or record means the network applied the
\* transaction (submitDeposit and reconcilePendingTransactions both write it).
ConfirmedMeansLanded ==
    \A i \in Intents :
        (status[i] = "CONFIRMED" \/ record[i] = "CONFIRMED") => Landed(i)

\* Money that moved, or may still move, is never shown as FAILED, REJECTED or
\* EXPIRED, and its row is never purged: no stale handler and no hourly job takes
\* an authorised intent back ("a submitted deposit never becomes EXPIRED").
SentIsNeverGivenUp ==
    \A i \in Intents :
        chain[i] \in {"inflight", "landed"} => ClientState(i) \in {"PENDING", "SUCCESS"}

\* No pending record is passed over for want of a signed XDR: it was stored before,
\* and the transaction had left the backend.
PendingRecordCanBeReconciled ==
    \A i \in Intents :
        i \in PendingRecords => hasSignedXdr[i] /\ chain[i] # "idle"

\* A record says CONFIRMED whenever the intent does: the two are written in one
\* database transaction, and a later unguarded write of the row leaves the record.
ConfirmedRowHasConfirmedRecord ==
    \A i \in Intents : status[i] = "CONFIRMED" => record[i] = "CONFIRMED"

\* "History and detail can never disagree": a confirmed record is never found
\* beside a row that the detail route shows as expired, refused or failed.
HistoryAgreesWithDetail ==
    \A i \in Intents : HistoryState(i) = ClientState(i)

\* The push outbox announces a confirmation only of a transaction that was applied.
PushedMeansLanded == \A i \in pushed : Landed(i)

\* Once the app shows SUCCESS it shows SUCCESS for ever, although a second submit
\* of the same intent writes SIGNED_XDR_RECEIVED over CONFIRMED.
SuccessIsFinal ==
    [][\A i \in Intents : ClientState(i) = "SUCCESS" => ClientState(i)' = "SUCCESS"]_vars

\* A failure the app can explain (one with a code) is final: no handler that
\* read the row earlier turns it back into an authorised intent.
CodedFailureIsFinal ==
    [][\A i \in Intents :
          status[i] = "FAILED" /\ failureCode[i] # "none" => status[i]' \in {"FAILED", "purged"}]_vars

\* A transaction has at most one record, and no handler takes one back: a pending
\* record only becomes confirmed, and one that names no transaction stays as it is.
RecordOnlyAdvances ==
    [][\A i \in Intents :
          /\ record[i] = "PENDING" => record[i]' \in {"PENDING", "CONFIRMED"}
          /\ record[i] = "UNNAMED" => record[i]' = "UNNAMED"
          /\ record[i] = "CONFIRMED" => record[i]' = "CONFIRMED"]_vars

\* The backend keeps the promise it makes to the owner of an intent.
Promise == INSTANCE IntentPromise WITH
    shown <- [i \in Intents |-> ClientState(i)],
    moved <- {i \in Intents : chain[i] = "landed"}
KeepsPromise == Promise!Spec

\* A transaction that landed and whose record names it is eventually shown as SUCCESS,
\* whatever crashes, errors and overlapping runs the reconciliation goes through.  (A
\* record without a hash is passed over by every run.)
LandedRecordSettles ==
    \A i \in Intents :
        (record[i] = "PENDING" /\ Landed(i)) ~> ClientState(i) = "SUCCESS"

-----------------------------------------------------------------------------
(* The inductive invariant behind the safety properties.                   *)

Authorised == {"SIGNED_XDR_RECEIVED", "SUBMITTED", "CONFIRMED"}

\* A row and what the network did, whoever is working on them.
RowInv(i) ==
    /\ status[i] = "absent" => ~late[i]
    /\ hasSignedXdr[i] <=> status[i] \in Authorised
    /\ failureCode[i] # "none" => status[i] \in {"FAILED", "purged"}
    /\ chain[i] # "idle" => hasSignedXdr[i]
    /\ record[i] # "none" => chain[i] # "idle"
    /\ status[i] = "CONFIRMED" => record[i] = "CONFIRMED"
    /\ record[i] = "CONFIRMED" => Landed(i)
    /\ i \in pushed => Landed(i)

\* What a handler read or wrote earlier and may still rely on.
HandlerInv(r) ==
    LET i == reqIntent[r] IN
    /\ reqPc[r] # "idle" => i \in Intents
    /\ reqPc[r] = "building" => status[i] = "CREATED" /\ ~late[i]
    /\ reqPc[r] \in {"checked", "signed", "sent", "confirmed", "unconfirmed"} =>
          status[i] \notin {"absent", "CREATED", "purged"} /\ failureCode[i] = "none"
    /\ reqPc[r] \in {"signed", "sent", "confirmed", "unconfirmed"} => hasSignedXdr[i]
    /\ reqPc[r] \in {"sent", "confirmed", "unconfirmed"} => chain[i] # "idle"
    /\ reqPc[r] = "confirmed" => Landed(i)

\* The key's uniqueness gives a row one creator.
OneBuilder ==
    \A r, q \in Requests :
        reqPc[r] = "building" /\ reqPc[q] = "building" /\ reqIntent[r] = reqIntent[q] => r = q

JobInv(j) ==
    LET i == jobIntent[j] IN
    /\ \A k \in jobBatch[j] : record[k] # "none"
    /\ jobPc[j] \in {"sent", "landed", "notify"} =>
          i \in Intents /\ record[i] \in {"PENDING", "CONFIRMED"}
    /\ jobPc[j] \in {"landed", "notify"} => Landed(i)

IntentInv ==
    /\ TypeOK
    /\ \A i \in Intents : RowInv(i)
    /\ \A r \in Requests : HandlerInv(r)
    /\ OneBuilder
    /\ \A j \in Jobs : JobInv(j)

-----------------------------------------------------------------------------
(* What the repository's documents say of intents, and the code does not.  *)

\* What the app shows as PENDING ("keep polling") and has landed is confirmed by
\* the reconciliation sooner or later.
PendingSettles ==
    \A i \in Intents :
        (ClientState(i) = "PENDING" /\ Landed(i)) ~> ClientState(i) = "SUCCESS"
=============================================================================
