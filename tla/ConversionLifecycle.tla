------------------------ MODULE ConversionLifecycle ------------------------
(***************************************************************************)
(* Conversions of the funding asset into a vault's asset, each planned for *)
(* one deposit, and the deposits made from them.  A conversion and its     *)
(* deposit are two transactions of the ledger, signed one after the other: *)
(* the second is sized by what the first was seen to yield.                *)
(*                                                                         *)
(* A deposit row is followed here to its XDR; IntentLifecycle has the rest *)
(* of its life.                                                            *)
(***************************************************************************)
EXTENDS Naturals, FiniteSets

CONSTANTS
    Conversions,    \* idempotency keys of conversions
    Deposits,       \* idempotency keys of deposits
    Requests,       \* HTTP requests in progress
    NoConversion, NoDeposit

ASSUME NoneAssumption == NoConversion \notin Conversions /\ NoDeposit \notin Deposits

VARIABLES
    status,         \* AssetConversion.status ("absent": no row yet)
    hasXdr,         \* AssetConversion.unsignedXdr is set
    received,       \* AssetConversion.receivedAmount is set
    depositIntent,  \* AssetConversion.depositIntentId
    late,           \* now > expiresAt
    chain,          \* what the network did with the conversion's one transaction
    deposit,        \* DepositIntent.status of the deposits made from conversions
    source,         \* the conversion a deposit was sized by
    reqPc, reqConversion, reqDeposit

conversion == <<status, hasXdr, received, depositIntent, late>>
deposits   == <<deposit, source>>
reqVars    == <<reqPc, reqConversion, reqDeposit>>
vars       == <<status, hasXdr, received, depositIntent, late, chain, deposit, source,
                reqPc, reqConversion, reqDeposit>>

ConversionStatus == {"CREATED", "XDR_GENERATED", "SIGNED_XDR_RECEIVED", "SUBMITTED",
                     "CONFIRMED", "FAILED", "EXPIRED"}

TypeOK ==
    /\ status \in [Conversions -> ConversionStatus \cup {"absent"}]
    /\ hasXdr \in [Conversions -> BOOLEAN]
    /\ received \in [Conversions -> BOOLEAN]
    /\ depositIntent \in [Conversions -> Deposits \cup {NoDeposit}]
    /\ late \in [Conversions -> BOOLEAN]
    /\ chain \in [Conversions -> {"idle", "inflight", "landed", "void"}]
    /\ deposit \in [Deposits -> {"absent", "CREATED", "XDR_GENERATED", "FAILED"}]
    /\ source \in [Deposits -> Conversions \cup {NoConversion}]
    /\ reqPc \in [Requests -> {"idle", "inserting", "building",
                               "checked", "signed", "sent", "landed", "read", "unread", "failing",
                               "consuming", "attaching", "attached"}]
    /\ reqConversion \in [Requests -> Conversions \cup {NoConversion}]
    /\ reqDeposit \in [Requests -> Deposits \cup {NoDeposit}]

Init ==
    /\ status = [c \in Conversions |-> "absent"]
    /\ hasXdr = [c \in Conversions |-> FALSE]
    /\ received = [c \in Conversions |-> FALSE]
    /\ depositIntent = [c \in Conversions |-> NoDeposit]
    /\ late = [c \in Conversions |-> FALSE]
    /\ chain = [c \in Conversions |-> "idle"]
    /\ deposit = [d \in Deposits |-> "absent"]
    /\ source = [d \in Deposits |-> NoConversion]
    /\ reqPc = [r \in Requests |-> "idle"]
    /\ reqConversion = [r \in Requests |-> NoConversion]
    /\ reqDeposit = [r \in Requests |-> NoDeposit]

-----------------------------------------------------------------------------
Take(r, pc, c, d) ==
    /\ reqPc[r] = "idle"
    /\ reqPc' = [reqPc EXCEPT ![r] = pc]
    /\ reqConversion' = [reqConversion EXCEPT ![r] = c]
    /\ reqDeposit' = [reqDeposit EXCEPT ![r] = d]

Step(r, from, to) ==
    /\ reqPc[r] = from
    /\ reqPc' = [reqPc EXCEPT ![r] = to]
    /\ UNCHANGED <<reqConversion, reqDeposit>>

Return(r) ==
    /\ reqPc' = [reqPc EXCEPT ![r] = "idle"]
    /\ reqConversion' = [reqConversion EXCEPT ![r] = NoConversion]
    /\ reqDeposit' = [reqDeposit EXCEPT ![r] = NoDeposit]

Write(c, to) == status' = [status EXCEPT ![c] = to]

(* createConversion                                                        *)

\* No row carries the key.  (A row that does is returned as it is.)
CreateLookup(r, c) ==
    /\ status[c] = "absent"
    /\ Take(r, "inserting", c, NoDeposit)
    /\ UNCHANGED <<conversion, chain, deposits>>

\* The gates passed and a route was quoted; the key is unique.
CreateInsert(r) ==
    LET c == reqConversion[r] IN
    /\ reqPc[r] = "inserting"
    /\ \/ /\ status[c] = "absent"
          /\ Write(c, "CREATED")
          /\ Step(r, "inserting", "building")
       \/ /\ status[c] # "absent"
          /\ Return(r)
          /\ UNCHANGED status
    /\ UNCHANGED <<hasXdr, received, depositIntent, late, chain, deposits>>

BuildXdr(r) ==
    LET c == reqConversion[r] IN
    /\ reqPc[r] = "building"
    /\ Write(c, "XDR_GENERATED")
    /\ hasXdr' = [hasXdr EXCEPT ![c] = TRUE]
    /\ Return(r)
    /\ UNCHANGED <<received, depositIntent, late, chain, deposits>>

BuildXdrFails(r) ==
    /\ Step(r, "building", "failing")
    /\ UNCHANGED <<conversion, chain, deposits>>

-----------------------------------------------------------------------------
(* submitConversion                                                        *)

Submittable(c) ==
    /\ status[c] \notin {"absent", "CONFIRMED", "SUBMITTED", "FAILED"}
    /\ hasXdr[c]

\* The row is read once; a late one is failed, whatever became of it meanwhile.
SubmitCheck(r, c) ==
    /\ Submittable(c)
    /\ Take(r, IF late[c] THEN "failing" ELSE "checked", c, NoDeposit)
    /\ UNCHANGED <<conversion, chain, deposits>>

SubmitSign(r) ==
    /\ Step(r, "checked", "signed")
    /\ Write(reqConversion[r], "SIGNED_XDR_RECEIVED")
    /\ UNCHANGED <<hasXdr, received, depositIntent, late, chain, deposits>>

\* The fee bump differs from one submission to the next, the transaction in it does not.
SubmitSend(r) ==
    LET c == reqConversion[r] IN
    /\ Step(r, "signed", "sent")
    /\ chain' = [chain EXCEPT ![c] = IF @ = "idle" THEN "inflight" ELSE @]
    /\ UNCHANGED <<conversion, deposits>>

\* Mutant: accepted by the network is taken for applied.
AcceptedIsSuccess(c) == chain[c] \in {"inflight", "landed"}

Success(c) == chain[c] = "landed"

SubmitLanded(r) ==
    /\ Step(r, "sent", "landed")
    /\ Success(reqConversion[r])
    /\ UNCHANGED <<conversion, chain, deposits>>

\* Not the transaction that was generated, refused by the network, or not answered in time.
SubmitThrows(r) ==
    /\ Step(r, "signed", "failing") \/ Step(r, "sent", "failing")
    /\ UNCHANGED <<conversion, chain, deposits>>

\* An effects query that fails is not retried.
SubmitRead(r) ==
    /\ Step(r, "landed", "read") \/ Step(r, "landed", "unread")
    /\ UNCHANGED <<conversion, chain, deposits>>

ReceivedAmount(c, known) == received' = [received EXCEPT ![c] = @ \/ known]

SubmitConfirm(r) ==
    /\ reqPc[r] \in {"read", "unread"}
    /\ Write(reqConversion[r], "CONFIRMED")
    /\ ReceivedAmount(reqConversion[r], reqPc[r] = "read")
    /\ Return(r)
    /\ UNCHANGED <<hasXdr, depositIntent, late, chain, deposits>>

\* fail: an update by id.
Fail(r) ==
    /\ reqPc[r] = "failing"
    /\ Write(reqConversion[r], "FAILED")
    /\ Return(r)
    /\ UNCHANGED <<hasXdr, received, depositIntent, late, chain, deposits>>

-----------------------------------------------------------------------------
(* listPending, getConsumable and createDepositFromConversion              *)

ListedAsPending(c) == status[c] = "CONFIRMED" /\ depositIntent[c] = NoDeposit

\* Mutant: the quote sizes the deposit when the received amount is unknown.
ConsumableByQuote(c) == status[c] = "CONFIRMED" /\ depositIntent[c] = NoDeposit

Consumable(c) ==
    /\ status[c] = "CONFIRMED"
    /\ depositIntent[c] = NoDeposit
    /\ received[c]

\* No deposit carries the key, and the conversion is owed its deposit.
DepositCheck(r, c, d) ==
    /\ deposit[d] = "absent"
    /\ Consumable(c)
    /\ Take(r, "consuming", c, d)
    /\ UNCHANGED <<conversion, chain, deposits>>

DepositInsert(r) ==
    LET d == reqDeposit[r] IN
    /\ reqPc[r] = "consuming"
    /\ \/ /\ deposit[d] = "absent"
          /\ Step(r, "consuming", "attaching")
          /\ deposit' = [deposit EXCEPT ![d] = "CREATED"]
          /\ source' = [source EXCEPT ![d] = reqConversion[r]]
       \/ /\ deposit[d] # "absent"
          /\ Return(r)
          /\ UNCHANGED deposits
    /\ UNCHANGED <<conversion, chain>>

\* attachDeposit: an update by id, whether or not a deposit is attached already.
DepositAttach(r) ==
    /\ Step(r, "attaching", "attached")
    /\ depositIntent' = [depositIntent EXCEPT ![reqConversion[r]] = reqDeposit[r]]
    /\ UNCHANGED <<status, hasXdr, received, late, chain, deposits>>

DepositBuild(r) ==
    /\ reqPc[r] = "attached"
    /\ \E built \in {"XDR_GENERATED", "FAILED"} :
          deposit' = [deposit EXCEPT ![reqDeposit[r]] = built]
    /\ Return(r)
    /\ UNCHANGED <<conversion, chain, source>>

\* The handler throws at a database write, or its instance dies.
Abort(r) ==
    /\ reqPc[r] # "idle"
    /\ Return(r)
    /\ UNCHANGED <<conversion, chain, deposits>>

-----------------------------------------------------------------------------
(* The sweep of the recovery job, the clock and the network.               *)

\* Mutant: a signed conversion expires as well.
ExpirableSigned ==
    {c \in Conversions : /\ status[c] \in {"CREATED", "XDR_GENERATED", "SIGNED_XDR_RECEIVED"}
                         /\ late[c]}

Expirable == {c \in Conversions : status[c] \in {"CREATED", "XDR_GENERATED"} /\ late[c]}

ExpireUnsigned ==
    /\ Expirable # {}
    /\ status' = [c \in Conversions |-> IF c \in Expirable THEN "EXPIRED" ELSE status[c]]
    /\ UNCHANGED <<hasXdr, received, depositIntent, late, chain, deposits, reqVars>>

\* Eight minutes after the insert: the request that inserted the row has ended by then.
ExpiryPasses(c) ==
    /\ status[c] # "absent"
    /\ ~late[c]
    /\ \A r \in Requests : ~(reqPc[r] = "building" /\ reqConversion[r] = c)
    /\ late' = [late EXCEPT ![c] = TRUE]
    /\ UNCHANGED <<status, hasXdr, received, depositIntent, chain, deposits, reqVars>>

\* A transaction the network holds is applied, or can not be any more.
Settle(c) ==
    /\ chain[c] = "inflight"
    /\ \E outcome \in {"landed", "void"} : chain' = [chain EXCEPT ![c] = outcome]
    /\ UNCHANGED <<conversion, deposits, reqVars>>

-----------------------------------------------------------------------------
Handle(r) ==
    \/ CreateInsert(r) \/ BuildXdr(r) \/ BuildXdrFails(r)
    \/ SubmitSign(r) \/ SubmitSend(r) \/ SubmitLanded(r) \/ SubmitThrows(r)
    \/ SubmitRead(r) \/ SubmitConfirm(r) \/ Fail(r)
    \/ DepositInsert(r) \/ DepositAttach(r) \/ DepositBuild(r)

RequestNext(r) ==
    \/ \E c \in Conversions : \/ CreateLookup(r, c) \/ SubmitCheck(r, c)
                              \/ \E d \in Deposits : DepositCheck(r, c, d)
    \/ Handle(r)
    \/ Abort(r)

Next ==
    \/ \E r \in Requests : RequestNext(r)
    \/ ExpireUnsigned
    \/ \E c \in Conversions : ExpiryPasses(c) \/ Settle(c)

Spec == Init /\ [][Next]_vars

(* A handler takes its next step unless it aborts, the sweep runs every five *)
(* minutes.  No client has to submit anything or to come back.               *)
Fairness ==
    /\ \A r \in Requests : WF_vars(Handle(r))
    /\ WF_vars(ExpireUnsigned)

FairSpec == Spec /\ Fairness
=============================================================================
