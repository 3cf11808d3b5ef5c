-------------------------- MODULE SponsoredWallets --------------------------
(***************************************************************************)
(* Wallets that the treasury sponsors: their activation and a trustline.   *)
(* The backend builds the transaction on the treasury's sequence number,   *)
(* the owner signs it, and the backend wraps and submits exactly that one. *)
(* Every transaction of the treasury is built on the number that it has    *)
(* then, so that of those in the owners' hands only one can land.          *)
(*                                                                         *)
(* An activation holds an advisory lock and a database transaction while   *)
(* it talks to the chain; a trustline holds nothing.                       *)
(***************************************************************************)
EXTENDS Naturals

CONSTANTS
    Wallets,
    Savers,         \* those whose owners open a trustline as well
    Calls,          \* requests of the owners that may overlap
    MaxTrouble,     \* bound on what goes wrong or comes between: lost answers, failures,
                    \* late signatures, and other transactions of the treasury that land
    NoWallet

ASSUME WalletAssumption == Savers \in SUBSET Wallets /\ NoWallet \notin Wallets
ASSUME BoundAssumption == MaxTrouble \in Nat

VARIABLES
    linked,         \* per wallet: its row; "removed": isActive is false
    act,            \* per wallet: isActivated, activationUnsignedXdr, activationTxHash
    trust,          \* per wallet: the WalletTrustline's row
    call,           \* per request: where it is, its wallet and the transaction it has
    seq,            \* the treasury's sequence number
    ready, open,    \* wallets that are activated on chain, and that have the line
    landed,         \* history: the transactions that landed, <<wallet, what, number>>
    trouble         \* what was used of the bound

walletRows  == <<linked, act, trust>>
onChain == <<seq, ready, open, landed>>
walletVars == <<linked, act, trust, call, seq, ready, open, landed, trouble>>

\* A transaction is known by the number it was built on; 0: none.
Tx == Nat

ActRow == [activated: BOOLEAN, xdr: Tx, fresh: BOOLEAN, hash: Tx]
LineRow == [status: {"none", "PENDING_SIGNATURE", "ACTIVE", "FAILED"}, xdr: Tx, fresh: BOOLEAN, hash: Tx]
RequestRow == [pc: {"idle", "build", "store", "send", "check", "record", "fail", "mark", "look",
                    "lineBuild", "lineStore", "lineSend", "lineCheck", "lineFail"},
               wallet: Wallets \cup {NoWallet}, xdr: Tx]

WalletTypeOK ==
    /\ linked \in [Wallets -> {"absent", "active", "removed"}]
    /\ act \in [Wallets -> ActRow]
    /\ trust \in [Wallets -> LineRow]
    /\ call \in [Calls -> RequestRow]
    /\ seq \in Tx
    /\ ready \in SUBSET Wallets
    /\ open \in SUBSET Wallets
    /\ landed \in SUBSET (Wallets \X {"activation", "line"} \X Tx)
    /\ trouble \in 0 .. MaxTrouble

NoCall == [pc |-> "idle", wallet |-> NoWallet, xdr |-> 0]

WalletInit ==
    /\ linked = [w \in Wallets |-> "absent"]
    /\ act = [w \in Wallets |-> [activated |-> FALSE, xdr |-> 0, fresh |-> FALSE, hash |-> 0]]
    /\ trust = [w \in Wallets |-> [status |-> "none", xdr |-> 0, fresh |-> FALSE, hash |-> 0]]
    /\ call = [c \in Calls |-> NoCall]
    /\ seq = 1 /\ ready = {} /\ open = {} /\ landed = {}
    /\ trouble = 0

-----------------------------------------------------------------------------
At(c, pc) == call[c].pc = pc
Of(c) == call[c].wallet
Goto(c, pc) == call' = [call EXCEPT ![c].pc = pc]
Over(c) == call' = [call EXCEPT ![c] = NoCall]
Mishap == trouble < MaxTrouble /\ trouble' = trouble + 1

(* walletLogin, createWallet, removeWallet.                                *)

Link(w) ==
    /\ linked[w] # "active"
    /\ linked' = [linked EXCEPT ![w] = "active"]
    /\ UNCHANGED <<act, trust, call, onChain, trouble>>

Remove(w) ==
    /\ linked[w] = "active" /\ Mishap
    /\ linked' = [linked EXCEPT ![w] = "removed"]
    /\ UNCHANGED <<act, trust, call, onChain>>

-----------------------------------------------------------------------------
(* The chain: submitFeeBumpTransaction with the transaction that is on the *)
(* row, matching what the owner signed; and what else the treasury does.   *)

OthersLand ==
    /\ Mishap
    /\ seq' = seq + 1
    /\ UNCHANGED <<walletRows, call, ready, open, landed>>

\* It lands, and the answer comes or is lost; what it does may be done already.
Lands(c, what, told, lost) ==
    /\ call[c].xdr = seq
    /\ seq' = seq + 1
    /\ landed' = landed \cup {<<Of(c), what, seq>>}
    /\ \/ Goto(c, told) /\ UNCHANGED trouble
       \/ Goto(c, lost) /\ Mishap

\* Another one was built on the number and landed first, its time is over, or the
\* owner signed another one.  An account that is there cannot be created: that
\* fails and uses the number up.
Refused(c, what, fresh, lost) ==
    /\ \/ (call[c].xdr # seq \/ ~fresh) /\ UNCHANGED <<seq, trouble>>
       \/ UNCHANGED seq /\ Mishap
       \/ /\ call[c].xdr = seq /\ what = "activation" /\ Of(c) \in ready
          /\ seq' = seq + 1 /\ UNCHANGED trouble
    /\ Goto(c, lost)
    /\ UNCHANGED <<ready, open, landed>>

-----------------------------------------------------------------------------
(* activateWallet: the lock, and then the transaction until its end.       *)

LockFree(c, w) ==
    \A d \in Calls \ {c} :
        Of(d) = w => ~(call[d].pc \in {"build", "store", "send", "check", "record", "fail"})

\* Mutant: the transaction on the row is given out until it is used.
ReusableForEver(w) == act[w].xdr # 0

Reusable(w) == act[w].xdr # 0 /\ act[w].fresh

ActivateLock(c, w) ==
    /\ At(c, "idle") /\ linked[w] # "absent" /\ LockFree(c, w)
    /\ ~act[w].activated /\ ~Reusable(w)
    /\ call' = [call EXCEPT ![c] = [pc |-> "build", wallet |-> w, xdr |-> 0]]
    /\ UNCHANGED <<walletRows, onChain, trouble>>

ActivateBuild(c) ==
    /\ At(c, "build")
    /\ call' = [call EXCEPT ![c] = [@ EXCEPT !.pc = "store", !.xdr = seq]]
    /\ UNCHANGED <<walletRows, onChain, trouble>>

ActivateStore(c) ==
    /\ At(c, "store")
    /\ act' = [act EXCEPT ![Of(c)] = [@ EXCEPT !.xdr = call[c].xdr, !.fresh = TRUE]]
    /\ Over(c)
    /\ UNCHANGED <<linked, trust, onChain, trouble>>

(* submitActivation: all of it in one database transaction.                *)

SubmitLock(c, w) ==
    /\ At(c, "idle") /\ linked[w] # "absent" /\ LockFree(c, w)
    /\ ~act[w].activated /\ act[w].xdr # 0
    /\ call' = [call EXCEPT ![c] = [pc |-> "send", wallet |-> w, xdr |-> act[w].xdr]]
    /\ UNCHANGED <<walletRows, onChain, trouble>>

SubmitRelay(c) ==
    /\ At(c, "send")
    /\ \/ Lands(c, "activation", "record", "check") /\ ready' = ready \cup {Of(c)} /\ UNCHANGED open
       \/ Refused(c, "activation", act[Of(c)].fresh, "check")
    /\ UNCHANGED walletRows

\* Mutant: a number that is used up is taken for the submission's success.
FoundUsed(w) == act[w].xdr < seq

\* isAccountActivated, after an error.
Found(w) == w \in ready

SubmitLook(c) ==
    /\ At(c, "check")
    /\ \/ /\ Found(Of(c)) /\ UNCHANGED trouble
          /\ call' = [call EXCEPT ![c] = [@ EXCEPT !.pc = "record", !.xdr = 0]]
       \/ ~Found(Of(c)) /\ Over(c) /\ UNCHANGED trouble
       \/ Mishap /\ Over(c)
    /\ UNCHANGED <<walletRows, onChain>>

SubmitRecord(c) ==
    /\ At(c, "record")
    /\ act' = [act EXCEPT ![Of(c)] = [activated |-> TRUE, xdr |-> 0, fresh |-> FALSE,
                                      hash |-> IF call[c].xdr = 0 THEN @.hash ELSE call[c].xdr]]
    /\ Over(c)
    /\ UNCHANGED <<linked, trust, onChain, trouble>>

-----------------------------------------------------------------------------
(* ensureTrustline: Horizon first, then the row, then a new transaction.   *)

Offered(w) == trust[w].status = "PENDING_SIGNATURE" /\ trust[w].xdr # 0 /\ trust[w].fresh

EnsureLook(c, w) ==
    /\ At(c, "idle") /\ linked[w] = "active" /\ act[w].activated /\ w \in Savers
    /\ call' = [call EXCEPT ![c] = [pc |-> IF w \in open THEN "mark" ELSE "look",
                                    wallet |-> w, xdr |-> 0]]
    /\ UNCHANGED <<walletRows, onChain, trouble>>

EnsureRow(c) ==
    /\ At(c, "look")
    /\ IF Offered(Of(c)) THEN Over(c) ELSE Goto(c, "lineBuild")
    /\ UNCHANGED <<walletRows, onChain, trouble>>

EnsureBuild(c) ==
    /\ At(c, "lineBuild")
    /\ call' = [call EXCEPT ![c] = [@ EXCEPT !.pc = "lineStore", !.xdr = seq]]
    /\ UNCHANGED <<walletRows, onChain, trouble>>

EnsureStore(c) ==
    /\ At(c, "lineStore")
    /\ trust' = [trust EXCEPT ![Of(c)] = [@ EXCEPT !.status = "PENDING_SIGNATURE",
                                                   !.xdr = call[c].xdr, !.fresh = TRUE]]
    /\ Over(c)
    /\ UNCHANGED <<linked, act, onChain, trouble>>

(* submitTrustline.                                                        *)

LineRead(c, w) ==
    /\ At(c, "idle") /\ linked[w] = "active" /\ trust[w].xdr # 0
    /\ call' = [call EXCEPT ![c] = [pc |-> "lineSend", wallet |-> w, xdr |-> trust[w].xdr]]
    /\ UNCHANGED <<walletRows, onChain, trouble>>

LineSend(c) ==
    /\ At(c, "lineSend")
    /\ \/ Lands(c, "line", "mark", "lineCheck") /\ open' = open \cup {Of(c)} /\ UNCHANGED ready
       \/ Refused(c, "line", trust[Of(c)].fresh, "lineCheck")
    /\ UNCHANGED walletRows

LineCheck(c) ==
    /\ At(c, "lineCheck")
    /\ call' = [call EXCEPT ![c] = IF Of(c) \in open THEN [@ EXCEPT !.pc = "mark", !.xdr = 0]
                                   ELSE [@ EXCEPT !.pc = "lineFail"]]
    /\ UNCHANGED <<walletRows, onChain, trouble>>

\* By the row's id, whatever it says by now.
LineFail(c) ==
    /\ At(c, "lineFail")
    /\ trust' = [trust EXCEPT ![Of(c)].status = "FAILED"]
    /\ Over(c)
    /\ UNCHANGED <<linked, act, onChain, trouble>>

\* markActive: the transaction is spent; its hash is kept if it is known.
MarkActive(c) ==
    /\ At(c, "mark")
    /\ trust' = [trust EXCEPT ![Of(c)] = [status |-> "ACTIVE", xdr |-> 0, fresh |-> FALSE,
                                          hash |-> IF call[c].xdr = 0 THEN @.hash ELSE call[c].xdr]]
    /\ Over(c)
    /\ UNCHANGED <<linked, act, onChain, trouble>>

-----------------------------------------------------------------------------
\* That an owner lets a transaction's time pass while it could land is a mishap.
Passes(xdr) == IF xdr = seq THEN Mishap ELSE UNCHANGED trouble

\* The time of a transaction on a row is over.
Expire(w) ==
    /\ \/ /\ act[w].fresh /\ Passes(act[w].xdr)
          /\ act' = [act EXCEPT ![w].fresh = FALSE] /\ UNCHANGED trust
       \/ /\ trust[w].fresh /\ Passes(trust[w].xdr)
          /\ trust' = [trust EXCEPT ![w].fresh = FALSE] /\ UNCHANGED act
    /\ UNCHANGED <<linked, call, onChain>>

\* The transaction times out, Horizon is silent, the instance dies.
CallFails(c) ==
    /\ ~At(c, "idle") /\ Mishap
    /\ Over(c)
    /\ UNCHANGED <<walletRows, onChain>>

Proceed(c) ==
    \/ ActivateBuild(c) \/ ActivateStore(c)
    \/ SubmitRelay(c) \/ SubmitLook(c) \/ SubmitRecord(c)
    \/ EnsureRow(c) \/ EnsureBuild(c) \/ EnsureStore(c)
    \/ LineSend(c) \/ LineCheck(c) \/ LineFail(c) \/ MarkActive(c)

WalletNext ==
    \/ \E w \in Wallets : Link(w) \/ Remove(w) \/ Expire(w)
    \/ \E c \in Calls, w \in Wallets :
        ActivateLock(c, w) \/ SubmitLock(c, w) \/ EnsureLook(c, w) \/ LineRead(c, w)
    \/ \E c \in Calls : Proceed(c) \/ CallFails(c)
    \/ OthersLand

\* Requests that run get on; time passes; an owner asks again, and signs, as long
\* as the wallet is not activated, and the requests of others do not keep theirs
\* out for ever.
WalletFairness ==
    /\ \A c \in Calls : WF_walletVars(Proceed(c))
    /\ \A w \in Wallets :
        /\ WF_walletVars(Expire(w))
        /\ SF_walletVars(\E c \in Calls : ActivateLock(c, w))
        /\ SF_walletVars(\E c \in Calls : SubmitLock(c, w))

WalletSpec == WalletInit /\ [][WalletNext]_walletVars /\ WalletFairness

-----------------------------------------------------------------------------
(* Properties *)

\* What the rows say of the chain is so: a wallet is marked activated, and a line
\* active, only if the chain has it, whatever became of the submission's answer;
\* and a hash on a row is that of a transaction of this wallet that landed.
RecordsFollowChain ==
    \A w \in Wallets :
        /\ act[w].activated => w \in ready
        /\ trust[w].status = "ACTIVE" => w \in open
        /\ act[w].hash # 0 => <<w, "activation", act[w].hash>> \in landed
        /\ trust[w].hash # 0 => <<w, "line", trust[w].hash>> \in landed

\* An owner who keeps asking and signing gets the wallet activated, although the
\* transactions of others use up the numbers that theirs were built on.
EveryWalletActivates == \A w \in Wallets : linked[w] # "absent" ~> act[w].activated
=============================================================================
