----------------------------- MODULE CustomerKyc ----------------------------
(***************************************************************************)
(* Who the ramp partners take the owner for: the customer of BlindPay that *)
(* a receiver's row names, or the organisation at Etherfuse, and the state *)
(* of its KYC.  Polls, webhooks, answers to the partner and, at BlindPay,  *)
(* resubmissions with a new customer all write the row by its id, after    *)
(* calls to the partner.  users.isOnboarded has a second writer, the       *)
(* owner's own edit of the profile.                                        *)
(***************************************************************************)
EXTENDS Naturals

CONSTANTS
    Customers,      \* customers that the partner may come to have of one owner
    Callers,        \* handlers: the owner's requests and the webhooks
    Judged,         \* a bound of the runs: the verdicts that the partners come to
    NoCustomer

ASSUME NoCustomerAssumption == NoCustomer \notin Customers

VARIABLES
    program,        \* the partner: BlindPay or Etherfuse; fixed
    current,        \* blindpayReceiverId or etherfuseOrgId of the row; NoCustomer: no row
    kyc,            \* kycStatus of the row
    onboarded,      \* users.isOnboarded
    selfSet,        \* history: the owner's own edit wrote that flag last
    archived,       \* BlindPayKycAttempt rows: the customers that were left behind
    payoutAccount,  \* the customer that the stored bank account and wallet belong to
    verdict,        \* per customer: what the partner says of it; "none": no such customer
    given,          \* history: every <<customer, verdict>> there was; webhooks tell of them
    named,          \* history: customers that the row has named
    call,           \* per handler: where it is and what it read
    told            \* pushes: dedupe keys <<customer, status>>

person  == <<current, kyc, onboarded, selfSet, archived, payoutAccount, named>>
kycVars == <<program, current, kyc, onboarded, selfSet, archived, payoutAccount, verdict, given, named,
             call, told>>

KycStatus == {"VERIFYING", "APPROVED", "REJECTED", "COMPLIANCE_REQUEST", "APPROVED_RFI", "NOT_STARTED",
              "PROPOSED", "APPROVED_CHAIN_DEPLOYING"}
Verdict == {"none", "verifying", "approved", "rejected", "compliance_request", "approved_rfi",
            "not_started", "proposed", "approved_chain_deploying"}

\* The statuses in which BlindPay waits for an answer.
OpenRfi == {"compliance_request", "approved_rfi"}

NoCall == [pc |-> "idle", customer |-> NoCustomer, fresh |-> NoCustomer, read |-> "VERIFYING",
           next |-> "VERIFYING", accounts |-> FALSE]

CallerRow == [pc: {"idle", "sign", "insert", "ask", "persist", "tell", "rebuild", "replace", "account",
                   "answer", "mirror"},
              customer: Customers \cup {NoCustomer}, fresh: Customers \cup {NoCustomer},
              read: KycStatus, next: KycStatus, accounts: BOOLEAN]

KycTypeOK ==
    /\ program \in {"BlindPay", "Etherfuse"}
    /\ current \in Customers \cup {NoCustomer}
    /\ kyc \in KycStatus
    /\ onboarded \in BOOLEAN /\ selfSet \in BOOLEAN
    /\ archived \in SUBSET Customers
    /\ payoutAccount \in Customers \cup {NoCustomer}
    /\ verdict \in [Customers -> Verdict]
    /\ given \in SUBSET (Customers \X Verdict)
    /\ named \in SUBSET Customers
    /\ call \in [Callers -> CallerRow]
    /\ told \in SUBSET (Customers \X {"APPROVED", "REJECTED"})

KycInit ==
    /\ program \in {"BlindPay", "Etherfuse"}
    /\ current = NoCustomer /\ kyc = "VERIFYING" /\ onboarded = FALSE /\ selfSet = FALSE
    /\ archived = {} /\ payoutAccount = NoCustomer /\ named = {}
    /\ verdict = [c \in Customers |-> "none"] /\ given = {}
    /\ call = [h \in Callers |-> NoCall]
    /\ told = {}

-----------------------------------------------------------------------------
(* The partner.                                                            *)

FirstVerdict == IF program = "BlindPay" THEN "verifying" ELSE "not_started"

\* BlindPay: "To retry after a rejection, create a brand new customer".
VerdictNext(s) ==
    CASE s = "verifying" -> {"approved", "rejected", "compliance_request"}
      [] s = "approved" -> IF program = "BlindPay" THEN {"approved_rfi"} ELSE {}
      [] s = "proposed" -> {"approved_chain_deploying", "rejected"}
      [] s = "approved_chain_deploying" -> {"approved"}
      [] OTHER -> {}

Judge(c, s) ==
    /\ verdict' = [verdict EXCEPT ![c] = s]
    /\ given' = given \cup {<<c, s>>}

PartnerJudges(c) ==
    /\ \E s \in VerdictNext(verdict[c]) \cap Judged : Judge(c, s)
    /\ UNCHANGED <<program, person, call, told>>

-----------------------------------------------------------------------------
At(h, pc) == call[h].pc = pc
Goto(h, pc) == call' = [call EXCEPT ![h].pc = pc]
Over(h) == call' = [call EXCEPT ![h] = NoCall]

\* The row as a handler reads it, and the customer it names.
Reads(h, pc) == call' = [call EXCEPT ![h] = [NoCall EXCEPT !.pc = pc, !.customer = current]]

(* createReceiver, createCustomer: the partner first, then the row.        *)

SignUpRead(h) ==
    /\ At(h, "idle") /\ current = NoCustomer
    /\ Reads(h, "sign")
    /\ UNCHANGED <<program, person, verdict, given, told>>

SignUpAsk(h, c) ==
    /\ At(h, "sign") /\ verdict[c] = "none"
    /\ Judge(c, FirstVerdict)
    /\ call' = [call EXCEPT ![h] = [@ EXCEPT !.pc = "insert", !.fresh = c]]
    /\ UNCHANGED <<program, person, told>>

\* userId is unique: the customer of the second of two overlapping calls is nobody's.
SignUpInsert(h) ==
    /\ At(h, "insert")
    /\ IF current = NoCustomer
       THEN /\ current' = call[h].fresh
            /\ kyc' = IF program = "BlindPay" THEN "VERIFYING" ELSE "NOT_STARTED"
            /\ named' = named \cup {call[h].fresh}
       ELSE UNCHANGED <<current, kyc, named>>
    /\ Over(h)
    /\ UNCHANGED <<program, onboarded, selfSet, archived, payoutAccount, verdict, given, told>>

(* getKycStatus, applyWebhookStatus, handleKycUpdated.                     *)

StatusOf(s) ==
    CASE s = "approved" -> "APPROVED"
      [] s = "rejected" -> "REJECTED"
      [] s = "compliance_request" -> "COMPLIANCE_REQUEST"
      [] s = "approved_rfi" -> "APPROVED_RFI"
      [] s = "proposed" -> "PROPOSED"
      [] s = "approved_chain_deploying" -> "APPROVED_CHAIN_DEPLOYING"
      [] s = "not_started" -> "NOT_STARTED"
      [] OTHER -> "VERIFYING"

PollRead(h) ==
    /\ At(h, "idle") /\ current # NoCustomer
    /\ call' = [call EXCEPT ![h] = [NoCall EXCEPT !.pc = "ask", !.customer = current, !.read = kyc]]
    /\ UNCHANGED <<program, person, verdict, given, told>>

\* Etherfuse's status is written only if it differs from the one that was read.
PollAsk(h) ==
    LET next == StatusOf(verdict[call[h].customer]) IN
    /\ At(h, "ask")
    /\ IF program = "Etherfuse" /\ next = call[h].read
       THEN Over(h)
       ELSE call' = [call EXCEPT ![h] = [@ EXCEPT !.pc = "persist", !.next = next]]
    /\ UNCHANGED <<program, person, verdict, given, told>>

\* By its signature a webhook is the partner's, and tells of what was once true.
Genuine(c, s) == <<c, s>> \in given

\* Of a KYC of Etherfuse it only says whether it is approved.
Reported(c, s) ==
    /\ Genuine(c, s)
    /\ program = "Etherfuse" => s \in {"approved", "rejected"}

\* A webhook finds the row by the customer.
WebhookRead(h, c, s) ==
    /\ At(h, "idle") /\ current = c
    /\ Reported(c, s)
    /\ call' = [call EXCEPT ![h] = [NoCall EXCEPT !.pc = "persist", !.customer = c, !.read = kyc,
                                                  !.next = StatusOf(s)]]
    /\ UNCHANGED <<program, person, verdict, given, told>>

\* Mutant: every status that is not a rejection lets the owner in.
OnboardsEarly(s) == s # "REJECTED"

Onboards(s) == s = "APPROVED"

\* persistStatus: one transaction, on the row's own id, never lowering the flag.
Persist(h) ==
    /\ At(h, "persist")
    /\ kyc' = call[h].next
    /\ IF program = "BlindPay" /\ Onboards(call[h].next)
       THEN onboarded' = TRUE /\ selfSet' = FALSE
       ELSE UNCHANGED <<onboarded, selfSet>>
    /\ IF call[h].read # call[h].next /\ call[h].next \in {"APPROVED", "REJECTED"}
       THEN call' = [call EXCEPT ![h] = [@ EXCEPT !.pc = "tell", !.read = "VERIFYING"]]
       ELSE Over(h)
    /\ UNCHANGED <<program, current, archived, payoutAccount, verdict, given, named, told>>

\* Mutant: the push is about the customer that the row names by now.
KeyOfRow(h) == <<current, call[h].next>>

\* The dedupe key: the customer that was asked about, and the status.
KeyOf(h) == <<call[h].customer, call[h].next>>

TellKyc(h) ==
    /\ At(h, "tell")
    /\ told' = told \cup {KeyOf(h)}
    /\ Over(h)
    /\ UNCHANGED <<program, person, verdict, given>>

(* resubmitReceiver: a new customer, its account and wallet, then one      *)
(* transaction that archives the customer that was read.                   *)

ResubmitRead(h) ==
    /\ At(h, "idle") /\ program = "BlindPay" /\ current # NoCustomer
    /\ kyc = "REJECTED"
    /\ call' = [call EXCEPT ![h] = [NoCall EXCEPT !.pc = "rebuild", !.customer = current,
                                                  !.accounts = payoutAccount # NoCustomer]]
    /\ UNCHANGED <<program, person, verdict, given, told>>

ResubmitAsk(h, c) ==
    /\ At(h, "rebuild") /\ verdict[c] = "none"
    /\ Judge(c, FirstVerdict)
    /\ call' = [call EXCEPT ![h] = [@ EXCEPT !.pc = "replace", !.fresh = c]]
    /\ UNCHANGED <<program, person, told>>

ResubmitReplace(h) ==
    /\ At(h, "replace")
    /\ archived' = archived \cup {call[h].customer}
    /\ current' = call[h].fresh
    /\ kyc' = "VERIFYING"
    /\ payoutAccount' = IF call[h].accounts THEN call[h].fresh ELSE payoutAccount
    /\ named' = named \cup {call[h].fresh}
    /\ Over(h)
    /\ UNCHANGED <<program, onboarded, selfSet, verdict, given, told>>

(* createBankAccount, createBlockchainWallet: at the partner, then here.   *)

AccountRead(h) ==
    /\ At(h, "idle") /\ current # NoCustomer /\ payoutAccount = NoCustomer
    /\ Reads(h, "account")
    /\ UNCHANGED <<program, person, verdict, given, told>>

AccountInsert(h) ==
    /\ At(h, "account")
    /\ payoutAccount' = call[h].customer
    /\ Over(h)
    /\ UNCHANGED <<program, current, kyc, onboarded, selfSet, archived, verdict, given, named, told>>

(* submitRfi and Etherfuse's submitKyc: the partner takes the answer, and  *)
(* the row mirrors what that makes of the status.                          *)

AnswerRead(h) ==
    /\ At(h, "idle") /\ current # NoCustomer
    /\ program = "BlindPay" => verdict[current] \in OpenRfi
    /\ Reads(h, "answer")
    /\ UNCHANGED <<program, person, verdict, given, told>>

AnswerAsk(h) ==
    LET c == call[h].customer IN
    /\ At(h, "answer")
    /\ \/ program = "BlindPay" /\ verdict[c] \in OpenRfi /\ Judge(c, "verifying")
       \/ program = "Etherfuse" /\ verdict[c] \in {"not_started", "rejected"} /\ Judge(c, "proposed")
    /\ Goto(h, "mirror")
    /\ UNCHANGED <<program, person, told>>

AnswerMirror(h) ==
    /\ At(h, "mirror")
    /\ kyc' = IF program = "BlindPay" THEN "VERIFYING" ELSE "PROPOSED"
    /\ Over(h)
    /\ UNCHANGED <<program, current, onboarded, selfSet, archived, payoutAccount, verdict, given, named,
                   told>>

\* The partner refuses or is silent, the transaction fails, the instance dies.
CallFails(h) ==
    /\ call[h].pc # "idle"
    /\ Over(h)
    /\ UNCHANGED <<program, person, verdict, given, told>>

\* PATCH /users/:id writes the body as it is, and the body may hold isOnboarded.
EditProfile(flag) ==
    /\ onboarded' = flag /\ selfSet' = TRUE
    /\ UNCHANGED <<program, current, kyc, archived, payoutAccount, verdict, given, named, call, told>>

-----------------------------------------------------------------------------
Handle(h) ==
    \/ SignUpRead(h) \/ SignUpInsert(h)
    \/ PollRead(h) \/ PollAsk(h)
    \/ Persist(h) \/ TellKyc(h)
    \/ ResubmitRead(h) \/ ResubmitReplace(h)
    \/ AccountRead(h) \/ AccountInsert(h)
    \/ AnswerRead(h) \/ AnswerAsk(h) \/ AnswerMirror(h)
    \/ CallFails(h)
    \/ \E c \in Customers : SignUpAsk(h, c) \/ ResubmitAsk(h, c)
    \/ \E w \in given : WebhookRead(h, w[1], w[2])

KycNext ==
    \/ \E c \in Customers : PartnerJudges(c)
    \/ \E flag \in BOOLEAN : EditProfile(flag)
    \/ \E h \in Callers : Handle(h)

KycSpec == KycInit /\ [][KycNext]_kycVars

-----------------------------------------------------------------------------
(* Properties *)

\* Unless the owner's own edit wrote the flag last, isOnboarded says what the
\* verdicts say: it was raised by an approval of a customer of theirs, whatever
\* became of the row since, and no row of BlindPay is APPROVED with the flag down.
FlagFollowsApproval ==
    ~ selfSet =>
        /\ onboarded => \E c \in named : <<c, "approved">> \in given
        /\ program = "BlindPay" /\ kyc = "APPROVED" => onboarded

\* The push of a verdict names the customer that was given it: a resubmission
\* that replaces the customer meanwhile does not take the old one's verdict.
PushNamesItsCustomer ==
    \A k \in told : \E s \in Verdict : <<k[1], s>> \in given /\ StatusOf(s) = k[2]
=============================================================================
