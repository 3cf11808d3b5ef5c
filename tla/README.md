# smartpig-backend: a TLA+ verification project

The backend keeps rows in Postgres, asks other systems to move money (the
Stellar network, the DeFindex API, BlindPay, Etherfuse, Privy, Expo), and learns
what they did from answers that may not come, from webhooks and from cron jobs.
Every handler is asynchronous, every job runs in every instance of the backend
and the scheduler does not wait for the previous run. What can go wrong is
hardly ever inside one function: it is in what happens between two `await`s.
That is what these modules model.

## 1. Inventory

`src/` below is the `src/` directory of the repository.

| component | state | operations | interacts with |
|---|---|---|---|
| deposits, withdrawals (`deposits/`, `withdrawals/`) | `DepositIntent`, `WithdrawalIntent`: status, `failureCode`, XDRs, `expiresAt` | create, submit, get, list | orchestrator, conversions, jobs |
| DeFindex (`defindex/`) | `TransactionRecord` | `submitDeposit`, `submitWithdrawal`, `withRetry`, failure classifier, `normalizeTransactionState` | DeFindex API, `StellarService` |
| reconciliation and expiry of intents (`jobs/reconciliation.job.ts`, `jobs/expired-intents.job.ts`) | - | resend pending records each minute; fail late intents and purge old ones each hour | the two above, push outbox |
| gifts (`gifts/`, `jobs/gift-*.job.ts`) | `Gift`: status, `balanceId`, recipient | create, claim; match funding, detect refunds, expire | ledger (claimable balances), push outbox, account deletion |
| conversions (`conversions/`, `jobs/conversion-recovery.job.ts`) | `AssetConversion`: status, received amount, `depositIntentId` | quote, create, submit, list pending, consume; sweep | Horizon, deposits |
| account deletion (`account-deletion/`, `jobs/account-deletion-cleanup.job.ts`) | `AccountDeletionRequest`; the account's rows | eligibility, request, confirm, external clean-up | ledger, BlindPay, Privy, every table of the user |
| wallet activation, trustlines (`wallets/`) | `WalletAccount`, `WalletTrustline` | activate, submit, ensure, submit | ledger, the treasury's sequence number |
| ramp and KYC (`ramp/`, `blindpay/`) | `OnrampIntent`, `OfframpIntent`, `BlindPayReceiver`, KYC status | create, sync, webhooks, resubmit, RFI | BlindPay, push outbox |
| Etherfuse ramp (`etherfuse-ramp/`, `etherfuse/`) | customers, orders, KYC, bank accounts | create, sync, webhooks | Etherfuse, push outbox |
| push (`notifications/`, `jobs/push-*.job.ts`) | outbox rows, device tokens, tickets | notify, dispatch, receipts, broadcast, register | Expo; called by all the sagas |
| incoming payments (`jobs/incoming-payments.job.ts`) | a cursor per wallet | watch | Horizon, push outbox, on-ramps |
| learning, experience (`learning/`, `experience/`) | answers, XP ledger, level | answer, mark, claim daily reward | vault eligibility |
| vault eligibility (`vault-eligibility/`) | unlocks | evaluate, materialise, refresh | a gate of deposits, withdrawals, conversions |
| vault registry, disclosures (`vault-registry/`) | configs, disclosure versions, a cache per instance | draft, publish, acknowledge, update | a gate of deposits |
| vaults, vault manager, vault and APY sync (`vaults/`, `vault-manager/`, `jobs/*-sync.job.ts`) | `VaultCatalog`, `ManagedVault` | discover, curate, list, create, submit | DeFindex, the registry |
| portfolio, pricing (`portfolio/`, `pricing/`) | a price cache per instance, snapshots | summary, snapshot, price | vault reads, the Reflector oracle |
| users, usernames, auth (`users/`, `auth/`) | `User`, `WalletAccount` | login, sign-up, edit, set the name | Privy; scrubbed by a deletion |
| app config, environment; infrastructure | configuration | read at start | - |

The hard behaviours, by component (each at its line in `PROJECT.json`, `hazards`):

- **Intents.** The status is read, several awaits pass, and it is written by id:
  overlapping submissions, the hourly expiry and the reconciliation meet on one
  row. The send and its record are separate steps. Correct means: money that
  moved is never shown as failed, success is never shown for money that did not
  move, history and detail agree, and what was recorded settles.
- **Gifts.** A lock in a status column, freed by a `catch` although the payment
  may have landed; two jobs that write what they read from the ledger a while
  ago. Correct means: one claim at a time, CLAIMED only when its recipient was
  paid, what can be claimed is backed, closed gifts leave no money in escrow.
- **Conversions.** Updates by id from overlapping submissions; an amount that may
  stay unknown; a deposit sized by it. Correct means: CONFIRMED happened,
  EXPIRED never moved, a deposit is sized by what arrived.
- **Account deletion.** A saga over four systems without compensation, continued
  by a job, whose first step is irreversible. Correct means: the ledger first and
  the identity last, COMPLETED only when all is gone, the clean-up ends.
- **Wallets.** Every sponsored transaction takes the treasury's sequence number when
  it is built; of those built on one number one lands. Correct means: the rows say
  of the chain what is so, and an owner who keeps asking is activated.
- **Ramps, KYC.** Webhooks, polls and user actions write one status, unordered, and a
  resubmission replaces the customer. Correct means: a payout is of the quote that
  was signed, an end is told, a verdict is told of the customer it was given to.
- **Push, incoming payments.** Crashes between a send and its mark; receipts that
  come one by one; a cursor moved by two instances. Correct means: no duplicate
  without a lost answer, the outbox drains, nothing falls behind the cursor.
- **Learning, eligibility, disclosures.** Grants from two devices, policies published
  while they are evaluated, a cache per instance. Correct means: what was earned is
  paid once, an unlock was earned under a rule that was in force, consent is to a
  text that was shown and is not older than the cache allows.
- **Catalogue, portfolio, accounts.** A job, an administrator and the manager write one
  row; positions are read while money moves; a request resolves its owner before
  the scrub and writes after it.

## 2. Plan

| step | modules | state |
|---|---|---|
| 1 | `IntentLifecycle`, its abstract specification `IntentPromise` | done, proved |
| 2 | `GiftLifecycle` | done, proved |
| 3 | `ConversionLifecycle` (with the deposit made of it) | done, proved |
| 4 | `AccountDeletion`; `DeletionEligibility`, the check before it | done, proved |
| 5 | `PushOutbox`, `IncomingPayments` | done, proved |
| 6 | `RampOrders`, `CustomerKyc` | done, proved |
| 7 | `LearningXp`, `VaultEligibility`, `VaultDisclosure` | done, proved |
| 8 | `SponsoredWallets`: activation, trustlines and the sequence number | done, proved |
| 9 | `VaultCatalog`, `PortfolioValue`, `Accounts` | done, proved |
| 10 | pure functions: `DepositAccess`, `LearningCatalogue`, `ConversionQuote`, `RfiAnswer`, `PushTarget` | done, proved |
| 11 | the inductive invariants of steps 4 to 9 and their proofs | done |
| 12 | "at most one delivery per key without a lost answer" and "an order as its owner sees it" as abstract specifications, and the steps that map to them | next |
| 13 | the partner's bank accounts (a sync whose stale list overwrites a newer webhook) | |

## 3. Modules

A component has a module of its own (`X`: variables, one action per step between
awaits, `Next`, the specification; its properties at its end) and one for its
properties where they are many (`...Properties`). Theorems are in `...Proofs`: one
module each for the sagas (`Intent`, `Gift`, `Conversion`, `Deletion`), and one with a
section per component for the gates (`GateProofs`), the ramps and the check before a
deletion (`RampProofs`), catalogue, accounts, portfolios and payments
(`AccountProofs`), push and wallets (`PushProofs`). `MC...` modules are the
instances for TLC. Operators marked `Mutant` stand beside the definition they
change and are used by no specification: with such a change in place its property
is violated.

**A handler** (an HTTP request), **a webhook** and **a job run** have a program
counter, the row they work on and what they read; they are split wherever the code
awaits something that changes, or is affected by, what others do. They may stop at
any point (`Abort`, `...Crash`): an error of the database, a gate that refuses, or
the death of the instance.

### Money

- `IntentLifecycle`. One table stands for deposits and withdrawals, whose handlers
  are the same. `status`, `failureCode`, `hasSignedXdr` are the row's columns,
  `record` its `TransactionRecord`, `late` is `now > expiresAt`. `chain` is what the
  network did with the one transaction the XDR pins. `ClientState` is
  `normalizeTransactionState`, `HistoryState` what the list shows. A record that names no
  transaction is `UNNAMED`.
  `SubmitCheck/Sign/Send/Reply/Commit` follow `submitSignedXdr` and the
  orchestrator; `Recon*` the minute job (`ReconPass` is what it passes over); `ExpireIntents`, `PurgeFailed` the hourly one.
- `IntentPromise`. What the owner of an intent is promised: the states shown and
  when money moves. No row, handler or job. `IntentLifecycle` implements it under
  `shown <- ClientState`, `moved <- {i : chain[i] = "landed"}`.
- `GiftLifecycle`. `status`, `hasBalanceId`, `recipient`; the claimable balance
  (`balance`, `paidBy`) and payments that may still be applied (`flying`).
  `FundScan`/`FundMark` and `RefundScan`/`RefundMark` are the two halves of the
  reconciliation, `ExpireGifts` the hourly job. The ledger's actions are external.
- `ConversionLifecycle`. `status`, `hasXdr`, `received` (the amount is known),
  `depositIntent`; deposits up to their XDR. `SubmitRead` is
  `readPathPaymentReceived`, `DepositCheck/Insert/Attach/Build` is
  `createDepositFromConversion`.
- `ConversionQuote`. The registry of assets that the backend boots with, the lookup of
  a symbol, and the quote: the best record, and `destMin` in stroops.
- `RampOrders`. On-ramp and off-ramp orders of both partners. They differ in what a
  submission does (a payout made of a quote and its signed delegation; a signature
  sent on) and share the rest: `Order*` is a creation, `Refresh*` and `Submit*` the
  owner's calls, `Sync*` the poll, `Webhook`/`Report*` what the partner reports, in
  any order and any number of times, with the push decided on the status read before.
- `IncomingPayments`. One wallet's cursor under several instances: the baseline, pages
  (`PageSize`, `MaxPages`), payments of persons, of unknown addresses and of on-ramps, whose
  delivery is told by the on-ramp's own push, and those that are no news (`nonews`: the
  owner's other wallets, the system's accounts, what is no incoming USDC); the outbox may refuse a row.
- `PortfolioValue`. A summary or a snapshot reads prices, then vault by vault. A total
  is the set of positions it counted; `quiet` says that no money moved meanwhile.
  A price has an age; the cache keeps a price and its flag for `PriceTtl`.

### Accounts

- `AccountDeletion`. The request's `status`, `closure` (its XDR, as the balance it
  sweeps), `provider` (the Privy id), `attempts`; `activated` and `scrubbed` stand
  for the account's rows; `account`, `balance`, `flying`, `swept` for the ledger;
  `blindpay` and `privy` for the partners. A confirmation needs an unscrubbed
  account: the owner is resolved from an active wallet.
- `DeletionEligibility`. The check, read by read: rows in flight (deposits,
  withdrawals, their records, orders, gifts; conversions are not counted by the code), vaults and wallet with their dust, gifts.
  Money moves and rows change between the reads.
- `Accounts`. Login and sign-up, wallets linked and removed, edits, the permanent name, the
  resolution of an owner, and the scrub. `overlapped` names accounts that were
  scrubbed while a request that had resolved them was still to write.
- `SponsoredWallets`. Linking, activation and trustlines (`Ensure*`, `Line*`,
  `Activate*`, `Submit*`) with the treasury's `seq`: a transaction is its wallet, what it
  does, and the number it was built on. Activation holds an advisory lock through
  its transaction, trustlines hold none.
- `CustomerKyc`. The owner's row with a partner, which names one customer; the
  customer's verdicts, told by webhooks and polls; resubmissions that archive one
  customer and make another (BlindPay); requests for information. `isOnboarded` has two writers: an approval that is stored
  and the owner's own edit of the profile (`EditProfile`; `selfSet` says which wrote last).
- `RfiAnswer`. What `validateRfiResponse` makes of the answer to such a request.

### Messages

- `PushOutbox`. Producers insert a row per dedupe key; a dispatcher fails stale rows,
  claims a batch, routes it to devices, sends, and marks; the receipts job asks for
  tickets, disables devices and closes rows. Devices are registered and removed,
  users are scrubbed. `delivered` counts what Expo accepted, `lostAnswer` the sends
  whose answer did not come.
- `PushTarget`. Which devices a broadcast is for: the target read from the row's
  data, and the comparison of versions.

### Gates

- `LearningXp`. Answers from several devices under the user's lock, lessons, the
  introduction, the daily reward, the ledger and its projection (total, level,
  rewards), and the seed that rearranges the trail.
- `LearningCatalogue`. The editorial catalogue (places, right options, screens to
  review; no wording; number 0 is the reflection), `validateCatalog`, and what the seed does to the rows of an
  earlier edition.
- `VaultEligibility`. Policies drafted, published and replaced; `evaluate`, read by
  read; unlocks with the evidence they name; the mode.
- `VaultDisclosure`. Versions, publication, a cache per instance with a time of `Ttl`,
  page, acceptance and deposit. An acceptance may name the version it is of, or none, and then
  nothing is compared: `blind` holds the versions accepted so without having been shown.
  `stalest` is the longest time that a text had been
  superseded when a deposit was let through on it.
- `DepositAccess`. Two answers to one question: the `access` that the app is shown, and
  what `createDeposit` then does.
- `VaultCatalog`. One row under the discovery job, an administrator's edits and the
  manager's submissions, whose answer may be a success with the vault's address, a success
  without it, or a refusal. `delisted` says that the last word on showing the row was an
  operator's no.

## 4. Runs

Components that share no row are put in one instance, in which a variable `focus`
fixes for the whole behaviour which of them moves; the others stay where they
begin. The set of behaviours is the union of theirs, not the product, which would
show nothing more.

| run | asks | instance | distinct states |
|---|---|---|---|
| `intent_vaults` | `ConfirmedMeansLanded`, `SentIsNeverGivenUp`, `RecordOnlyAdvances`, `KeepsPromise`; `EditOutlivesSync`, `ConfirmedIsShown`; `NoPaymentSkipped` | 2 intents, 2 handlers, 2 job runs; 1 vault, 2 calls; 3 payments in pages of 2, 2 instances | 1,008,272 |
| `intent_wallet_liveness` | `LandedRecordSettles`; `EveryWalletActivates` | 1 intent, 1 handler, 2 job runs; 2 wallets, 2 requests, 1 mishap | 11,561 |
| `gift_accounts` | `LockIsExclusive`, `ClaimedIsPaidToRecipient`, `RefundedLeavesNothing`, `ExpiredGoneIsClosed`; `TombstoneIsNobody`, `NameIsPermanent`; `TotalIsWhole`, `UnflaggedPriceIsRecent` | 2 gifts, 2 creations, 2 claims, 1 job; 2 addresses, 2 names, 2 requests, 2 accounts; 2 vaults, 2 assets, 1 valuation | 668,329 |
| `conversion_gates` | `ConfirmedMeansConverted`, `ExpiredNeverMoved`, `DepositSizedByArrival`; `EarnedIsPaid`, `AccountFollowsLedger`; `UnlockWasEarned`; `DepositNeedsRecentConsent`, `NamedConsentIsOfTextShown` | 2 conversions, 2 requests, 2 deposits; 2 lessons, 3 questions, 2 devices, 2 days; 2 policies, 2 operators and the seed; 2 versions, 2 instances, 2 calls | 1,372,891 |
| `deletion_ramp` | `ClosedMeansMerged`, `CompletedMeansErased`, `ClosureComesFirst`; `EligibleMeansFree`; `PayoutIsOfSignedQuote`, `RecordedPayoutClosesOrder`, `EndIsTold`; `FlagFollowsApproval`, `PushNamesItsCustomer` | 1 request, 2 handlers, 1 job; 2 vaults, 1 operation, 1 gift; 1 order of each kind, 2 calls, 2 reports; 2 customers, 2 handlers | 1,649,264 |
| `push_wallet` | `DuplicateNeedsLostAnswer`, `AttemptsStayNearLimit`, `ClosedMeansAnswered`; `RecordsFollowChain` | 1 event, 2 devices, 2 dispatchers, 1 checker; 2 wallets, 1 trustline, 2 requests, 1 mishap | 1,070,901 |
| `deletion_push_liveness` | `CleanupEnds`; `OutboxDrains` | 1 request, 1 handler, 2 job runs; 1 event, 1 device, 2 dispatchers | 15,993 |
| `intent_doc_pending` | violation: finding 1 | 1 intent, fairness | - |
| `conversion_doc_twice` | violation: finding 2 | 1 conversion, 2 deposits, 2 handlers | - |
| `conversion_doc_surfaced` | violation: finding 3 | 1 conversion, fairness | - |
| `deletion_doc_open` | violation: finding 4 | 1 request, 1 handler | - |
| `deletion_doc_swept` | violation: finding 5 | 1 request, 1 handler, reads fail | - |

The safety runs use symmetry except `gift_accounts`, which also checks a liveness
property. For symmetry across components, workers of different components have the
same model values: `Handlers`, `Askers`, `Reporters`, `Callers` and `Vaults` of
`deletion_ramp` are one set, which one permutation serves.

The MC modules also state, as assumptions that TLC evaluates, what the pure modules
say on small inputs: that the projection and the deposit agree, and where they do not
(`AccessAgrees`, `AccessDisagrees`); that the catalogue of the repository is valid, has
one order and sends nobody to a screen not yet read (`CatalogueIsSound`); the bounds
of the floor (`FloorIsSound`); that a faultless answer is complete
(`FaultlessIsComplete`); that versions have one order and a wider target reaches more
(`VersionsHaveOneOrder`, `WiderReachesMore`). `LegacyPositionIsLost`,
`RegistryLetsThrough`, `BlanksAnswer` and `ZerosDisagree` witness divergences of
section 6.

Why the bounds are enough: the races are between two workers on one row, or
between one worker on each of two rows and a job; a second row is there where rows
can be confused (gifts are matched by memo, history joins records, deposits name
conversions, wallets compete for one sequence number, orders do not, so there is
one). Handlers are re-used when they return, so that sequences of requests are of any
length. `MaxAttempts = 2` and `MaxPushAttempts = 2` have an attempt that is not the
last one; `MaxPending = 1` puts two creations at the cap. Three payments in pages of
two need a second page. `Ttl = 2`, `PriceTtl = 2` and `StaleAfter = 1` are units of
time: an entry has a life, in which the price that it holds ages, and an end. `MaxTrouble` bounds what goes wrong with a
wallet, `MaxQuotes` the quotes of an order, `MaxUsers` and `MaxWallets` the rows of a
person, `MaxVersion` the policies. `Judged` names the verdicts that a partner comes
to: one of each class that the code tells apart. In the liveness runs two jobs (two dispatchers)
overlap, crash and meet on one row, and a second row would add none of that: a row is
waited for on its own, and the fairness below is per row. `deletion_push_liveness` keeps
the wallet's balance still (the clean-up after the scrub does not read it), starts with a
customer at BlindPay (the longer clean-up), lets an event be raised once (the dedupe key
makes the second a no-op) and has no receipts (they come after the end that is asked
about). Everything else is bounded by the
code or by the sets of the constants; there is no state constraint. Deadlock is not
checked: a settled system may stop.

### Fairness

- Intents: runs of the reconciliation start again and again, a live run goes on and passes
  over what it cannot send (WF). A row that is read in every run is not dropped at the same step for ever
  (SF of the send, the reply and the commit): errors and crashes are unbounded
  but not perpetual. This assumes that fewer records are pending than a run reads
  (50): the query has no order, so with more, a row may never be read. Handlers
  go on unless they abort; no client has to do anything; the network need not settle.
- Wallets: an owner whose wallet is not activated asks again and signs what is built,
  the request goes on, and the treasury's other transactions do not always come
  first (they are bounded by `MaxTrouble`). Linking a wallet is nobody's duty.
- Gifts: the hourly job runs, an expired gift is looked at again, its update does
  not fail for ever. Fewer such gifts than 20 are assumed.
- Conversions: handlers go on unless they abort, the sweep runs.
- Deletion: in one instance, whichever it is, the job goes on and comes to every pending
  row, and of its runs over a row not every one dies on the way (`JobEnds`). The other
  instances' runs and the requests may stop or die anywhere. No partner ever has to
  answer: failed attempts are counted to the limit.
- Push: in one instance, whichever it is, the dispatcher runs every few seconds, comes to
  every row (fewer rows than a batch are pending), and of its runs that come to the claim
  of a row not every one dies before it; a row that was claimed and left becomes stale, for
  time passes. The other dispatchers may stop anywhere, and Expo never has to answer.

## 5. Theorems

The theorems hold for any sets of rows, handlers, job runs, devices and instances, and
for any value of the other constants that the assumptions of the modules admit. Every
safety invariant and every action property of the passing runs is one of them.

| module | components | theorems that state a property of a run | and besides |
|---|---|---|---|
| `IntentProofs` | intents | `ConfirmedOnlyWhenLanded`, `NeverGivenUp`, `RecordsAdvance`, `ImplementsPromise` | `SuccessStays`, `CodedFailureStays`, `RoutesAgree`, `RecordsAreUsable` |
| `GiftProofs` | gifts | `LockHolds`, `ClaimedWasPaid`, `RefundsLeaveNothing` | `ClaimableGiftsAreFunded`, `EndsStay` |
| `ConversionProofs` | conversions, quotes | `ConfirmedWasConverted`, `ExpiredDidNotMove`, `DepositsAreSized` | `AmountsStay`; the quote's floor and the lookup of a symbol |
| `DeletionProofs` | the deletion saga | `ClosedWasMerged`, `CompletedWasErased`, `ClosureCameFirst` | `IdentityWentLast` |
| `GateProofs` | learning, eligibility, disclosures, the catalogue of lessons, access to a vault | `EarnedWasPaid`, `AccountsFollowLedgers`; `UnlocksAreEarned`; `ConsentIsRecent`, `NamedConsentIsInformed` | what the seed keeps; what the app is shown against what a deposit does |
| `RampProofs` | orders, customers, the check before a deletion, requests for information | `PayoutsAreSigned`, `PayoutClosesOrder`, `EndsAreTold`; `FlagIsOfAnApproval`, `PushesNameTheirCustomer`; `EligibleIsFree` | what is sent of an answer |
| `AccountProofs` | vault catalog, accounts, portfolios, incoming payments | `EditsAreKept`, `ConfirmedVaultsAreShown`; `ErasedIsNobody`, `NamesAreKept`; `TotalsAreWhole`, `PricesAreRecent`; `PaymentsAreTold` | |
| `PushProofs` | push outbox, wallets and trustlines, targets of broadcasts | `DuplicatesNeedLostAnswers`, `AttemptsAreBounded`, `ClosedRowsAreAnswered`; `RowsFollowTheChain` | who is reached by a version |

### The inductive invariants

Each component has a theorem `...Invariant`: an invariant, type correctness included, that
holds at first and that every action keeps (one lemma per action or family of actions).
The properties themselves are not inductive: a worker that is past its check relies on
what it read. The invariants therefore say, besides the property of the rows, what each
worker may still rely on at each value of its program counter:

- *Intents* (`HandlerInv`, `JobInv`): a signed XDR once stored stays, a record once made
  stays. `OneBuilder`: the unique idempotency key gives each row one creator, without
  which a second one could write XDR_GENERATED over anything.
- *Gifts* (`ClaimInv`, `ScanInv`): who holds the lock; what a scan saw cannot come back.
- *Conversions* (`HandlerInv`, `DepositInv`) and *deletion* (`WorkerInv`): an amount that
  was read stays; scrubbing, merging and the partners' deletions are never undone.
- *Learning* (`TxInv`, `Alone`): of all transactions, one has granted anything, as the grant
  locks the user's row; its total and level are those of the ledger with its own grants
  (lemmas `PointsAdd`, `LevelIs`); an answer that does not complete its lesson misses a
  question of it, or the seed rearranged the lesson.
- *Eligibility* (`InForceIsRecorded`, `EvaluationInv`): the rule an evaluation read was in
  force, and the progress it read is never taken back.
- *Disclosures* (`AgeInv`, `CacheInv`, `VisitInv`): the age of a cached text and the time its
  entry has left are together at most `Ttl`; what a call read of the database in this
  tick is current in this tick.
- *Orders* (`OrderInv`, `RequestInv`, `ReportInv`, `OneInserter`): the XDR of a payout
  delegates the quote beside it, because one update writes both; the push of an end is
  out, on its way, or was cut off; of one order one request is to insert the row.
- *Customers* (`CallerInv`): a verdict that is about to be told was given to the customer
  that the handler holds, although the owner's row may name another by now.
- *The check before a deletion* (`WorldInv`, `CheckInv`): whatever would block the deletion
  was noted, or is still to be read (`Noted`), whichever order the reads come in.
- *Vault catalog* (`EditedIsCurated`, `CallInv`): the job's run that would write over an
  edit had found the row before it; the submission that is to record a creation as CONFIRMED
  has shown it, or an operator hid it since.
- *Accounts* (`ErrandInv`, `ErasedInv`): an erased account that no request had resolved is
  held by none, so nothing is written on it again. `NamesAreKept` follows because the
  update of a name asks for its absence.
- *Portfolios* (`CacheInv`, `ValuerInv`): the age of a cached price and the time it has left
  are together at most `StaleAfter + PriceTtl`; what was counted is what is held in the
  vaults that were read.
- *Payments* (`WatchInv`, `CursorInv`): a run has told what is before the record it is at, and the
  cursor stands at a payment that landed, whoever moved it.
- *Push* (`RowInv`, `ClaimInv`): a claimed row is one run's; Expo is not known to have taken
  it while it is PENDING; and `Room`: the attempts made, and those of the runs that read the
  row before and may still put it back, stay below the limit plus the number of instances.
- *Wallets* (`RequestInv`, `ActInv`, `LineInv`): what a request is about to write of the chain
  is so, under the hash of the transaction that it sent.

`ImplementsPromise` shows that every step of `IntentLifecycle` is a step or a stutter of
`IntentPromise` under its refinement mapping.

### Pure functions

- Access (`GateProofs`): what the app is shown as open is open, if the vault has a published
  disclosure (`ShownOpenIsOpen`), and what is open is shown so, except for USDC
  (`OpenIsShownOpen`, `UsdcDiffersWhenOwed`); Lite fails closed; consent is to the
  last text. Versions are numbers; nothing else is assumed.
- The catalogue of lessons (`GateProofs`): for every edition that can be seeded in any order
  (`WellKeyed`) and whatever rows there are, no row is lost, an answer stays counted, and
  the seed may run again.
- Quotes (`ConversionProofs`): the floor is between 0 and the price, gives away the slippage
  and less than a stroop, and grows with the price, for a slippage of at most 10000 bps;
  a symbol finds its asset.
- Input (`RampProofs`, `PushProofs`): an answer without a fault is complete and holds what was
  asked for; a device that a broadcast reaches by its version is strictly below it.

### Assumptions

Those of the modules, which TLC evaluates in the runs: the "none" values are not elements
of the sets they are added to; handlers and jobs are different, and so are the names of
vaults and of the other reads of the check; limits, page sizes and times are
numbers, positive where the code's are. Instances that dispatch are finitely many (the bound
of the attempts counts them). Of learning: rewards are positive, thresholds positive and rising
(`40 * level ** 1.8`, `src/experience/experience-level.ts:31`), lessons and days finitely many,
and every lesson has a question (the seed refuses a lesson without exactly six,
`prisma/seed-learning.ts:438`).

### Only model-checked

The five liveness properties (`LandedRecordSettles`, `EveryWalletActivates`,
`ExpiredGoneIsClosed`, `CleanupEnds`, `OutboxDrains`): fairness and ENABLED are beyond the
prover. The violations of section 6 are counterexamples, found by TLC. The divergences
witnessed on small inputs (`AccessDisagrees`, `LegacyPositionIsLost`, `RegistryLetsThrough`,
`BlanksAnswer`, `ZerosDisagree`) are values, and `CatalogueIsSound` is about the edition in the
repository; TLC evaluates them.

## 6. Findings

1. *A submission without a record is PENDING for ever* (`PendingSettles`). A throw or
   a crash after the send and before the record; the reconciliation reads records only.
2. *Two deposits of one conversion* (`OneDepositPerConversion`). Checked, then
   attached by id several awaits later.
3. *A conversion that landed is not surfaced* (`LandedIsSurfaced`). A timeout is
   taken for a rejection; no job reads FAILED conversions.
4. *A scrubbed account that is open on the ledger* (`ScrubbedMeansClosed`). The row
   is inserted before the closure is built; the retry is answered from the row,
   whose closure is null, and null means "nothing to close" to the confirmation.
5. *More than dust is swept* (`OnlyDustIsSwept`). A failed read of the balances is
   answered as an empty list.

Divergences met while modelling that no run is kept for:

**Intents, gifts, conversions**

- The hourly job writes FAILED without a code over rows that were shown as EXPIRED
  (`jobs/expired-intents.job.ts:35`): the app's advice turns from "start again" to
  "contact support" (`docs/frontend-integration.md:276-281`).
- A gift that was paid ends as REFUNDED: the payment lands, its answer is a timeout, the
  `catch` frees the gift (`gifts/gifts.service.ts:263`), it expires, its balance is gone;
  `jobs/gift-reconciliation.job.ts:15-16` says "the sender reclaimed it".
- `createConversion` asks neither the allowlist, nor `depositsEnabled`, nor the disclosure
  (`conversions/conversions.service.ts:157-185`): money is converted for a deposit that is
  then refused.
- A record that names no transaction (`txHash` is optional in the SDK's answer) is passed over
  by every run of the reconciliation (`jobs/reconciliation.job.ts:43`): its intent stays
  SUBMITTED, whatever became of the transaction.
- `maxSlippageBps` has no upper bound: above 10000 the floor is negative. Symbols that
  differ only in case pass the check of duplicates, and only the first is ever found;
  an asset called "native" never is (`config/asset-registry.ts:191-240, 299-307`).

**Accounts**

- A second scrub, of a handler that passed its checks before the first one, archives
  the sentinel address over the real one (`account-deletion/scrub.service.ts:60-66`).
- A confirmation whose answer was lost cannot be repeated: the owner is resolved
  from an active wallet, which the scrub took away, so the answer for a COMPLETED
  request (`account-deletion.service.ts:164-171`) is out of reach.
- A request that resolved its owner before the scrub writes a name, an e-mail or a
  wallet on what is left of the account (`users/users.service.ts:47-62`,
  `users/usernames.service.ts:45-63`, `wallets/wallets.service.ts:74-97`): the
  exception in `TombstoneIsNobody`.
- "Expired without a balanceId means nothing ever reached the network"
  (`account-deletion/eligibility.service.ts:476`) is false when the funding landed and was
  not matched yet: the exception in `EligibleMeansFree`. So is a wallet that Horizon did
  not answer for. A vault without supply cannot be read and blocks the deletion.
- `isOnboarded` "só é ligado aqui — nunca desligado" (`ramp/kyc.service.ts:115`), but
  `PATCH /users/:id` writes the body as it is, and the body may hold the flag
  (`users/users.service.ts:58-62`, `users/dto/update-user.dto.ts:36-43`): an owner raises or
  lowers it at will, which is the exception (`selfSet`) in `FlagFollowsApproval`.
- Two first logins of one person with two addresses create two accounts; a login with a
  removed wallet meets the unique address and fails (`auth/auth.service.ts:36-107`).
- A repeated submission of a trustline does not reach its idempotent answer, as
  the XDR it compares with was cleared (`wallets/trustlines.service.ts:175-185`); a late
  failure is written over ACTIVE (213-217) until the next look at the chain.
- `activateWallet` hands out the same XDR until its time is over, although its sequence
  number may be used up.

**Ramps**

- An order that ended goes back when an older webhook comes; a payout's `refunded` becomes
  PROCESSING (`ramp/ramp.service.ts:877-888`); a webhook that comes before its row is
  inserted is dropped.
- `refreshOfframpXdr` writes PENDING_SIGNATURE over a status that came meanwhile, and a
  sync of `created` takes PENDING_SIGNATURE to PROCESSING
  (`etherfuse-ramp/etherfuse-ramp.service.ts:564-570, 621-652`).
- The answer of `createPayout` is lost, the order is refreshed and submitted again: a
  second payout, of a quote that was signed too.
- A bank account created during a resubmission stays with the customer left behind; not
  every customer left behind is archived, nor was every archived one rejected
  (`prisma/schema.prisma:893-898`).
- A required field of several values is answered by a list of blanks
  (`ramp/rfi-validation.ts:24-29`).

**Push**

- The limit of attempts is exceeded by what other instances read before
  (`jobs/push-dispatch.job.ts:262`); a row failed as stale is written SENT by its slow
  sender, by id (273-284); `finish` throws when the user's rows were erased, and the rest
  of the batch stays SENDING; a notification of an erased user is inserted by a producer
  that had read the user before (`notifications/notifications.service.ts:66-68`).
- Of `1.0.0-01` and `1.0.0-1` each compares as above the other
  (`notifications/push-target.ts:65-73`): a target at one does not reach the other.

**Gates and catalogue**

- A vault of another asset without a published disclosure is shown as open, and its
  deposit is refused; a USDC vault whose acknowledgment is owed is shown as closed, and
  its deposit is accepted (`vaults/vaults.service.ts:168-190` against
  `vault-registry/disclosure.guard.service.ts:45-50`). The detail page does not look at the
  allowlist.
- A lookup on its way puts the superseded disclosure back in the cache after the
  invalidation (`vault-registry/disclosure.service.ts:60-76, 215`): "the new version is not
  shadowed by the cache" holds for no instance, the publishing one included.
- "A mismatch is rejected with 409 so consent is never recorded against text nobody saw"
  (`vault-registry/dto/acknowledge-disclosure.dto.ts:10-12`), but the version is optional, and
  without it nothing is compared (`disclosure.service.ts:129`, and a test expects it,
  `disclosure.service.spec.ts:212-223`): consent without a version may be to a text that was
  published after the page was shown. `NamedConsentIsOfTextShown` excepts it (`blind`).
- New vaults appear in the app "sem intervenção manual" (`docs/modules/jobs.md:63`,
  `docs/modules/vaults.md:35`), but the job inserts them hidden, "Invisible until an admin
  lists it" (`jobs/vault-sync.job.ts:105-108`).
- `submitVault` lists the vault although its transaction was answered as failed, if its
  address was predicted (`docs/modules/vault-manager.md:65`: "Após confirmação"), and two
  submissions that overlap may write FAILED over CONFIRMED
  (`vault-manager/vault-manager.service.ts:140-178`). The discovery job's write may undo an
  edit made after it looked (`jobs/vault-sync.job.ts:85-133`).
- Two settings of the featured vault leave two (`vault-registry.admin.service.ts:104-109`).
- The seed puts a reader whose position is on a legacy key back to the first screen
  (`prisma/seed-learning.ts:170-181`; `prisma/learning-catalog.ts:3-4`: "Stable legacy
  mappings preserve progress"); a question it withdraws may leave a lesson answered and
  not complete: the exception in `EarnedIsPaid`.
- A position in a vault that was delisted is left out of the total without a word
  (`portfolio/portfolio.service.ts:66`; 20-25: "A partial total is worse than none").
- The flag of a price is cached with it: a price up to 20 minutes old is served as fresh
  (`pricing/pricing.service.ts:103-106, 150`).

## 7. What the models leave out

- **The network's answers.** `success` is said only of a transaction that was
  applied; a submission that is not answered may have been. A transaction is
  applied once. Which of two transactions with one sequence number wins is modelled
  for wallets, where the treasury builds them.
- **Amounts.** A conversion's amount is known or not; a wallet holds dust or more;
  two closures that sweep the same are not told apart; amounts below a gift's
  minimum and the checks of limits are refusals; a total is the set of positions it counts.
- **Gates.** In the sagas, eligibility, disclosures and provider checks answer yes or
  no without changing what is modelled; a no ends the handler.
- **Clocks.** `now > expiresAt` is one fact for all instances. A request ends
  before the row it inserted expires (24 hours, 8 minutes). Caches count units of time.
- **Gifts.** One claimable balance per gift and memo; one sender; conversions that
  were planned for a deposit only.
- **Deletion.** One account with one wallet, whose activation does not change
  during the saga; what the scrub writes is one bit there and is spelled out in
  `Accounts` and `PushOutbox`; a run of the job stands for one row of its batch.
- **Accounts.** The `isOnboarded = false` of a scrub is not in `CustomerKyc`: a scrubbed account
  has no requests there.
- **Disclosures.** A call that names a version names one that was shown to somebody; what a
  paused vault refuses is a deposit that is not made. An evaluation of eligibility reads a
  policy and its required modules, two statements of the code, in one step.
- **Learning.** An answer's reads under the user's lock (`learning/learning.service.ts:371-397`)
  are one step, and the answered questions are compared as a set where the code compares
  their number: the two differ only for a lesson that the seed rearranged.
- **Catalogue.** The two sample vaults that `prisma/seed.ts:10-34` lists are not rows of
  `VaultCatalog`: no job or manager meets their addresses.
- **Push.** A registration writes the device and prunes the oldest in one step. One category of
  preferences; a batch is of any size; wording is left out.
- **Wording.** Titles, texts and messages, in the catalogue and everywhere else.
- Not modelled: the partner's bank accounts; yields and their averages; decimal
  arithmetic of positions; the versions of the app; the verification of tokens and of
  webhook signatures (a forged call is refused); logging, configuration, HTTP wiring.
