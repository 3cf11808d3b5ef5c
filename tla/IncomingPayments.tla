-------------------------- MODULE IncomingPayments --------------------------
(***************************************************************************)
(* The watcher of payments that come in: every instance pages through a    *)
(* wallet's payments on Horizon from the cursor in the wallet's row, puts  *)
(* a push in the outbox for each that deserves one, and moves the cursor.  *)
(* Instances overlap, die between any two steps, and the outbox may refuse *)
(* a row.                                                                  *)
(***************************************************************************)
EXTENDS Naturals

CONSTANTS
    Watchers,       \* one per instance: `running` keeps an instance to one run
    MaxPayments,    \* bound: payments of the wallet
    PageSize,       \* PAGE_SIZE
    MaxPages        \* MAX_PAGES_PER_WALLET

ASSUME PaymentBoundAssumption == MaxPayments \in Nat
ASSUME PagingAssumption == PageSize \in Nat \ {0} /\ MaxPages \in Nat \ {0}

Payments == 1 .. MaxPayments
Unset == MaxPayments + 1    \* lastPaymentCursor is null

VARIABLES
    landed,     \* payments on the ledger, in the order of their paging tokens
    origin,     \* who each is from
    onramp,     \* what the owner's on-ramps look like from the outside
    cursor,     \* lastPaymentCursor
    baseline,   \* history: the cursor's first value
    outbox,     \* payments with a row of TRANSFER_RECEIVED: the dedupe key is the payment's
    explained,  \* history: payments taken for the delivery of an on-ramp
    watch       \* per watcher: where it is, the cursor it goes by, and the page it has

payVars == <<landed, origin, onramp, cursor, baseline, outbox, explained, watch>>

\* Another user; an address that is nobody's; and the payments that are no news: from the
\* owner's other wallets or the system's own accounts, outgoing, or not of USDC.
Origin == {"user", "unknown", "nonews"}

NoWatch == [pc |-> "idle", from |-> Unset, upTo |-> 0, next |-> 0, page |-> 0]

WatchRow == [pc: {"idle", "fetch", "baseline", "handle", "move"},
             from: 0 .. Unset, upTo: 0 .. MaxPayments, next: 0 .. Unset, page: 0 .. MaxPages]

PayTypeOK ==
    /\ landed \in 0 .. MaxPayments
    /\ origin \in [Payments -> Origin]
    /\ onramp \in {"none", "near"}
    /\ cursor \in 0 .. Unset
    /\ baseline \in 0 .. Unset
    /\ outbox \in SUBSET Payments
    /\ explained \in SUBSET Payments
    /\ watch \in [Watchers -> WatchRow]

PayInit ==
    /\ landed = 0
    /\ origin = [p \in Payments |-> "nonews"]
    /\ onramp \in {"none", "near"}
    /\ cursor = Unset /\ baseline = Unset
    /\ outbox = {} /\ explained = {}
    /\ watch = [i \in Watchers |-> NoWatch]

-----------------------------------------------------------------------------
PaymentLands ==
    /\ landed < MaxPayments
    /\ landed' = landed + 1
    /\ \E who \in Origin : origin' = [origin EXCEPT ![landed + 1] = who]
    /\ UNCHANGED <<onramp, cursor, baseline, outbox, explained, watch>>

\* On-ramps open, complete and go out of the window.
OnrampChanges ==
    /\ onramp' \in {"none", "near"} \ {onramp}
    /\ UNCHANGED <<landed, origin, cursor, baseline, outbox, explained, watch>>

\* nextWallets reads the wallet's row, the cursor with it.
WatchRead(i) ==
    /\ watch[i].pc = "idle"
    /\ watch' = [watch EXCEPT ![i] =
                    [NoWatch EXCEPT !.pc = "fetch", !.from = cursor]]
    /\ UNCHANGED <<landed, origin, onramp, cursor, baseline, outbox, explained>>

\* A wallet without a cursor: the latest payment is asked for...
BaselineFetch(i) ==
    /\ watch[i].pc = "fetch" /\ watch[i].from = Unset
    /\ watch' = [watch EXCEPT ![i] = [@ EXCEPT !.pc = "baseline", !.upTo = landed]]
    /\ UNCHANGED <<landed, origin, onramp, cursor, baseline, outbox, explained>>

\* Mutant: the cursor is written by the wallet's id alone.
MayMoveBlindly(i) == TRUE

\* The update is conditional on the cursor that was read.
MayMove(i) == cursor = watch[i].from

\* ...and is where the watcher starts, unless another instance was first.
BaselineWrite(i) ==
    /\ watch[i].pc = "baseline"
    /\ IF MayMove(i)
       THEN /\ cursor' = watch[i].upTo
            /\ baseline' = IF baseline = Unset THEN watch[i].upTo ELSE baseline
       ELSE UNCHANGED <<cursor, baseline>>
    /\ watch' = [watch EXCEPT ![i] = NoWatch]
    /\ UNCHANGED <<landed, origin, onramp, outbox, explained>>

LastOfPage(from) == IF landed < from + PageSize THEN landed ELSE from + PageSize

PageFetch(i) ==
    LET from == watch[i].from IN
    /\ watch[i].pc = "fetch" /\ from # Unset
    /\ watch' = [watch EXCEPT ![i] =
                    IF LastOfPage(from) = from THEN NoWatch
                    ELSE [@ EXCEPT !.pc = "handle", !.upTo = LastOfPage(from), !.next = from + 1]]
    /\ UNCHANGED <<landed, origin, onramp, cursor, baseline, outbox, explained>>

\* The next record of the page is dealt with.
Handled(i) ==
    LET p == watch[i].next IN
    watch' = [watch EXCEPT ![i] = [watch[i] EXCEPT !.next = p + 1,
                                                   !.pc = IF p = watch[i].upTo THEN "move" ELSE "handle"]]

\* Not incoming USDC, or from the system's or the owner's own accounts.
Silent(p) == origin[p] = "nonews"

\* A sender that is no user, while an on-ramp is open or was completed lately.
Delivers(p) == origin[p] = "unknown" /\ onramp = "near"

HandleSilently(i) ==
    LET p == watch[i].next IN
    /\ watch[i].pc = "handle"
    /\ \/ Silent(p) /\ UNCHANGED explained
       \/ Delivers(p) /\ explained' = explained \cup {p}
    /\ Handled(i)
    /\ UNCHANGED <<landed, origin, onramp, cursor, baseline, outbox>>

HandleNotify(i) ==
    LET p == watch[i].next IN
    /\ watch[i].pc = "handle" /\ ~ Silent(p) /\ ~ Delivers(p)
    /\ outbox' = outbox \cup {p}
    /\ Handled(i)
    /\ UNCHANGED <<landed, origin, onramp, cursor, baseline, explained>>

\* Mutant: the cursor is moved past the payment that could not be told.
StopAfter(p) == p

\* The cursor goes to the record before the one that failed.
StopBefore(p) == p - 1

\* The outbox refuses the row: the page ends here, and so does the wallet's turn.
HandleFails(i) ==
    LET p == watch[i].next IN
    /\ watch[i].pc = "handle" /\ ~ Silent(p) /\ ~ Delivers(p)
    /\ watch' = [watch EXCEPT ![i] =
                    IF StopBefore(p) = watch[i].from THEN NoWatch
                    ELSE [@ EXCEPT !.pc = "move", !.upTo = StopBefore(p), !.page = MaxPages]]
    /\ UNCHANGED <<landed, origin, onramp, cursor, baseline, outbox, explained>>

\* A full page is followed by another, up to a limit; an instance that finds the
\* cursor moved leaves the wallet to whoever moved it.
CursorMove(i) ==
    LET full == watch[i].upTo - watch[i].from = PageSize
        more == full /\ watch[i].page + 1 < MaxPages
    IN
    /\ watch[i].pc = "move"
    /\ cursor' = IF MayMove(i) THEN watch[i].upTo ELSE cursor
    /\ watch' = [watch EXCEPT ![i] =
                    IF MayMove(i) /\ more
                    THEN [NoWatch EXCEPT !.pc = "fetch", !.from = watch[i].upTo, !.page = watch[i].page + 1]
                    ELSE NoWatch]
    /\ UNCHANGED <<landed, origin, onramp, baseline, outbox, explained>>

\* Horizon does not answer, or the instance dies.
WatchFails(i) ==
    /\ watch[i].pc # "idle"
    /\ watch' = [watch EXCEPT ![i] = NoWatch]
    /\ UNCHANGED <<landed, origin, onramp, cursor, baseline, outbox, explained>>

Watch(i) ==
    \/ WatchRead(i) \/ BaselineFetch(i) \/ BaselineWrite(i) \/ PageFetch(i)
    \/ HandleSilently(i) \/ HandleNotify(i) \/ HandleFails(i) \/ CursorMove(i) \/ WatchFails(i)

PayNext ==
    \/ PaymentLands \/ OnrampChanges
    \/ \E i \in Watchers : Watch(i)

PaySpec == PayInit /\ [][PayNext]_payVars

-----------------------------------------------------------------------------
(* Properties *)

\* Behind the cursor and after the baseline nothing is forgotten: a payment of
\* another person has its push, or was taken for an on-ramp's delivery, although
\* instances overlap, die, and the outbox refuses rows.
NoPaymentSkipped ==
    cursor # Unset =>
        \A p \in Payments :
            baseline < p /\ p <= cursor /\ origin[p] \in {"user", "unknown"} =>
                p \in outbox \cup explained
=============================================================================
