----------------------------- MODULE PushOutbox -----------------------------
(***************************************************************************)
(* The outbox of push notifications: business flows and broadcasts insert  *)
(* rows, every instance of the backend runs a dispatcher that claims rows  *)
(* and hands them to Expo, and a job asks Expo for the receipts later.     *)
(*                                                                         *)
(* Expo's answer may be lost although it took the message, an instance may *)
(* die between any two statements, and an instance that is slow is taken   *)
(* for dead by the others.                                                 *)
(***************************************************************************)
EXTENDS Naturals, FiniteSets

CONSTANTS
    Events,         \* dedupe keys, each naming at most one row
    Users, Tokens,  \* a device is named by its Expo token
    UserOf,         \* the user an event is for
    Target,         \* the tokens whose platform and version are in an event's target
    Producers,      \* calls of notify and of broadcast
    Registrations,  \* requests that register a device
    Dispatchers,    \* one per instance: `running` keeps an instance to one run
    Checkers,       \* runs of the receipts job
    MaxPushAttempts,    \* MAX_ATTEMPTS
    MaxDevices,     \* MAX_DEVICES_PER_USER
    NoEvent, NoUser

ASSUME MaxPushAttemptsAssumption == MaxPushAttempts \in Nat \ {0}
ASSUME MaxDevicesAssumption == MaxDevices \in Nat \ {0}
ASSUME EventAssumption ==
    /\ UserOf \in [Events -> Users]
    /\ Target \in [Events -> SUBSET Tokens]
ASSUME NoneAssumption == NoEvent \notin Events /\ NoUser \notin Users
ASSUME FiniteAssumption == IsFiniteSet(Dispatchers)

VARIABLES
    rowStatus, pushAttempts,   \* columns of Notification ("absent": no row)
    tickets,            \* the tokens a SENT row has tickets of
    checked,            \* receiptCheckedAt is set
    age,                \* of a SENDING row "fresh" or "stale"; of a SENT row also "ripe" and "old"
    owner,              \* the user of a device's row; NoUser: no row
    active,             \* disabledAt is null
    deleted,            \* users that were scrubbed
    producing, enabled, \* per producer: the event past its reads, and what the preferences said
    registering,        \* per registration: the user and the token past the ownership check
    dispatch,                 \* per dispatcher
    seen,               \* per dispatcher: candidates still to be claimed
    read,               \* per dispatcher: the attempts of a candidate, as read
    claimed,            \* per dispatcher: its rows not finished yet
    erased,             \* per dispatcher: those of them that a scrub deleted
    route,              \* per dispatcher: the tokens each of its rows goes to
    result,             \* per dispatcher: what Expo answered for each row
    gone,               \* per dispatcher: tokens that Expo does not know any more
    looking,            \* per checker: the rows it read
    delivered,          \* history: how often Expo took messages of an event
    lostAnswer,         \* history: events of which it took one without our knowing
    answered            \* history: receipts that came and were acted on

row      == <<rowStatus, pushAttempts, tickets, checked, age>>
devices  == <<owner, active>>
requests == <<producing, enabled, registering>>
batch    == <<seen, read, claimed, erased, route, result, gone>>
history  == <<delivered, lostAnswer, answered>>
pushVars     == <<rowStatus, pushAttempts, tickets, checked, age, owner, active, deleted,
              producing, enabled, registering, dispatch, seen, read, claimed, erased, route, result,
              gone, looking, delivered, lostAnswer, answered>>

NotificationStatus == {"PENDING", "SENDING", "SENT", "FAILED", "SKIPPED"}

Attempts == 0 .. MaxPushAttempts + Cardinality(Dispatchers)

PushTypeOK ==
    /\ rowStatus \in [Events -> NotificationStatus \cup {"absent"}]
    /\ pushAttempts \in [Events -> Attempts]
    /\ tickets \in [Events -> SUBSET Tokens]
    /\ checked \in [Events -> BOOLEAN]
    /\ age \in [Events -> {"fresh", "stale", "ripe", "old", "lost"}]
    /\ owner \in [Tokens -> Users \cup {NoUser}]
    /\ active \in [Tokens -> BOOLEAN]
    /\ deleted \in SUBSET Users
    /\ producing \in [Producers -> Events \cup {NoEvent}]
    /\ enabled \in [Producers -> BOOLEAN]
    /\ registering \in [Registrations -> (Users \X Tokens) \cup {NoUser}]
    /\ dispatch \in [Dispatchers -> {"idle", "scan", "claim", "skip", "send", "disable", "finish"}]
    /\ seen \in [Dispatchers -> SUBSET Events]
    /\ read \in [Dispatchers -> [Events -> Attempts]]
    /\ claimed \in [Dispatchers -> SUBSET Events]
    /\ erased \in [Dispatchers -> SUBSET Events]
    /\ route \in [Dispatchers -> [Events -> SUBSET Tokens]]
    /\ result \in [Dispatchers -> [Events -> [ok: SUBSET Tokens, retry: BOOLEAN]]]
    /\ gone \in [Dispatchers -> SUBSET Tokens]
    /\ looking \in [Checkers -> SUBSET (Events \X {"ripe", "old"})]
    /\ delivered \in [Events -> Attempts]
    /\ lostAnswer \in SUBSET Events
    /\ answered \in SUBSET (Events \X Tokens)

NoAnswer == [ok |-> {}, retry |-> FALSE]

PushInit ==
    /\ rowStatus = [e \in Events |-> "absent"]
    /\ pushAttempts = [e \in Events |-> 0]
    /\ tickets = [e \in Events |-> {}]
    /\ checked = [e \in Events |-> FALSE]
    /\ age = [e \in Events |-> "fresh"]
    /\ owner = [t \in Tokens |-> NoUser]
    /\ active = [t \in Tokens |-> FALSE]
    /\ deleted = {}
    /\ producing = [p \in Producers |-> NoEvent]
    /\ enabled = [p \in Producers |-> FALSE]
    /\ registering = [r \in Registrations |-> NoUser]
    /\ dispatch = [i \in Dispatchers |-> "idle"]
    /\ seen = [i \in Dispatchers |-> {}]
    /\ read = [i \in Dispatchers |-> [e \in Events |-> 0]]
    /\ claimed = [i \in Dispatchers |-> {}]
    /\ erased = [i \in Dispatchers |-> {}]
    /\ route = [i \in Dispatchers |-> [e \in Events |-> {}]]
    /\ result = [i \in Dispatchers |-> [e \in Events |-> NoAnswer]]
    /\ gone = [i \in Dispatchers |-> {}]
    /\ looking = [c \in Checkers |-> {}]
    /\ delivered = [e \in Events |-> 0]
    /\ lostAnswer = {}
    /\ answered = {}

-----------------------------------------------------------------------------
(* notify and broadcast: the user is read, then the row is inserted.       *)

\* The scrubbed are told nothing; the preferences say whether the row is for
\* sending or for the record.
NotifyRead(p, e) ==
    /\ producing[p] = NoEvent
    /\ UserOf[e] \notin deleted
    /\ producing' = [producing EXCEPT ![p] = e]
    /\ \E yes \in BOOLEAN : enabled' = [enabled EXCEPT ![p] = yes]
    /\ UNCHANGED <<row, devices, deleted, registering, dispatch, batch, looking, history>>

\* eligibleUsers: not deleted, with an active device in the target.
Reachable(e) ==
    /\ UserOf[e] \notin deleted
    /\ \E t \in Target[e] : owner[t] = UserOf[e] /\ active[t]

\* Of these, the users whose preferences say yes.  The key is new.
BroadcastRead(p, e) ==
    /\ producing[p] = NoEvent
    /\ rowStatus[e] = "absent"
    /\ Reachable(e)
    /\ producing' = [producing EXCEPT ![p] = e]
    /\ enabled' = [enabled EXCEPT ![p] = TRUE]
    /\ UNCHANGED <<row, devices, deleted, registering, dispatch, batch, looking, history>>

Creatable(e) == rowStatus[e] = "absent"

\* The unique dedupe key turns a repeated event into nothing.
Create(p) ==
    LET e == producing[p] IN
    /\ e # NoEvent
    /\ IF Creatable(e)
       THEN rowStatus' = [rowStatus EXCEPT ![e] = IF enabled[p] THEN "PENDING" ELSE "SKIPPED"]
       ELSE UNCHANGED rowStatus
    /\ producing' = [producing EXCEPT ![p] = NoEvent]
    /\ enabled' = [enabled EXCEPT ![p] = FALSE]
    /\ UNCHANGED <<pushAttempts, tickets, checked, age, devices, deleted, registering, dispatch, batch,
                   looking, history>>

\* A database error is logged and swallowed; or the instance dies.
ProducerFails(p) ==
    /\ producing[p] # NoEvent
    /\ producing' = [producing EXCEPT ![p] = NoEvent]
    /\ enabled' = [enabled EXCEPT ![p] = FALSE]
    /\ UNCHANGED <<row, devices, deleted, registering, dispatch, batch, looking, history>>

-----------------------------------------------------------------------------
(* Devices.                                                                *)

RegisterCheck(r, u, t) ==
    /\ registering[r] = NoUser
    /\ u \notin deleted
    /\ registering' = [registering EXCEPT ![r] = <<u, t>>]
    /\ UNCHANGED <<row, devices, deleted, producing, enabled, dispatch, batch, looking, history>>

\* An upsert by token, whoever had it, and then the user's oldest devices above
\* the limit go (any of the others may be the oldest).
Register(r) ==
    /\ registering[r] # NoUser
    /\ LET u == registering[r][1]
           t == registering[r][2]
           mine == {d \in Tokens : owner[d] = u} \cup {t}
       IN \E kept \in SUBSET mine :
             /\ t \in kept
             /\ kept = mine \/ Cardinality(kept) = MaxDevices
             /\ Cardinality(kept) <= MaxDevices
             /\ owner' = [d \in Tokens |-> IF d \in kept THEN u
                                           ELSE IF d \in mine THEN NoUser ELSE owner[d]]
             /\ active' = [d \in Tokens |-> IF d = t THEN TRUE
                                            ELSE active[d] /\ d \notin mine \ kept]
    /\ registering' = [registering EXCEPT ![r] = NoUser]
    /\ UNCHANGED <<row, deleted, producing, enabled, dispatch, batch, looking, history>>

RemoveDevice(u, t) ==
    /\ owner[t] = u
    /\ u \notin deleted
    /\ owner' = [owner EXCEPT ![t] = NoUser]
    /\ active' = [active EXCEPT ![t] = FALSE]
    /\ UNCHANGED <<row, deleted, requests, dispatch, batch, looking, history>>

EventsOf(u) == {e \in Events : UserOf[e] = u}

\* The scrub of a deleted account, one database transaction.  What a run holds of
\* its rows names nothing any more.
ScrubUser(u) ==
    LET mine == EventsOf(u) IN
    /\ u \notin deleted
    /\ deleted' = deleted \cup {u}
    /\ owner' = [t \in Tokens |-> IF owner[t] = u THEN NoUser ELSE owner[t]]
    /\ active' = [t \in Tokens |-> active[t] /\ owner[t] # u]
    /\ rowStatus' = [e \in Events |-> IF e \in mine THEN "absent" ELSE rowStatus[e]]
    /\ pushAttempts' = [e \in Events |-> IF e \in mine THEN 0 ELSE pushAttempts[e]]
    /\ tickets' = [e \in Events |-> IF e \in mine THEN {} ELSE tickets[e]]
    /\ checked' = [e \in Events |-> checked[e] /\ e \notin mine]
    /\ age' = [e \in Events |-> IF e \in mine THEN "fresh" ELSE age[e]]
    /\ seen' = [i \in Dispatchers |-> seen[i] \ mine]
    /\ erased' = [i \in Dispatchers |-> erased[i] \cup (claimed[i] \cap mine)]
    /\ looking' = [c \in Checkers |-> {p \in looking[c] : p[1] \notin mine}]
    /\ delivered' = [e \in Events |-> IF e \in mine THEN 0 ELSE delivered[e]]
    /\ lostAnswer' = lostAnswer \ mine
    /\ answered' = {p \in answered : p[1] \notin mine}
    /\ UNCHANGED <<requests, dispatch, read, claimed, route, result, gone>>

-----------------------------------------------------------------------------
(* dispatch, every ten seconds in every instance.                          *)

\* Mutant: what is stale is sent again.
StaleAgain == "PENDING"

\* Mutant: what is stale is left as it is.
StaleStays == "SENDING"

AfterStale == "FAILED"

\* A run over an empty outbox does nothing.
DispatchStart(i) ==
    /\ dispatch[i] = "idle"
    /\ \E e \in Events : rowStatus[e] # "absent"
    /\ dispatch' = [dispatch EXCEPT ![i] = "scan"]
    /\ rowStatus' = [e \in Events |->
                    IF rowStatus[e] = "SENDING" /\ age[e] = "stale" THEN AfterStale ELSE rowStatus[e]]
    /\ UNCHANGED <<pushAttempts, tickets, checked, age, devices, deleted, requests, batch, looking,
                   history>>

DispatchRead(i) ==
    LET pending == {e \in Events : rowStatus[e] = "PENDING"} IN
    /\ dispatch[i] = "scan"
    /\ dispatch' = [dispatch EXCEPT ![i] = IF pending = {} THEN "idle" ELSE "claim"]
    /\ seen' = [seen EXCEPT ![i] = pending]
    /\ read' = [read EXCEPT ![i] = [e \in Events |-> IF e \in pending THEN pushAttempts[e] ELSE 0]]
    /\ UNCHANGED <<row, devices, deleted, requests, claimed, erased, route, result, gone, looking,
                   history>>

Claimable(e) == rowStatus[e] = "PENDING"

\* updateMany PENDING -> SENDING; only a count of 1 makes the row this run's.
DispatchClaim(i, e) ==
    /\ dispatch[i] = "claim"
    /\ e \in seen[i]
    /\ seen' = [seen EXCEPT ![i] = @ \ {e}]
    /\ IF Claimable(e)
       THEN /\ rowStatus' = [rowStatus EXCEPT ![e] = "SENDING"]
            /\ pushAttempts' = [pushAttempts EXCEPT ![e] = @ + 1]
            /\ age' = [age EXCEPT ![e] = "fresh"]
            /\ claimed' = [claimed EXCEPT ![i] = @ \cup {e}]
       ELSE UNCHANGED <<rowStatus, pushAttempts, age, claimed>>
    /\ UNCHANGED <<tickets, checked, devices, deleted, requests, dispatch, read, erased, route, result,
                   gone, looking, history>>

\* One read of the devices for all the rows of the batch.
DispatchRoute(i) ==
    /\ dispatch[i] = "claim"
    /\ seen[i] = {}
    /\ dispatch' = [dispatch EXCEPT ![i] = IF claimed[i] = {} THEN "idle" ELSE "skip"]
    /\ route' = [route EXCEPT ![i] = [e \in Events |->
                    IF e \notin claimed[i] THEN {}
                    ELSE {t \in Target[e] : owner[t] = UserOf[e] /\ active[t]}]]
    /\ UNCHANGED <<row, devices, deleted, requests, seen, read, claimed, erased, result, gone,
                   looking, history>>

Unroutable(i) == {e \in claimed[i] : route[i][e] = {}}

Idle(i) ==
    /\ dispatch' = [dispatch EXCEPT ![i] = "idle"]
    /\ seen' = [seen EXCEPT ![i] = {}]
    /\ read' = [read EXCEPT ![i] = [e \in Events |-> 0]]
    /\ claimed' = [claimed EXCEPT ![i] = {}]
    /\ erased' = [erased EXCEPT ![i] = {}]
    /\ route' = [route EXCEPT ![i] = [e \in Events |-> {}]]
    /\ result' = [result EXCEPT ![i] = [e \in Events |-> NoAnswer]]
    /\ gone' = [gone EXCEPT ![i] = {}]

\* finish: an update by id, which throws when the row was deleted, and then the
\* rest of the batch is left as it is.
Finish(i, e, to) ==
    IF e \in erased[i]
    THEN Idle(i) /\ UNCHANGED rowStatus
    ELSE /\ rowStatus' = [rowStatus EXCEPT ![e] = to]
         /\ claimed' = [claimed EXCEPT ![i] = @ \ {e}]
         /\ UNCHANGED <<dispatch, seen, read, erased, route, result, gone>>

DispatchSkip(i, e) ==
    /\ dispatch[i] = "skip"
    /\ e \in Unroutable(i)
    /\ Finish(i, e, "SKIPPED")
    /\ UNCHANGED <<pushAttempts, tickets, checked, age, devices, deleted, requests, looking, history>>

\* Each message gets a ticket, or is refused for its device, for good, or for
\* now; a request whose answer is lost is "for now" too, but Expo may have taken
\* its messages.  (Chunks are sent one by one: each message has its own fate.)
DispatchSend(i) ==
    /\ dispatch[i] = "skip"
    /\ Unroutable(i) = {}
    /\ IF claimed[i] = {} THEN Idle(i) /\ UNCHANGED <<delivered, lostAnswer>>
       ELSE \E ans \in [claimed[i] -> [ok: SUBSET Tokens, retry: BOOLEAN]],
               dead \in SUBSET Tokens,
               lost \in SUBSET claimed[i] :
              /\ \A e \in claimed[i] :
                    /\ ans[e].ok \subseteq route[i][e] \ dead
                    /\ ans[e].retry => ans[e].ok \cup dead # route[i][e]
                    /\ e \in lost => ans[e].retry
              /\ dead \subseteq UNION {route[i][e] : e \in claimed[i]}
              /\ dispatch' = [dispatch EXCEPT ![i] = "disable"]
              /\ result' = [result EXCEPT ![i] = [e \in Events |->
                                IF e \in claimed[i] THEN ans[e] ELSE NoAnswer]]
              /\ gone' = [gone EXCEPT ![i] = dead]
              /\ delivered' = [e \in Events |->
                    IF e \in claimed[i] \ erased[i] /\ (ans[e].ok # {} \/ e \in lost)
                    THEN delivered[e] + 1 ELSE delivered[e]]
              /\ lostAnswer' = lostAnswer \cup (lost \ erased[i])
              /\ route' = [route EXCEPT ![i] = [e \in Events |-> {}]]
              /\ UNCHANGED <<seen, read, claimed, erased>>
    /\ UNCHANGED <<row, devices, deleted, requests, looking, answered>>

DispatchDisable(i) ==
    /\ dispatch[i] = "disable"
    /\ dispatch' = [dispatch EXCEPT ![i] = "finish"]
    /\ active' = [t \in Tokens |-> active[t] /\ t \notin gone[i]]
    /\ gone' = [gone EXCEPT ![i] = {}]
    /\ UNCHANGED <<row, owner, deleted, requests, seen, read, claimed, erased, route, result,
                   looking, history>>

\* Mutant: the limit is compared with the attempts before this one.
OutcomeOneMore(i, e) ==
    IF result[i][e].ok # {} THEN "SENT"
    ELSE IF result[i][e].retry /\ read[i][e] < MaxPushAttempts THEN "PENDING" ELSE "FAILED"

\* The attempts are those of the read of the candidates, plus one.
Outcome(i, e) ==
    IF result[i][e].ok # {} THEN "SENT"
    ELSE IF result[i][e].retry /\ read[i][e] + 1 < MaxPushAttempts THEN "PENDING" ELSE "FAILED"

DispatchFinish(i, e) ==
    /\ dispatch[i] = "finish"
    /\ e \in claimed[i]
    /\ Finish(i, e, Outcome(i, e))
    /\ IF e \notin erased[i] /\ Outcome(i, e) = "SENT"
       THEN /\ tickets' = [tickets EXCEPT ![e] = result[i][e].ok]
            /\ age' = [age EXCEPT ![e] = "fresh"]
       ELSE UNCHANGED <<tickets, age>>
    /\ UNCHANGED <<pushAttempts, checked, devices, deleted, requests, looking, history>>

DispatchEnd(i) ==
    /\ dispatch[i] = "finish"
    /\ claimed[i] = {}
    /\ Idle(i)
    /\ UNCHANGED <<row, devices, deleted, requests, looking, history>>

\* A database error, or the instance dies.
DispatchCrash(i) ==
    /\ dispatch[i] # "idle"
    /\ Idle(i)
    /\ UNCHANGED <<row, devices, deleted, requests, looking, history>>

-----------------------------------------------------------------------------
(* checkReceipts, every fifteen minutes.                                   *)

Ripe == {e \in Events : rowStatus[e] = "SENT" /\ ~checked[e] /\ age[e] \in {"ripe", "old"}}

CheckRead(c) ==
    /\ looking[c] = {}
    /\ Ripe # {}
    /\ looking' = [looking EXCEPT ![c] = {<<e, age[e]>> : e \in Ripe}]
    /\ UNCHANGED <<row, devices, deleted, requests, dispatch, batch, history>>

\* Mutant: a row of which some receipt came is closed.
SomeCame(e, came) == \E t \in tickets[e] : <<e, t>> \in came

AllCame(e, came) == \A t \in tickets[e] : <<e, t>> \in came

Closable(c, came) == {e \in Events : \/ <<e, "ripe">> \in looking[c] /\ AllCame(e, came)
                                     \/ <<e, "old">> \in looking[c]}

\* The receipts that a run asks for: of every ticket of the rows it read.
Awaited(c) == {r \in {p[1] : p \in looking[c]} \X Tokens : r[2] \in tickets[r[1]]}

\* The receipts that came in this run, of what Expo knew a while ago; the devices
\* they say are gone are disabled, and then the rows are closed, or the run ends.
CheckReceipts(c) ==
    /\ looking[c] # {}
    /\ \E came \in SUBSET Awaited(c) :
          \E dead \in SUBSET {p[2] : p \in came}, close \in {{}, Closable(c, came)} :
             /\ active' = [t \in Tokens |-> active[t] /\ t \notin dead]
             /\ answered' = answered \cup came
             /\ checked' = [e \in Events |-> checked[e] \/ (e \in close)]
    /\ looking' = [looking EXCEPT ![c] = {}]
    /\ UNCHANGED <<rowStatus, pushAttempts, tickets, age, owner, deleted, requests, dispatch, batch, delivered,
                   lostAnswer>>

-----------------------------------------------------------------------------
(* The clock: five minutes in SENDING; a quarter of an hour, 23 and 24      *)
(* hours after sentAt.                                                     *)
Ages(e) ==
    /\ \/ /\ rowStatus[e] = "SENDING" /\ age[e] = "fresh"
          /\ age' = [age EXCEPT ![e] = "stale"]
       \/ /\ rowStatus[e] = "SENT" /\ ~checked[e]
          /\ \/ age[e] = "fresh" /\ age' = [age EXCEPT ![e] = "ripe"]
             \/ age[e] = "ripe" /\ age' = [age EXCEPT ![e] = "old"]
             \/ age[e] = "old" /\ age' = [age EXCEPT ![e] = "lost"]
    /\ UNCHANGED <<rowStatus, pushAttempts, tickets, checked, devices, deleted, requests, dispatch, batch,
                   looking, history>>

-----------------------------------------------------------------------------
ProducerNext(p) ==
    \/ \E e \in Events : NotifyRead(p, e) \/ BroadcastRead(p, e)
    \/ Create(p) \/ ProducerFails(p)

DeviceNext ==
    \/ \E u \in Users : ScrubUser(u)
    \/ \E u \in Users, t \in Tokens : RemoveDevice(u, t)
    \/ \E r \in Registrations : Register(r) \/ \E u \in Users, t \in Tokens : RegisterCheck(r, u, t)

DispatchNext(i) ==
    \/ DispatchStart(i) \/ DispatchRead(i) \/ DispatchRoute(i) \/ DispatchSend(i)
    \/ DispatchDisable(i) \/ DispatchEnd(i) \/ DispatchCrash(i)
    \/ \E e \in Events : DispatchClaim(i, e) \/ DispatchSkip(i, e) \/ DispatchFinish(i, e)

PushNext ==
    \/ \E p \in Producers : ProducerNext(p)
    \/ DeviceNext
    \/ \E i \in Dispatchers : DispatchNext(i)
    \/ \E c \in Checkers : CheckRead(c) \/ CheckReceipts(c)
    \/ \E e \in Events : Ages(e)

PushSpec == PushInit /\ [][PushNext]_pushVars

(* One instance at least runs its dispatcher for ever, and of its runs that   *)
(* come to the same statement not every one dies there, until a row is        *)
(* claimed; five minutes pass.  The others, and Expo, never have to go on.    *)
PushFairness ==
    /\ \E i \in Dispatchers :
          /\ WF_pushVars(DispatchNext(i))
          /\ SF_pushVars(DispatchRead(i))
          /\ \A e \in Events : SF_pushVars(DispatchClaim(i, e))
    /\ \A e \in Events : WF_pushVars(Ages(e))

PushFairSpec == PushSpec /\ PushFairness
=============================================================================
