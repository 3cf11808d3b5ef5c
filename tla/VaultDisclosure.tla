-------------------------- MODULE VaultDisclosure ---------------------------
(***************************************************************************)
(* One vault of the registry and its risk disclosures: an operator lists   *)
(* the vault, creates versions of the disclosure and publishes them; a     *)
(* user is shown the current one, accepts it, and deposits.  Every         *)
(* instance caches the current version for a while, and only the instance  *)
(* that publishes invalidates its own cache.  (A USDC vault is exempt from *)
(* all of this: this one is of another asset.)                             *)
(*                                                                         *)
(* Time passes in ticks; a call lasts less than a tick.                    *)
(***************************************************************************)
EXTENDS Naturals

CONSTANTS
    MaxVersion,     \* bound on the disclosure versions
    Ttl,            \* CURRENT_VERSION_CACHE_TTL_MS, in ticks
    Instances,      \* instances of the backend, each with its cache
    Visits,         \* calls of the user and of the operator that may overlap
    NoInstance

ASSUME MaxVersionAssumption == MaxVersion \in Nat \ {0}
ASSUME TtlAssumption == Ttl \in Nat \ {0}
ASSUME NoInstanceAssumption == NoInstance \notin Instances

VARIABLES
    text,           \* per version: "absent", "draft" or "published"
    vault,          \* isActive: "unlisted" or "open" (a pause is as if nobody deposited)
    cache,          \* per instance: currentCache's version (0: null) and the ticks it has left
    acked,          \* versions with an acknowledgment of the user
    visit,          \* per call: where it is, on which instance, and what it read
    shown,          \* history: versions whose text the user was shown, before accepting it
    blind,          \* history: versions accepted unseen, by a call that named no version
    old,            \* history, per version: the ticks since a higher one is published
    stalest         \* history: how old, at most, the text of a deposit let through was

discVars == <<text, vault, cache, acked, visit, shown, blind, old, stalest>>

Version == 1 .. MaxVersion

\* A text that is not written, one that nobody is shown, and one with its publishedAt.
DisclosureRow == {"absent", "draft", "published"}
Ticks == 0 .. Ttl + 1
Op == {"show", "accept", "deposit", "activate", "create", "publish"}

CacheRow == [version: 0 .. MaxVersion, left: 0 .. Ttl]
VisitRow == [pc: {"idle", "lookup", "db", "cache", "end", "invalidate"}, op: Op,
             at: Instances \cup {NoInstance}, version: 0 .. MaxVersion, expected: 0 .. MaxVersion]

DiscTypeOK ==
    /\ text \in [Version -> DisclosureRow]
    /\ vault \in {"unlisted", "open"}
    /\ cache \in [Instances -> CacheRow]
    /\ acked \in SUBSET Version
    /\ visit \in [Visits -> VisitRow]
    /\ shown \in SUBSET Version /\ blind \in SUBSET Version
    /\ old \in [Version -> Ticks]
    /\ stalest \in Ticks

NoVisit == [pc |-> "idle", op |-> "show", at |-> NoInstance,
            version |-> 0, expected |-> 0]

\* An entry whose time is over is as good as none.
NoEntry == [version |-> 0, left |-> 0]

\* import: a vault lands inactive.
DiscInit ==
    /\ text = [v \in Version |-> "absent"]
    /\ vault = "unlisted"
    /\ cache = [i \in Instances |-> NoEntry]
    /\ acked = {}
    /\ visit = [c \in Visits |-> NoVisit]
    /\ shown = {} /\ blind = {} /\ old = [v \in Version |-> 0] /\ stalest = 0

-----------------------------------------------------------------------------
(* findCurrent: the cache, or the database and then the cache.             *)

Published == {v \in Version : text[v] = "published"}
IsCurrent(v) == IF Published = {} THEN v = 0 ELSE v \in Published /\ \A w \in Published : w <= v

Is(c, pc) == visit[c].pc = pc
Ends(c, op) == Is(c, "end") /\ visit[c].op = op
Leave(c) == visit' = [visit EXCEPT ![c] = NoVisit]
Enter(c, op, i, pc, v) ==
    visit' = [visit EXCEPT ![c] = [pc |-> pc, op |-> op, at |-> i, version |-> 0, expected |-> v]]

\* Mutant: what is used stays.
LeftSliding(i) == Ttl

\* The ticks that an entry has left after it was used.
Left(i) == cache[i].left

Lookup(c) ==
    LET i == visit[c].at IN
    /\ Is(c, "lookup")
    /\ IF cache[i].left > 0
       THEN /\ visit' = [visit EXCEPT ![c] = [@ EXCEPT !.pc = "end", !.version = cache[i].version]]
            /\ cache' = [cache EXCEPT ![i].left = Left(i)]
       ELSE visit' = [visit EXCEPT ![c].pc = "db"] /\ UNCHANGED cache
    /\ UNCHANGED <<text, vault, acked, shown, blind, old, stalest>>

ReadCurrent(c) ==
    /\ Is(c, "db")
    /\ \E v \in 0 .. MaxVersion :
        /\ IsCurrent(v)
        /\ visit' = [visit EXCEPT ![c] = [@ EXCEPT !.pc = "cache", !.version = v]]
    /\ UNCHANGED <<text, vault, cache, acked, shown, blind, old, stalest>>

CacheCurrent(c) ==
    /\ Is(c, "cache")
    /\ cache' = [cache EXCEPT ![visit[c].at] = [version |-> visit[c].version, left |-> Ttl]]
    /\ visit' = [visit EXCEPT ![c].pc = "end"]
    /\ UNCHANGED <<text, vault, acked, shown, blind, old, stalest>>

-----------------------------------------------------------------------------
(* The user: the vault's page, its acceptance, a deposit.                  *)

Show(c, i) ==
    /\ Is(c, "idle") /\ vault # "unlisted"
    /\ Enter(c, "show", i, "lookup", 0)
    /\ UNCHANGED <<text, vault, cache, acked, shown, blind, old, stalest>>

ShowEnd(c) ==
    /\ Ends(c, "show")
    /\ shown' = shown \cup ({visit[c].version} \ (acked \cup {0}))
    /\ Leave(c)
    /\ UNCHANGED <<text, vault, cache, acked, blind, old, stalest>>

\* The version is optional.  A call that names one names a text that was shown, on
\* whatever page.  The cache is the first thing that is looked at.
Accept(c, i) ==
    /\ Is(c, "idle")
    /\ \E v \in shown \cup {0} :
        IF cache[i].left > 0
        THEN /\ visit' = [visit EXCEPT ![c] = [pc |-> "end", op |-> "accept", at |-> i,
                                              version |-> cache[i].version, expected |-> v]]
             /\ cache' = [cache EXCEPT ![i].left = Left(i)]
        ELSE Enter(c, "accept", i, "db", v) /\ UNCHANGED cache
    /\ UNCHANGED <<text, vault, acked, shown, blind, old, stalest>>

\* Mutant: the version that was read is not compared.
AcceptsAny(c) == visit[c].version # 0

\* expectedVersion: text that is not current any more is a 409.  Without one nothing is
\* compared.
Accepts(c) == visit[c].version # 0 /\ visit[c].expected \in {0, visit[c].version}

\* A repeated acknowledgment leaves the row as it is.
AcceptEnd(c) ==
    LET v == visit[c].version IN
    /\ Ends(c, "accept")
    /\ acked' = IF Accepts(c) THEN acked \cup {v} ELSE acked
    /\ blind' = IF Accepts(c) /\ visit[c].expected = 0 /\ v \notin acked \cup shown
                THEN blind \cup {v} ELSE blind
    /\ Leave(c)
    /\ UNCHANGED <<text, vault, cache, shown, old, stalest>>

\* assertDepositable, and then assertAcknowledged.
Deposit(c, i) ==
    /\ Is(c, "idle") /\ vault = "open"
    /\ Enter(c, "deposit", i, "lookup", 0)
    /\ UNCHANGED <<text, vault, cache, acked, shown, blind, old, stalest>>

DepositEnd(c) ==
    LET v == visit[c].version IN
    /\ Ends(c, "deposit")
    /\ stalest' = IF v \in acked /\ old[v] > stalest THEN old[v] ELSE stalest
    /\ Leave(c)
    /\ UNCHANGED <<text, vault, cache, acked, shown, blind, old>>

-----------------------------------------------------------------------------
(* The operator: update, createDisclosure, publishDisclosure.              *)

\* What is not an activation is written at once.
Update(v) ==
    /\ vault # "unlisted" /\ v # vault
    /\ vault' = v
    /\ UNCHANGED <<text, cache, acked, visit, shown, blind, old, stalest>>

Activate(c, i) ==
    /\ Is(c, "idle") /\ vault = "unlisted"
    /\ Enter(c, "activate", i, "lookup", 0)
    /\ UNCHANGED <<text, vault, cache, acked, shown, blind, old, stalest>>

\* Without a published disclosure, as the cache has it, the vault is not listed.
ActivateEnd(c) ==
    /\ Ends(c, "activate")
    /\ IF visit[c].version = 0 THEN UNCHANGED vault ELSE vault' = "open"
    /\ Leave(c)
    /\ UNCHANGED <<text, cache, acked, shown, blind, old, stalest>>

\* The next version, or the one that the operator names.
Create(c, i, v) ==
    /\ Is(c, "idle") /\ text[v] = "absent"
    /\ Enter(c, "create", i, "end", v)
    /\ UNCHANGED <<text, vault, cache, acked, shown, blind, old, stalest>>

\* The pair of vault and version is unique: the second of two inserts fails.
CreateEnd(c) ==
    LET v == visit[c].expected IN
    /\ Ends(c, "create")
    /\ IF text[v] # "absent"
       THEN Leave(c) /\ UNCHANGED text
       ELSE \/ text' = [text EXCEPT ![v] = "draft"] /\ Leave(c)
            \/ text' = [text EXCEPT ![v] = "published"] /\ visit' = [visit EXCEPT ![c].pc = "invalidate"]
    /\ UNCHANGED <<vault, cache, acked, shown, blind, old, stalest>>

\* A version that is published keeps its date: nothing is done.
Publish(c, i, v) ==
    /\ Is(c, "idle") /\ text[v] = "draft"
    /\ Enter(c, "publish", i, "end", v)
    /\ UNCHANGED <<text, vault, cache, acked, shown, blind, old, stalest>>

PublishEnd(c) ==
    /\ Ends(c, "publish")
    /\ text' = [text EXCEPT ![visit[c].expected] = "published"]
    /\ visit' = [visit EXCEPT ![c].pc = "invalidate"]
    /\ UNCHANGED <<vault, cache, acked, shown, blind, old, stalest>>

Invalidate(c) ==
    /\ Is(c, "invalidate")
    /\ cache' = [cache EXCEPT ![visit[c].at] = NoEntry]
    /\ Leave(c)
    /\ UNCHANGED <<text, vault, acked, shown, blind, old, stalest>>

\* A statement fails, or the instance dies, and its cache with it.
VisitFails(c) ==
    /\ ~Is(c, "idle")
    /\ \/ UNCHANGED cache /\ Leave(c)
       \/ /\ cache' = [cache EXCEPT ![visit[c].at] = NoEntry]
          /\ visit' = [d \in Visits |-> IF visit[d].at = visit[c].at THEN NoVisit ELSE visit[d]]
    /\ UNCHANGED <<text, vault, acked, shown, blind, old, stalest>>

-----------------------------------------------------------------------------
Superseded(v) == \E w \in Published : v < w

Tick ==
    /\ \A c \in Visits : Is(c, "idle")
    /\ cache' = [i \in Instances |-> IF cache[i].left < 2 THEN NoEntry
                                     ELSE [cache[i] EXCEPT !.left = @ - 1]]
    /\ old' = [v \in Version |-> IF Superseded(v) /\ old[v] <= Ttl THEN old[v] + 1 ELSE old[v]]
    /\ UNCHANGED <<text, vault, acked, visit, shown, blind, stalest>>

DiscNext ==
    \/ \E c \in Visits :
        \/ Lookup(c) \/ ReadCurrent(c) \/ CacheCurrent(c)
        \/ ShowEnd(c) \/ AcceptEnd(c) \/ DepositEnd(c) \/ ActivateEnd(c)
        \/ CreateEnd(c) \/ PublishEnd(c) \/ Invalidate(c) \/ VisitFails(c)
        \/ \E i \in Instances :
            \/ Show(c, i) \/ Accept(c, i) \/ Deposit(c, i) \/ Activate(c, i)
            \/ \E v \in Version : Create(c, i, v) \/ Publish(c, i, v)
    \/ \E v \in {"unlisted", "open"} : Update(v)
    \/ Tick

DiscSpec == DiscInit /\ [][DiscNext]_discVars

-----------------------------------------------------------------------------
(* Properties *)

\* A deposit is let through on the strength of an acceptance of the current text,
\* or of one that was superseded less than the cache's time ago, whichever
\* instance published the new one and whatever lookups were on their way.
DepositNeedsRecentConsent == stalest < Ttl

\* "A mismatch is rejected with 409 so consent is never recorded against text nobody
\* saw."  Consent that names its text is of a text that the user was shown, even if a new
\* version is published between the page and the acceptance, whichever instances answer.
\* (The version is optional: a call without one may accept a text nobody saw.)
NamedConsentIsOfTextShown == acked \ blind \subseteq shown
=============================================================================
