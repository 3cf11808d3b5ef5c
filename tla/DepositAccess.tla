--------------------------- MODULE DepositAccess ----------------------------
(***************************************************************************)
(* Two answers to one question, whether this user may deposit into this    *)
(* vault: the `access` that the app is shown with the catalogue (listVaults*)
(* and getVault), and the checks that createDeposit makes, which are "the  *)
(* authoritative boundary" (vaults.service.ts:31-37).  Both are functions  *)
(* of the same rows; what happens when the rows change in between is the   *)
(* subject of VaultDisclosure and VaultEligibility.                        *)
(***************************************************************************)
EXTENDS Integers

CONSTANTS
    Texts,           \* of a disclosure: positive integers
    Courses, TopLevel,
    NoPolicy            \* no record of Policies

Policies == [min : 0 .. TopLevel, needs : SUBSET Courses]

\* The catalogue's row; allowed: ALLOWED_VAULT_IDS is empty or has it; policy: the
\* one in force, if any.
Vaults == [active : BOOLEAN, allowed : BOOLEAN, enabled : BOOLEAN, usdc : BOOLEAN,
           published : SUBSET Texts, policy : Policies \cup {NoPolicy}]

\* A mode that was never chosen is PRO; level 0: no ExperienceAccount, or a new one.
Users == [mode : {"LITE", "PRO"}, unlocked : BOOLEAN, acked : SUBSET Texts,
          level : 0 .. TopLevel, finished : SUBSET Courses]

\* ENFORCE_VAULT_EDUCATION and ENFORCE_VAULT_DISCLOSURE.
Switches == [education : BOOLEAN, disclosure : BOOLEAN]

-----------------------------------------------------------------------------
(* The education gate: evaluate, which both sides call.                    *)

Source(v, u) ==
    CASE u.mode = "PRO" -> "PRO_BYPASS"
      [] u.mode # "PRO" /\ v.usdc -> "USDC_OPEN"
      [] u.mode # "PRO" /\ ~v.usdc /\ u.unlocked -> "PERSISTED_UNLOCK"
      [] OTHER -> "POLICY"

Missing(v, u) == v.policy.needs \ u.finished

Eligible(v, u) ==
    \/ Source(v, u) # "POLICY"
    \/ v.policy # NoPolicy /\ u.level >= v.policy.min /\ Missing(v, u) = {}

-----------------------------------------------------------------------------
(* The disclosure: its current version, and whether the user accepted it.  *)

\* findCurrent, currentVersionsFor: the highest version that is published.
Current(v) == IF v.published = {} THEN 0
              ELSE CHOOSE n \in v.published : \A m \in v.published : m <= n

\* hasAcknowledgedCurrent.
Acknowledged(v, u) == Current(v) # 0 /\ Current(v) \in u.acked

\* acknowledgmentRequired; a vault with nothing published has no disclosure at all.
Owes(v, u) == Current(v) # 0 /\ Current(v) \notin u.acked

-----------------------------------------------------------------------------
(* What the app is shown.                                                  *)

Listed(v) == v.active /\ v.allowed

\* getOrThrow does not look at the allowlist.
HasPage(v) == v.active

CanDeposit(v, u, s) ==
    /\ v.enabled
    /\ s.education => Eligible(v, u)
    /\ s.disclosure => ~Owes(v, u)

\* withAccessProjection.  A policy is reported only when it was consulted.
Access(v, u, s) ==
    LET consulted == Source(v, u) = "POLICY" /\ v.policy # NoPolicy IN
    [mode                   |-> u.mode,
     educationRequired      |-> u.mode = "LITE" /\ Source(v, u) # "USDC_OPEN",
     educationUnlocked      |-> Eligible(v, u),
     missing                |-> IF consulted THEN Missing(v, u) ELSE {},
     operationallyAvailable |-> v.enabled,
     disclosure             |-> IF Current(v) = 0 THEN "none"
                                ELSE IF Owes(v, u) THEN "owed" ELSE "acknowledged",
     canDeposit             |-> CanDeposit(v, u, s)]

-----------------------------------------------------------------------------
(* What createDeposit does, in its order.                                  *)

\* assertAcknowledged: USDC is exempt, and no other vault without a disclosure passes.
Refusal(v, u, s) ==
    CASE ~Listed(v)                                              -> "VAULT_NOT_FOUND"
      [] Listed(v) /\ ~v.enabled                                 -> "VAULT_DEPOSITS_PAUSED"
      [] Listed(v) /\ v.enabled /\ s.education /\ ~Eligible(v, u) -> "VAULT_EDUCATION_LOCKED"
      [] OTHER -> IF ~s.disclosure \/ v.usdc THEN "none"
                  ELSE IF Current(v) = 0 THEN "DISCLOSURE_MISSING"
                  ELSE IF ~Acknowledged(v, u) THEN "DISCLOSURE_NOT_ACKNOWLEDGED"
                  ELSE "none"

Admits(v, u, s) == Refusal(v, u, s) = "none"

\* createConversion for a target that is not USDC: the vault has to be active and the
\* user eligible; neither the allowlist, nor depositsEnabled, nor the disclosure is asked.
Converts(v, u, s) == v.active /\ (s.education => Eligible(v, u))

\* assertWithdrawable.
Withdrawable(v) == TRUE

=============================================================================
