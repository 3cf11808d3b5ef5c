-------------------------- MODULE VaultEligibility --------------------------
(***************************************************************************)
(* The education gate of one vault: an operator drafts and publishes       *)
(* versions of its policy, a Lite user who meets the one in force gets an  *)
(* unlock, and the unlock stays.  Publishing runs in a transaction under   *)
(* an advisory lock of the vault; the seed writes policies in its own      *)
(* transaction without that lock; evaluations run in none.                 *)
(*                                                                         *)
(* LearningXp says how levels and completions come about; here they only   *)
(* grow.                                                                   *)
(***************************************************************************)
EXTENDS Naturals

CONSTANTS
    Learners, Modules,
    MaxLevel,           \* bound on the levels
    Versions,           \* policy versions
    Meridian,           \* the version the seed writes: meridianPolicyVersion
    SeedNeeds,          \* the modules it requires
    Operators,          \* upsertPolicy calls that may overlap
    Seed,               \* the seed's transaction
    Evaluations,        \* deposits and refreshes that may overlap
    NoLearner

ASSUME VersionAssumption == Versions \subseteq Nat /\ Meridian \in Versions
ASSUME SeedAssumption ==
    SeedNeeds \in SUBSET Modules /\ Seed \notin Operators /\ NoLearner \notin Learners
ASSUME MaxLevelAssumption == MaxLevel \in Nat

VARIABLES
    policy,             \* per version: the row
    unlock,             \* per user: the UserVaultUnlock; version 0: none
    lite,               \* per user: experienceMode is LITE
    reached, finished,  \* per user: currentLevel, and the modules with a completedAt
    ptx,                \* per publishing transaction: where it is and what it read
    eval,               \* per evaluation: where it is and what it read
    inForce             \* history: every rule that was in force

user     == <<lite, reached, finished>>
gateVars == <<policy, unlock, lite, reached, finished, ptx, eval, inForce>>

Levels == 0 .. MaxLevel
Rule == [version: Versions, needs: SUBSET Modules, min: Levels]
NoRow == [state |-> "absent", active |-> FALSE, needs |-> {}, min |-> 0]
NoUnlock == [version |-> 0, level |-> 0]

PolicyRow == [state: {"absent", "draft", "published"}, active: BOOLEAN,
              needs: SUBSET Modules, min: Levels]
TxRow == [pc: {"idle", "scan", "deactivate", "commit"},
          rule: Rule, publish: BOOLEAN, off: SUBSET Versions]
EvalRow == [pc: {"idle", "check", "persist"}, learner: Learners \cup {NoLearner},
            rule: Rule, level: Levels]

GateTypeOK ==
    /\ policy \in [Versions -> PolicyRow]
    /\ unlock \in [Learners -> [version: Versions \cup {0}, level: Levels]]
    /\ lite \in [Learners -> BOOLEAN]
    /\ reached \in [Learners -> Levels]
    /\ finished \in [Learners -> SUBSET Modules]
    /\ ptx \in [Operators \cup {Seed} -> TxRow]
    /\ eval \in [Evaluations -> EvalRow]
    /\ inForce \in SUBSET Rule

NoRule == [version |-> Meridian, needs |-> {}, min |-> 0]
NoTx   == [pc |-> "idle", rule |-> NoRule, publish |-> FALSE, off |-> {}]
NoEval == [pc |-> "idle", learner |-> NoLearner, rule |-> NoRule, level |-> 0]

GateInit ==
    /\ policy = [v \in Versions |-> NoRow]
    /\ unlock = [u \in Learners |-> NoUnlock]
    /\ lite \in [Learners -> BOOLEAN]
    /\ reached = [u \in Learners |-> 0]
    /\ finished = [u \in Learners |-> {}]
    /\ ptx = [o \in Operators \cup {Seed} |-> NoTx]
    /\ eval = [e \in Evaluations |-> NoEval]
    /\ inForce = {}

-----------------------------------------------------------------------------
(* The user: setMode, the ledger and the trail.                            *)

SetMode(u) ==
    /\ lite' = [lite EXCEPT ![u] = ~@]
    /\ UNCHANGED <<policy, unlock, reached, finished, ptx, eval, inForce>>

Progress(u) ==
    /\ \/ /\ reached[u] < MaxLevel
          /\ reached' = [reached EXCEPT ![u] = @ + 1] /\ UNCHANGED finished
       \/ \E m \in Modules \ finished[u] :
          /\ finished' = [finished EXCEPT ![u] = @ \cup {m}] /\ UNCHANGED reached
    /\ UNCHANGED <<policy, unlock, lite, ptx, eval, inForce>>

Meets(u, rule) == reached[u] >= rule.min /\ rule.needs \subseteq finished[u]

-----------------------------------------------------------------------------
(* upsertPolicy, and seedDefaultEligibilityPolicies.                       *)

In(o, pc) == ptx[o].pc = pc
Active == {v \in Versions : policy[v].active}

\* pg_advisory_xact_lock of the vault.
VaultFree(o) == \A p \in Operators \ {o} : In(p, "idle")

\* A version that is published is a 409, or the call's own retry.
PolicyBegin(o, rule, publish) ==
    /\ In(o, "idle") /\ VaultFree(o)
    /\ policy[rule.version].state # "published"
    /\ ptx' = [ptx EXCEPT ![o] = [pc |-> IF publish THEN "scan" ELSE "commit", rule |-> rule,
                                  publish |-> publish, off |-> {}]]
    /\ UNCHANGED <<policy, unlock, user, eval, inForce>>

\* A later version than the seed's, or the seed's own, ends it.
SeedBegin ==
    /\ In(Seed, "idle")
    /\ policy[Meridian].state # "published"
    /\ \A v \in Versions : policy[v].state # "absent" => v <= Meridian
    /\ ptx' = [ptx EXCEPT ![Seed] = [pc |-> "scan", publish |-> TRUE, off |-> {},
                  rule |-> [version |-> Meridian, needs |-> SeedNeeds, min |-> 0]]]
    /\ UNCHANGED <<policy, unlock, user, eval, inForce>>

\* The deactivating updateMany takes its snapshot, and then waits for the rows.
PolicyScan(o) ==
    /\ In(o, "scan")
    /\ ptx' = [ptx EXCEPT ![o] = [@ EXCEPT !.pc = "deactivate", !.off = Active]]
    /\ UNCHANGED <<policy, unlock, user, eval, inForce>>

PolicyDeactivate(o) ==
    /\ In(o, "deactivate")
    /\ \A p \in DOMAIN ptx \ {o} : In(p, "commit") => ptx[p].off \cap ptx[o].off = {}
    /\ ptx' = [ptx EXCEPT ![o] = [@ EXCEPT !.pc = "commit", !.off = @ \cap Active]]
    /\ UNCHANGED <<policy, unlock, user, eval, inForce>>

\* materializePolicyUnlocks: those who meet the rule and have no unlock.
Materialized(rule) ==
    [u \in Learners |->
        IF lite[u] /\ unlock[u] = NoUnlock /\ Meets(u, rule)
        THEN [version |-> rule.version, level |-> reached[u]] ELSE unlock[u]]

\* The rest of the transaction: the row, its modules and, if published, the unlocks.
PolicyCommit(o) ==
    LET rule == ptx[o].rule
        publish == ptx[o].publish
        was == policy[rule.version]
    IN  /\ In(o, "commit")
        /\ policy' = [v \in Versions |->
                        IF v = rule.version
                        THEN [state |-> IF publish THEN "published"
                                        ELSE IF was.state = "absent" THEN "draft" ELSE was.state,
                              active |-> publish, needs |-> rule.needs, min |-> rule.min]
                        ELSE [policy[v] EXCEPT !.active = @ /\ v \notin ptx[o].off]]
        /\ IF publish
           THEN unlock' = Materialized(rule) /\ inForce' = inForce \cup {rule}
           ELSE UNCHANGED <<unlock, inForce>>
        /\ ptx' = [ptx EXCEPT ![o] = NoTx]
        /\ UNCHANGED <<user, eval>>

PolicyFails(o) ==
    /\ ~In(o, "idle")
    /\ ptx' = [ptx EXCEPT ![o] = NoTx]
    /\ UNCHANGED <<policy, unlock, user, eval, inForce>>

-----------------------------------------------------------------------------
(* evaluate with persistUnlock, called by the deposit gate and by the      *)
(* refresh after an answer; an answer or a deposit may be going on beside. *)

\* Mutant: a draft is taken for the policy as well.
InForceAnyRow(v) == policy[v].state # "absent"

InForce(v) == policy[v].active /\ policy[v].state = "published"

EvaluateRead(e, u, v) ==
    /\ eval[e].pc = "idle"
    /\ lite[u] /\ unlock[u] = NoUnlock
    /\ InForce(v) /\ \A w \in Versions : InForce(w) => w <= v
    /\ eval' = [eval EXCEPT ![e] = [pc |-> "check", learner |-> u, level |-> 0,
                  rule |-> [version |-> v, needs |-> policy[v].needs, min |-> policy[v].min]]]
    /\ UNCHANGED <<policy, unlock, user, ptx, inForce>>

EvaluateCheck(e) ==
    LET u == eval[e].learner IN
    /\ eval[e].pc = "check"
    /\ eval' = [eval EXCEPT ![e] = IF Meets(u, @.rule)
                                   THEN [@ EXCEPT !.pc = "persist", !.level = reached[u]]
                                   ELSE NoEval]
    /\ UNCHANGED <<policy, unlock, user, ptx, inForce>>

\* "A retry must not rewrite the evidence of the first acquisition."
EvaluatePersist(e) ==
    LET u == eval[e].learner IN
    /\ eval[e].pc = "persist"
    /\ unlock' = IF unlock[u] # NoUnlock THEN unlock
                 ELSE [unlock EXCEPT ![u] = [version |-> eval[e].rule.version, level |-> eval[e].level]]
    /\ eval' = [eval EXCEPT ![e] = NoEval]
    /\ UNCHANGED <<policy, user, ptx, inForce>>

EvaluateFails(e) ==
    /\ eval[e].pc # "idle"
    /\ eval' = [eval EXCEPT ![e] = NoEval]
    /\ UNCHANGED <<policy, unlock, user, ptx, inForce>>

-----------------------------------------------------------------------------
GateNext ==
    \/ \E u \in Learners : SetMode(u) \/ Progress(u)
    \/ SeedBegin
    \/ \E o \in Operators, rule \in Rule, publish \in BOOLEAN : PolicyBegin(o, rule, publish)
    \/ \E o \in Operators \cup {Seed} :
        PolicyScan(o) \/ PolicyDeactivate(o) \/ PolicyCommit(o) \/ PolicyFails(o)
    \/ \E e \in Evaluations :
        \/ \E u \in Learners, v \in Versions : EvaluateRead(e, u, v)
        \/ EvaluateCheck(e) \/ EvaluatePersist(e) \/ EvaluateFails(e)

GateSpec == GateInit /\ [][GateNext]_gateVars

-----------------------------------------------------------------------------
(* Properties *)

\* The evidence of an unlock stands: the rule of its version was in force, the
\* level it names met that rule and was the user's, and the user has the modules
\* of the rule, whichever policies were published while it was evaluated.
UnlockWasEarned ==
    \A u \in Learners : unlock[u] # NoUnlock =>
        \E rule \in inForce :
            /\ rule.version = unlock[u].version
            /\ rule.min <= unlock[u].level /\ unlock[u].level <= reached[u]
            /\ rule.needs \subseteq finished[u]
=============================================================================
