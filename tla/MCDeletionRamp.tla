--------------------------- MODULE MCDeletionRamp ---------------------------
(* The deletion of an account, the check before it, the ramps' orders and    *)
(* their KYC are taken one at a time: a behaviour exercises one of them, and *)
(* the others stay where they begin.                                         *)
EXTENDS DeletionProperties, DeletionEligibility, RampOrders, CustomerKyc, TLC

VARIABLE focus

MCInit ==
    /\ focus \in {"deletion", "check", "orders", "kyc"}
    /\ Init /\ (focus # "deletion" => activated /\ blindpay = "none")
    /\ EligInit /\ (focus # "check" => allowed = {} /\ \A o \in Ops : op[o].kind = "onramp")
    /\ RampInit /\ (focus # "orders" => kind = [o \in Orders |-> "payin"])
    /\ KycInit /\ (focus # "kyc" => program = "BlindPay")

MCNext ==
    /\ UNCHANGED focus
    /\ \/ focus = "deletion" /\ Next /\ UNCHANGED <<eligVars, rampVars, kycVars>>
       \/ focus = "check" /\ EligNext /\ UNCHANGED <<vars, rampVars, kycVars>>
       \/ focus = "orders" /\ RampNext /\ UNCHANGED <<vars, eligVars, kycVars>>
       \/ focus = "kyc" /\ KycNext /\ UNCHANGED <<vars, eligVars, rampVars>>

MCSpec == MCInit /\ [][MCNext]_<<focus, vars, eligVars, rampVars, kycVars>>

-----------------------------------------------------------------------------
(* The answer to a request for information, on small forms.                *)

Form == INSTANCE RfiAnswer WITH FieldKeys <- {"name", "proof"}, Texts <- {"", "a", "b"}, Blanks <- {""}

Values == {Form!Nothing, [type |-> "other"]}
          \cup {Form!Text(t) : t \in {"", "a", "b"}}
          \cup {Form!Listed(l) : l \in {<<>>, <<"">>, <<"a">>, <<"a", "b">>, [i \in 1 .. 21 |-> "a"]}}
AskedName == {f \in Form!Fields : f.key = "name"}
AskedProof == {f \in Form!Fields : f.key = "proof" /\ f.pattern = {"a", "b"} /\ f.items = {}}

ASSUME FaultlessIsComplete ==
    \A f \in AskedName, g \in AskedProof, v, w \in Values :
        LET response == [name |-> v, proof |-> w]
            body == Form!Body({f, g}, response)
        IN  Form!Faults({f, g}, response) = {} =>
                \A h \in {f, g} : (h.required => h.key \in DOMAIN body)

\* A list of blanks is taken for an answer to a required field that takes any text.
ASSUME BlanksAnswer ==
    \E f \in AskedName : LET response == [name |-> Form!Listed(<<"">>)] IN
        f.required /\ Form!Faults({f}, response) = {} /\ DOMAIN Form!Body({f}, response) = {"name"}

\* Handlers, vaults and the callers are named alike, so that one permutation serves all.
Symmetry == Permutations(Handlers) \cup Permutations(Customers)
=============================================================================
