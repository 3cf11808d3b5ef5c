----------------------------- MODULE RfiAnswer ------------------------------
(***************************************************************************)
(* The answer to a BlindPay request for information, which is one          *)
(* submission: what validateRfiResponse makes of the owner's responses     *)
(* before they are sent.  CustomerKyc says when it is sent.                *)
(***************************************************************************)
EXTENDS Naturals, Sequences

CONSTANTS
    FieldKeys,
    Texts,
    Blanks      \* texts that are nothing but blanks

Max_Multiple_Values == 20

\* A dropdown has items.  A pattern is the texts it accepts: all, when there is none, or
\* when it does not compile, which is not the fault of who answers.
Fields == [key : FieldKeys, required : BOOLEAN, multiple : BOOLEAN,
           items : SUBSET Texts, pattern : SUBSET Texts]

\* What came for a key: nothing, a text, a list, or something else.
Nothing == [type |-> "none"]
Text(t) == [type |-> "text", text |-> t]
Listed(l) == [type |-> "list", list |-> l]

IsBlank(v) ==
    \/ v.type = "none"
    \/ v.type = "text" /\ v.text \in Blanks
    \/ v.type = "list" /\ v.list = <<>>

\* validateScalar: of a dropdown, the items say all.
ScalarOk(f, t) ==
    t \in (IF f.items # {} THEN f.items ELSE f.pattern)

\* A multiple field takes one value for a list of one.
AsList(v) == IF v.type = "list" THEN v.list ELSE <<v.text>>

ValueOk(f, v) ==
    IF f.multiple
    THEN /\ v.type \in {"text", "list"}
         /\ Len(AsList(v)) <= Max_Multiple_Values
         /\ \A i \in DOMAIN AsList(v) : AsList(v)[i] \in Texts /\ ScalarOk(f, AsList(v)[i])
    ELSE v.type = "text" /\ ScalarOk(f, v.text)

\* The fields of all sections of a request, and a response for every key.
Faults(asked, responses) ==
    {f.key : f \in {g \in asked : IF IsBlank(responses[g.key]) THEN g.required
                                  ELSE ~ValueOk(g, responses[g.key])}}

Sent(asked, responses) ==
    {f \in asked : ~IsBlank(responses[f.key]) /\ ValueOk(f, responses[f.key])}

\* What the partner gets: only keys it asked for.
Body(asked, responses) ==
    [k \in {f.key : f \in Sent(asked, responses)} |->
        LET f == CHOOSE f \in Sent(asked, responses) : f.key = k
        IN IF f.multiple THEN Listed(AsList(responses[k])) ELSE responses[k]]
=============================================================================
