------------------------------ MODULE MCRouting ------------------------------
(***************************************************************************)
(* Model-checking instances of Routing: the connections and their         *)
(* configuration for each run.                                            *)
(***************************************************************************)
EXTENDS Routing

CONSTANTS P, T, I   \* a permanent connection, a template and its instance

Base == [kind |-> "PERMANENT", clonedfrom |-> P, opportunistic |-> FALSE,
         never_negotiate |-> FALSE, failure_shunt |-> FALSE, ike_version |-> 2,
         template_routable |-> FALSE, revival |-> TRUE]

\* one IKEv2 permanent connection (auto=start style: revival scheduled)
PermConns == {P}
PermV2 == [c \in {P} |-> Base]

\* the same, with a failure shunt and IKEv1
PermV1Failure == [c \in {P} |-> [Base EXCEPT !.ike_version = 1,
                                             !.failure_shunt = TRUE]]

\* a routable template and the instance cloned from it
InstConns == {T, I}
TemplateInstance ==
    [c \in {T, I} |->
       IF c = T THEN [Base EXCEPT !.kind = "TEMPLATE", !.template_routable = TRUE]
       ELSE [Base EXCEPT !.kind = "INSTANCE", !.clonedfrom = T]]

\* the IKEv1 permanent connection beside the template and its instance
MixConns == {P, T, I}
V1TemplateInstance ==
    [c \in MixConns |-> IF c = P THEN PermV1Failure[P] ELSE TemplateInstance[c]]
=============================================================================
