---------------------------- MODULE Ikev2States ----------------------------
(***************************************************************************)
(* The IKEv2 state table and the lookup that picks the transition for an  *)
(* incoming message, src/programs/pluto/ikev2_states.c.                   *)
(*                                                                         *)
(* The table is data: each state's list of transitions (the static        *)
(* KIND_transitions[] arrays, in source order) and the three initiate     *)
(* transitions that are not attached to a state.  A message digest keeps  *)
(* what the lookup reads: exchange, role, the payload summaries of the    *)
(* clear and the encrypted parts, and which notifications were digested.  *)
(* One IKE or Child SA sits in state `st`; a message `md` arrives, is      *)
(* dispatched (sniff, then find), and the SA moves to the transition's    *)
(* target.  The SA may instead initiate an exchange before the message is *)
(* dispatched.                                                            *)
(***************************************************************************)
EXTENDS Naturals, Sequences, FiniteSets, SequencesExt

CONSTANT MsgSpace   \* the message digests the peer can send

\* ISAKMP_NEXT_v2Ni and ISAKMP_NEXT_v2Nr are the same payload type; both
\* are "Ni" here.
Payloads == {"SA", "KE", "Ni", "N", "D", "V", "CERT", "CERTREQ", "IDi",
             "IDr", "AUTH", "TSi", "TSr", "CP", "EAP", "SK", "SKF"}
Notifications == {"COOKIE", "INVALID_KE_PAYLOAD", "REDIRECT", "REKEY_SA"}
NOTHING_WRONG == "NOTHING_WRONG"
Exchanges == {"IKE_SA_INIT", "IKE_INTERMEDIATE", "IKE_AUTH",
              "CREATE_CHILD_SA", "INFORMATIONAL"}
Roles == {"NO_MESSAGE", "MESSAGE_REQUEST", "MESSAGE_RESPONSE"}

\* v2_states[]
V2States == {"IKE_SA_INIT_I0", "IKE_SA_INIT_I", "IKE_SA_INIT_R0",
             "IKE_SA_INIT_R", "IKE_SA_INIT_IR", "IKE_INTERMEDIATE_I",
             "IKE_INTERMEDIATE_R", "IKE_INTERMEDIATE_IR", "IKE_AUTH_EAP_R",
             "IKE_AUTH_I", "NEW_CHILD_I0", "NEW_CHILD_I1", "NEW_CHILD_R0",
             "REKEY_CHILD_I0", "REKEY_CHILD_I1", "REKEY_CHILD_R0",
             "REKEY_IKE_I0", "REKEY_IKE_I1", "REKEY_IKE_R0",
             "ESTABLISHED_IKE_SA", "ESTABLISHED_CHILD_SA", "IKE_SA_DELETE",
             "CHILD_SA_DELETE"}

\* the states whose S(...) sets .v2.secured = true
Secured == {"IKE_AUTH_I", "IKE_SA_INIT_R", "IKE_INTERMEDIATE_R",
            "IKE_INTERMEDIATE_I", "IKE_INTERMEDIATE_IR", "IKE_AUTH_EAP_R",
            "REKEY_IKE_R0", "REKEY_IKE_I1", "REKEY_CHILD_R0", "REKEY_CHILD_I1",
            "NEW_CHILD_R0", "NEW_CHILD_I1", "ESTABLISHED_IKE_SA",
            "IKE_SA_DELETE"}

\* struct ikev2_expected_payloads
Expected == [required: SUBSET Payloads, optional: SUBSET Payloads,
             notification: Notifications \cup {NOTHING_WRONG}]
P(req, opt, n) == [required |-> req, optional |-> opt, notification |-> n]
NONE == P({}, {}, NOTHING_WRONG)
SK == P({"SK"}, {}, NOTHING_WRONG)

\* struct v2_state_transition: the fields the lookup and its caller read;
\* the processor names the transition
Transition == [processor: STRING, from: SUBSET V2States, to: V2States,
               exchange: Exchanges, recv_role: Roles,
               message_payloads: Expected, encrypted_payloads: Expected]
T(proc, from, to, x, role, msg, enc) ==
    [processor |-> proc, from |-> from, to |-> to, exchange |-> x,
     recv_role |-> role, message_payloads |-> msg, encrypted_payloads |-> enc]
NoTransition == [processor |-> "NULL", from |-> {}, to |-> "NONE",
                 exchange |-> "NONE", recv_role |-> "NONE",
                 message_payloads |-> NONE, encrypted_payloads |-> NONE]

REQ == "MESSAGE_REQUEST"
RESP == "MESSAGE_RESPONSE"
INIT == "NO_MESSAGE"

initiate_v2_IKE_SA_INIT_transition ==
    T("initiate_v2_IKE_SA_INIT_request", {"IKE_SA_INIT_I0"}, "IKE_SA_INIT_I",
      "IKE_SA_INIT", INIT, NONE, NONE)

IKE_SA_INIT_I_transitions ==
    << T("process_v2_IKE_SA_INIT_response_v2N_COOKIE", {"IKE_SA_INIT_I"},
         "IKE_SA_INIT_I0", "IKE_SA_INIT", RESP, P({"N"}, {}, "COOKIE"), NONE),
       T("process_v2_IKE_SA_INIT_response_v2N_INVALID_KE_PAYLOAD",
         {"IKE_SA_INIT_I"}, "IKE_SA_INIT_I0", "IKE_SA_INIT", RESP,
         P({"N"}, {}, "INVALID_KE_PAYLOAD"), NONE),
       T("process_v2_IKE_SA_INIT_response_v2N_REDIRECT", {"IKE_SA_INIT_I"},
         "IKE_SA_INIT_I0", "IKE_SA_INIT", RESP, P({"N"}, {}, "REDIRECT"), NONE),
       T("process_v2_IKE_SA_INIT_response", {"IKE_SA_INIT_I"},
         "IKE_SA_INIT_IR", "IKE_SA_INIT", RESP,
         P({"SA", "KE", "Ni"}, {"CERTREQ"}, NOTHING_WRONG), NONE) >>

initiate_v2_IKE_AUTH_transition ==
    T("initiate_v2_IKE_AUTH_request", {"IKE_SA_INIT_IR", "IKE_INTERMEDIATE_IR"},
      "IKE_AUTH_I", "IKE_AUTH", INIT, NONE, NONE)

IKE_AUTH_I_transitions ==
    << T("process_v2_IKE_AUTH_response", {"IKE_AUTH_I"}, "ESTABLISHED_IKE_SA",
         "IKE_AUTH", RESP, SK,
         P({"IDr", "AUTH"}, {"CERT", "CP", "SA", "TSi", "TSr"}, NOTHING_WRONG)),
       T("process_v2_IKE_AUTH_failure_response", {"IKE_AUTH_I"}, "IKE_AUTH_I",
         "IKE_AUTH", RESP, SK, NONE) >>

IKE_SA_INIT_R0_transitions ==
    << T("process_v2_IKE_SA_INIT_request", {"IKE_SA_INIT_R0"}, "IKE_SA_INIT_R",
         "IKE_SA_INIT", REQ, P({"SA", "KE", "Ni"}, {}, NOTHING_WRONG), NONE) >>

\* the IKE_AUTH request payloads, with and without EAP
AuthRequest == P({"IDi", "AUTH"}, {"CERT", "CERTREQ", "IDr", "CP", "SA", "TSi",
                                   "TSr"}, NOTHING_WRONG)
EapStart == P({"IDi"}, {"CERTREQ", "IDr", "CP", "SA", "TSi", "TSr"},
              NOTHING_WRONG)

IKE_SA_INIT_R_transitions ==
    << T("process_v2_IKE_INTERMEDIATE_request", {"IKE_SA_INIT_R"},
         "IKE_INTERMEDIATE_R", "IKE_INTERMEDIATE", REQ, SK, NONE),
       T("process_v2_IKE_AUTH_request", {"IKE_SA_INIT_R"}, "ESTABLISHED_IKE_SA",
         "IKE_AUTH", REQ, SK, AuthRequest),
       T("process_v2_IKE_AUTH_request_EAP_start", {"IKE_SA_INIT_R"},
         "IKE_AUTH_EAP_R", "IKE_AUTH", REQ, SK, EapStart) >>

initiate_v2_IKE_INTERMEDIATE_transition ==
    T("initiate_v2_IKE_INTERMEDIATE_request",
      {"IKE_SA_INIT_IR", "IKE_INTERMEDIATE_IR"}, "IKE_INTERMEDIATE_I",
      "IKE_INTERMEDIATE", INIT, NONE, NONE)

IKE_INTERMEDIATE_R_transitions ==
    << T("process_v2_IKE_INTERMEDIATE_request", {"IKE_INTERMEDIATE_R"},
         "IKE_INTERMEDIATE_R", "IKE_INTERMEDIATE", REQ, SK, NONE),
       T("process_v2_IKE_AUTH_request_EAP_start", {"IKE_INTERMEDIATE_R"},
         "IKE_AUTH_EAP_R", "IKE_AUTH", REQ, SK, EapStart),
       T("process_v2_IKE_AUTH_request", {"IKE_INTERMEDIATE_R"},
         "ESTABLISHED_IKE_SA", "IKE_AUTH", REQ, SK, AuthRequest) >>

IKE_INTERMEDIATE_I_transitions ==
    << T("process_v2_IKE_INTERMEDIATE_response", {"IKE_INTERMEDIATE_I"},
         "IKE_INTERMEDIATE_IR", "IKE_INTERMEDIATE", RESP, SK, NONE) >>

\* mutation: the EAP payload written with req_clear_payloads instead of
\* req_enc_payloads
IKE_AUTH_EAP_R_transitions_eap_in_clear ==
    << T("process_v2_IKE_AUTH_request_EAP_continue", {"IKE_AUTH_EAP_R"},
         "IKE_AUTH_EAP_R", "IKE_AUTH", REQ,
         P({"SK", "EAP"}, {}, NOTHING_WRONG), NONE),
       T("process_v2_IKE_AUTH_request_EAP_final", {"IKE_AUTH_EAP_R"},
         "ESTABLISHED_IKE_SA", "IKE_AUTH", REQ, SK,
         P({"AUTH"}, {}, NOTHING_WRONG)) >>

IKE_AUTH_EAP_R_transitions ==
    << T("process_v2_IKE_AUTH_request_EAP_continue", {"IKE_AUTH_EAP_R"},
         "IKE_AUTH_EAP_R", "IKE_AUTH", REQ, SK, P({"EAP"}, {}, NOTHING_WRONG)),
       T("process_v2_IKE_AUTH_request_EAP_final", {"IKE_AUTH_EAP_R"},
         "ESTABLISHED_IKE_SA", "IKE_AUTH", REQ, SK,
         P({"AUTH"}, {}, NOTHING_WRONG)) >>
\* the CREATE_CHILD_SA payloads: rekey IKE SA (no TS), and new or rekey
\* Child SA
RekeyIke == P({"SA", "Ni", "KE"}, {"N"}, NOTHING_WRONG)
Child == P({"SA", "Ni", "TSi", "TSr"}, {"KE", "N", "CP"}, NOTHING_WRONG)
RekeyChild == P({"SA", "Ni", "TSi", "TSr"}, {"KE", "N", "CP"}, "REKEY_SA")

REKEY_IKE_I0_transitions ==
    << T("initiate_v2_CREATE_CHILD_SA_rekey_ike_request", {"REKEY_IKE_I0"},
         "REKEY_IKE_I1", "CREATE_CHILD_SA", INIT, NONE, NONE) >>

REKEY_IKE_R0_transitions ==
    << T("process_v2_CREATE_CHILD_SA_rekey_ike_request", {"REKEY_IKE_R0"},
         "ESTABLISHED_IKE_SA", "CREATE_CHILD_SA", REQ, SK, RekeyIke) >>

REKEY_IKE_I1_transitions ==
    << T("process_v2_CREATE_CHILD_SA_rekey_ike_response", {"REKEY_IKE_I1"},
         "ESTABLISHED_IKE_SA", "CREATE_CHILD_SA", RESP, SK, RekeyIke) >>

REKEY_CHILD_I0_transitions ==
    << T("initiate_v2_CREATE_CHILD_SA_rekey_child_request", {"REKEY_CHILD_I0"},
         "REKEY_CHILD_I1", "CREATE_CHILD_SA", INIT, NONE, NONE) >>

REKEY_CHILD_R0_transitions ==
    << T("process_v2_CREATE_CHILD_SA_rekey_child_request", {"REKEY_CHILD_R0"},
         "ESTABLISHED_CHILD_SA", "CREATE_CHILD_SA", REQ, SK, RekeyChild) >>

REKEY_CHILD_I1_transitions ==
    << T("process_v2_CREATE_CHILD_SA_child_response", {"REKEY_CHILD_I1"},
         "ESTABLISHED_CHILD_SA", "CREATE_CHILD_SA", RESP, SK, Child) >>

NEW_CHILD_I0_transitions ==
    << T("initiate_v2_CREATE_CHILD_SA_new_child_request", {"NEW_CHILD_I0"},
         "NEW_CHILD_I1", "CREATE_CHILD_SA", INIT, NONE, NONE) >>

NEW_CHILD_R0_transitions ==
    << T("process_v2_CREATE_CHILD_SA_new_child_request", {"NEW_CHILD_R0"},
         "ESTABLISHED_CHILD_SA", "CREATE_CHILD_SA", REQ, SK, Child) >>

NEW_CHILD_I1_transitions ==
    << T("process_v2_CREATE_CHILD_SA_child_response", {"NEW_CHILD_I1"},
         "ESTABLISHED_CHILD_SA", "CREATE_CHILD_SA", RESP, SK, Child) >>

\* the INFORMATIONAL payloads
Informational == P({}, {"N", "D", "CP"}, NOTHING_WRONG)

\* ESTABLISHED_IKE_SA's CREATE_CHILD_SA and INFORMATIONAL transitions, the
\* same list with and without the request to create a Child SA placed
\* before the request to rekey one
EstablishedIkeSa(childFirst) ==
    LET E == {"ESTABLISHED_IKE_SA"}
        est == "ESTABLISHED_IKE_SA"
        rekeyChild == T("process_v2_CREATE_CHILD_SA_rekey_child_request", E,
                        est, "CREATE_CHILD_SA", REQ, SK, RekeyChild)
        newChild == T("process_v2_CREATE_CHILD_SA_new_child_request", E, est,
                      "CREATE_CHILD_SA", REQ, SK, Child)
    IN << T("process_v2_CREATE_CHILD_SA_rekey_ike_request", E, est,
            "CREATE_CHILD_SA", REQ, SK, RekeyIke),
          T("process_v2_CREATE_CHILD_SA_rekey_ike_response", E, est,
            "CREATE_CHILD_SA", RESP, SK, RekeyIke) >>
       \o (IF childFirst THEN << newChild, rekeyChild >>
                         ELSE << rekeyChild, newChild >>)
       \o << T("process_v2_CREATE_CHILD_SA_child_response", E, est,
               "CREATE_CHILD_SA", RESP, SK, Child),
             T("process_v2_CREATE_CHILD_SA_failure_response", E, est,
               "CREATE_CHILD_SA", RESP, SK, NONE),
             T("process_v2_INFORMATIONAL_request", E, est, "INFORMATIONAL",
               REQ, SK, NONE),
             T("process_v2_INFORMATIONAL_response", E, est, "INFORMATIONAL",
               RESP, SK, NONE),
             T("process_v2_INFORMATIONAL_request", E, est, "INFORMATIONAL",
               REQ, SK, Informational),
             T("process_v2_INFORMATIONAL_response", E, est, "INFORMATIONAL",
               RESP, SK, Informational) >>

\* mutation: "process create Child SA request" ahead of "process rekey
\* Child SA request"
ESTABLISHED_IKE_SA_transitions_new_child_first == EstablishedIkeSa(TRUE)

ESTABLISHED_IKE_SA_transitions == EstablishedIkeSa(FALSE)

IKE_SA_DELETE_transitions ==
    << T("IKE_SA_DEL_process_v2_INFORMATIONAL_response", {"IKE_SA_DELETE"},
         "IKE_SA_DELETE", "INFORMATIONAL", RESP, SK, Informational) >>

\* .v2.transitions of each state, as S(KIND, ...) sets it; the other
\* states have an empty KIND_transitions[]
v2_transitions ==
    [s \in V2States |->
       CASE s = "IKE_SA_INIT_I" -> IKE_SA_INIT_I_transitions
         [] s = "IKE_AUTH_I" -> IKE_AUTH_I_transitions
         [] s = "IKE_SA_INIT_R0" -> IKE_SA_INIT_R0_transitions
         [] s = "IKE_SA_INIT_R" -> IKE_SA_INIT_R_transitions
         [] s = "IKE_INTERMEDIATE_R" -> IKE_INTERMEDIATE_R_transitions
         [] s = "IKE_INTERMEDIATE_I" -> IKE_INTERMEDIATE_I_transitions
         [] s = "IKE_AUTH_EAP_R" -> IKE_AUTH_EAP_R_transitions
         [] s = "REKEY_IKE_I0" -> REKEY_IKE_I0_transitions
         [] s = "REKEY_IKE_R0" -> REKEY_IKE_R0_transitions
         [] s = "REKEY_IKE_I1" -> REKEY_IKE_I1_transitions
         [] s = "REKEY_CHILD_I0" -> REKEY_CHILD_I0_transitions
         [] s = "REKEY_CHILD_R0" -> REKEY_CHILD_R0_transitions
         [] s = "REKEY_CHILD_I1" -> REKEY_CHILD_I1_transitions
         [] s = "NEW_CHILD_I0" -> NEW_CHILD_I0_transitions
         [] s = "NEW_CHILD_R0" -> NEW_CHILD_R0_transitions
         [] s = "NEW_CHILD_I1" -> NEW_CHILD_I1_transitions
         [] s = "ESTABLISHED_IKE_SA" -> ESTABLISHED_IKE_SA_transitions
         [] s = "IKE_SA_DELETE" -> IKE_SA_DELETE_transitions
         [] OTHER -> << >>]

\* what an SA can initiate: the attached NO_MESSAGE transitions and the
\* three that are referenced directly by the code starting an exchange
InitiateTransitions ==
    {initiate_v2_IKE_SA_INIT_transition, initiate_v2_IKE_AUTH_transition,
     initiate_v2_IKE_INTERMEDIATE_transition}
    \cup {t \in UNION {ToSet(v2_transitions[s]) : s \in V2States} :
             t.recv_role = INIT}
(***************************************************************************)
(* The message digest and the lookup.                                     *)
(***************************************************************************)

\* struct payload_summary: the payload types present, and those present
\* more than once
Summary == [present: SUBSET Payloads, repeated: SUBSET Payloads]

\* the part of struct msg_digest the lookup reads; pd is the set of
\* notifications whose md->pd[] slot is filled
Md == [exchange: Exchanges, role: {REQ, RESP}, message_payloads: Summary,
       encrypted_payloads: Summary, pd: SUBSET Notifications]

everywhere_payloads == {"N", "V"}
repeatable_payloads == {"N", "D", "CP", "V", "CERT", "CERTREQ"}

\* SKF standing alone counts as SK
Seen(summary) ==
    IF summary.present \cap {"SKF", "SK"} = {"SKF"}
    THEN (summary.present \ {"SKF"}) \cup {"SK"}
    ELSE summary.present

\* mutation: the test for payloads repeated that may not be is dropped
ikev2_verify_payloads_no_excessive(md, summary, payloads) ==
    LET seen == Seen(summary)
        missing == payloads.required \ seen
        unexpected == seen \ (payloads.required \cup payloads.optional
                                \cup everywhere_payloads)
        unnotified == payloads.notification # NOTHING_WRONG
                      /\ payloads.notification \notin md.pd
    IN [bad |-> missing \cup unexpected # {} \/ unnotified]

\* ikev2_verify_payloads(): only .bad is read by the lookup
ikev2_verify_payloads(md, summary, payloads) ==
    LET seen == Seen(summary)
        excessive == summary.repeated \ repeatable_payloads
        missing == payloads.required \ seen
        unexpected == seen \ (payloads.required \cup payloads.optional
                                \cup everywhere_payloads)
        unnotified == payloads.notification # NOTHING_WRONG
                      /\ payloads.notification \notin md.pd
    IN [bad |-> excessive \cup missing \cup unexpected # {} \/ unnotified]

\* mutation: an unsecured state's return is taken for every state, so the
\* SK{} payloads are never checked
v2_transition_step_no_secured_check(state, md, check, t) ==
    IF t.exchange # md.exchange \/ t.recv_role # md.role THEN "skip"
    ELSE IF ikev2_verify_payloads(md, md.message_payloads,
                                  t.message_payloads).bad THEN "message_bad"
    ELSE "match"

\* one pass of the for loop of v2_state_transition(): the exchange and
\* role tests, the clear payloads, the early return of an unsecured state
\* and of a sniff, then the SK{} payloads
v2_transition_step(state, md, check, t) ==
    IF t.exchange # md.exchange \/ t.recv_role # md.role THEN "skip"
    ELSE IF ikev2_verify_payloads(md, md.message_payloads,
                                  t.message_payloads).bad THEN "message_bad"
    ELSE IF state \notin Secured \/ ~check THEN "match"
    ELSE IF ikev2_verify_payloads(md, md.encrypted_payloads,
                                  t.encrypted_payloads).bad THEN "encrypted_bad"
    ELSE "match"

\* v2_state_transition(): the first transition that matches; failing
\* that, *secured_payload_failed is set when no transition's clear
\* payloads were bad and some transition's SK{} payloads were
RECURSIVE v2_transition_walk(_, _, _, _, _, _)
v2_transition_walk(state, md, check, ts, messageBad, encryptedBad) ==
    IF ts = << >>
    THEN [transition |-> NoTransition,
          secured_payload_failed |-> ~messageBad /\ encryptedBad]
    ELSE LET r == v2_transition_step(state, md, check, Head(ts))
         IN IF r = "match"
            THEN [transition |-> Head(ts), secured_payload_failed |-> FALSE]
            ELSE v2_transition_walk(state, md, check, Tail(ts),
                                    messageBad \/ r = "message_bad",
                                    encryptedBad \/ r = "encrypted_bad")

sniff_v2_state_transition(state, md) ==
    v2_transition_walk(state, md, FALSE, v2_transitions[state], FALSE, FALSE)
      .transition # NoTransition

find_v2_state_transition(state, md) ==
    v2_transition_walk(state, md, TRUE, v2_transitions[state], FALSE, FALSE)

(***************************************************************************)
(* One SA receiving messages.                                             *)
(***************************************************************************)
VARIABLES
    st,        \* the SA's state
    md,        \* the message being, or last, dispatched
    phase,     \* "pending": md is waiting; "done": md was dispatched
    from,      \* the state md was dispatched in
    result,    \* the transition find_v2_state_transition() returned
    failed     \* its *secured_payload_failed
vars == <<st, md, phase, from, result, failed>>

Init ==
    /\ st \in V2States
    /\ md \in MsgSpace
    /\ phase = "pending"
    /\ from = st
    /\ result = NoTransition
    /\ failed = FALSE

\* mutation: the NULL a failed lookup returns is used as a transition
Dispatch_no_null_check ==
    /\ phase = "pending"
    /\ LET r == find_v2_state_transition(st, md) IN
         /\ result' = r.transition
         /\ failed' = r.secured_payload_failed
         /\ st' = r.transition.to
    /\ from' = st
    /\ phase' = "done"
    /\ UNCHANGED md

\* the caller: sniff the message before decrypting it, drop it if no
\* transition's clear payloads fit, else find the transition and take it
Dispatch ==
    /\ phase = "pending"
    /\ IF ~sniff_v2_state_transition(st, md)
       THEN UNCHANGED <<st, result, failed>>
       ELSE LET r == find_v2_state_transition(st, md) IN
              /\ result' = r.transition
              /\ failed' = r.secured_payload_failed
              /\ st' = IF r.transition = NoTransition THEN st
                        ELSE r.transition.to
    /\ from' = st
    /\ phase' = "done"
    /\ UNCHANGED md

\* the SA starts an exchange while the message is still queued
Initiate(t) ==
    /\ phase = "pending"
    /\ st \in t.from
    /\ st' = t.to
    /\ from' = st'
    /\ UNCHANGED <<md, phase, result, failed>>

\* the next message arrives
Arrive ==
    /\ phase = "done"
    /\ md' \in MsgSpace
    /\ phase' = "pending"
    /\ from' = st
    /\ result' = NoTransition
    /\ failed' = FALSE
    /\ UNCHANGED st

Next ==
    \/ Dispatch
    \/ \E t \in InitiateTransitions : Initiate(t)
    \/ Arrive

Spec == Init /\ [][Next]_vars
(***************************************************************************)
(* Properties.                                                            *)
(***************************************************************************)
TypeOK ==
    /\ st \in V2States
    /\ md \in Md
    /\ phase \in {"pending", "done"}
    /\ from \in V2States
    /\ result \in Transition \cup {NoTransition}
    /\ failed \in BOOLEAN

Dispatched == phase = "done"

\* the transitions of a state that v2_state_transition() gets past the
\* exchange and role tests for, and those of them whose clear payloads fit
Candidates(s, m) ==
    {t \in ToSet(v2_transitions[s]) : t.exchange = m.exchange
                                     /\ t.recv_role = m.role}
ClearFits(s, m) ==
    {t \in Candidates(s, m) :
        ~ikev2_verify_payloads(m, m.message_payloads, t.message_payloads).bad}

\* spec section 4.5, invariant 5, in its own words: a message is taken by
\* a transition of its state for its exchange and role; it has every
\* required payload (a lone SKF counting as SK), nothing that is neither
\* required, optional nor allowed everywhere, no repeated payload that may
\* not repeat, and the required notification; and in a secured state the
\* same holds of its SK{} payloads.
Conforms(m, summary, exp) ==
    LET seen == Seen(summary) IN
    /\ exp.required \subseteq seen
    /\ seen \subseteq exp.required \cup exp.optional \cup everywhere_payloads
    /\ summary.repeated \subseteq repeatable_payloads
    /\ exp.notification # NOTHING_WRONG => exp.notification \in m.pd

DispatchConformsToTransition ==
    (Dispatched /\ result # NoTransition) =>
        /\ result \in Candidates(from, md)
        /\ Conforms(md, md.message_payloads, result.message_payloads)
        /\ from \in Secured =>
             Conforms(md, md.encrypted_payloads, result.encrypted_payloads)

\* The comment after the loop of v2_state_transition(): "all the state
\* transitions for a secured state have the same message payload set so
\* either they all match or they all fail", which is what makes the code
\* report *secured_payload_failed (so that the caller takes evasive
\* action) exactly when some transition accepted the clear part and every
\* such transition rejected the SK{} part.
SecuredFailureFlagged ==
    Dispatched =>
        (failed <=> /\ result = NoTransition
                    /\ from \in Secured
                    /\ ClearFits(from, md) # {})

\* An IKE SA reaches ESTABLISHED_IKE_SA from the IKE_SA_INIT, IKE_AUTH,
\* IKE_INTERMEDIATE or EAP states only on a message whose SK{} part
\* carries an AUTH payload: the secured-payload check of
\* v2_state_transition() stands between a peer and an established SA.
EstablishOnlyAuthenticated ==
    (/\ Dispatched
     /\ st = "ESTABLISHED_IKE_SA"
     /\ from \notin {"ESTABLISHED_IKE_SA", "REKEY_IKE_R0", "REKEY_IKE_I1"})
    => "AUTH" \in md.encrypted_payloads.present

\* The order of ESTABLISHED_IKE_SA's CREATE_CHILD_SA requests: a request
\* without traffic selectors rekeys the IKE SA, one with them and with
\* N(REKEY_SA) rekeys a Child SA, and one with them and without
\* N(REKEY_SA) creates a Child SA ("the rekey Child SA request will match
\* this, the new Child SA will not and match the weaker transition").
RekeyDisambiguation ==
    (/\ Dispatched /\ from = "ESTABLISHED_IKE_SA" /\ result # NoTransition
     /\ md.exchange = "CREATE_CHILD_SA" /\ md.role = REQ)
    => result.processor =
         IF {"TSi", "TSr"} \cap md.encrypted_payloads.present = {}
         THEN "process_v2_CREATE_CHILD_SA_rekey_ike_request"
         ELSE IF "REKEY_SA" \in md.pd
         THEN "process_v2_CREATE_CHILD_SA_rekey_child_request"
         ELSE "process_v2_CREATE_CHILD_SA_new_child_request"
=============================================================================
