--------------------------- MODULE MCIkev2States ---------------------------
(***************************************************************************)
(* The messages the peer sends, built from the table: for each transition *)
(* that takes a message, the message it expects and the ways a message    *)
(* can differ from it (an optional payload added, a required one dropped, *)
(* a stray or repeated payload, SKF for SK, the other role, a missing or   *)
(* an extra notification).                                                *)
(***************************************************************************)
EXTENDS Ikev2States

MessageTransitions ==
    {t \in UNION {ToSet(v2_transitions[s]) : s \in V2States} :
        t.recv_role # INIT}

\* the N payload that carries a required notification
NFor(exp) == IF exp.notification = NOTHING_WRONG THEN {} ELSE {"N"}
NotifFor(exp) == IF exp.notification = NOTHING_WRONG THEN {}
                 ELSE {exp.notification}

Msg(x, role, clear, crep, enc, erep, pd) ==
    [exchange |-> x, role |-> role,
     message_payloads |-> [present |-> clear, repeated |-> crep],
     encrypted_payloads |-> [present |-> enc, repeated |-> erep], pd |-> pd]

Variants(t) ==
    LET x == t.exchange
        r == t.recv_role
        other == IF r = REQ THEN RESP ELSE REQ
        clear == t.message_payloads.required \cup NFor(t.message_payloads)
        enc == t.encrypted_payloads.required \cup NFor(t.encrypted_payloads)
        pd == NotifFor(t.message_payloads) \cup NotifFor(t.encrypted_payloads)
        sec == "SK" \in clear
    IN {Msg(x, r, clear, {}, enc, {}, pd),
        Msg(x, other, clear, {}, enc, {}, pd),
        Msg(x, r, clear \cup t.message_payloads.optional, {},
            enc \cup t.encrypted_payloads.optional, {}, pd),
        Msg(x, r, clear, {}, enc, {}, {})}
    \cup {Msg(x, r, clear, {}, enc \ {p}, {}, pd) : p \in enc}
    \cup {Msg(x, r, clear \ {p}, {}, enc, {}, pd) : p \in clear \ {"SK"}}
    \cup (IF sec
          THEN {Msg(x, r, clear, {}, enc \cup {p}, {}, pd) :
                  p \in {"TSi", "TSr", "AUTH", "D", "KE", "EAP"}}
               \cup {Msg(x, r, clear, {}, enc \cup {"N"}, {},
                         pd \cup {"REKEY_SA"})}
               \cup {Msg(x, r, c, {}, enc, {}, pd) :
                       c \in {(clear \ {"SK"}) \cup {"SKF"},
                              clear \cup {"SKF"}}}
               \cup {Msg(x, r, clear, {}, enc, {p}, pd) :
                       p \in enc \cap {"SA", "N"}}
          ELSE {Msg(x, r, clear \cup {"CERTREQ"}, {"CERTREQ"}, {}, {}, pd),
                Msg(x, r, clear, clear \cap {"SA"}, {}, {}, pd),
                Msg(x, r, clear \cup {"SK"}, {}, {}, {}, pd)})

MCMsgSpace == UNION {Variants(t) : t \in MessageTransitions}
=============================================================================
