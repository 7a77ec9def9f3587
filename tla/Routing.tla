------------------------------- MODULE Routing -------------------------------
(***************************************************************************)
(* The connection routing engine of pluto (src/programs/pluto/routing.c). *)
(*                                                                         *)
(* Every change to a connection's kernel-policy state goes through         *)
(* dispatch(event, c, annex): an optional dispatch_ok filter, then         *)
(* dispatch_1, a switch on the triple (event, c->child.routing, kind),     *)
(* then, when the result is true, an optional post_op that deletes the     *)
(* SA.  A triple without a case falls through to BARF ("unhandled") and    *)
(* returns false.                                                          *)
(*                                                                         *)
(* The callers of the public entry points (connection_initiated_ike,       *)
(* connection_establish_child, connection_delete_child, ...) are the IKE   *)
(* state machines; they are the environment here: each action is one call *)
(* of one entry point by an SA in the lifecycle phase the caller needs.    *)
(* Kernel installs, revival scheduling and the updown script are outside   *)
(* routing.c: their results are nondeterministic oracles.                  *)
(***************************************************************************)
EXTENDS Naturals, Sequences, FiniteSets

CONSTANTS
    Conns,              \* the connections
    Config,             \* c -> [kind, clonedfrom, opportunistic,
                        \*       never_negotiate, failure_shunt,
                        \*       ike_version, template_routable, revival]
    MaxSA,              \* bound on the SA serial numbers handed out
    BROKEN_TRANSITION,  \* the routing.h macro guarding ROUTE while negotiating
    KernelCanFail,      \* the connections whose kernel calls may fail
    Admin               \* whether whack route/unroute may come at any time

NOBODY == 0             \* SOS_NOBODY
Serials == 1..MaxSA

Kinds == {"PERMANENT", "TEMPLATE", "INSTANCE"}

Routings == {"UNROUTED", "UNROUTED_BARE_NEGOTIATION", "UNROUTED_NEGOTIATION",
             "UNROUTED_INBOUND", "UNROUTED_INBOUND_NEGOTIATION",
             "UNROUTED_TUNNEL", "UNROUTED_FAILURE", "ROUTED_ONDEMAND",
             "ROUTED_NEVER_NEGOTIATE", "ROUTED_NEGOTIATION",
             "ROUTED_INBOUND_NEGOTIATION", "ROUTED_TUNNEL", "ROUTED_FAILURE"}

Events == {"ROUTE", "UNROUTE", "INITIATE", "ESTABLISH_IKE",
           "ESTABLISH_INBOUND", "ESTABLISH_OUTBOUND", "TEARDOWN_IKE",
           "TEARDOWN_CHILD", "RESCHEDULE", "SUSPEND", "RESUME"}

\* the faults the code reports or suffers: BARF, a dereference of an annex
\* pointer the entry point left NULL, and the failed PEXPECTs by kind: an
\* owner already set, a cuckoo child, an opportunistic connection going
\* ROUTED_NEGOTIATION, an IKEv2 IKE SA torn down under ROUTED_TUNNEL
FaultKinds == {"unhandled", "null_deref", "pexpect_owner", "pexpect_cuckoo",
               "pexpect_opportunistic", "pexpect_ikev1"}

Hooks == {"UP", "DOWN"}

\* SA lifecycle as the callers drive it; "failed" is an SA whose
\* establish call returned false and which now can only be deleted
Phases == {"free", "larval", "inbound", "established", "failed", "deleted"}
Alive == {"larval", "inbound", "established", "failed"}

ASSUME MaxSA \in Nat \ {0}
ASSUME BROKEN_TRANSITION \in BOOLEAN
ASSUME \A c \in Conns : Config[c].kind \in Kinds
                        /\ (Config[c].kind = "INSTANCE" =>
                              Config[Config[c].clonedfrom].kind = "TEMPLATE")

VARIABLES
    conn,       \* c -> routing, policy.route, updown up, and the four owners
    sa,         \* serial -> the SA with that serial number
    nextSerial, \* the next serial number to hand out
    pending,    \* c -> the larval IKE SA c is queued behind, or NOBODY
    faults      \* every fault met so far

vars == <<conn, sa, nextSerial, pending, faults>>

PI == {"PERMANENT", "INSTANCE"}
KindOf(c) == Config[c].kind

ConnRec == [routing: Routings, route: BOOLEAN, up: BOOLEAN,
            negotiating_ike_sa: Serials \cup {NOBODY},
            established_ike_sa: Serials \cup {NOBODY},
            newest_routing_sa: Serials \cup {NOBODY},
            newest_ipsec_sa: Serials \cup {NOBODY}]

SaRec == [phase: Phases, ike: BOOLEAN, conn: Conns,
          parent: Serials \cup {NOBODY}, responder: BOOLEAN,
          suspended: BOOLEAN]

IkeOwners == {"negotiating_ike_sa", "established_ike_sa"}
Owners == IkeOwners \cup {"newest_routing_sa", "newest_ipsec_sa"}

\* s is an SA of connection c of the given type in one of the phases
LiveSa(s, c, isIke, phases) ==
    s \in Serials /\ sa[s].ike = isIke /\ sa[s].conn = c /\ sa[s].phase \in phases

(***************************************************************************)
(* Predicates on the routing of a connection.                             *)
(***************************************************************************)
routed(rt) ==
    rt \in {"ROUTED_ONDEMAND", "ROUTED_NEVER_NEGOTIATE", "ROUTED_NEGOTIATION",
            "ROUTED_INBOUND_NEGOTIATION", "ROUTED_TUNNEL", "ROUTED_FAILURE"}

(***************************************************************************)
(* The owner updates.  A dispatch case yields a result record: whether    *)
(* dispatch_1 returned true, the new connection, the faults met and the   *)
(* updown hooks run, in order.                                            *)
(***************************************************************************)
Res(ok, r, f, h) == [ok |-> ok, r |-> r, f |-> f, hooks |-> h]
Ok(r) == Res(TRUE, r, {}, <<>>)
Unhandled(r) == Res(FALSE, r, {"unhandled"}, <<>>)

\* mutation: the annex child is ignored, both child owners always cleared
set_routing_ignores_child(r, rt, child) ==
    [r EXCEPT !.routing = rt, !.newest_routing_sa = NOBODY,
              !.newest_ipsec_sa = NOBODY]

\* set_routing(): the child in the annex becomes .newest_routing_sa; with
\* no child both child owners are cleared
set_routing(r, rt, child) ==
    [r EXCEPT !.routing = rt,
              !.newest_routing_sa = child,
              !.newest_ipsec_sa = IF child = NOBODY THEN NOBODY ELSE @]

Unrouted(r) == Ok(set_routing(r, "UNROUTED", NOBODY))
Ondemand(r) == Ok(set_routing(r, "ROUTED_ONDEMAND", NOBODY))

\* set_initiated(): the child, else the IKE SA, becomes the owner; with
\* neither (the connection is pending) nothing changes
set_initiated(r, rt, ike, child) ==
    IF child # NOBODY
    THEN Res(TRUE, [r EXCEPT !.newest_routing_sa = child, !.routing = rt],
             IF r.newest_routing_sa = NOBODY THEN {} ELSE {"pexpect_owner"}, <<>>)
    ELSE IF ike # NOBODY
    THEN Res(TRUE, [r EXCEPT !.negotiating_ike_sa = ike, !.routing = rt],
             IF r.negotiating_ike_sa = NOBODY THEN {} ELSE {"pexpect_owner"}, <<>>)
    ELSE Ok(r)

\* set_established_ike()
set_established_ike(r, rt, ike) ==
    Ok([r EXCEPT !.negotiating_ike_sa = ike, !.established_ike_sa = ike,
                 !.routing = rt])

\* set_established_child(): the IKE owners are repaired to the parent when
\* the parent shares the connection ("crossed streams") and cleared when it
\* does not ("cuckoo", a PEXPECT); the child becomes both child owners
set_established_child(r, c, rt, ike, ikeConn, child) ==
    LET shares == ikeConn = c
        fixed == [o \in DOMAIN r |->
                    IF o \in IkeOwners THEN (IF shares THEN ike ELSE NOBODY)
                    ELSE r[o]]
        cuckoo == ~shares /\ \E o \in IkeOwners : r[o] # NOBODY
    IN Res(TRUE, [fixed EXCEPT !.routing = rt, !.newest_ipsec_sa = child,
                               !.newest_routing_sa = child],
           IF cuckoo THEN {"pexpect_cuckoo"} ELSE {}, <<>>)

(***************************************************************************)
(* The helper transitions of routing.c.  Kernel policy calls have no      *)
(* state here beyond the routing they leave behind.                       *)
(***************************************************************************)
\* mutation: the c->policy.route test is lost
teardown_routed_negotiation_no_route(r, k, cfg, revive) ==
    IF revive THEN Ondemand(r)
    ELSE IF k = "INSTANCE" /\ cfg.opportunistic THEN Unrouted(r)
    ELSE Unrouted(r)

\* routed_negotiation_to_routed_ondemand() / routed_kernel_policy_to_unrouted()
\* as chosen by teardown_routed_negotiation(); the TEARDOWN_IKE and
\* RESCHEDULE cases on ROUTED_NEGOTIATION make the same choice
teardown_routed_negotiation(r, k, cfg, revive) ==
    IF revive THEN Ondemand(r)
    ELSE IF k = "INSTANCE" /\ cfg.opportunistic THEN Unrouted(r)
    ELSE IF r.route THEN Ondemand(r)
    ELSE Unrouted(r)

\* routed_tunnel_to_routed_ondemand(): no updown hook
routed_tunnel_to_routed_ondemand(r) == Ondemand(r)

\* routed_tunnel_to_routed_failure() and routed_tunnel_to_unrouted(): DOWN
routed_tunnel_to_routed_failure(r) ==
    Res(TRUE, set_routing(r, "ROUTED_FAILURE", NOBODY), {}, <<"DOWN">>)
routed_tunnel_to_unrouted(r) ==
    Res(TRUE, set_routing(r, "UNROUTED", NOBODY), {}, <<"DOWN">>)

teardown_routed_tunnel(r, k, cfg, revive) ==
    IF revive THEN routed_tunnel_to_routed_ondemand(r)
    ELSE IF k = "PERMANENT" /\ r.route THEN routed_tunnel_to_routed_ondemand(r)
    ELSE IF k = "PERMANENT" /\ cfg.failure_shunt
         THEN routed_tunnel_to_routed_failure(r)
    ELSE routed_tunnel_to_unrouted(r)

\* unrouted_tunnel_to_routed_ondemand() and _to_routed_failure() run DOWN;
\* unrouted_tunnel_to_unrouted() runs nothing (SUSPEND already ran DOWN)
teardown_unrouted_tunnel(r, k, cfg, revive) ==
    IF revive \/ (k = "PERMANENT" /\ r.route)
    THEN Res(TRUE, set_routing(r, "ROUTED_ONDEMAND", NOBODY), {}, <<"DOWN">>)
    ELSE IF k = "PERMANENT" /\ cfg.failure_shunt
    THEN Res(TRUE, set_routing(r, "ROUTED_FAILURE", NOBODY), {}, <<"DOWN">>)
    ELSE Unrouted(r)

\* teardown_unrouted_inbound() and teardown_unrouted_inbound_negotiation():
\* with or without a revival the inbound state goes and so does the routing
teardown_unrouted_inbound(r) == Unrouted(r)

(***************************************************************************)
(* dispatch_1(), one operator per event.  r is the connection, k its      *)
(* kind, cfg its configuration; ike and child are the annex (NOBODY for a *)
(* NULL pointer); o holds the oracles: o.revive for scheduled_revival()   *)
(* and scheduled_child_revival(), o.kernel for the kernel call the case   *)
(* makes.                                                                 *)
(***************************************************************************)
Route1(r, k, cfg, o) ==
    LET rr == [r EXCEPT !.route = TRUE]
        target == IF cfg.never_negotiate THEN "ROUTED_NEVER_NEGOTIATE"
                  ELSE "ROUTED_ONDEMAND"
    IN CASE r.routing = "UNROUTED" /\ k \in {"TEMPLATE", "PERMANENT"} ->
              \* unrouted_to_routed_*(); on failure "could not route"
              Ok(IF o.kernel THEN set_routing(rr, target, NOBODY) ELSE rr)
         [] r.routing = "UNROUTED_BARE_NEGOTIATION" /\ k = "PERMANENT"
              /\ BROKEN_TRANSITION -> Ok(rr)
         [] r.routing \in {"ROUTED_NEGOTIATION", "ROUTED_TUNNEL"}
              /\ k = "PERMANENT" -> Ok(rr)
         [] OTHER -> Unhandled(r)

Unroute1(r, k, child) ==
    CASE r.routing \in {"UNROUTED_BARE_NEGOTIATION", "ROUTED_FAILURE",
                        "ROUTED_NEGOTIATION", "UNROUTED_TUNNEL"} /\ k \in PI ->
              Unrouted(r)
      [] r.routing = "ROUTED_INBOUND_NEGOTIATION" /\ k \in Kinds ->
              \* routed_inbound_negotiation_to_unrouted(..., (*e->child), ...)
              IF child = NOBODY THEN Res(FALSE, r, {"null_deref"}, <<>>)
              ELSE Unrouted(r)
      [] r.routing = "ROUTED_NEVER_NEGOTIATE" /\ k \in {"TEMPLATE", "PERMANENT"} ->
              Unrouted(r)
      [] r.routing = "ROUTED_ONDEMAND" /\ k \in Kinds -> Unrouted(r)
      [] r.routing = "ROUTED_TUNNEL" /\ k \in PI -> Ok(r)   \* RC_RTBUSY
      [] r.routing = "UNROUTED" -> Ok(r)                  \* already unrouted
      [] r.routing = "UNROUTED_NEGOTIATION" /\ k = "INSTANCE" -> Unrouted(r)
      [] OTHER -> Unhandled(r)

Initiate1(r, k, cfg, template, ike, child) ==
    CASE r.routing = "ROUTED_ONDEMAND" /\ k \in PI ->
              \* routed_ondemand_to_routed_negotiation()
              Res(TRUE, set_routing(r, "ROUTED_NEGOTIATION", child),
                  IF cfg.opportunistic THEN {"pexpect_opportunistic"} ELSE {},
                  <<>>)
      [] r.routing = "UNROUTED" /\ k = "INSTANCE" /\ template = "UNROUTED" ->
              Ok(set_routing(r, "UNROUTED_BARE_NEGOTIATION", child))
      [] r.routing = "UNROUTED" /\ k = "INSTANCE" /\ template = "ROUTED_ONDEMAND" ->
              Ok(set_routing(r, "UNROUTED_NEGOTIATION", child))
      [] r.routing = "UNROUTED" /\ k = "PERMANENT" ->
              set_initiated(r, "UNROUTED_BARE_NEGOTIATION", ike, child)
      [] OTHER -> Unhandled(r)

EstablishIke1(r, k, ike) ==
    CASE r.routing \in {"UNROUTED", "UNROUTED_BARE_NEGOTIATION"} /\ k \in PI ->
              set_established_ike(r, "UNROUTED_BARE_NEGOTIATION", ike)
      [] r.routing \in {"ROUTED_NEGOTIATION", "ROUTED_ONDEMAND", "ROUTED_TUNNEL",
                        "UNROUTED_NEGOTIATION", "UNROUTED_INBOUND"} /\ k \in PI ->
              set_established_ike(r, r.routing, ike)
      [] OTHER -> Unhandled(r)

\* the routing install_inbound_ipsec_sa() is asked for; "" when no case
InboundTarget(rt, k) ==
    CASE rt \in {"UNROUTED_BARE_NEGOTIATION", "UNROUTED"} /\ k \in PI ->
              "UNROUTED_INBOUND"
      [] rt \in {"ROUTED_NEGOTIATION", "ROUTED_ONDEMAND"} /\ k \in PI ->
              "ROUTED_INBOUND_NEGOTIATION"
      [] rt = "ROUTED_INBOUND_NEGOTIATION" /\ k = "PERMANENT" -> rt
      [] rt = "ROUTED_TUNNEL" /\ k \in PI -> rt
      [] rt \in {"UNROUTED_INBOUND", "UNROUTED_INBOUND_NEGOTIATION"}
              /\ k = "PERMANENT" -> rt
      [] rt = "UNROUTED_NEGOTIATION" /\ k = "INSTANCE" ->
              "UNROUTED_INBOUND_NEGOTIATION"
      [] OTHER -> ""

\* mutation: a triple without a case installs whatever was asked for
\* instead of falling through to BARF
EstablishInbound1_no_barf(r, k, child, o) ==
    LET target == InboundTarget(r.routing, k)
    IN IF ~o.kernel THEN Res(FALSE, r, {}, <<>>)
       ELSE Ok(set_routing(r, target, child))

EstablishInbound1(r, k, child, o) ==
    LET target == InboundTarget(r.routing, k)
    IN IF target = "" THEN Unhandled(r)
       ELSE IF ~o.kernel THEN Res(FALSE, r, {}, <<>>)
       ELSE Ok(set_routing(r, target, child))

\* install_outbound_ipsec_sa() runs UP when its do_updown has .up set
EstablishOutbound1(r, c, k, ike, ikeConn, child, o) ==
    LET up == CASE r.routing \in {"ROUTED_INBOUND_NEGOTIATION", "UNROUTED_INBOUND",
                                  "UNROUTED_INBOUND_NEGOTIATION"} /\ k \in PI -> 1
                [] r.routing = "ROUTED_TUNNEL" /\ k \in PI -> 0
                [] OTHER -> 2
        done == set_established_child(r, c, "ROUTED_TUNNEL", ike, ikeConn, child)
    IN IF up = 2 THEN Unhandled(r)
       ELSE IF ~o.kernel THEN Res(FALSE, r, {}, <<>>)
       ELSE [done EXCEPT !.hooks = IF up = 1 THEN <<"UP">> ELSE <<>>]

TeardownIke1(r, k, cfg, ikeVersion, o) ==
    CASE r.routing \in {"UNROUTED", "ROUTED_ONDEMAND"} /\ k \in PI -> Ok(r)
      [] r.routing = "UNROUTED_BARE_NEGOTIATION" /\ k \in PI -> Unrouted(r)
      [] r.routing = "ROUTED_NEGOTIATION" /\ k \in PI ->
              teardown_routed_negotiation(r, k, cfg, o.revive)
      [] r.routing = "UNROUTED_NEGOTIATION" /\ k = "INSTANCE" -> Unrouted(r)
      [] r.routing = "ROUTED_TUNNEL" /\ k \in PI ->
              \* PEXPECT((*e->ike)->sa.st_ike_version == IKEv1)
              Res(TRUE, r, IF ikeVersion = 1 THEN {} ELSE {"pexpect_ikev1"}, <<>>)
      [] OTHER -> Unhandled(r)

TeardownChild1(r, k, cfg, o) ==
    CASE r.routing = "UNROUTED_BARE_NEGOTIATION" /\ k \in PI -> Unrouted(r)
      [] r.routing = "UNROUTED" /\ k = "PERMANENT" -> Unrouted(r)
      [] r.routing = "ROUTED_NEGOTIATION" /\ k = "PERMANENT" ->
              teardown_routed_negotiation(r, k, cfg, o.revive)
      [] r.routing = "UNROUTED_NEGOTIATION" /\ k = "INSTANCE" -> Unrouted(r)
      [] r.routing \in {"ROUTED_TUNNEL", "ROUTED_INBOUND_NEGOTIATION"} /\ k \in PI ->
              teardown_routed_tunnel(r, k, cfg, o.revive)
      [] r.routing = "UNROUTED_TUNNEL" /\ k \in PI ->
              teardown_unrouted_tunnel(r, k, cfg, o.revive)
      [] r.routing \in {"UNROUTED_INBOUND", "UNROUTED_INBOUND_NEGOTIATION"}
              /\ k \in PI -> teardown_unrouted_inbound(r)
      [] OTHER -> Unhandled(r)

Reschedule1(r, k, cfg, o) ==
    CASE r.routing = "UNROUTED_BARE_NEGOTIATION" /\ k = "INSTANCE" -> Unrouted(r)
      [] r.routing = "UNROUTED" /\ k = "PERMANENT" -> Unrouted(r)
      [] r.routing = "ROUTED_NEGOTIATION" /\ k \in PI ->
              teardown_routed_negotiation(r, k, cfg, o.revive)
      [] OTHER -> Unhandled(r)

Suspend1(r, k, child) ==
    IF r.routing = "ROUTED_TUNNEL" /\ k \in PI
    THEN Res(TRUE, set_routing(r, "UNROUTED_TUNNEL", child), {}, <<"DOWN">>)
    ELSE Unhandled(r)

Resume1(r, k, child) ==
    IF r.routing = "UNROUTED_TUNNEL" /\ k \in PI
    THEN Res(TRUE, set_routing(r, "ROUTED_TUNNEL", child), {}, <<"UP">>)
    ELSE Unhandled(r)

(***************************************************************************)
(* dispatch_1() and dispatch().                                           *)
(***************************************************************************)
Dispatch1(ev, c, cs, ike, child, o) ==
    LET r == cs[c]
        k == KindOf(c)
        cfg == Config[c]
        template == IF k = "INSTANCE" THEN cs[cfg.clonedfrom].routing
                    ELSE "UNROUTED"
        ikeConn == IF ike = NOBODY THEN c ELSE sa[ike].conn
    IN CASE ev = "ROUTE" -> Route1(r, k, cfg, o)
         [] ev = "UNROUTE" -> Unroute1(r, k, child)
         [] ev = "INITIATE" -> Initiate1(r, k, cfg, template, ike, child)
         [] ev = "ESTABLISH_IKE" -> EstablishIke1(r, k, ike)
         [] ev = "ESTABLISH_INBOUND" -> EstablishInbound1(r, k, child, o)
         [] ev = "ESTABLISH_OUTBOUND" ->
                EstablishOutbound1(r, c, k, ike, ikeConn, child, o)
         [] ev = "TEARDOWN_IKE" -> TeardownIke1(r, k, cfg, cfg.ike_version, o)
         [] ev = "TEARDOWN_CHILD" -> TeardownChild1(r, k, cfg, o)
         [] ev = "RESCHEDULE" -> Reschedule1(r, k, cfg, o)
         [] ev = "SUSPEND" -> Suspend1(r, k, child)
         [] ev = "RESUME" -> Resume1(r, k, child)

\* the updown state a sequence of hooks leaves behind
AfterHooks(up, hooks) == IF hooks = <<>> THEN up ELSE hooks[Len(hooks)] = "UP"

Tag(fs, ev) == {[what |-> f, event |-> ev] : f \in fs}

\* a dispatch_ok result: whether to call dispatch_1 and the faults met
Go == [go |-> TRUE, f |-> {}]

\* dispatch(): dispatch_1 runs when dispatch_ok passes; a skipped dispatch
\* counts as success, so the caller's post_op still runs
dispatch(cs, fs, ev, c, ike, child, guard, o) ==
    LET res == Dispatch1(ev, c, cs, ike, child, o) IN IF guard.go
       THEN [ok |-> res.ok,
             cs |-> [cs EXCEPT ![c] = [res.r EXCEPT !.up =
                                          AfterHooks(res.r.up, res.hooks)]],
             fs |-> fs \cup Tag(guard.f \cup res.f, ev),
             hooks |-> res.hooks]
       ELSE [ok |-> TRUE, cs |-> cs, fs |-> fs \cup Tag(guard.f, ev),
             hooks |-> <<>>]

(***************************************************************************)
(* The dispatch_ok filters.                                               *)
(***************************************************************************)
child_dispatch_ok(r, child) == [go |-> child = r.newest_routing_sa, f |-> {}]

ike_dispatch_ok(r, ike) ==
    [go |-> r.established_ike_sa \in {NOBODY, ike}, f |-> {}]

\* pexpect_connection_is_disowned() on UNROUTED
initiated_ike_dispatch_ok(r) ==
    CASE r.routing = "UNROUTED" ->
            [go |-> TRUE,
             f |-> IF \E o \in Owners : r[o] # NOBODY THEN {"pexpect_owner"}
                   ELSE {}]
      [] r.routing = "ROUTED_ONDEMAND" -> Go
      [] OTHER -> [go |-> FALSE, f |-> {}]   \* "connection is already ..."

\* on UNROUTED every owner but the annex's IKE SA is a PEXPECT; comparing
\* an IKE owner with (*e->ike) dereferences a NULL annex for pending
initiated_child_dispatch_ok(r, ike) ==
    CASE r.routing = "ROUTED_ONDEMAND" -> Go
      [] r.routing = "UNROUTED" ->
            [go |-> TRUE,
             f |-> {IF o \in IkeOwners /\ ike = NOBODY THEN "null_deref"
                    ELSE "pexpect_owner" :
                    o \in {o2 \in Owners : r[o2] # NOBODY
                                           /\ ~(o2 \in IkeOwners /\ r[o2] = ike)}}]
      [] OTHER -> [go |-> FALSE, f |-> {}]

unpend_dispatch_ok(r) == [go |-> \A o \in Owners : r[o] = NOBODY, f |-> {}]

\* mutation: the loop stops at the first owner it clears
state_disowns_connection_first_only(r, s) ==
    LET order == <<"negotiating_ike_sa", "established_ike_sa",
                   "newest_routing_sa", "newest_ipsec_sa">>
        hit == {i \in 1..4 : r[order[i]] = s}
    IN IF hit = {} THEN r
       ELSE [r EXCEPT ![order[CHOOSE i \in hit : \A j \in hit : i <= j]] = NOBODY]

\* state_disowns_connection(), called when the SA is deleted
state_disowns_connection(r, s) ==
    [o \in DOMAIN r |-> IF o \in Owners /\ r[o] = s THEN NOBODY ELSE r[o]]

(***************************************************************************)
(* The entry points.  The kernel calls of a connection in KernelCanFail *)
(* may fail; revival is scheduled only for connections configured to     *)
(* revive.                                                                *)
(***************************************************************************)
Oracles(c) == [revive: IF Config[c].revival THEN BOOLEAN ELSE {FALSE},
               kernel: IF c \in KernelCanFail THEN BOOLEAN ELSE {TRUE}]

Record(d) ==
    /\ conn' = d.cs
    /\ faults' = d.fs

NewSa(c, isIke, parent, responder) ==
    [phase |-> "larval", ike |-> isIke, conn |-> c, parent |-> parent,
     responder |-> responder, suspended |-> FALSE]

Delete(s) == [sa EXCEPT ![s].phase = "deleted"]

\* connection_route(): a template is routed only when routable.  Without
\* Admin it is only the auto=route call made when the connection is loaded.
connection_route(c) ==
    /\ KindOf(c) \in {"PERMANENT", "TEMPLATE"}
    /\ Admin \/ (nextSerial = 1 /\ ~conn[c].route)
    /\ KindOf(c) = "TEMPLATE" => Config[c].template_routable
    /\ \E o \in Oracles(c) :
          Record(dispatch(conn, faults, "ROUTE", c, NOBODY, NOBODY, Go, o))
    /\ UNCHANGED <<sa, nextSerial, pending>>

connection_unroute(c) ==
    /\ Admin
    /\ \E o \in Oracles(c) :
          Record(dispatch(conn, faults, "UNROUTE", c, NOBODY, NOBODY, Go, o))
    /\ UNCHANGED <<sa, nextSerial, pending>>

\* a new initiating IKE SA: connection_initiated_ike()
connection_initiated_ike(c) ==
    /\ KindOf(c) \in PI /\ ~Config[c].never_negotiate
    /\ nextSerial <= MaxSA
    /\ LET s == nextSerial IN
       /\ sa' = [sa EXCEPT ![s] = NewSa(c, TRUE, NOBODY, FALSE)]
       /\ nextSerial' = s + 1
       /\ \E o \in Oracles(c) :
            Record(dispatch(conn, faults, "INITIATE", c, s, NOBODY,
                            initiated_ike_dispatch_ok(conn[c]), o))
    /\ UNCHANGED pending

\* a responder IKE SA: no routing event until it establishes
RespondIke(c) ==
    /\ KindOf(c) \in PI /\ ~Config[c].never_negotiate
    /\ nextSerial <= MaxSA
    /\ sa' = [sa EXCEPT ![nextSerial] = NewSa(c, TRUE, NOBODY, TRUE)]
    /\ nextSerial' = nextSerial + 1
    /\ UNCHANGED <<conn, pending, faults>>

connection_establish_ike(s) ==
    /\ sa[s].phase = "larval" /\ sa[s].ike
    /\ sa' = [sa EXCEPT ![s].phase = "established"]
    /\ \E o \in Oracles(sa[s].conn) :
          Record(dispatch(conn, faults, "ESTABLISH_IKE", sa[s].conn, s, NOBODY,
                          Go, o))
    /\ UNCHANGED <<nextSerial, pending>>

\* a Child SA initiated over IKE SA p (IKE_AUTH or CREATE_CHILD_SA):
\* connection_initiated_child()
connection_initiated_child(p) ==
    /\ sa[p].ike /\ sa[p].phase \in {"larval", "established"}
    /\ sa[p].phase = "larval" => ~sa[p].responder
    /\ nextSerial <= MaxSA
    /\ LET c == sa[p].conn
           s == nextSerial
       IN /\ sa' = [sa EXCEPT ![s] = NewSa(c, FALSE, p, FALSE)]
          /\ nextSerial' = s + 1
          /\ \E o \in Oracles(c) :
               Record(dispatch(conn, faults, "INITIATE", c, p, s,
                               initiated_child_dispatch_ok(conn[c], p), o))
          \* a connection pending on p is unpended by this initiation
          /\ pending' = IF pending[c] = p THEN [pending EXCEPT ![c] = NOBODY]
                        ELSE pending

\* a responder Child SA: no routing event until it establishes
RespondChild(p) ==
    /\ sa[p].ike /\ sa[p].phase \in {"larval", "established"}
    /\ sa[p].phase = "larval" => sa[p].responder
    /\ nextSerial <= MaxSA
    /\ sa' = [sa EXCEPT ![nextSerial] = NewSa(sa[p].conn, FALSE, p, TRUE)]
    /\ nextSerial' = nextSerial + 1
    /\ UNCHANGED <<conn, pending, faults>>

\* connection_establish_child(): INBOUND && OUTBOUND in one transaction;
\* IKEv2 both ends and the IKEv1 initiator
connection_establish_child(s) ==
    /\ ~sa[s].ike /\ sa[s].phase = "larval"
    /\ sa[sa[s].parent].phase = "established"
    /\ ~(Config[sa[s].conn].ike_version = 1 /\ sa[s].responder)
    /\ LET c == sa[s].conn
           p == sa[s].parent
       IN \E o1, o2 \in Oracles(c) :
            LET d1 == dispatch(conn, faults, "ESTABLISH_INBOUND", c, NOBODY, s,
                               Go, o1)
                d2 == dispatch(d1.cs, d1.fs, "ESTABLISH_OUTBOUND", c, p, s,
                               Go, o2)
                d == IF d1.ok
                     THEN [d2 EXCEPT !.hooks = d1.hooks \o d2.hooks] ELSE d1
            IN /\ Record(d)
               /\ sa' = [sa EXCEPT ![s].phase =
                            IF d.ok THEN "established" ELSE "failed"]
    /\ UNCHANGED <<nextSerial, pending>>

\* the IKEv1 responder: INBOUND on the first Quick Mode message,
\* connection_establish_inbound()
connection_establish_inbound(s) ==
    /\ ~sa[s].ike /\ sa[s].phase = "larval"
    /\ sa[sa[s].parent].phase = "established"
    /\ Config[sa[s].conn].ike_version = 1 /\ sa[s].responder
    /\ \E o \in Oracles(sa[s].conn) :
         LET d == dispatch(conn, faults, "ESTABLISH_INBOUND", sa[s].conn,
                           NOBODY, s, Go, o)
         IN /\ Record(d)
            /\ sa' = [sa EXCEPT ![s].phase = IF d.ok THEN "inbound" ELSE "failed"]
    /\ UNCHANGED <<nextSerial, pending>>

\* ... and OUTBOUND on the second: connection_establish_outbound()
connection_establish_outbound(s) ==
    /\ ~sa[s].ike /\ sa[s].phase = "inbound"
    /\ sa[sa[s].parent].phase = "established"
    /\ \E o \in Oracles(sa[s].conn) :
         LET d == dispatch(conn, faults, "ESTABLISH_OUTBOUND", sa[s].conn,
                           sa[s].parent, s, Go, o)
         IN /\ Record(d)
            /\ sa' = [sa EXCEPT ![s].phase =
                         IF d.ok THEN "established" ELSE "failed"]
    /\ UNCHANGED <<nextSerial, pending>>

\* connection_delete_child() / connection_timeout_child(): zap_child()
\* with child_dispatch_ok and delete_child_sa() as post_op
connection_delete_child(s) ==
    /\ ~sa[s].ike /\ sa[s].phase \in Alive
    /\ LET c == sa[s].conn IN
       \E o \in Oracles(c) :
         LET d == dispatch(conn, faults, "TEARDOWN_CHILD", c, NOBODY, s,
                           child_dispatch_ok(conn[c], s), o)
         IN /\ conn' = IF d.ok
                       THEN [d.cs EXCEPT ![c] = state_disowns_connection(@, s)]
                       ELSE d.cs
            /\ faults' = d.fs
            /\ sa' = IF d.ok THEN Delete(s) ELSE sa
    /\ UNCHANGED <<nextSerial, pending>>

\* connection_delete_ike() / connection_timeout_ike(): zap_ike() with
\* ike_dispatch_ok and delete_ike_sa() as post_op.  An IKEv2 IKE SA is
\* deleted after its children; an IKEv1 ISAKMP SA may go first.
connection_delete_ike(s) ==
    /\ sa[s].ike /\ sa[s].phase \in Alive
    /\ Config[sa[s].conn].ike_version = 2 =>
          \A x \in Serials : ~(sa[x].parent = s /\ sa[x].phase \in Alive)
    /\ LET c == sa[s].conn IN
       \E o \in Oracles(c) :
         LET d == dispatch(conn, faults, "TEARDOWN_IKE", c, s, NOBODY,
                           ike_dispatch_ok(conn[c], s), o)
         IN /\ conn' = IF d.ok
                       THEN [d.cs EXCEPT ![c] = state_disowns_connection(@, s)]
                       ELSE d.cs
            /\ faults' = d.fs
            /\ sa' = IF d.ok THEN Delete(s) ELSE sa
    /\ UNCHANGED <<nextSerial, pending>>

\* MOBIKE: the connection's IPsec SA loses, then regains, its address
connection_suspend(s) ==
    /\ ~sa[s].ike /\ sa[s].phase = "established" /\ ~sa[s].suspended
    /\ Config[sa[s].conn].ike_version = 2
    /\ s = conn[sa[s].conn].newest_ipsec_sa
    /\ \E o \in Oracles(sa[s].conn) :
          Record(dispatch(conn, faults, "SUSPEND", sa[s].conn, NOBODY, s, Go, o))
    /\ sa' = [sa EXCEPT ![s].suspended = TRUE]
    /\ UNCHANGED <<nextSerial, pending>>

connection_resume(s) ==
    /\ ~sa[s].ike /\ sa[s].phase = "established" /\ sa[s].suspended
    /\ \E o \in Oracles(sa[s].conn) :
          Record(dispatch(conn, faults, "RESUME", sa[s].conn, NOBODY, s, Go, o))
    /\ sa' = [sa EXCEPT ![s].suspended = FALSE]
    /\ UNCHANGED <<nextSerial, pending>>

\* connection_pending(): c is queued behind a larval IKE SA of its own;
\* INITIATE with an empty annex
connection_pending(c) ==
    /\ pending[c] = NOBODY
    /\ \E s \in Serials :
         /\ LiveSa(s, c, TRUE, {"larval"})
         /\ pending' = [pending EXCEPT ![c] = s]
    /\ \E o \in Oracles(c) :
          Record(dispatch(conn, faults, "INITIATE", c, NOBODY, NOBODY,
                          initiated_child_dispatch_ok(conn[c], NOBODY), o))
    /\ UNCHANGED <<sa, nextSerial>>

\* connection_reschedule(): the IKE SA c was queued behind was deleted
connection_reschedule(c) ==
    /\ pending[c] # NOBODY /\ sa[pending[c]].phase = "deleted"
    /\ \E o \in Oracles(c) :
          Record(dispatch(conn, faults, "RESCHEDULE", c, NOBODY, NOBODY,
                          unpend_dispatch_ok(conn[c]), o))
    /\ pending' = [pending EXCEPT ![c] = NOBODY]
    /\ UNCHANGED <<sa, nextSerial>>

(***************************************************************************)
(* The specification.                                                     *)
(***************************************************************************)
\* connection_routing_init()
Init ==
    /\ conn = [c \in Conns |->
                 [routing |-> "UNROUTED", route |-> FALSE, up |-> FALSE,
                  negotiating_ike_sa |-> NOBODY, established_ike_sa |-> NOBODY,
                  newest_routing_sa |-> NOBODY, newest_ipsec_sa |-> NOBODY]]
    /\ sa = [s \in Serials |->
               [phase |-> "free", ike |-> FALSE, conn |-> CHOOSE c \in Conns : TRUE,
                parent |-> NOBODY, responder |-> FALSE, suspended |-> FALSE]]
    /\ nextSerial = 1
    /\ pending = [c \in Conns |-> NOBODY]
    /\ faults = {}

\* the model's bound: once every serial has been handed out and nothing
\* else can happen the daemon idles
SerialsExhausted == nextSerial > MaxSA /\ UNCHANGED vars

Next ==
    \/ SerialsExhausted
    \/ \E c \in Conns :
          \/ connection_route(c) \/ connection_unroute(c)
          \/ connection_initiated_ike(c) \/ RespondIke(c)
          \/ connection_pending(c) \/ connection_reschedule(c)
    \/ \E s \in Serials :
          \/ connection_establish_ike(s)
          \/ connection_initiated_child(s) \/ RespondChild(s)
          \/ connection_establish_child(s)
          \/ connection_establish_inbound(s) \/ connection_establish_outbound(s)
          \/ connection_delete_child(s) \/ connection_delete_ike(s)
          \/ connection_suspend(s) \/ connection_resume(s)

Spec == Init /\ [][Next]_vars

(***************************************************************************)
(* Properties.                                                            *)
(***************************************************************************)
TypeOK ==
    /\ conn \in [Conns -> ConnRec]
    /\ sa \in [Serials -> SaRec]
    /\ nextSerial \in 1..(MaxSA + 1)
    /\ pending \in [Conns -> Serials \cup {NOBODY}]
    /\ faults \subseteq [what: FaultKinds, event: Events]

\* Every owner a connection records names a live SA of that connection of
\* the right type: the IKE owners IKE SAs (.established_ike_sa an
\* established one), the child owners Child SAs (.newest_ipsec_sa an
\* established one).  This rests on state_disowns_connection() running on
\* every delete path, and on every dispatch case that drops an owner.
OwnersAreLive ==
    \A c \in Conns :
      LET r == conn[c] IN
      /\ r.negotiating_ike_sa # NOBODY =>
            LiveSa(r.negotiating_ike_sa, c, TRUE, Alive)
      /\ r.established_ike_sa # NOBODY =>
            LiveSa(r.established_ike_sa, c, TRUE, {"established"})
      /\ r.newest_routing_sa # NOBODY =>
            LiveSa(r.newest_routing_sa, c, FALSE, Alive)
      /\ r.newest_ipsec_sa # NOBODY =>
            LiveSa(r.newest_ipsec_sa, c, FALSE, {"established"})

\* A connection whose kernel state carries an IPsec SA (inbound or both
\* directions) records the Child SA that owns it in .newest_routing_sa, so
\* that the teardown of that child, and only of that child, passes
\* child_dispatch_ok and removes it.
TunnelHasNewestChild ==
    \A c \in Conns :
      conn[c].routing \in {"ROUTED_TUNNEL", "UNROUTED_TUNNEL",
                           "ROUTED_INBOUND_NEGOTIATION", "UNROUTED_INBOUND",
                           "UNROUTED_INBOUND_NEGOTIATION"}
        => conn[c].newest_routing_sa # NOBODY

\* A PERMANENT connection with policy.route set stays routed (keeps its
\* trap, failure or tunnel policy) through every SA failure, timeout and
\* teardown: only UNROUTE, and a MOBIKE SUSPEND, take it out of the routed
\* states (teardown_routed_tunnel, teardown_routed_negotiation, ...).
RoutedPermanentStaysRouted ==
    [][\A c \in Conns :
         (KindOf(c) = "PERMANENT" /\ conn[c].route /\ routed(conn[c].routing)
          /\ ~connection_unroute(c)
          /\ ~\E s \in Serials : sa[s].conn = c /\ connection_suspend(s))
           => routed(conn'[c].routing)]_vars

\* ike_dispatch_ok() ("This isn't strong enough.  There could be multiple
\* larval IKE SAs"): deleting an IKE SA that owns nothing of its connection,
\* while another IKE SA does, leaves the connection's routing and owners
\* to that other IKE SA.
StrayIkeKeepsRouting ==
    [][\A s \in Serials :
         LET c == sa[s].conn IN
         (connection_delete_ike(s)
          /\ \A w \in IkeOwners : conn[c][w] # s
          /\ \E v \in IkeOwners : conn[c][v] # NOBODY)
           => conn'[c].routing = conn[c].routing]_vars

\* No entry point dereferences an annex pointer it did not set.
NoNullDeref == \A f \in faults : f.what # "null_deref"

\* spec.md S4 and the ESTABLISH_INBOUND/ROUTED_TUNNEL case ("XXX: suspect
\* this is too early"): while the connection's current IPsec SA
\* (.newest_ipsec_sa) is established, deleting any other Child SA of the
\* connection, such as a replacement whose rekey failed half way, leaves
\* the connection in ROUTED_TUNNEL.
RekeyKeepsTunnel ==
    [][\A s \in Serials :
         LET c == sa[s].conn
             cur == conn[c].newest_ipsec_sa
         IN (connection_delete_child(s) /\ conn[c].routing = "ROUTED_TUNNEL"
             /\ cur \notin {NOBODY, s} /\ LiveSa(cur, c, FALSE, {"established"}))
              => conn'[c].routing = "ROUTED_TUNNEL"]_vars

=============================================================================
