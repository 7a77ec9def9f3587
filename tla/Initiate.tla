------------------------------ MODULE Initiate ------------------------------
(***************************************************************************)
(* Bringing connections up (src/programs/pluto/initiate.c): orientation,   *)
(* whack initiate (initiate_connection and its _2 and _3 stages), the      *)
(* periodic DDNS check that resolves a peer's DNS name, and the periodic   *)
(* phase 2 check that restarts stalled negotiations by peer.               *)
(*                                                                         *)
(* A C function that changes state is an operator from a world w (the     *)
(* connections, the connection list and the interface list) to a new      *)
(* world, or to [w, ok] where the C function returns a bool; an action is  *)
(* one whole entry point: a whack command or one run of a timer callback.  *)
(* The connection database, the host pairs, terminate_connection() and     *)
(* ipsecdoi_initiate() are outside initiate.c and are modelled by what     *)
(* initiate.c relies on them to do.                                        *)
(***************************************************************************)
EXTENDS Naturals, Sequences, FiniteSets, SequencesExt, IpAddress

CONSTANTS
    Conns,          \* the connections whack added (never deleted here)
    Slots,          \* room for instances: the bound on instantiate()
    Local,          \* addresses of our interface devices
    Peers,          \* remote addresses
    DnsNames,       \* host names a connection's peer may be given by
    NULL,           \* no DNS name, no remote host, no connection
    Config,         \* c -> [dns, narrowing, never, version, wildcard,
                    \*       algs_ok]: what a connection was added with
    Ends0,          \* c -> [this, that]: its two ends as added
    Kind0,          \* c -> the kind it was added with
    Resolve,        \* name -> the address a lookup answers, once it answers
    Interfaces0,    \* the interface endpoints pluto listens on at start
    AddOrder        \* the order whack added the connections in

UNSET == unset_address
Addrs == Local \cup Peers \cup {UNSET, any_address(4), any_address(6)}
All == Conns \cup Slots

\* an end of a connection: its host address and whether it has its own
\* ikeport= (a custom port) rather than 500/4500
Ends == [addr: Addrs, custom: BOOLEAN]
Ports == {"ike", "custom"}
Endpoints == (Local \cup Peers) \X Ports
NOIFACE == <<UNSET, "ike">>

Kinds == {"PERMANENT", "TEMPLATE", "INSTANCE"}
IkeStates == {"none", "negotiating", "established"}

\* a connection: whether it exists, its kind, its name (an instance has
\* its template's), its ends, POLICY_UP, its interface (oriented when set),
\* its IKE SA and whether a Child SA is pending on it
ConnRec == [live: BOOLEAN, kind: Kinds, name: Conns, cfg: {Config[c] : c \in Conns},
            this: Ends, that: Ends, up: BOOLEAN,
            iface: Endpoints \cup {NOIFACE}, ike: IkeStates, pending: BOOLEAN]

\* address_is_any() and sameaddr() (ip_address.h): address_eq_any() and
\* address_eq() of ip_address.c
address_is_any(a) == address_eq_any(a)
sameaddr(a, b) == address_eq(a, b)

unset_or_any(e) == address_is_unset(e.addr) \/ address_is_any(e.addr)
specified(e) == address_is_specified(e.addr)
oriented(w, c) == w.conn[c].iface # NOIFACE

(***************************************************************************)
(* Orientation.                                                            *)
(***************************************************************************)
\* FoldLeft of SequencesExt, with each step's result bound as a value: the
\* loops of this file pass their world on by reference many times, and
\* TLC re-evaluates an unbound argument at every use when it checks the
\* fairness of an action.  CHOOSE v \in {e} : ... binds e the same way below.
RECURSIVE FoldStrict(_, _, _)
FoldStrict(op(_, _), acc, s) ==
    IF s = << >> THEN acc
    ELSE CHOOSE r \in {FoldStrict(op, y, Tail(s)) : y \in {op(acc, Head(s))}} : TRUE

\* end_host_port() and end_matches_iface_endpoint(): the end's address and
\* port make the endpoint the interface must be
end_host_port(e) == IF e.custom THEN "custom" ELSE "ike"
end_matches_iface_endpoint(e, ifp) == <<e.addr, end_host_port(e)>> = ifp

\* mutant: the loop stops at the first interface that matches one end,
\* never seeing a second match
RECURSIVE orient_loop_first_match(_, _, _, _)
orient_loop_first_match(this, that, ifs, r) ==
    IF ifs = << >>
    THEN [r EXCEPT !.res = IF r.iface = NOIFACE THEN "none" ELSE "oriented"]
    ELSE LET ifp == Head(ifs)
             t == end_matches_iface_endpoint(this, ifp)
             h == end_matches_iface_endpoint(that, ifp)
         IN CASE t /\ h -> [r EXCEPT !.res = "error"]
              [] ~t /\ ~h -> orient_loop_first_match(this, that, Tail(ifs), r)
              [] OTHER -> [r EXCEPT !.res = "oriented", !.iface = ifp, !.swap = h]

\* the loop of orient() over the interface list: an interface matching
\* both ends, or a second interface matching one, is an error; otherwise
\* the one match orients the connection, swapped when it is THAT
RECURSIVE orient_loop(_, _, _, _)
orient_loop(this, that, ifs, r) ==
    IF ifs = << >>
    THEN [r EXCEPT !.res = IF r.iface = NOIFACE THEN "none" ELSE "oriented"]
    ELSE LET ifp == Head(ifs)
             t == end_matches_iface_endpoint(this, ifp)
             h == end_matches_iface_endpoint(that, ifp)
         IN CASE t /\ h -> [r EXCEPT !.res = "error"]
              [] ~t /\ ~h -> orient_loop(this, that, Tail(ifs), r)
              [] r.iface # NOIFACE -> [r EXCEPT !.res = "error"]
              [] OTHER -> orient_loop(this, that, Tail(ifs),
                                      [r EXCEPT !.iface = ifp, !.swap = h])

OrientStart == [res |-> "none", iface |-> NOIFACE, swap |-> FALSE]

\* orient_new_iface_endpoint(): only an end with its own ikeport= and an
\* address of one of our devices gets a new endpoint bound; bound says
\* whether bind_iface_endpoint() succeeded
orient_new_iface_endpoint(e, bound) ==
    e.custom /\ ~address_is_unset(e.addr) /\ e.addr \in Local /\ bound

\* swap_ends(): THIS and THAT change places (the authby policy bits and the
\* policy priority follow the ends and are not modelled)
swap_ends(rec) == [rec EXCEPT !.this = rec.that, !.that = rec.this]

(***************************************************************************)
(* What initiate.c relies on from outside it.                              *)
(***************************************************************************)
FreeRec == [live |-> FALSE, kind |-> "INSTANCE", name |-> CHOOSE c \in Conns : TRUE,
            cfg |-> Config[CHOOSE c \in Conns : TRUE],
            this |-> [addr |-> UNSET, custom |-> FALSE],
            that |-> [addr |-> UNSET, custom |-> FALSE], up |-> FALSE,
            iface |-> NOIFACE, ike |-> "none", pending |-> FALSE]

\* delete_connection(): an instance leaves the connection list and the
\* host pair it was on
delete_connection(w, d) ==
    [w EXCEPT !.conn[d] = FreeRec, !.order = Remove(@, d)]

\* terminate_connection(): POLICY_UP is cleared and the connection's states
\* are deleted with their pending Child SAs; an instance goes with its last
\* state (the comment of restart_connections_by_peer() counts on this)
terminate_connection(w, c) ==
    IF w.conn[c].kind = "INSTANCE"
    THEN delete_connection(w, c)
    ELSE [w EXCEPT !.conn[c] = [@ EXCEPT !.up = FALSE, !.ike = "none",
                                         !.pending = FALSE]]

\* ipsecdoi_initiate(): a new IKE SA unless there is one; the Child SA
\* waits on an IKE SA that is not established yet
ipsecdoi_initiate(w, c) ==
    CASE w.conn[c].ike = "none" ->
           [w EXCEPT !.conn[c] = [@ EXCEPT !.ike = "negotiating", !.pending = TRUE]]
      [] w.conn[c].ike = "negotiating" ->
           [w EXCEPT !.conn[c].pending = TRUE]
      [] OTHER -> w

\* conn_by_name(name, strict=false): the first connection on the list with
\* that name; instances carry their template's name
conn_by_name(w, n) ==
    LET i == SelectInSeq(w.order, LAMBDA d : w.conn[d].name = n)
    IN IF i = 0 THEN NULL ELSE w.order[i]

\* the host pair of a local and a remote address: its connections, newest
\* first (connect_to_host_pair() puts a new one at the head)
host_pair(w, me, him) ==
    SelectSeq(w.order, LAMBDA d : /\ w.conn[d].this.addr = me
                                  /\ w.conn[d].that.addr = him)
host_pair_of(w, c) == host_pair(w, w.conn[c].this.addr, w.conn[c].that.addr)

(***************************************************************************)
(* orient() and clone_connection()/instantiate().                          *)
(***************************************************************************)
\* mutant: a match on THAT orients without swapping the ends
orient_no_swap(w, c, binds) ==
    LET rec == w.conn[c]
        r == orient_loop(rec.this, rec.that, w.ifs, OrientStart)
        bindThis == <<rec.this.addr, "custom">>
        bindThat == <<rec.that.addr, "custom">>
    IN CASE oriented(w, c) -> w
         [] r.res = "error" ->
              LET t == terminate_connection(w, c)
              IN IF t.conn[c].live THEN [t EXCEPT !.conn[c].iface = NOIFACE] ELSE t
         [] r.res = "oriented" -> [w EXCEPT !.conn[c].iface = r.iface]
         [] orient_new_iface_endpoint(rec.this, rec.this.addr \in binds) ->
              [w EXCEPT !.ifs = <<bindThis>> \o @,
                        !.conn[c].iface = bindThis]
         [] orient_new_iface_endpoint(rec.that, rec.that.addr \in binds) ->
              [w EXCEPT !.ifs = <<bindThat>> \o @,
                        !.conn[c] = swap_ends([@ EXCEPT !.iface = bindThat])]
         [] OTHER -> w

\* orient(): a connection already oriented is left alone; an error
\* terminates it and withdraws the orientation; with no match a new
\* endpoint is bound for THIS, else for THAT (and the ends swapped).
\* binds: the addresses whose custom-port bind succeeds
orient(w, c, binds) ==
    LET rec == w.conn[c]
        r == orient_loop(rec.this, rec.that, w.ifs, OrientStart)
        bindThis == <<rec.this.addr, "custom">>
        bindThat == <<rec.that.addr, "custom">>
    IN CASE oriented(w, c) -> w
         [] r.res = "error" ->
              LET t == terminate_connection(w, c)
              IN IF t.conn[c].live THEN [t EXCEPT !.conn[c].iface = NOIFACE] ELSE t
         [] r.res = "oriented" ->
              [w EXCEPT !.conn[c] = IF r.swap THEN swap_ends([@ EXCEPT !.iface = r.iface])
                                    ELSE [@ EXCEPT !.iface = r.iface]]
         [] orient_new_iface_endpoint(rec.this, rec.this.addr \in binds) ->
              [w EXCEPT !.ifs = <<bindThis>> \o @,
                        !.conn[c].iface = bindThis]
         [] orient_new_iface_endpoint(rec.that, rec.that.addr \in binds) ->
              [w EXCEPT !.ifs = <<bindThat>> \o @,
                        !.conn[c] = swap_ends([@ EXCEPT !.iface = bindThat])]
         [] OTHER -> w

\* mutant: the instance is not put on the connection list
instantiate_not_listed(w, t, remote) ==
    LET free == {s \in Slots : ~w.conn[s].live}
        d == CHOOSE s \in free : TRUE
        tr == w.conn[t]
    IN IF free = {} THEN [w |-> [w EXCEPT !.full = TRUE], d |-> NULL]
       ELSE [w |-> [w EXCEPT
                !.conn[d] = [tr EXCEPT !.kind = "INSTANCE", !.up = FALSE,
                               !.ike = "none", !.pending = FALSE,
                               !.that = IF remote # NULL /\ ~specified(tr.that)
                                        THEN [@ EXCEPT !.addr = remote] ELSE @]],
             d |-> d]

\* instantiate(): a clone of template t in a free slot, an INSTANCE with
\* the template's name, configuration, ends and interface, POLICY_UP clear
\* (clone_connection() zeroes the policy), and remote as its peer unless
\* the template has one; it goes to the head of the lists.  With no free
\* slot the world is marked full: the bound of the model, not of pluto.
instantiate(w, t, remote) ==
    LET free == {s \in Slots : ~w.conn[s].live}
        d == CHOOSE s \in free : TRUE
        tr == w.conn[t]
    IN IF free = {} THEN [w |-> [w EXCEPT !.full = TRUE], d |-> NULL]
       ELSE [w |-> [w EXCEPT
                !.conn[d] = [tr EXCEPT !.kind = "INSTANCE", !.up = FALSE,
                               !.ike = "none", !.pending = FALSE,
                               !.that = IF remote # NULL /\ ~specified(tr.that)
                                        THEN [@ EXCEPT !.addr = remote] ELSE @],
                !.order = <<d>> \o @],
             d |-> d]

(***************************************************************************)
(* whack initiate: initiate_connection(), _2 and _3.  Each returns the    *)
(* world and the bool the C function returns.                             *)
(***************************************************************************)
Fail(w) == [w |-> w, ok |-> FALSE]

\* initiate_connection_3(): an IKEv1 connection with no acceptable kernel
\* algorithm fails; otherwise POLICY_UP is set and the negotiation started
initiate_connection_3(w, c) ==
    IF w.conn[c].cfg.version = 1 /\ ~w.conn[c].cfg.algs_ok
    THEN Fail(w)
    ELSE [w |-> ipsecdoi_initiate([w EXCEPT !.conn[c].up = TRUE], c), ok |-> TRUE]

\* a peer known only by an unresolved DNS name: POLICY_UP is set so the
\* DDNS check initiates it later ("will keep retrying")
keep_retrying(w, c) ==
    IF w.conn[c].cfg.dns # NULL
    THEN [w |-> [w EXCEPT !.conn[c].up = TRUE], ok |-> TRUE]
    ELSE Fail(w)

\* mutant: a failed initiate leaves its instance behind
initiate_instance_kept(i, r) ==
    IF i.w.full THEN Fail(i.w) ELSE r

\* the instance i.d was made for this initiate and r is what the next stage
\* made of it: it is deleted when that fails (r is only evaluated when the
\* instance exists)
initiate_instance(i, r) ==
    IF i.w.full THEN Fail(i.w)
    ELSE IF r.ok THEN r ELSE Fail(delete_connection(r.w, i.d))

initiate_connection_2(w, c, remote) ==
    LET rec == w.conn[c]
    IN CASE ~oriented(w, c) -> Fail(w)
         [] rec.cfg.never -> Fail(w)
         [] /\ remote = NULL /\ rec.kind # "PERMANENT"
            /\ ~rec.cfg.narrowing /\ unset_or_any(rec.that) ->
              keep_retrying(w, c)
         [] unset_or_any(rec.that) /\ rec.cfg.narrowing ->
              keep_retrying(w, c)
         [] rec.cfg.version = 2 /\ rec.cfg.narrowing /\ rec.kind = "TEMPLATE" ->
              LET i == instantiate(w, c, NULL)
              IN initiate_instance(i, initiate_connection_3(i.w, i.d))
         [] OTHER -> initiate_connection_3(w, c)

\* initiate_connection(): a remote host given for a connection without a
\* peer address instantiates the template with it
initiate_connection(w, c, remote) ==
    LET rec == w.conn[c]
    IN IF remote # NULL /\ unset_or_any(rec.that)
       THEN IF rec.kind # "TEMPLATE" THEN Fail(w)
            ELSE LET i == instantiate(w, c, remote)
                 IN initiate_instance(i, initiate_connection_2(i.w, i.d, remote))
       ELSE initiate_connection_2(w, c, remote)

\* initiate_connections_by_name(): the connection found by name (every
\* name of the model is a connection's, so the alias search is not taken)
initiate_connections_by_name(w, n, remote) ==
    CHOOSE v \in {initiate_connection(w, c, remote).w : c \in {conn_by_name(w, n)}} : TRUE

(***************************************************************************)
(* The periodic DDNS check.                                                *)
(***************************************************************************)
same_host(an, aa, bn, ba) ==
    IF an = NULL THEN bn = NULL /\ sameaddr(aa, ba) ELSE bn # NULL /\ an = bn

same_in_some_sense(w, a, b) ==
    same_host(w.conn[a].cfg.dns, w.conn[a].that.addr,
              w.conn[b].cfg.dns, w.conn[b].that.addr)

\* mutant: only a connection wanted up is looked up again
connection_check_ddns1_up_only(w, c, answers) ==
    LET rec == w.conn[c]
        n == rec.cfg.dns
        new == IF n = NULL THEN UNSET ELSE Resolve[n]
    IN IF \/ n = NULL \/ ~rec.up
          \/ rec.cfg.never
          \/ specified(rec.that)
          \/ rec.cfg.wildcard
          \/ n \notin answers
          \/ address_is_unset(new) \/ address_is_any(new)
          \/ rec.ike = "established"
          \/ sameaddr(new, rec.that.addr)
       THEN w
       ELSE LET w1 == [w EXCEPT !.conn[c] = [@ EXCEPT !.kind = "PERMANENT",
                                                      !.that.addr = new]]
                w2 == IF rec.up THEN initiate_connections_by_name(w1, rec.name, NULL)
                      ELSE w1
            IN FoldStrict(LAMBDA x, d :
                          IF /\ d # c /\ x.conn[d].live
                             /\ same_in_some_sense(x, c, d) /\ x.conn[d].up
                          THEN initiate_connections_by_name(x, x.conn[d].name, NULL)
                          ELSE x,
                        w2, host_pair_of(w2, c))

\* connection_check_ddns1(): the early returns in the order of the code,
\* then the connection becomes PERMANENT with the resolved peer, is
\* initiated again when up, and so is every other up connection of its
\* new host pair with the same DNS name.  answers: the names that resolve.
connection_check_ddns1(w, c, answers) ==
    LET rec == w.conn[c]
        n == rec.cfg.dns
        new == IF n = NULL THEN UNSET ELSE Resolve[n]
    IN IF \/ n = NULL
          \/ rec.cfg.never
          \/ specified(rec.that)
          \/ rec.cfg.wildcard
          \/ n \notin answers
          \/ address_is_unset(new) \/ address_is_any(new)
          \/ rec.ike = "established"
          \/ sameaddr(new, rec.that.addr)
       THEN w
       ELSE LET w1 == [w EXCEPT !.conn[c] = [@ EXCEPT !.kind = "PERMANENT",
                                                      !.that.addr = new]]
                again(w2) ==
                    FoldStrict(LAMBDA x, d :
                                 IF /\ d # c /\ x.conn[d].live
                                    /\ same_in_some_sense(x, c, d) /\ x.conn[d].up
                                 THEN initiate_connections_by_name(x, x.conn[d].name, NULL)
                                 ELSE x,
                               w2, host_pair_of(w2, c))
            IN CHOOSE v \in {again(w2) : w2 \in {IF rec.up
                                                 THEN initiate_connections_by_name(w1, rec.name, NULL)
                                                 ELSE w1}} : TRUE

\* check_orientations(), run after the DDNS pass: orient() every connection
\* that is not oriented
check_orientations(w, binds) ==
    FoldStrict(LAMBDA x, c : IF x.conn[c].live THEN orient(x, c, binds) ELSE x,
             w, w.order)

\* connection_check_ddns(): one pass over the connection list, the next
\* connection taken before the current one is checked
connection_check_ddns(w, answers, binds) ==
    check_orientations(
        FoldStrict(LAMBDA x, c : IF x.conn[c].live
                               THEN connection_check_ddns1(x, c, answers) ELSE x,
                 w, w.order),
        binds)

(***************************************************************************)
(* The periodic phase 2 check and restart_connections_by_peer().           *)
(***************************************************************************)
\* restart_connections_by_peer(): every connection of c's host pair with
\* the same peer is terminated (an instance, c included, is deleted), then,
\* unless c was an instance whose host pair had one connection, every such
\* connection left on the pair is initiated by name.  hp_next is read from
\* the head of the pair, as the code reads hp->connections->hp_next.
\* update_host_pairs() re-resolves a DNS peer; a name answers the same
\* address every time here, so it changes nothing.
restart_connections_by_peer(w, c) ==
    LET rec == w.conn[c]
        hp == host_pair_of(w, c)
        hp_next == IF Len(hp) >= 2 THEN hp[2] ELSE NULL
        me == rec.this.addr
        him == rec.that.addr
        peer(x, d) == same_host(rec.cfg.dns, him, x.conn[d].cfg.dns, x.conn[d].that.addr)
        w1 == FoldStrict(LAMBDA x, d : IF x.conn[d].live /\ peer(x, d)
                                     THEN terminate_connection(x, d) ELSE x,
                       w, hp)
    IN IF rec.kind = "INSTANCE" /\ hp_next = NULL
       THEN w1
       ELSE FoldStrict(LAMBDA x, d : IF x.conn[d].live /\ peer(x, d)
                                   THEN initiate_connections_by_name(x, x.conn[d].name, NULL)
                                   ELSE x,
                     w1, host_pair(w1, me, him))

\* connection_check_phase2(): for each up connection that negotiates,
\* pending_check_timeout() (timedout: the ones whose pending Child SA has
\* waited too long); with a phase 1 SA, a DNS peer is restarted and any
\* other gets EVENT_SA_REPLACE (its IKE SA goes on negotiating as the
\* replacement); without one it is initiated again.  A connection the loop
\* reaches after a restart deleted it is skipped: its memory still says
\* POLICY_UP is clear.
connection_check_phase2(w, timedout) ==
    FoldStrict(LAMBDA x, c :
               LET r == x.conn[c]
               IN CASE ~r.live \/ r.cfg.never \/ ~r.up -> x
                    [] c \in timedout /\ r.pending ->
                         IF r.ike # "none"
                         THEN IF r.cfg.dns # NULL
                              THEN restart_connections_by_peer(x, c) ELSE x
                         ELSE initiate_connection(x, c, NULL).w
                    [] OTHER -> x,
             w, w.order)

(***************************************************************************)
(* The specification.                                                      *)
(***************************************************************************)
VARIABLES
    conn,       \* connection -> ConnRec (a free slot is FreeRec)
    order,      \* the connection list, newest first
    ifs,        \* the interface endpoint list, newest first
    answers     \* the DNS names whose lookup answers

vars == <<conn, order, ifs, answers>>

W == [conn |-> conn, order |-> order, ifs |-> ifs, full |-> FALSE]

\* the new world w becomes the state, unless it ran out of slots
Become(w) ==
    \E v \in {w} : /\ ~v.full
                   /\ conn' = v.conn /\ order' = v.order /\ ifs' = v.ifs

\* the connections as whack added them, the last one added first on the
\* list, and each oriented as it was added
Added ==
    [conn |-> [c \in All |->
                 IF c \in Conns
                 THEN [live |-> TRUE, kind |-> Kind0[c], name |-> c,
                       cfg |-> Config[c], this |-> Ends0[c].this,
                       that |-> Ends0[c].that, up |-> FALSE,
                       iface |-> NOIFACE, ike |-> "none", pending |-> FALSE]
                 ELSE FreeRec],
     order |-> Reverse(AddOrder), ifs |-> Interfaces0, full |-> FALSE]

Init ==
    /\ \E binds \in SUBSET Local :
         LET w == FoldStrict(LAMBDA x, c : orient(x, c, binds), Added, AddOrder)
         IN conn = w.conn /\ order = w.order /\ ifs = w.ifs
    /\ answers = {}

\* whack --initiate --name n [--remote-host remote]
WhackInitiate(n, remote) ==
    /\ Become(initiate_connections_by_name(W, n, remote))
    /\ UNCHANGED answers

\* the EVENT_PENDING_DDNS timer
DdnsCheck ==
    /\ \E binds \in SUBSET Local : Become(connection_check_ddns(W, answers, binds))
    /\ UNCHANGED answers

\* the EVENT_PENDING_PHASE2 timer
Phase2Check ==
    /\ \E timedout \in SUBSET {c \in All : conn[c].pending} :
         Become(connection_check_phase2(W, timedout))
    /\ UNCHANGED answers

\* the resolver starts answering for a name (a first answer is final:
\* a resolved peer is never looked up again)
DnsAnswers(n) ==
    /\ n \notin answers
    /\ answers' = answers \cup {n}
    /\ UNCHANGED <<conn, order, ifs>>

\* the IKE state machine: the IKE SA establishes and the pending Child SA
\* is unpended, or the IKE SA dies and takes its pending Child SA with it
IkeEstablished(c) ==
    /\ conn[c].live /\ conn[c].ike = "negotiating"
    /\ conn' = [conn EXCEPT ![c] = [@ EXCEPT !.ike = "established", !.pending = FALSE]]
    /\ UNCHANGED <<order, ifs, answers>>

IkeDeleted(c) ==
    /\ conn[c].live /\ conn[c].ike # "none"
    /\ conn' = [conn EXCEPT ![c] = [@ EXCEPT !.ike = "none", !.pending = FALSE]]
    /\ UNCHANGED <<order, ifs, answers>>

Next ==
    \/ \E n \in Conns, remote \in Peers \cup {NULL} : WhackInitiate(n, remote)
    \/ DdnsCheck
    \/ Phase2Check
    \/ \E n \in DnsNames : DnsAnswers(n)
    \/ \E c \in All : IkeEstablished(c) \/ IkeDeleted(c)

\* both checks are periodic timers (enable_periodic_timer() in
\* init_connections()): each callback runs again and again for as long as
\* pluto runs, so a check that has something to do for as long as it is
\* not done eventually does it: weak fairness of each check.  Whack, the
\* resolver and the peer's IKE messages get no fairness.
TimersRun == WF_vars(DdnsCheck) /\ WF_vars(Phase2Check)

Spec == Init /\ [][Next]_vars /\ TimersRun

(***************************************************************************)
(* Properties.                                                             *)
(***************************************************************************)
TypeOK ==
    /\ conn \in [All -> ConnRec]
    /\ order \in Seq(All) /\ ToSet(order) = {c \in All : conn[c].live}
    /\ ifs \in Seq(Endpoints)
    /\ answers \subseteq DnsNames

\* orient()'s loop over the interface list, on every order of every list
\* the model reaches (pluto lists the interfaces in the order it found
\* them, which nothing fixes) and every pair of ends a connection has,
\* decides as section 4.3
\* of the specification says: exactly one interface matching exactly one
\* end orients the connection on it, swapped when that end is THAT; an
\* interface matching both ends, or two interfaces matching, is an error;
\* no match leaves it to a new endpoint
OrientReference(this, that, l) ==
    LET M == {i \in 1..Len(l) : end_matches_iface_endpoint(this, l[i])}
        N == {i \in 1..Len(l) : end_matches_iface_endpoint(that, l[i])}
    IN CASE M \cap N # {} \/ Cardinality(M \cup N) > 1 -> [res |-> "error"]
         [] M \cup N = {} -> [res |-> "none"]
         [] OTHER -> [res |-> "oriented",
                      iface |-> l[CHOOSE i \in M \cup N : TRUE],
                      swap |-> N # {}]

\* the lists holding the endpoints of ifs in every order
IfsOrders == {[i \in 1..Len(ifs) |-> ifs[p[i]]] : p \in SetToSeqs(1..Len(ifs))}

OrientMatchesReference ==
    \A c \in Conns, l \in IfsOrders : \A e1, e2 \in {Ends0[c].this, Ends0[c].that} :
        LET r == orient_loop(e1, e2, l, OrientStart)
            ref == OrientReference(e1, e2, l)
        IN /\ r.res = ref.res
           /\ ref.res = "oriented" => r.iface = ref.iface /\ r.swap = ref.swap

\* an oriented connection has its interface on its THIS end: orient()
\* swapped the ends when THAT matched, and an instance has the ends and
\* the interface of its template
OrientedOnThisEnd ==
    \A c \in All : conn[c].live /\ conn[c].iface # NOIFACE =>
        end_matches_iface_endpoint(conn[c].this, conn[c].iface)

\* an instance whack made (for a remote host or a narrowing template)
\* exists only while it is wanted up: initiate_connection() and
\* initiate_connection_2() delete it when its initiation fails
InstancesAreUp ==
    \A d \in Slots : conn[d].live => conn[d].up

\* a connection whose peer is a DNS name that starts to resolve (to an
\* address, with no wildcard and not authby=never) gets that address from
\* the periodic DDNS check: connection_check_ddns1() is retried on every
\* timer until it sets it
DdnsResolves ==
    \A c \in {x \in Conns : /\ Config[x].dns # NULL
                            /\ ~Config[x].never /\ ~Config[x].wildcard
                            /\ ~address_is_unset(Resolve[Config[x].dns])
                            /\ ~address_is_any(Resolve[Config[x].dns])} :
        (Config[c].dns \in answers) ~> specified(conn[c].that)

\* The addresses the connections carry, and a sample of IPv4 and IPv6 ones.
InUseAddresses ==
    UNION {{conn[c].this.addr, conn[c].that.addr} : c \in {x \in All : conn[x].live}}
BlitChecked == BlitAgreesOn(SampleAddresses \cup Addrs)

\* address_blit() (the prefix/host split behind a subnet of an address)
\* agrees with the bit-by-bit reading on every typed address a connection
\* carries and on the sample, for every mask length, the whole-address
\* boundary where the cross-over byte is past the end included
BlitMatchesReference ==
    \A a \in InUseAddresses \cup SampleAddresses : has_type(a) => a \in BlitChecked

\* every address a connection carries, or the resolver answers, is exactly
\* one of unset, any and specified, so the early returns of
\* connection_check_ddns1() (specified: nothing to do; unset or any: no
\* answer yet) and initiate_connection()'s remote-host test see each
\* address one way only
AddressKindsPartition ==
    \A a \in InUseAddresses \cup {Resolve[n] : n \in DnsNames} \cup SampleAddresses :
        Cardinality(AddressKinds(a)) = 1
=============================================================================
