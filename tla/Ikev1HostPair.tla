--------------------------- MODULE Ikev1HostPair ---------------------------
(***************************************************************************)
(* Choosing the connection for an initial IKEv1 Main Mode or Aggressive  *)
(* Mode message, src/programs/pluto/ikev1_host_pair.c.                    *)
(*                                                                         *)
(* The connection database is a sequence `conns` in insertion (OLD2NEW)   *)
(* order; each entry is either on the host pair (local, peer address) or *)
(* on the wildcard host pair (local, %any).  The message is `md`.  Both   *)
(* are chosen in Init and never change: the module checks the lookup      *)
(* functions, which are pure, over every database and message of the      *)
(* given sizes.                                                            *)
(***************************************************************************)
EXTENDS Naturals, Sequences, FiniteSets

CONSTANTS
    N,          \* number of connections in the database
    ConnSpace,  \* the connection records a database is made of
    MdSpace,    \* the initial messages
    Sender      \* the address the message came from (md->sender)

Kinds == {"PERMANENT", "TEMPLATE", "INSTANCE"}
Ids == {"idA", "idB", "null", "fromcert", "any"}
Auths == {"rsasig", "psk", "never"}

\* The part of struct connection the lookup reads: its kind, whether it is a
\* group instance, which host pair it is on, the remote ID kind, the
\* never-negotiate shunt, XAUTH, aggressive, the remote auth and the remote
\* client selector (a set of addresses).
Conn == [kind: Kinds, group_instance: BOOLEAN, remote: {"peer", "any"},
         remote_id: Ids, never_negotiate: BOOLEAN, xauth: BOOLEAN,
         aggressive: BOOLEAN, auth: Auths, client: SUBSET Nat]

\* The message digest: whether the SA payload parses, what
\* preparse_isakmp_sa_body() found in it, and the peer ID (Aggressive Mode
\* only; Main Mode does not know it yet).
Md == [corrupt: BOOLEAN, authby: SUBSET {"rsasig", "psk"}, xauth: BOOLEAN,
       peer_id: {"idA", "idB"}]

\* What a lookup returns: the index of the connection (0 for NULL) and
\* whether it was passed through rw_responder_instantiate().
NoConn == [conn |-> 0, inst |-> FALSE]
Result == [conn: 0..N, inst: BOOLEAN]

VARIABLES conns, md
vars == <<conns, md>>

(* struct host_pair_policy *)
Policy(aggressive, peer_id) ==
    [authby |-> md.authby, xauth |-> md.xauth, aggressive |-> aggressive,
     peer_id |-> peer_id]

\* match_v1_connection(): the tests in the order the code makes them
match_v1_connection(c, hpc) ==
    /\ ~(c.kind = "INSTANCE" /\ c.remote_id = "null")
    /\ c.never_negotiate => c.group_instance
    /\ ~c.never_negotiate =>
         /\ hpc.xauth = c.xauth
         /\ hpc.aggressive = c.aggressive
         /\ hpc.peer_id # "none" =>
              (hpc.peer_id = c.remote_id \/ c.remote_id \in {"fromcert", "any"})
         /\ c.auth \in hpc.authby

\* mutation: a search that finds nothing returns where it stopped
first_on_host_pair_past_end(remote, hpc) ==
    LET hits == {i \in 1..Len(conns) : conns[i].remote = remote
                                       /\ match_v1_connection(conns[i], hpc)}
    IN IF hits = {} THEN Len(conns) + 1 ELSE CHOOSE i \in hits : \A j \in hits : i <= j

\* find_host_pair_connection_on_responder() (host_pair.c): the first
\* connection, in insertion order, on the host pair that the predicate
\* accepts
first_on_host_pair(remote, hpc) ==
    LET hits == {i \in 1..Len(conns) : conns[i].remote = remote
                                       /\ match_v1_connection(conns[i], hpc)}
    IN IF hits = {} THEN 0 ELSE CHOOSE i \in hits : \A j \in hits : i <= j

Addref(i) == [conn |-> i, inst |-> FALSE]           \* connection_addref()
Instantiate(i) == [conn |-> i, inst |-> TRUE]       \* rw_responder_instantiate()

\* find_v1_aggr_mode_connection()
find_v1_aggr_mode_connection ==
    LET hpc == Policy(TRUE, md.peer_id)
        exact == first_on_host_pair("peer", hpc)
        wild == first_on_host_pair("any", hpc)
    IN IF exact # 0 THEN Addref(exact)
       ELSE IF wild # 0 THEN Instantiate(wild)
       ELSE NoConn

\* find_v1_main_mode_connection(), a connection found on the exact host pair
main_mode_exact(i) ==
    IF conns[i].kind = "TEMPLATE" THEN Instantiate(i) ELSE Addref(i)

\* mutation: the Road Warrior test does not break out of the loop
wildcard_step_no_break(c, d, hpc) ==
    IF ~match_v1_connection(conns[d], hpc) THEN [c |-> c, stop |-> FALSE]
    ELSE IF conns[d].kind = "TEMPLATE" THEN [c |-> d, stop |-> FALSE]
    ELSE IF Sender \in conns[d].client
            /\ (c = 0 \/ conns[c].client \subseteq conns[d].client)
         THEN [c |-> d, stop |-> FALSE]
    ELSE [c |-> c, stop |-> FALSE]

\* one pass of the while (next_connection(OLD2NEW, &hpf)) loop: skip what
\* does not match, stop at a template (Road Warrior), otherwise keep the
\* "tightest" opportunistic or shunt candidate
wildcard_step(c, d, hpc) ==
    IF ~match_v1_connection(conns[d], hpc) THEN [c |-> c, stop |-> FALSE]
    ELSE IF conns[d].kind = "TEMPLATE" THEN [c |-> d, stop |-> TRUE]
    ELSE IF Sender \in conns[d].client
            /\ (c = 0 \/ conns[c].client \subseteq conns[d].client)
         THEN [c |-> d, stop |-> FALSE]
    ELSE [c |-> c, stop |-> FALSE]

\* the loop over the connections on the wildcard host pair, in order
RECURSIVE wildcard_loop(_, _, _)
wildcard_loop(ds, c, hpc) ==
    IF ds = <<>> THEN c
    ELSE LET r == wildcard_step(c, Head(ds), hpc)
         IN IF r.stop THEN r.c ELSE wildcard_loop(Tail(ds), r.c, hpc)

WildcardList == SelectSeq([i \in 1..Len(conns) |-> i],
                          LAMBDA i : conns[i].remote = "any")

\* find_v1_main_mode_connection()
find_v1_main_mode_connection ==
    LET hpc == Policy(FALSE, "none")
        exact == first_on_host_pair("peer", hpc)
        c == wildcard_loop(WildcardList, 0, hpc)
    IN IF md.corrupt THEN NoConn
       ELSE IF exact # 0 THEN main_mode_exact(exact)
       ELSE IF c = 0 THEN NoConn
       ELSE IF conns[c].kind # "TEMPLATE" THEN NoConn   \* "forbids connection"
       ELSE Instantiate(c)

\* The connections pluto can have on these host pairs: an instance is
\* bound to the peer's address (instantiate()), and a group instance is a
\* template or an instance of one (group_instantiate()).  Whether a
\* permanent connection can sit on %any is decided outside src/; it is
\* allowed, which is what lets the "tightest match" branch run.
WellFormed(c) ==
    /\ c.remote = "any" => c.kind # "INSTANCE"
    /\ c.group_instance => c.kind # "PERMANENT"

Init ==
    /\ conns \in [1..N -> {c \in ConnSpace : WellFormed(c)}]
    /\ md \in MdSpace

Next == UNCHANGED vars

Spec == Init /\ [][Next]_vars

(***************************************************************************)
(* Properties.                                                            *)
(***************************************************************************)
TypeOK ==
    /\ conns \in Seq(Conn)
    /\ md \in Md
    /\ find_v1_aggr_mode_connection \in Result
    /\ find_v1_main_mode_connection \in Result

\* spec.md section 4.2, as a definition: Main Mode takes the first matching
\* connection on the peer's host pair (instantiating a template), else the
\* first matching template on the wildcard host pair, else nothing.  The
\* loop in find_v1_main_mode_connection(), with its "tightest match"
\* bookkeeping and its break, computes exactly this.
MainModeReference ==
    LET hpc == Policy(FALSE, "none")
        exact == first_on_host_pair("peer", hpc)
        rw == {i \in 1..Len(conns) : conns[i].remote = "any"
                                     /\ conns[i].kind = "TEMPLATE"
                                     /\ match_v1_connection(conns[i], hpc)}
    IN IF md.corrupt THEN NoConn
       ELSE IF exact # 0 THEN
            [conn |-> exact, inst |-> conns[exact].kind = "TEMPLATE"]
       ELSE IF rw = {} THEN NoConn
       ELSE Instantiate(CHOOSE i \in rw : \A j \in rw : i <= j)

MainModeMatchesReference == find_v1_main_mode_connection = MainModeReference

\* Aggressive Mode never starts a negotiation on a template: the connection
\* the IKE SA is created on without instantiating is a permanent connection
\* or an instance.
AggrModeNeverOnTemplate ==
    LET r == find_v1_aggr_mode_connection IN
    (r.conn # 0 /\ ~r.inst) => conns[r.conn].kind # "TEMPLATE"
=============================================================================
