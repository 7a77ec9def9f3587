---------------------------- MODULE MCInitiate ----------------------------
(* A small configuration of Initiate for TLC.                              *)
EXTENDS Initiate

CONSTANTS A, B, C, D, F, S1, S2, N1

\* the addresses, as address_from_in_addr() and address_from_in6_addr()
\* make them: two local IPv4 addresses, an IPv4 and an IPv6 peer
V4(a, b, c, d) == address_from_raw(4, [i \in 1..16 |->
                      CASE i = 1 -> a [] i = 2 -> b [] i = 3 -> c [] i = 4 -> d
                        [] OTHER -> 0])
L1 == V4(192, 0, 2, 1)
L2 == V4(192, 0, 2, 2)
P1 == V4(198, 51, 100, 1)
P2 == address_from_raw(6, [i \in 1..16 |->
                            CASE i = 1 -> 32 [] i = 2 -> 1 [] i = 3 -> 13
                              [] i = 4 -> 184 [] i = 16 -> 2 [] OTHER -> 0])
MCLocal == {L1, L2}
MCPeers == {P1, P2}

E(a, custom) == [addr |-> a, custom |-> custom]
Cfg(dns, narrowing, never, version) ==
    [dns |-> dns, narrowing |-> narrowing, never |-> never, version |-> version,
     wildcard |-> FALSE, algs_ok |-> TRUE]

\* A: right= a DNS name that did not resolve when added (so a template);
\* B: IKEv1, written from the peer's side (left= is the peer);
\* C: narrowing=yes with its own ikeport= on a device pluto has no
\*    endpoint for yet; D: authby=never, right=%any;
\* F: both ends given as addresses of this host, each on its own device
MCConfig == (A :> Cfg(N1, FALSE, FALSE, 2)) @@ (B :> Cfg(NULL, FALSE, FALSE, 1))
         @@ (C :> Cfg(NULL, TRUE, FALSE, 2)) @@ (D :> Cfg(NULL, FALSE, TRUE, 2))
         @@ (F :> Cfg(NULL, FALSE, FALSE, 2))
MCEnds == (A :> [this |-> E(L1, FALSE), that |-> E(UNSET, FALSE)])
       @@ (B :> [this |-> E(P2, FALSE), that |-> E(L1, FALSE)])
       @@ (C :> [this |-> E(L2, TRUE), that |-> E(P1, FALSE)])
       @@ (D :> [this |-> E(L1, FALSE), that |-> E(any_address(4), FALSE)])
       @@ (F :> [this |-> E(L2, FALSE), that |-> E(L1, FALSE)])
MCKind == (A :> "TEMPLATE") @@ (B :> "PERMANENT") @@ (C :> "TEMPLATE")
       @@ (D :> "TEMPLATE") @@ (F :> "PERMANENT")
MCResolve == N1 :> P1
\* pluto listens on port 500 of both devices
MCInterfaces == << <<L1, "ike">>, <<L2, "ike">> >>
MCAddOrder == <<A, B, C, D, F>>
=============================================================================
