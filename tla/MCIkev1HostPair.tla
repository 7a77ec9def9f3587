-------------------------- MODULE MCIkev1HostPair ---------------------------
(* Small databases and messages for Ikev1HostPair.                         *)
EXTENDS Ikev1HostPair

\* The sender is address 1; a client selector is the peer itself, a wider
\* subnet holding it, or a subnet elsewhere.
MCSender == 1
Narrow == {1}
Wide == {1, 2}
Away == {2}

MCConnSpace ==
    [kind: Kinds, group_instance: BOOLEAN, remote: {"peer", "any"},
     remote_id: {"idA", "fromcert", "null"}, never_negotiate: BOOLEAN,
     xauth: {FALSE}, aggressive: BOOLEAN, auth: {"psk", "rsasig"},
     client: {Narrow, Wide, Away}]

MCMdSpace ==
    [corrupt: BOOLEAN, authby: {{"psk"}, {"psk", "rsasig"}}, xauth: {FALSE},
     peer_id: {"idA", "idB"}]
=============================================================================
