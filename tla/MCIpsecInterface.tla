-------------------------- MODULE MCIpsecInterface --------------------------
(* Small instances of IpsecInterface for TLC.                              *)
EXTENDS IpsecInterface, TLC

CONSTANTS c1, c2, c3, i1, x1, x2, noCidr

MCConns == {c1, c2, c3}
MCCidrs == {x1, x2}
\* c1 and c2 use the same interface-ip=, c3 has none or another
MCConnCidr == (c1 :> x1) @@ (c2 :> x1) @@ (c3 :> x2)
MCConnCidrNone == (c1 :> x1) @@ (c2 :> x1) @@ (c3 :> noCidr)
\* i1 is an instance of c1, which shares c1's configuration and so its CIDR
MCInstConns == MCConns \cup {i1}
MCConnCidrInst == MCConnCidr @@ (i1 :> x1)
MCTemplateOf == i1 :> c1
MCNoInstances == [d \in {} |-> c1]
\* ipsec-interface=no, =yes (1), =0, =2 and a value too big for 32 bits
\* (UINT32_MAX is 4 at this width)
MCValues == {[yn |-> "no", value |-> 0], [yn |-> "yes", value |-> 0],
             [yn |-> "num", value |-> 0], [yn |-> "num", value |-> 2],
             [yn |-> "num", value |-> 4]}
\* and =3, the map_if_id_zero of the shared run: an explicit 3 then meets
\* a remapped 0 on one interface
MCValuesMapped == MCValues \cup {[yn |-> "num", value |-> 3]}
\* device ipsec2 already exists and carries x2
MCPreIps == [n \in 0..3 |-> IF n = 2 THEN {x2} ELSE {}]
=============================================================================
