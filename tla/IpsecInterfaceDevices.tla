------------------------ MODULE IpsecInterfaceDevices ------------------------
(***************************************************************************)
(* What the ipsec-interface code promises about kernel devices, with no   *)
(* reference counts and no address lists: connections use interfaces, a   *)
(* device appears when a user of its interface asks for it, and the only  *)
(* device that ever goes away is one pluto created, when the last user of *)
(* its interface leaves.  A device that was there before pluto stays.      *)
(***************************************************************************)
CONSTANTS
    Conns,        \* the connections
    IfIds,        \* the interface ids
    Names,        \* device names
    Dev,          \* if_id -> the name of its device
    NoDev,        \* the if_ids that have no device (ipsec-interface=0)
    PreDevices    \* the devices present before pluto starts

VARIABLES
    users,        \* if_id -> the connections using that interface
    kdev,         \* the devices in the kernel
    created       \* the devices pluto created and has not deleted

vars == <<users, kdev, created>>

Init ==
    /\ users = [i \in IfIds |-> {}]
    /\ kdev = PreDevices
    /\ created = {}

InUse == UNION {users[i] : i \in IfIds}

\* a connection starts using an interface
Attach(c, i) ==
    /\ c \notin InUse
    /\ users' = [users EXCEPT ![i] = @ \cup {c}]
    /\ UNCHANGED <<kdev, created>>

\* a user of an interface with a device asks for it, and it is created
Create(c, i) ==
    /\ c \in users[i] /\ i \notin NoDev
    /\ Dev[i] \notin kdev
    /\ kdev' = kdev \cup {Dev[i]}
    /\ created' = created \cup {Dev[i]}
    /\ UNCHANGED users

\* a connection stops using its interface; the last user takes a device
\* pluto created with it
Detach(c, i) ==
    /\ c \in users[i]
    /\ users' = [users EXCEPT ![i] = @ \ {c}]
    /\ IF users[i] = {c} /\ Dev[i] \in created
       THEN /\ kdev' = kdev \ {Dev[i]}
            /\ created' = created \ {Dev[i]}
       ELSE UNCHANGED <<kdev, created>>

Next ==
    \E c \in Conns, i \in IfIds : Attach(c, i) \/ Create(c, i) \/ Detach(c, i)

Spec == Init /\ [][Next]_vars

TypeOK ==
    /\ users \in [IfIds -> SUBSET Conns]
    /\ kdev \subseteq Names
    /\ created \subseteq kdev
=============================================================================
