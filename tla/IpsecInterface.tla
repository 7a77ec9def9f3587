--------------------------- MODULE IpsecInterface ---------------------------
(***************************************************************************)
(* pluto's ipsec-interface (XFRMi) bookkeeping,                           *)
(* src/programs/pluto/ipsec_interface.c.                                  *)
(*                                                                         *)
(* pluto keeps a list of reference-counted ipsec_interface objects, one   *)
(* per if_id, each with a list of reference-counted per-CIDR address      *)
(* objects.  A connection parses ipsec-interface= and attaches to the     *)
(* interface (add_connection_ipsec_interface), later asks for the kernel  *)
(* device and its address (add_kernel_ipsec_interface), gives the address *)
(* back (remove_kernel_ipsec_interface) and finally drops the interface   *)
(* (ipsec_interface_delref).  The kernel side (devices and the addresses  *)
(* on them) is state here too; each kernel call may fail.                 *)
(*                                                                         *)
(* The callers are not in this file.  After a failed add the connection   *)
(* may be given back with or without a remove first: both are allowed.    *)
(***************************************************************************)
EXTENDS Integers, FiniteSets

CONSTANTS
    Conns,              \* the connections using an ipsec-interface
    Cidrs,              \* the interface-ip= / sourceip= CIDRs
    NoCidr,             \* unset_cidr
    ConnCidr,           \* c -> the CIDR get_connection_ipsec_interface_cidr() finds
    Values,             \* the ipsec-interface= settings, [yn, value]
    UINT32_MAX,         \* the largest uint32_t, at the width of the model
    MapIfIdZero,        \* kernel_ops->ipsec_interface->map_if_id_zero
    PreDevices,         \* names of devices present before pluto starts
    PreIps,             \* name -> the CIDRs already on that device
    BadDevices,         \* pre-existing devices find_interface() rejects
    KernelCanFail,      \* whether ip_link_add/ip_addr_add/ip_link_set_up may fail
    MaxRefcnt,          \* bound on an address refcnt (leaked references grow it)
    TemplateOf          \* instance -> the template it is cloned from

ASSUME NoCidr \notin Cidrs
ASSUME \A c \in Conns : ConnCidr[c] \in Cidrs \cup {NoCidr}
ASSUME BadDevices \subseteq PreDevices
ASSUME \A d \in DOMAIN TemplateOf : /\ TemplateOf[d] \in Conns \ DOMAIN TemplateOf
                                   /\ ConnCidr[d] = ConnCidr[TemplateOf[d]]

IfIds == 0..(UINT32_MAX - 1)       \* what the parser accepts
Names == 0..(UINT32_MAX - 1)       \* the number in "ipsec<n>"
NONE == -1

Phases == {"detached", "attached", "added", "failed"}

AddrRec == [listed: BOOLEAN, refcnt: Nat, pluto_added: BOOLEAN]
IfaceRec == [listed: BOOLEAN, refcnt: Nat, pluto_added: BOOLEAN,
             addr: [Cidrs -> AddrRec]]

VARIABLES
    iface,      \* if_id -> the ipsec_interface on the ipsec_interfaces list
    conn,       \* c -> [iface: the if_id it is attached to, phase]
    holds,      \* c -> whether c's add took an address reference not yet returned
    dev,        \* device name -> [exists, ips] in the kernel
    plutoIps,   \* the (name, CIDR) pairs pluto put on a device
    faults      \* PEXPECTs met

vars == <<iface, conn, holds, dev, plutoIps, faults>>

NoAddr == [listed |-> FALSE, refcnt |-> 0, pluto_added |-> FALSE]
Freed == [listed |-> FALSE, refcnt |-> 0, pluto_added |-> FALSE,
          addr |-> [x \in Cidrs |-> NoAddr]]

Ok == IF KernelCanFail THEN BOOLEAN ELSE {TRUE}

\* get_connection_ipsec_interface_cidr(): interface-ip=, else the first
\* sourceip=, else the first SPD's source IP, else unset_cidr; which one a
\* connection has is configuration, given by ConnCidr
get_connection_ipsec_interface_cidr(c) == ConnCidr[c]

\* jam_ipsec_interface_id(): the device name, with map_if_id_zero shown as 0
DevName(i) == IF i = MapIfIdZero THEN 0 ELSE i

\* mutation: the too-big test is off by one
ParseIfId_accepts_max(v) ==
    IF v.yn = "no" THEN NONE
    ELSE IF v.yn = "yes" THEN 1
    ELSE IF v.value > UINT32_MAX THEN NONE
    ELSE IF v.value = 0 /\ MapIfIdZero # 0 THEN MapIfIdZero
    ELSE v.value

\* add_connection_ipsec_interface(): the if_id ipsec-interface= selects,
\* NONE for "no" and for an invalid or too big number
ParseIfId(v) ==
    IF v.yn = "no" THEN NONE
    ELSE IF v.yn = "yes" THEN 1
    ELSE IF v.value >= UINT32_MAX THEN NONE
    ELSE IF v.value = 0 /\ MapIfIdZero # 0 THEN MapIfIdZero
    ELSE v.value

\* mutation: init() allocates a fresh interface even when one with the
\* if_id is already on the list
attach_always_alloc(ifs, i) == [ifs EXCEPT ![i] = [Freed EXCEPT !.listed = TRUE,
                                                               !.refcnt = 1]]

\* mutation: init() does not addref an interface it finds
attach_no_addref(ifs, i) ==
    IF ifs[i].listed THEN ifs
    ELSE [ifs EXCEPT ![i] = [Freed EXCEPT !.listed = TRUE, !.refcnt = 1]]

\* kernel_ops->ipsec_interface->init(): find_ipsec_interface_by_id() and
\* addref it, else alloc_ipsec_interface() (whose refcnt_alloc() is the
\* first reference) and push it on the list
attach(ifs, i) ==
    IF ifs[i].listed THEN [ifs EXCEPT ![i].refcnt = @ + 1]
    ELSE [ifs EXCEPT ![i] = [Freed EXCEPT !.listed = TRUE, !.refcnt = 1]]

\* an instance's interface comes from its template (clone_connection()),
\* never from whack's ipsec-interface=
Instances == DOMAIN TemplateOf

add_connection_ipsec_interface(c) ==
    /\ c \notin Instances
    /\ conn[c].phase = "detached"
    /\ \E v \in Values :
         LET i == ParseIfId(v) IN
         /\ i # NONE
         /\ iface' = attach(iface, i)
         /\ conn' = [conn EXCEPT ![c] = [iface |-> i, phase |-> "attached"]]
    /\ UNCHANGED <<holds, dev, plutoIps, faults>>

\* mutation: the shallow clone_thing() copy of the template's interface
\* pointer is kept without a reference of its own
clone_connection_no_addref(d) ==
    LET t == TemplateOf[d] IN
    /\ conn[d].phase = "detached" /\ conn[t].phase # "detached"
    /\ conn' = [conn EXCEPT ![d] = [iface |-> conn[t].iface, phase |-> "attached"]]
    /\ UNCHANGED <<iface, holds, dev, plutoIps, faults>>

\* clone_connection() of instantiate.c, run by instantiate() and
\* group_instantiate(): the instance is a copy of its template, and when
\* the template has an ipsec-interface the copy shares it and takes a
\* reference of its own (the address references are not copied; the
\* instance takes its own in add_kernel_ipsec_interface())
clone_connection(d) ==
    LET t == TemplateOf[d] IN
    /\ conn[d].phase = "detached" /\ conn[t].phase # "detached"
    /\ iface' = [iface EXCEPT ![conn[t].iface].refcnt = @ + 1]
    /\ conn' = [conn EXCEPT ![d] = [iface |-> conn[t].iface, phase |-> "attached"]]
    /\ UNCHANGED <<holds, dev, plutoIps, faults>>

\* mutation: a second user of an address that is already on the device
\* overwrites .pluto_added
address_ref_resets_pluto_added(a, onIf) ==
    [listed |-> TRUE, refcnt |-> a.refcnt + 1, pluto_added |-> ~onIf]

\* add_kernel_ipsec_interface_address(): find or alloc the address (the
\* alloc is the first reference), and mark it pluto_added when the IP is
\* not yet on the device
address_ref(a, onIf) ==
    [listed |-> TRUE, refcnt |-> a.refcnt + 1,
     pluto_added |-> a.pluto_added \/ ~onIf]

\* add_kernel_ipsec_interface() and add_kernel_ipsec_interface_address():
\* the address reference is taken before ip_addr_add() and .pluto_added set
\* before it is known to have worked
add_kernel_ipsec_interface(c) ==
    LET i == conn[c].iface
        n == DevName(i)
        x == get_connection_ipsec_interface_cidr(c)
    IN
    /\ conn[c].phase = "attached"
    /\ x # NoCidr => iface[i].addr[x].refcnt < MaxRefcnt   \* model bound
    /\ \E linkOk, addrOk, upOk \in Ok :
         \/ /\ i = 0                                   \* ipsec-interface=0
            /\ conn' = [conn EXCEPT ![c].phase = "added"]
            /\ UNCHANGED <<iface, holds, dev, plutoIps>>
         \/ /\ i # 0 /\ ~dev[n].exists /\ ~linkOk      \* ip_link_add() fails
            /\ conn' = [conn EXCEPT ![c].phase = "failed"]
            /\ UNCHANGED <<iface, holds, dev, plutoIps>>
         \/ /\ i # 0 /\ dev[n].exists /\ n \in BadDevices  \* find_interface() fails
            /\ conn' = [conn EXCEPT ![c].phase = "failed"]
            /\ UNCHANGED <<iface, holds, dev, plutoIps>>
         \/ /\ i # 0 /\ IF dev[n].exists THEN n \notin BadDevices ELSE linkOk
            /\ LET created == ~dev[n].exists
                   if1 == IF created THEN [iface EXCEPT ![i].pluto_added = TRUE]
                          ELSE iface
                   a == if1[i].addr[x]
                   onIf == x \in dev[n].ips
                   a1 == address_ref(a, onIf)
                   put == x # NoCidr /\ ~onIf /\ addrOk
                   ok == x = NoCidr \/ onIf \/ addrOk
               IN /\ iface' = IF x = NoCidr THEN if1
                              ELSE [if1 EXCEPT ![i].addr[x] = a1]
                  /\ holds' = [holds EXCEPT ![c] = (x # NoCidr)]
                  /\ dev' = [dev EXCEPT ![n].exists = TRUE,
                                        ![n].ips = IF put THEN @ \cup {x} ELSE @]
                  /\ plutoIps' = IF put THEN plutoIps \cup {<<n, x>>} ELSE plutoIps
                  /\ conn' = [conn EXCEPT ![c].phase =
                                 IF ok /\ upOk THEN "added" ELSE "failed"]
    /\ UNCHANGED faults

\* mutation: the address is unlinked and freed without looking at refcnt
remove_address_ignores_refcnt(ifs, i, x) ==
    [ifs EXCEPT ![i].addr[x] = NoAddr]

\* remove_kernel_ipsec_interface_address()'s delref: the last reference
\* unlinks the address
remove_address(ifs, i, x) ==
    IF ifs[i].addr[x].refcnt = 1 THEN [ifs EXCEPT ![i].addr[x] = NoAddr]
    ELSE [ifs EXCEPT ![i].addr[x].refcnt = @ - 1]

\* mutation: no "should never happen" test; the missing address is delref'd
address_found_always(a) == TRUE

\* remove_kernel_ipsec_interface_address(): find_ipsec_interface_address_ptr()
\* found the CIDR on the interface's list
address_found(a) == a.listed

\* mutation: ip_addr_del() on every delref, not only the last
address_deleted_ignores_refcnt(a) == a.pluto_added

\* remove_kernel_ipsec_interface_address(): ip_addr_del() runs when the
\* delref was the last one and pluto added the IP
address_deleted(a) == a.refcnt = 1 /\ a.pluto_added

\* remove_kernel_ipsec_interface() and remove_kernel_ipsec_interface_address()
remove_kernel_ipsec_interface(c) ==
    LET i == conn[c].iface
        n == DevName(i)
        x == get_connection_ipsec_interface_cidr(c)
        a == iface[i].addr[x]
    IN
    /\ conn[c].phase \in {"added", "failed"}
    /\ conn' = [conn EXCEPT ![c].phase = "attached"]
    /\ holds' = [holds EXCEPT ![c] = FALSE]
    /\ IF i = 0 \/ x = NoCidr \/ ~address_found(a)
       THEN /\ faults' = IF i # 0 /\ x # NoCidr    \* "should never happen"
                         THEN faults \cup {"unref_missing"} ELSE faults
            /\ UNCHANGED <<iface, dev, plutoIps>>
       ELSE LET del == address_deleted(a)
            IN /\ iface' = remove_address(iface, i, x)
               /\ dev' = IF del THEN [dev EXCEPT ![n].ips = @ \ {x}] ELSE dev
               /\ plutoIps' = IF del THEN plutoIps \ {<<n, x>>} ELSE plutoIps
               /\ UNCHANGED faults

\* mutation: the last reference deletes the device whether or not pluto
\* added it
ipsec_interface_delref_deletes_any(c) ==
    LET i == conn[c].iface
        n == DevName(i)
    IN
    /\ conn[c].phase \in {"attached", "failed"}
    /\ conn' = [conn EXCEPT ![c] = [iface |-> NONE, phase |-> "detached"]]
    /\ IF iface[i].refcnt = 1
       THEN /\ iface' = [iface EXCEPT ![i] = Freed]
            /\ IF i # 0
               THEN /\ dev' = [dev EXCEPT ![n] = [exists |-> FALSE, ips |-> {}]]
                    /\ plutoIps' = {p \in plutoIps : p[1] # n}
               ELSE UNCHANGED <<dev, plutoIps>>
       ELSE /\ iface' = [iface EXCEPT ![i].refcnt = @ - 1]
            /\ UNCHANGED <<dev, plutoIps>>
    /\ holds' = [holds EXCEPT ![c] = FALSE]
    /\ UNCHANGED faults

\* ipsec_interface_delref(): the last reference unlinks the interface,
\* deletes the device if pluto added it, and frees the address list
\* (free_ipsec_interface_address_list() drops whatever references remain);
\* a reference c took and did not give back is no longer c's
ipsec_interface_delref(c) ==
    LET i == conn[c].iface
        n == DevName(i)
    IN
    /\ conn[c].phase \in {"attached", "failed"}
    /\ conn' = [conn EXCEPT ![c] = [iface |-> NONE, phase |-> "detached"]]
    /\ IF iface[i].refcnt = 1
       THEN /\ iface' = [iface EXCEPT ![i] = Freed]
            /\ IF iface[i].pluto_added                \* ip_link_del()
               THEN /\ dev' = [dev EXCEPT ![n] = [exists |-> FALSE, ips |-> {}]]
                    /\ plutoIps' = {p \in plutoIps : p[1] # n}
               ELSE UNCHANGED <<dev, plutoIps>>
       ELSE /\ iface' = [iface EXCEPT ![i].refcnt = @ - 1]
            /\ UNCHANGED <<dev, plutoIps>>
    /\ holds' = [holds EXCEPT ![c] = FALSE]
    /\ UNCHANGED faults

Init ==
    /\ iface = [i \in IfIds |-> Freed]
    /\ conn = [c \in Conns |-> [iface |-> NONE, phase |-> "detached"]]
    /\ holds = [c \in Conns |-> FALSE]
    /\ dev = [n \in Names |-> [exists |-> n \in PreDevices,
                               ips |-> IF n \in PreDevices THEN PreIps[n] ELSE {}]]
    /\ plutoIps = {}
    /\ faults = {}

Next ==
    \/ \E c \in Conns :
          \/ add_connection_ipsec_interface(c)
          \/ add_kernel_ipsec_interface(c)
          \/ remove_kernel_ipsec_interface(c)
          \/ ipsec_interface_delref(c)
    \/ \E d \in Instances : clone_connection(d)

Spec == Init /\ [][Next]_vars

(***************************************************************************)
(* Properties.                                                            *)
(***************************************************************************)
TypeOK ==
    /\ iface \in [IfIds -> IfaceRec]
    /\ conn \in [Conns -> [iface: IfIds \cup {NONE}, phase: Phases]]
    /\ holds \in [Conns -> BOOLEAN]
    /\ dev \in [Names -> [exists: BOOLEAN, ips: SUBSET Cidrs]]
    /\ plutoIps \subseteq Names \X Cidrs
    /\ faults \subseteq {"unref_missing"}

\* spec.md section 5 and 8.3 for ipsec_interface: an interface is on the
\* list exactly while some connection holds a reference to it, and its
\* count is the number of those connections (addref in init(), delref in
\* ipsec_interface_delref()).
InterfaceRefsAreAttachments ==
    \A i \in IfIds :
      LET users == {c \in Conns : conn[c].iface = i} IN
      /\ iface[i].listed <=> users # {}
      /\ iface[i].refcnt = Cardinality(users)

\* The same for the per-CIDR address objects: an address is listed exactly
\* while connections hold it, its count is the number of connections whose
\* add took a reference and whose remove has not yet given it back.
AddressRefsAreHolders ==
    \A i \in IfIds, x \in Cidrs :
      LET holders == {c \in Conns : holds[c] /\ conn[c].iface = i
                                    /\ ConnCidr[c] = x} IN
      /\ iface[i].addr[x].listed <=> holders # {}
      /\ iface[i].addr[x].refcnt = Cardinality(holders)

\* A connection whose add_kernel_ipsec_interface() succeeded has its CIDR
\* on its device for as long as it stays added: no other connection's
\* remove or delref takes it away.
AddedConnHasAddress ==
    \A c \in Conns :
      LET i == conn[c].iface IN
      (conn[c].phase = "added" /\ i # 0 /\ ConnCidr[c] # NoCidr)
        => /\ dev[DevName(i)].exists
           /\ ConnCidr[c] \in dev[DevName(i)].ips

\* Nothing pluto put in the kernel outlives the object that would take it
\* out: every address pluto added to a device is on a listed address object
\* of a listed interface for that device.
NoUntrackedKernelAddress ==
    \A p \in plutoIps :
      \E i \in IfIds : DevName(i) = p[1] /\ iface[i].listed
                       /\ iface[i].addr[p[2]].listed
(***************************************************************************)
(* The refinement: the kernel devices as IpsecInterfaceDevices promises   *)
(* them.  An interface's users are the connections attached to it, and    *)
(* the devices pluto created are those of the listed interfaces it marked *)
(* pluto_added.                                                           *)
(***************************************************************************)
Devices == INSTANCE IpsecInterfaceDevices
    WITH Dev <- [i \in IfIds |-> DevName(i)],
         NoDev <- {0},
         users <- [i \in IfIds |-> {c \in Conns : conn[c].iface = i}],
         kdev <- {n \in Names : dev[n].exists},
         created <- {DevName(i) : i \in {j \in IfIds : iface[j].listed /\ iface[j].pluto_added}}

\* add_kernel_ipsec_interface() creates a device only for a connection
\* attached to its interface, and ipsec_interface_delref() deletes one only
\* when pluto created it and the last reference to its interface goes: a
\* device that was there before pluto, or that another connection still
\* uses, is never deleted, whatever the kernel calls return.
DevicesRefined == Devices!Spec
=============================================================================
