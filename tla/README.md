# TLA+ models of libreswan's pluto

This directory holds TLA+ specifications of parts of the libreswan IKE daemon
(`pluto`) and its libraries, the TLC configurations that check them, and
`PROJECT.json`, which maps every modelled definition to the source lines it
translates, lists the runs, the mutants that show each passing property can
fail, the findings and the hazards.

## The system

The sources under `src/` are:

| part | source | what it does |
|------|--------|--------------|
| connection routing engine | `programs/pluto/routing.c` | the per-connection state machine over `c->child.routing` and the four SA owner fields; every kernel policy change goes through it |
| IKEv2 state table | `programs/pluto/ikev2_states.c` | the IKEv2 exchange/state transition tables, the payload verifier and the lookup |
| initiation | `programs/pluto/initiate.c` | whack/acquire/revival initiation of connections |
| instantiation | `programs/pluto/instantiate.c` | creating instances from templates |
| ipsec-interface | `programs/pluto/ipsec_interface.c` | XFRMi interface creation, reference counting and addresses |
| IKEv1 host pair | `programs/pluto/ikev1_host_pair.c` | finding the connection for an incoming IKEv1 peer |
| IP addresses | `lib/libswan/ip_address.c` | address construction, comparison and formatting; `IpAddress` models the comparisons and `address_blit()` |
| AES-GCM / AES-CTR | `lib/libswan/ike_alg_encrypt_nss_*_ops.c` | NSS cipher wrappers |
| config writer | `lib/libipsecconf/confwrite.c` | writing `ipsec.conf` back out |
| encapsulation names | `lib/libswan/encap_type_names.c` | an enum-name table |

The routing engine is the part with the most interacting state: IKE SAs and
Child SAs created, established, rekeyed, suspended and deleted by the IKE
state machines all report to it, in any order the network produces, and it
decides from the connection's routing, its kind and the SA's role what
kernel state to keep.

## Routing (`Routing.tla`, `MCRouting.tla`)

### Correspondence with routing.c

* State. `conn[c]` is the part of `struct connection` routing.c reads and
  writes: `routing` (`c->child.routing`), `route` (`c->policy.route`),
  `up` (what the updown script was last told: UP or DOWN) and the owners
  `negotiating_ike_sa`, `established_ike_sa`, `newest_routing_sa`,
  `newest_ipsec_sa`. `sa[s]` is the lifecycle of SA serial `s` as the
  callers of routing.c see it (larval, inbound-only for the IKEv1
  responder, established, failed, deleted), its parent and whether it is a
  responder. `pending[c]` is the IKE SA a connection is queued behind.
  `faults` records the BARFs, failed PEXPECTs and NULL dereferences met.
* `dispatch` is `dispatch()`: the optional `dispatch_ok` filter, then
  `Dispatch1` (`dispatch_1()`, one operator per event: `Route1`,
  `Unroute1`, `Initiate1`, ...), and the caller applies the post_op (the
  SA delete and `state_disowns_connection()`) only when the result is true.
  A skipped dispatch counts as true, as in the code.
* Each dispatch_1 case is a CASE arm guarded by the routing and the kind,
  in the code's order; the helpers (`teardown_routed_tunnel`,
  `routed_tunnel_to_routed_ondemand`, `set_routing`, `set_initiated`,
  `set_established_child`, ...) are operators with the code's names.
* The actions are the public entry points: `connection_route`,
  `connection_unroute`, `connection_initiated_ike`,
  `connection_initiated_child`, `connection_pending`,
  `connection_reschedule`, `connection_establish_ike`,
  `connection_establish_child` (INBOUND then OUTBOUND, stopping at the
  first failure, as the `&&` in the code), `connection_establish_inbound`
  / `_outbound` (the IKEv1 responder), `connection_delete_child`,
  `connection_delete_ike` (zap_child/zap_ike, with their filters and
  post_ops), `connection_suspend`, `connection_resume`. `RespondIke` and
  `RespondChild` create responder SAs, which make no routing call until
  they establish.
* Kernel installs, revival scheduling (`scheduled_child_revival()`) and
  the updown script are outside the file; their results are chosen
  nondeterministically (`Oracles`): a revival only for connections
  configured to revive, a kernel failure only for a connection in
  `KernelCanFail` (the IKEv1 connection of the instance and rekey runs).

### Environment assumptions (callers not under src/)

The callers are the IKE state machines, not part of `src/`. The model lets
them call in any order with these restrictions, all taken from how the
calls are made: a Child SA establishes only under an established parent;
an IKEv2 IKE SA is deleted only after its children (IKEv1 ISAKMP SAs may go
first); a connection is pending only behind a larval IKE SA of its own, and
is rescheduled only once that IKE SA is gone; MOBIKE suspends only the
connection's current IPsec SA. Whack `route`/`unroute` at any time only
when `Admin` is TRUE; otherwise `route` happens once, at load.

### Runs

All runs use one connection (or a template and its instance), `MaxSA = 3`
SA serials, which allows an IKE SA with two Child SAs (a rekey or a
replacement), or two IKE SAs and a child: the smallest setting in which
crossed streams, stray IKE SAs and half-done rekeys occur. Every event of
every case reachable by these connection kinds is reached.

Passing runs (each with TypeOK):

| run | configuration | what it shows |
|-----|---------------|---------------|
| `routing_v2_admin` | IKEv2 permanent, whack route/unroute any time | owners stay live, tunnels record their child, a routed permanent connection stays routed |
| `routing_v1_and_instance` | an IKEv1 permanent connection with a failure shunt beside a routable IKEv2 template and its instance; the IKEv1 connection's kernel installs may fail | the same for the split IKEv1 responder, ISAKMP-first deletes and INBOUND succeeding with OUTBOUND failing, and the instance's INITIATE following the template's routing; the three connections share the SA serial numbers |

The properties:

* `OwnersAreLive`: every owner names a live SA of the connection and of
  the right type (the established owners established SAs).
* `TunnelHasNewestChild`: a connection whose kernel state has an IPsec SA
  records the Child SA that owns it, so its teardown passes
  `child_dispatch_ok`.
* `RoutedPermanentStaysRouted` (action property): a permanent connection
  with `policy.route` leaves the routed states only by unroute or MOBIKE
  suspend.

Violation runs (one property each; see `findings` in PROJECT.json):

| run | property | what TLC finds |
|-----|----------|----------------|
| `routing_stray_ike` | `StrayIkeKeepsRouting` | a larval IKE SA owning nothing unroutes the connection |
| `routing_null_deref` | `NoNullDeref` | `connection_pending()` dereferences a NULL IKE SA |
| `routing_rekey` | `RekeyKeepsTunnel` | a failed rekey's cleanup drops the established tunnel |

Other disagreements met while modelling, recorded as hazards rather than
runs: TEARDOWN_IKE has no case for an IKEv1 connection in
ROUTED_INBOUND_NEGOTIATION (routing.c 1756), TEARDOWN_CHILD has no case for an INSTANCE in ROUTED_NEGOTIATION
(routing.c 1679); `routed_tunnel_to_routed_ondemand()` swaps the tunnel for
a trap without the down hook (600); an IKEv2 IKE SA can reach the
IKEv1-only PEXPECT of TEARDOWN_IKE in ROUTED_TUNNEL (1780).

### Fairness

The routing runs check safety only. routing.c reacts to calls; it schedules
nothing itself, so no fairness is assumed of it.

### Not modelled

The LABELED_* (sec_label) and GROUP connection kinds, the per-SPD kernel
policy operations (only the routing they leave behind is kept), the revival
timer, and logging.

Updown hooks are not state of the model, so one disagreement is left
unchecked. spec.md covers TEARDOWN_CHILD from ROUTED_TUNNEL in two places:
the routing table and scenario S5. Both say that with revival scheduled
the down hook fires. `teardown_routed_tunnel()` takes that case to
`routed_tunnel_to_routed_ondemand()` (routing.c:575-601). That function
calls no `do_updown(UPDOWN_DOWN)`, while `routed_tunnel_to_routed_failure()`
does (line 618). The hazard list records it.

## ipsec-interface (`IpsecInterface.tla`, `MCIpsecInterface.tla`)

### Correspondence with ipsec_interface.c

* State. `iface[i]` is the `struct ipsec_interface` with `if_id` i while
  it is on the `ipsec_interfaces` list (`listed`), with its `refcnt`,
  `pluto_added` and its `if_ips` list as a function from CIDR to the
  `struct ipsec_interface_address` (`listed`, `refcnt`, `pluto_added`).
  `conn[c]` is the connection's `c->ipsec_interface` (an if_id or NONE)
  and where its caller is in the add/remove cycle. `dev[n]` is the kernel:
  whether device `ipsec<n>` exists and which CIDRs are on it. `holds[c]`
  (ghost) says that c's add took an address reference it has not given
  back; `plutoIps` (ghost) is the set of IPs pluto put on a device.
* Actions. `add_connection_ipsec_interface` parses `ipsec-interface=`
  (`ParseIfId`: no, yes, too big, the 0 remap) and attaches through the
  backend's `init()` (`attach`: find by id and addref, or allocate and
  push). `add_kernel_ipsec_interface` covers the whole function with
  `add_kernel_ipsec_interface_address`: skip for if_id 0, `ip_link_add`
  or `find_interface`, then find-or-alloc the address (`address_ref`)
  before `ip_addr_add`, then `ip_link_set_up`; each kernel call's result
  is a choice (`Ok`). `remove_kernel_ipsec_interface` looks the address
  up by CIDR (`address_found`, with the "should never happen" PEXPECT),
  delrefs it (`remove_address`) and calls `ip_addr_del` on the last
  reference of a pluto-added IP (`address_deleted`).
  `ipsec_interface_delref` drops the connection's interface reference; at
  zero it unlinks the interface, `ip_link_del`s a pluto-created device and
  frees the address list (`Freed`, `free_ipsec_interface_address_list`).
* Data. The CIDR a connection uses (`get_connection_ipsec_interface_cidr`)
  is a constant per connection; device names are the number `DevName(i)`
  (`jam_ipsec_interface_id`, with `map_if_id_zero` shown as 0). uint32 is
  scaled down: `UINT32_MAX = 4`, so if_ids are 0..3.
* The callers are not under `src/`: the model lets a connection whose add
  failed be given back either with a remove first or without one.
  `MaxRefcnt` bounds an address refcnt, which leaked references would
  otherwise grow without end.
* Instances. `clone_connection()` of `instantiate.c` (lines 137-140)
  gives an instance its template's `ipsec_interface` and takes one more
  interface reference. `TemplateOf` maps each instance to its template
  (same CIDR, never itself an instance); `clone_connection(d)` is enabled
  while the template is attached and the instance is not, and an instance
  never runs `add_connection_ipsec_interface` itself. The snapshot's
  `instantiate.c` still calls the older `reference_xfrmi(t->xfrmi)`; the
  model gives it the meaning of `ipsec_interface_addref()`, which is what
  that call does under the current names.

### Runs

| run | expect | what it shows |
|-----|--------|---------------|
| `ipsec_interface_shared` | pass | with no kernel failure and an instance `i1` cloned from `c1`: interface and address counts equal their users (`InterfaceRefsAreAttachments`, `AddressRefsAreHolders`), an added connection's IP stays on its device (`AddedConnHasAddress`), no IP pluto added outlives its address object (`NoUntrackedKernelAddress`), and the device stays until the last of template and instance lets go (`DevicesRefined`) |
| `ipsec_interface_kernel_fail` | pass | with every kernel call able to fail, the interface count still equals its attached connections, and `IpsecInterface` implements `IpsecInterfaceDevices` (`DevicesRefined`) |
| `ipsec_interface_stolen_address` | violation | a remove after an `ip_link_add` failure delrefs another connection's address and deletes its IP |

Three connections, two of them on one CIDR, the values no, yes, 0, 2 and
one too big: enough for two connections to share an interface and an
address, and for one to sit on a pre-existing device that already carries
the third's CIDR. The shared run, where `map_if_id_zero` is 3, also offers
an explicit 3, so a connection with `ipsec-interface=0` and one with
`ipsec-interface=3` share one interface. The kernel-failure run leaves the
3 out: there `map_if_id_zero` is 0, so 3 is one more plain if_id, and it
multiplies that run's states past what TLC finishes in minutes.

The violation comes from a gap the callers cannot close:
`add_kernel_ipsec_interface()` returns false both before and after it
takes the address reference, and `remove_kernel_ipsec_interface()` cannot
tell which happened. A caller that removes after every failure steals
another connection's reference (the run above); one that never does
leaks the reference, and when the interface goes
`free_ipsec_interface_address_list()` drops it without `ip_addr_del()`,
leaving pluto's IP on a device pluto did not create (`NoUntrackedKernelAddress`
fails with `KernelCanFail = TRUE`).

### Refinement: `IpsecInterfaceDevices`

`IpsecInterfaceDevices` is the abstract specification of the kernel
devices. It has no reference counts and no address lists. It has three
variables:

* `users`: the connections using each interface;
* `kdev`: the devices in the kernel;
* `created`: the devices pluto created.

It has three actions:

* `Attach`: a connection starts using an interface.
* `Create`: a user of an interface that has a device asks for it, and the
  device does not exist yet.
* `Detach`: a connection stops using its interface. When it was the last
  user and pluto created the device, the device goes.

`IpsecInterface` instantiates it with this refinement mapping:

* `users[i]` is the set of connections whose `conn[c].iface = i`;
* `kdev` is the set of devices that exist;
* `created` is the set of devices of the listed interfaces marked
  `pluto_added`.

`DevicesRefined` is `Devices!Spec`. It is checked in the kernel-failure
run, where an `ip_link_add()`, `ip_addr_add()` or `ip_link_set_up()` may
fail and a pre-existing device may be rejected. Each implementation step
is one abstract step or a stutter:

| implementation step | abstract step |
|---|---|
| an attach | `Attach` |
| a `clone_connection` | `Attach` |
| an add that creates a device | `Create` |
| an add that creates no device | stutter |
| an address remove | stutter |
| a delref | `Detach` |

It is also checked in the shared run, where an instance shares its
template's interface. The refinement holds in both runs. A clone that
does not take its own reference breaks it: the template's delref then
frees the interface and deletes the device while the instance still uses
it. The mutant that deletes the device on the
last delref whether or not pluto added it breaks the refinement.

## IKEv1 host-pair matcher (`Ikev1HostPair.tla`, `MCIkev1HostPair.tla`)

`find_v1_main_mode_connection()` and `find_v1_aggr_mode_connection()` are
pure lookups over the connection database, so the module has no actions:
`Init` picks a database (`conns`, a sequence of connection records in
insertion order, each on the peer's host pair or on %any) and a message
(`md`), and the properties are invariants over every such pair.

* `match_v1_connection` is the predicate, test for test: ID_NULL
  instances skipped, never-negotiate connections taken only as group
  instances, XAUTH and aggressive exact, the peer ID equal or wildcard,
  the remote auth among the proposed ones.
* `first_on_host_pair` is `find_host_pair_connection_on_responder()`
  (host_pair.c, not under `src/`): the first connection in insertion order
  on the host pair that the predicate accepts, as spec section 4.2 says.
* `wildcard_step` / `wildcard_loop` are the `next_connection(OLD2NEW)`
  loop with its Road Warrior break and "tightest match" bookkeeping;
  `main_mode_exact` is the `is_template()` re-check on an exact hit.
* Data: addresses are small numbers, a client selector a set of them; IDs,
  auth methods and kinds are strings from small sets.

| run | expect | what it shows |
|-----|--------|---------------|
| `ikev1_host_pair_main_mode` | pass | the loop equals a declarative reading (`MainModeMatchesReference`): a template found on the exact host pair is instantiated, never negotiated on |
| `ikev1_host_pair_aggr_template` | violation | Aggressive Mode returns an exact-peer template with `connection_addref()` |

Two connections over the whole space (2.6 million databases and messages)
cover every order of exact and wildcard hits, two templates on %any (the
break), and a non-template candidate before a template (the tightest-match
branch). The pass run also shows that the tightest-match choice never
reaches the result: a non-template candidate is always rejected after the
loop. So the spec's "tightest" wording changes no result in this code.

## IKEv2 state machine (`Ikev2States.tla`, `MCIkev2States.tla`)

### Correspondence with ikev2_states.c

* The table is data. Each `KIND_transitions[]` array is a sequence of the
  same name, in source order. Each entry is a record with the processor
  (which names the transition), `from`, `to`, `exchange`, `recv_role` and
  the two `ikev2_expected_payloads`. The three `initiate_v2_*_transition`
  objects are not attached to any state. `v2_transitions` is what `S()`
  stores in `.v2.transitions`, and `Secured` is the set of states that
  `S()` marks `.v2.secured`.
* Payload sets are sets of payload names. `Ni` and `Nr` are one payload
  type in the code and one name here. A message digest (`Md`) carries:
  * the exchange and the role;
  * the present and repeated sets of the clear part and of the SK{}
    part;
  * the notifications whose `md->pd[]` slot is filled.
* `ikev2_verify_payloads` follows the C code term for term: SKF counts as
  SK only when alone, then the excessive, missing and unexpected sets, then
  the required notification.
* `v2_transition_step` is one pass of the `for` loop, in the code's order:
  1. the exchange and role tests;
  2. the clear payloads;
  3. the return for an unsecured state or a sniff;
  4. the SK{} payloads.

  `v2_transition_walk` is the loop, including the saved statuses that
  decide `*secured_payload_failed`. `sniff_v2_state_transition` and
  `find_v2_state_transition` are the two entry points.
* The dispatcher is in ikev2.c, which is not under `src/`. It is modelled
  from spec section 4.5:
  * `Dispatch` sniffs the message, drops it if no clear part fits, and
    otherwise finds the transition and moves the SA to its `to`.
  * `Initiate` takes an initiate transition while a message is queued.
  * `Arrive` delivers the next message.

  A processor's own outcome (for example STF_FAIL) is not modelled: a
  matched transition always reaches its target.

### Run

`ikev2_state_table` (pass) starts one SA in each of the 23 states. The SA
receives every message that `MCMsgSpace` builds from the table: 217
messages, 9,982 distinct states. For each transition that takes a message,
the space has the message the transition expects and variants of it:

* with every optional payload;
* with one required payload dropped;
* with a stray payload;
* with a repeated payload;
* with SKF alone, or SKF together with SK;
* with the other role;
* with the required notification missing, or with an extra N(REKEY_SA).

The space therefore covers every match, every "message payloads do not
match", every "secured payloads do not match", the sniff drop and each
initiate transition. The run checks five properties:

* `DispatchConformsToTransition`: spec invariant 5, stated on its own.
* `SecuredFailureFlagged`: the code's comment that all transitions of a
  secured state have the same clear payloads. This is what makes the flag
  for evasive action exact. The model shows that the startup check would
  not catch the EAP payload written into the clear part (the mutant), but
  this property would.
* `EstablishOnlyAuthenticated`: outside the rekey and established states,
  an IKE SA is established only on a message whose SK{} part has AUTH.
* `RekeyDisambiguation`: the order of the CREATE_CHILD_SA requests.
  It holds for the code's order. Spec section 4.5 states the order
  differently: N(REKEY_SA) first. A request with N(REKEY_SA) but no
  traffic selectors is rekeyed as the IKE SA by the code. This difference
  is recorded as a hazard, not as a separate run.
* `TypeOK`: the type invariant.

No fairness is assumed: messages come from the peer, and the table code
schedules nothing.

## Connection initiation (`Initiate.tla`, `MCInitiate.tla`)

`Initiate` models what `initiate.c` does to the connection list when whack
initiates a connection and when the two periodic timers of
`init_connections()` run. Each C function is an operator from a *world*
`[conn, order, ifs, full]` to a new world, or to `[w, ok]` where the C
function returns a bool. Loops over the connection list or a host pair are
`FoldLeft` over a sequence, newest connection first, as the lists are kept.

| code | model |
|------|-------|
| `struct connection` | `conn[c]`: live, kind, name, configuration (DNS name, narrowing, never-negotiate, IKE version, wildcard, kernel algorithms), the two ends (address, own `ikeport=`), POLICY_UP, interface, IKE SA (none/negotiating/established), a pending Child SA |
| the connection list | `order`; a free instance slot of `Slots` is `FreeRec` |
| the interface endpoints | `ifs`, newest first; a custom-port bind prepends one |
| `orient()` and its loop | `orient`, `orient_loop` (RECURSIVE), `orient_new_iface_endpoint`, `swap_ends` |
| `instantiate()` / `clone_connection()` | `instantiate`: a clone in a free slot, put at the head of the list |
| `initiate_connection()`, `_2`, `_3` | operators of the same names; `initiate_instance` is the deletion of the instance when a later stage fails |
| `initiate_connections_by_name()` | `conn_by_name` (non-strict: the newest connection with the name) then `initiate_connection` |
| `connection_check_ddns()` / `connection_check_ddns1()` | the action `DdnsCheck`, with `check_orientations` after the pass |
| `connection_check_phase2()` / `restart_connections_by_peer()` | the action `Phase2Check`; the connections whose pending Child SA timed out are chosen with `\E` |

`delete_connection`, `terminate_connection`, `ipsecdoi_initiate`,
`conn_by_name`, the host pair lookup and `check_orientations` are code that
is not in `src/`; they are modelled from what `initiate.c` relies on, and
marked spec_modelled. The resolver (`DnsAnswers`) and the IKE state machine
(`IkeEstablished`, `IkeDeleted`) are the environment. An address bind may
fail, so each orient chooses which local addresses bind.

`MCInitiate` has four connections and two instance slots:

* A, a template with a DNS peer;
* B, a permanent connection written backwards (THIS is the peer, THAT is
  local);
* C, a narrowing IKEv2 template with its own port on a second local
  address, which has no interface until a bind succeeds;
* D, a never-negotiate template;
* F, a permanent connection whose two ends are both addresses of this
  host, on different devices.

pluto listens on port 500 of both local addresses, so the interface list
starts with two endpoints. F's THAT end matches the first and its THIS
end the second, so `orient()` meets a second match and takes the error
path: it terminates F and withdraws the orientation, on every add and
every later initiate of F.

Whack initiates any of them with no remote host or with one of two peers.
Two slots are enough for an instance of A and an instance of C to exist at
once. Every action fires in the run. Separate reachability checks showed
that the run also reaches these cases:

* instances created and deleted by a restart;
* A resolved and negotiating;
* C oriented by a later DDNS pass;
* an instance of C and of A after A became permanent.

| run | expect | what it shows |
|-----|--------|---------------|
| `initiate_ddns_phase2` | pass | `OrientMatchesReference`: on every order of every interface list reached (pluto keeps them in the order it found them, which nothing fixes), `orient()`'s loop decides as spec section 4.3 states it with sets (one match of one end orients, swapped for THAT; a double or both-ends match is an error). `OrientedOnThisEnd`: an oriented connection's interface is its THIS end. `InstancesAreUp`: an instance exists only while POLICY_UP is set, since every failed initiate deletes it. `BlitMatchesReference` and `AddressKindsPartition`: see IP addresses below. `DdnsResolves`: a DNS peer that starts resolving is eventually filled in, under the fairness below |

Fairness is `TimersRun`, weak fairness of `DdnsCheck` and of `Phase2Check`.
`init_connections()` arms both checks with `enable_periodic_timer()`, so
each callback runs again and again for as long as pluto runs. A check that
has something to do, and keeps having it, therefore eventually does it.
Whack, the resolver and the peer's IKE messages get no fairness: nothing
in pluto makes them happen.

The loops fold with `FoldStrict`, a `FoldLeft` that binds each step's
result as a value. Without it, TLC re-evaluates every world passed on by
reference when it checks fairness, and the run does not finish.

Not modelled here:

* opportunistic initiation (`initiate_ondemand_body`, `cannot_oppo`,
  `shunt_owner`), which needs the gateway lookup and the kernel shunt table;
* the use after free of `cnext` in `connection_check_phase2()`, and the
  dangling host pair in `restart_connections_by_peer()`, which are listed as
  hazards (the model skips a freed connection);
* name aliasing in `initiate_connections_by_name()` and the unconditional
  CK_PERMANENT of a resolved connection. Both are modelled as the code does
  them and listed as hazards.

## IP addresses (`IpAddress.tla`)

`IpAddress` translates the parts of `ip_address.c` that the modelled code
uses. An address is the struct itself, a record with these fields:

* `is_address`;
* `version` (0 when unset);
* the 16 bytes of `ip_bytes`;
* the endpoint fields.

The module defines:

* `address_from_raw()`, `address_type()` and `address_as_shunk()`;
* the predicates `address_is_unset()`, `address_is_specified()`,
  `address_eq()`, `address_eq_any()` and `address_eq_loopback()`;
* `address_blit()`, with its byte loops and its cross-over byte.

The size, any address and loopback address of each version come from
`ip_info.c`, which is not under `src/`.

`Initiate` extends `IpAddress`:

* `MCInitiate`'s addresses are real IPv4 and IPv6 values.
* Every address test of `initiate.c` goes through these operators:
  `address_is_unset`, `address_is_any`, `address_is_specified`, and
  `sameaddr` in `same_host()` and in the DDNS check.
* `address_eq()` is false for two unset addresses, as in C.

Two properties of the Initiate run are about addresses:

* `AddressKindsPartition`: every address a connection carries or the
  resolver answers is exactly one of unset, any and specified. This is
  what makes the early returns of `connection_check_ddns1()` total.
* `BlitMatchesReference`: `address_blit()` equals a bit-by-bit reference
  on these inputs:
  * every typed address in use, and a sample (81 IPv4 addresses whose
    bytes are 0x00, 0xa5 or 0xff, and two IPv6 ones);
  * every mask length from 0 to one past the whole address;
  * every pair of the clear, set and keep blits.

  The checked set is a constant, so TLC computes it once.

`address_is_specified()` compares all 16 bytes, while `address_eq()`
compares only `ip_size` bytes. An IPv4 address with bytes past the fourth
would therefore be both any and specified. Every constructor under `src/`
zero-pads, so no such address arises and this is not a hazard of this
code.

## Parts not modelled

* initiate.c: opportunistic initiation from a kernel acquire (see above).
  Whack and timer initiation feed the routing engine's INITIATE event,
  which `Routing` takes as an input rather than composing with `Initiate`.
* instantiate.c: only what the host-pair lookup, whack initiation and the
  ipsec-interface reference (`clone_connection()`) rely on is modelled. The
  instance naming of sec_label, opportunistic and group instances, the
  selector updates and the `global_marks` counter (a 32-bit counter that
  wraps past `UINT_MAX - 1`) are not: they only build
  text or per-instance values no modelled property reads.
* ip_address.c: the formatting functions only produce text; `strip_endpoint()`,
  `ntohl_address()` and `address_as_chunk()` have no modelled caller.
* confwrite.c: formatting output.
* encap_type_names.c: a name table.
* ikev2_proposals.h: declarations.
* The NSS AES-CTR and AES-GCM wrappers. Their one piece of state is the
  32-bit CTR block counter, whose passert on wrap is listed as a hazard.

## Running

```
tlc -workers 2 -config MCRouting.cfg MCRouting
```

and likewise for every `.cfg`; `PROJECT.json` lists each run's module, cfg
and expected outcome.
