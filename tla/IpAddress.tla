------------------------------ MODULE IpAddress ------------------------------
(***************************************************************************)
(* ip_address values and the operations on them that pluto's modelled    *)
(* code uses, src/lib/libswan/ip_address.c.  An address is the struct:   *)
(* is_address, the IP version (0 for unset), the 16 bytes of ip_bytes,    *)
(* and the endpoint fields hport, ipproto, is_endpoint.  The ip_info of   *)
(* each version (its size and its any and loopback addresses, ip_info.c) *)
(* is not under src/ and is given here as libreswan defines it.          *)
(***************************************************************************)
EXTENDS Naturals, Sequences, Bitwise

Bytes16 == [1..16 -> 0..255]
ZeroBytes == [b \in 1..16 |-> 0]

AddressRec == [is_address: BOOLEAN, version: {0, 4, 6}, bytes: Bytes16,
               hport: Nat, ipproto: Nat, is_endpoint: BOOLEAN]

\* unset_address: all zeros
unset_address == [is_address |-> FALSE, version |-> 0, bytes |-> ZeroBytes,
                  hport |-> 0, ipproto |-> 0, is_endpoint |-> FALSE]

\* ip_info: the bytes an address of the version uses
ip_size(v) == IF v = 4 THEN 4 ELSE 16

\* address_from_raw(): an address of the version with those bytes
address_from_raw(v, bytes) ==
    [unset_address EXCEPT !.is_address = TRUE, !.version = v, !.bytes = bytes]

\* ip_info's any_address and loopback_address
any_address(v) == address_from_raw(v, ZeroBytes)
loopback_address(v) ==
    address_from_raw(v, [ZeroBytes EXCEPT ![IF v = 4 THEN 1 ELSE 16] =
                                             IF v = 4 THEN 127 ELSE 1,
                                           ![IF v = 4 THEN 4 ELSE 16] = 1])

\* address_type(): the ip_info of the version, none for version 0
has_type(a) == a.version \in {4, 6}

\* address_as_shunk(): the ip_size leading bytes, empty without a type
address_as_shunk(a) ==
    IF has_type(a) THEN [b \in 1..ip_size(a.version) |-> a.bytes[b]] ELSE << >>

\* address_is_unset(): thingeq() with unset_address, the whole struct
address_is_unset(a) == a = unset_address

\* mutation: the any address counts as specified
address_is_specified_any_too(a) == ~address_is_unset(a) /\ has_type(a)

\* address_is_specified(): set, typed, and not the any address; all 16
\* bytes are compared with the any address, not only the ip_size ones
address_is_specified(a) ==
    /\ ~address_is_unset(a)
    /\ has_type(a)
    /\ a.bytes # any_address(a.version).bytes

\* address_eq(): both typed, the same type and the same ip_size bytes;
\* an untyped address is equal to nothing, itself included
address_eq(l, r) ==
    /\ has_type(l) /\ has_type(r)
    /\ l.version = r.version
    /\ address_as_shunk(l) = address_as_shunk(r)

\* address_eq_any(): the any address of its own type
address_eq_any(a) == has_type(a) /\ address_eq(a, any_address(a.version))

\* address_eq_loopback()
address_eq_loopback(a) == has_type(a) /\ address_eq(a, loopback_address(a.version))

(***************************************************************************)
(* address_blit(): the leading nr_mask_bits bits of the address are put  *)
(* through the routing-prefix blit and the rest through the host-id blit *)
(* (each a byte-wise and then or), byte by byte with a cross-over byte.   *)
(***************************************************************************)
clear_bits == [and |-> 0, or |-> 0]
set_bits == [and |-> 0, or |-> 255]
keep_bits == [and |-> 255, or |-> 0]
Blits == {clear_bits, set_bits, keep_bits}

\* one byte through a blit
blit_byte(p, bl) == (p & bl.and) | bl.or

\* mutation: the cross-over masks the other way round
cross_byte_swapped(p, rp, hi, xbit) ==
    LET hmask == 255 \div (2 ^ xbit)
        pmask == 255 - hmask
    IN (p & ((rp.and & hmask) | (hi.and & pmask)))
         | ((rp.or & hmask) | (hi.or & pmask))

\* the cross-over byte: the first xbit bits (the most significant) are the
\* routing prefix's, the others the host id's
cross_byte(p, rp, hi, xbit) ==
    LET hmask == 255 \div (2 ^ xbit)          \* 0xFF >> xbit
        pmask == 255 - hmask                  \* ~hmask, as uint8_t
    IN (p & ((rp.and & pmask) | (hi.and & hmask)))
         | ((rp.or & pmask) | (hi.or & hmask))

\* mutation: the pexpect() refuses a mask of the whole address
address_blit_short_mask(a, rp, hi, n) ==
    LET len == ip_size(a.version)
        xbyte == n \div 8
        xbit == n % 8
    IN IF n >= len * 8 THEN unset_address
       ELSE [a EXCEPT !.bytes = [b \in 1..16 |->
              CASE b > len -> a.bytes[b]
                [] b - 1 < xbyte -> blit_byte(a.bytes[b], rp)
                [] b - 1 = xbyte -> cross_byte(a.bytes[b], rp, hi, xbit)
                [] OTHER -> blit_byte(a.bytes[b], hi)]]

\* address_blit(a, rp, hi, n) for a typed address a; the bytes past
\* ip_size are not touched
address_blit(a, rp, hi, n) ==
    LET len == ip_size(a.version)
        xbyte == n \div 8
        xbit == n % 8
    IN IF n > len * 8 THEN unset_address      \* the "can't happen" pexpect
       ELSE [a EXCEPT !.bytes = [b \in 1..16 |->
              CASE b > len -> a.bytes[b]
                [] b - 1 < xbyte -> blit_byte(a.bytes[b], rp)
                [] b - 1 = xbyte -> cross_byte(a.bytes[b], rp, hi, xbit)
                [] OTHER -> blit_byte(a.bytes[b], hi)]]

(***************************************************************************)
(* References.                                                            *)
(***************************************************************************)
\* bit j (0 the most significant) of a byte, and a blit applied to one bit
bit(x, j) == (x \div 2 ^ (7 - j)) % 2
blit_bit(o, bl, j) == IF bit(bl.or, j) = 1 THEN 1 ELSE o * bit(bl.and, j)

\* the address bit by bit: bit k of the address, counted from the most
\* significant bit of its first byte, is a routing-prefix bit when k < n
BlitReference(a, rp, hi, n) ==
    LET len == ip_size(a.version)
        newbit(b, j) == LET k == 8 * (b - 1) + j
                        IN blit_bit(bit(a.bytes[b], j), IF k < n THEN rp ELSE hi, j)
        byte(b) == LET RECURSIVE sum(_)
                       sum(j) == IF j < 0 THEN 0 ELSE newbit(b, j) * 2 ^ (7 - j) + sum(j - 1)
                   IN sum(7)
    IN IF n > len * 8 THEN unset_address
       ELSE [a EXCEPT !.bytes = [b \in 1..16 |-> IF b > len THEN a.bytes[b] ELSE byte(b)]]

\* a sample of IPv4 addresses (every byte 0x00, 0xa5 or 0xff) and of IPv6
\* ones, as address_from_in_addr() and address_from_in6_addr() make them
V4Bytes == {[b \in 1..16 |-> IF b <= 4 THEN x[b] ELSE 0] : x \in [1..4 -> {0, 165, 255}]}
V6Bytes == {[b \in 1..16 |-> 165], [b \in 1..16 |-> IF b % 3 = 0 THEN 255 ELSE 0]}
SampleAddresses ==
    {address_from_raw(4, x) : x \in V4Bytes} \cup {address_from_raw(6, x) : x \in V6Bytes}

\* the typed addresses among as on which address_blit() computes, for
\* every mask length up to the whole address (and one past it, which the
\* pexpect() refuses) and every pair of blits, what the bit-by-bit reading
\* says
BlitAgreesOn(as) ==
    {a \in as : /\ has_type(a)
               /\ \A rp \in Blits, hi \in Blits :
                    \A n \in 0..(ip_size(a.version) * 8 + 1) :
                      address_blit(a, rp, hi, n) = BlitReference(a, rp, hi, n)}

\* the kind, unset, any or specified, the tests initiate.c makes of a peer
\* address (address_is_unset(), address_is_any(), address_is_specified())
\* give an address
AddressKinds(a) ==
    {k \in {"unset", "any", "specified"} :
        CASE k = "unset" -> address_is_unset(a)
          [] k = "any" -> address_eq_any(a)
          [] OTHER -> address_is_specified(a)}
=============================================================================
