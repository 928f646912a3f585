----------------------------- MODULE Forwarded ------------------------------
(***************************************************************************)
(* Who the client is when other proxies stand in front of Harmost          *)
(* (src/net/forwarded.rs).                                                 *)
(*                                                                         *)
(* An address is a family and a number of V4Bits or V6Bits bits; the IPv6  *)
(* addresses whose upper bits are MappedPrefix carry an IPv4 address.  A   *)
(* forwarding header is the sequence of its elements over all its lines;   *)
(* an element that names no address ("unknown", an obfuscated token) is    *)
(* the empty set.                                                          *)
(***************************************************************************)
EXTENDS Schema

CONSTANTS V4Bits, V6Bits, MappedPrefix

ASSUME AddressAssumption ==
    /\ V4Bits \in Nat /\ V6Bits \in Nat /\ V4Bits <= V6Bits
    /\ MappedPrefix \in 0..(2^(V6Bits - V4Bits) - 1)

V4(bits) == [family |-> "v4", bits |-> bits]
V6(bits) == [family |-> "v6", bits |-> bits]
bit_width(family) == IF family = "v4" THEN V4Bits ELSE V6Bits

\* The IPv4 address an IPv6 one carries, if it does.
to_ipv4_mapped(address) ==
    IF address.bits \div 2^V4Bits = MappedPrefix THEN {V4(address.bits % 2^V4Bits)} ELSE {}
-----------------------------------------------------------------------------
(* Cidr *)

\* A block as written: an address and perhaps a prefix length.
Block(address, prefix) == [address |-> {address}, prefix |-> prefix]

Cidr_parse(raw) ==
    {cidr \in {[network |-> address,
                prefix |-> IF raw.prefix = {} THEN bit_width(address.family) ELSE The(raw.prefix)] :
                    address \in raw.address} :
        cidr.prefix <= bit_width(cidr.network.family)}

\* Are the leading prefix bits of two addresses of this width the same?
prefix_eq(a, b, prefix, bits) == a \div 2^(bits - prefix) = b \div 2^(bits - prefix)

contains(cidr, address) ==
    LET same_family(other) ==
            prefix_eq(cidr.network.bits, other.bits, cidr.prefix, bit_width(other.family))
    IN  IF cidr.network.family = address.family
        THEN same_family(address)
        ELSE cidr.network.family = "v4" /\ \E mapped \in to_ipv4_mapped(address) : same_family(mapped)
-----------------------------------------------------------------------------
(* TrustPolicy *)

TrustPolicy(proxies) ==
    [blocks |-> UNION {Cidr_parse(raw) : raw \in proxies.from},
     client_ip |-> proxies.client_ip, scheme |-> proxies.scheme]

trusts(policy, address) == \E block \in policy.blocks : contains(block, address)

\* The elements that name an address, in order.
parse_chain(elements) ==
    LET named == SelectSeq(elements, LAMBDA e : e # {})
    IN  [i \in DOMAIN named |-> The(named[i])]

parse_x_forwarded_for(headers) == parse_chain(headers.x_forwarded_for)
parse_forwarded_for(headers) ==
    parse_chain([i \in DOMAIN headers.forwarded |-> headers.forwarded[i].for])

\* The first address, as a reader of the header might take it.
walk_forward(policy, chain) == IF chain = <<>> THEN {} ELSE {chain[1]}

\* The last address that is not a trusted hop's; the first when all are.
walk_back(policy, chain) ==
    LET strangers == {i \in DOMAIN chain : ~trusts(policy, chain[i])}
    IN  IF strangers # {}
        THEN {chain[CHOOSE i \in strangers : \A j \in strangers : j <= i]}
        ELSE IF chain = <<>> THEN {} ELSE {chain[1]}

forwarded_client(policy, headers) ==
    CASE policy.client_ip = "none" -> {}
      [] policy.client_ip = "x_forwarded" -> walk_back(policy, parse_x_forwarded_for(headers))
      [] policy.client_ip = "forwarded" -> walk_back(policy, parse_forwarded_for(headers))

normalize_scheme(raw) == {raw} \cap {"http", "https"}

\* The leftmost element is the hop next to the client: it knows what was dialled.
forwarded_scheme(policy, headers) ==
    LET raw == CASE policy.scheme = "none" -> {}
                 [] policy.scheme = "x_forwarded" -> headers.x_forwarded_proto
                 [] policy.scheme = "forwarded" ->
                        IF headers.forwarded = <<>> THEN {} ELSE headers.forwarded[1].proto
    IN  UNION {normalize_scheme(text) : text \in raw}

or_else(preferred, fallback) == IF preferred = {} THEN fallback ELSE preferred

\* Headers count only when the peer has an address and it is trusted.
resolve_client(policy, peer, headers, listener) ==
    IF \A address \in peer : ~trusts(policy, address)
    THEN [client_ip |-> peer, scheme |-> listener, peer_trusted |-> FALSE]
    ELSE [client_ip |-> or_else(forwarded_client(policy, headers), peer),
          scheme |-> The(or_else(forwarded_scheme(policy, headers), {listener})),
          peer_trusted |-> TRUE]
=============================================================================
