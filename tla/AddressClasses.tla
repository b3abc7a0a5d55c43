--------------------------- MODULE AddressClasses ---------------------------
(***************************************************************************)
(* Which IP addresses the crawler may connect to.  Only the class PUBLIC   *)
(* is told apart: every use of classifyIpAddress compares with it.  An     *)
(* address is the numbers its literal parses to, four octets or eight      *)
(* groups of 16 bits.                                                      *)
(***************************************************************************)
EXTENDS Integers

Octets == 0..255
Groups == 0..65535

V4Addresses == [version : {4}, part : [1..4 -> Octets]]
V6Addresses == [version : {6}, part : [1..8 -> Groups]]

-----------------------------------------------------------------------------
(* The classification of the code. *)

\* classifyIpv4FromNumber, of the first three octets.
PublicV4(a, b, c) ==
    /\ a \notin {0, 10, 127} /\ a < 224
    /\ ~(a = 172 /\ b >= 16 /\ b <= 31)
    /\ ~(a = 192 /\ b = 168)
    /\ ~(a = 169 /\ b = 254)
    /\ ~(a = 100 /\ b >= 64 /\ b <= 127)
    /\ ~(a = 192 /\ b = 0 /\ c \in {0, 2})
    /\ ~(a = 198 /\ b \in {18, 19})
    /\ ~(a = 198 /\ b = 51 /\ c = 100)
    /\ ~(a = 203 /\ b = 0 /\ c = 113)

\* The IPv4 address in two neighbouring groups.
PublicEmbedded(high, low) == PublicV4(high \div 256, high % 256, low \div 256)

\* ::ffff:0:0/96 and 64:ff9b::/96 carry an IPv4 address in their last groups.
Mapped(p) == (\A i \in 1..5 : p[i] = 0) /\ p[6] = 65535
Nat64(p)  == p[1] = 100 /\ p[2] = 65435 /\ \A i \in 3..6 : p[i] = 0

\* classifyIpv6FromValue: the forms that carry an IPv4 address first.
PublicV6(p) ==
    IF Mapped(p) \/ Nat64(p) THEN PublicEmbedded(p[7], p[8])
    ELSE IF p[1] = 8194 THEN PublicEmbedded(p[2], p[3])            \* 2002::/16
    ELSE /\ ~(p[1] = 8193 /\ p[2] \in {0, 3512})                   \* Teredo, 2001:db8::/32
         /\ ~(p[1] >= 65152 /\ p[1] < 65216)                       \* fe80::/10
         /\ ~(p[1] >= 64512 /\ p[1] < 65024)                       \* fc00::/7
         /\ p[1] < 65280                                           \* ff00::/8
         /\ ~(p[1] = 0 /\ p[2] = 0)    \* ::, ::1 and what is left of the zero prefix

\* classifyIpAddress(address) = "PUBLIC".
Public(address) ==
    IF address.version = 4
    THEN PublicV4(address.part[1], address.part[2], address.part[3])
    ELSE PublicV6(address.part)

-----------------------------------------------------------------------------
(* The reference: the reserved blocks, as ranges of networks. *)

\* A network is a /24, numbered in the order of addresses.
Network(a, b, c) == 65536 * a + 256 * b + c

\* The block of so many networks that begins at a.b.c.0.
Block(a, b, c, networks) == [first |-> Network(a, b, c), networks |-> networks]

Within(n, block) == block.first <= n /\ n < block.first + block.networks

\* The blocks that the code names or that its comments quote an RFC for.
ReservedBlocks ==
    { Block(0, 0, 0, 65536),        \* 0.0.0.0/8
      Block(10, 0, 0, 65536),       \* 10.0.0.0/8
      Block(100, 64, 0, 16384),     \* 100.64.0.0/10
      Block(127, 0, 0, 65536),      \* 127.0.0.0/8
      Block(169, 254, 0, 256),      \* 169.254.0.0/16
      Block(172, 16, 0, 4096),      \* 172.16.0.0/12
      Block(192, 0, 0, 1),          \* 192.0.0.0/24
      Block(192, 0, 2, 1),          \* 192.0.2.0/24
      Block(192, 168, 0, 256),      \* 192.168.0.0/16
      Block(198, 18, 0, 512),       \* 198.18.0.0/15
      Block(198, 51, 100, 1),       \* 198.51.100.0/24
      Block(203, 0, 113, 1),        \* 203.0.113.0/24
      Block(224, 0, 0, 1048576),    \* 224.0.0.0/4
      Block(240, 0, 0, 1048576) }   \* 240.0.0.0/4

ReservedV4(a, b, c) == \E block \in ReservedBlocks : Within(Network(a, b, c), block)

\* What an IPv6 address must not be: unspecified, loopback, link-local, unique
\* local, multicast, or an IPv4-mapped form of a reserved IPv4 address.
ReservedV6(p) ==
    \/ (\A i \in 1..7 : p[i] = 0) /\ p[8] \in {0, 1}
    \/ (p[1] >= 65152 /\ p[1] <= 65215) \/ (p[1] >= 64512 /\ p[1] <= 65023) \/ p[1] >= 65280
    \/ /\ \A i \in 1..5 : p[i] = 0
       /\ p[6] = 65535
       /\ ReservedV4(p[7] \div 256, p[7] % 256, p[8] \div 256)

Reserved(address) ==
    IF address.version = 4
    THEN ReservedV4(address.part[1], address.part[2], address.part[3])
    ELSE ReservedV6(address.part)
=============================================================================
