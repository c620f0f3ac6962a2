------------------------------ MODULE WireFormat ------------------------------
(***************************************************************************)
(* The byte order conversions of src/message.h on a little-endian host,    *)
(* and the one from 64 bits to an int.  A uint64_t is two halves of four   *)
(* bytes, an int is one; htonl and ntohl of the C library reverse the      *)
(* bytes of a half.                                                        *)
(***************************************************************************)
EXTENDS Integers, Sequences

CONSTANT Base  \* values of a byte: 256

ASSUME WireAssumption == Base \in Nat \ {0, 1}

\* Values of a uint32_t.
Half == Base * Base * Base * Base

Low(x) == x % Base
Rest(x) == x \div Base

\* The memory that holds a half, the least significant byte first.
Bytes(x) == <<Low(x), Low(Rest(x)), Low(Rest(Rest(x))), Low(Rest(Rest(Rest(x))))>>
Value(b) == ((b[4] * Base + b[3]) * Base + b[2]) * Base + b[1]

htonl(x) == LET b == Bytes(x) IN Value(<<b[4], b[3], b[2], b[1]>>)

\* Mutant: the two halves keep their places.
htonllHalves(x) == htonl(x \div Half) * Half + htonl(x % Half)

htonll(x) == htonl(x % Half) * Half + htonl(x \div Half)

\* ntohl is htonl.
ntohll(x) == htonl(x % Half) * Half + htonl(x \div Half)

\* The memory that holds a uint64_t.
Memory(x) == Bytes(x % Half) \o Bytes(x \div Half)

\* A uint64_t put into an int: its low half, in two's complement.
AsInt(x) == IF 2 * (x % Half) < Half THEN x % Half ELSE (x % Half) - Half
FitsInt(x) == 2 * x < Half

\* Network order: the most significant byte first in memory.
InNetworkOrder(wire, x) == \A i \in 1 .. 8 : Memory(wire)[i] = Memory(x)[9 - i]
=============================================================================
