------------------------------- MODULE Words -------------------------------
(***************************************************************************)
(* Target addresses and bytes: target_addr_t is uint32_t                   *)
(* (include/drtm/types.h), and all address arithmetic wraps around.        *)
(***************************************************************************)
EXTENDS Integers

CONSTANT AddrSpace   \* the number of target addresses, 2^32 in the code

ASSUME AddrSpaceAssumption == AddrSpace \in Nat \ {0}

Addr == 0 .. AddrSpace - 1
Byte == 0 .. 255

\* The value of a sum or difference of an address and a 16-bit offset.
Wrap(x) == IF x >= AddrSpace THEN x - AddrSpace
           ELSE IF x < 0 THEN x + AddrSpace
           ELSE x
============================================================================
