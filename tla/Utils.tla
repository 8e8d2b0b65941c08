------------------------------- MODULE Utils -------------------------------
(***************************************************************************)
(* getLocalNetworkInterfaces and getInterfaceWithMostSpecificNetmask.  An  *)
(* address is its family, whether it is the localhost address of that      *)
(* family, and the prefix length of its netmask; the text of a netmask is  *)
(* its length, all that the comparison looks at: the regular expression    *)
(* ":|.|0" matches every character, so that each is replaced by an "x".    *)
(***************************************************************************)
EXTENDS Integers, Sequences

CONSTANTS
  Prefixes4,      \* prefix lengths of IPv4 addresses other than localhost
  Prefixes6,      \* the same of IPv6
  MaxInterfaces   \* bound of the model: addresses getifaddrs lists

VARIABLES
  ifAddresses,  \* what getifaddrs returns, in no particular order
  version,      \* required_ip_version
  pc,
  interfaces,   \* the vector that is sorted
  placed,       \* how many entries std::sort has put into place
  chosen        \* what is returned: << >>, or the entry

vars == <<ifAddresses, version, pc, interfaces, placed, chosen>>

(* 127.0.0.1/8 and ::1/128.                                                *)
Localhost ==
  {[family |-> "IPv4", localhost |-> TRUE, prefix |-> 8],
   [family |-> "IPv6", localhost |-> TRUE, prefix |-> 128]}

(* "none": an interface without an address; "packet": a family that is     *)
(* neither IPv4 nor IPv6.                                                  *)
Address ==
  Localhost
    \cup [family : {"IPv4"}, localhost : {FALSE}, prefix : Prefixes4]
    \cup [family : {"IPv6"}, localhost : {FALSE}, prefix : Prefixes6]
    \cup [family : {"none", "packet"}, localhost : {FALSE}, prefix : {0}]

Lists == UNION {[1..n -> Address] : n \in 0..MaxInterfaces}

Init ==
  /\ ifAddresses \in Lists
  /\ version \in {"IPv4", "IPv6"}
  /\ pc = "list"
  /\ interfaces = << >> /\ placed = 0 /\ chosen = << >>

-----------------------------------------------------------------------------
getLocalNetworkInterfaces ==
  /\ pc = "list"
  /\ interfaces' = SelectSeq(ifAddresses, LAMBDA a : a.family = version)
  /\ placed' = 1
  /\ pc' = "sort"
  /\ UNCHANGED <<ifAddresses, version, chosen>>

(* The length of what inet_ntop makes of a netmask: groups of 8 bits in    *)
(* decimal or of 16 bits in hexadecimal.  A group that is not zero has 3   *)
(* or 4 characters, a zero has 1, and two or more zero groups of IPv6 are  *)
(* written "::".                                                           *)
Groups(bits, prefix) == (prefix + bits - 1) \div bits

TextLength(a) ==
  IF a.family = "IPv4" THEN 7 + 2 * Groups(8, a.prefix)
  ELSE LET g == Groups(16, a.prefix) IN
       CASE g = 8 -> 39
         [] g = 7 -> 36
         [] g = 0 -> 2
         [] OTHER -> 5 * g + 1

(* The comparison passed to std::sort.                                     *)
Before(a, b) == b.localhost \/ TextLength(a) > TextLength(b)

(* std::sort of up to 16 entries, as libstdc++ does it: each entry in turn *)
(* goes to the front if it comes before the first one, otherwise back past *)
(* the entries it comes before.  (Before is not a strict weak ordering, so *)
(* that the standard promises nothing; this is what the build does.)       *)
Place(a, done) ==
  IF Before(a, done[1]) THEN 1
  ELSE CHOOSE k \in 2..(Len(done) + 1) :
         /\ ~Before(a, done[k - 1])
         /\ \A j \in k..Len(done) : Before(a, done[j])

Insert ==
  /\ pc = "sort" /\ placed < Len(interfaces)
  /\ LET a == interfaces[placed + 1]
         k == Place(a, SubSeq(interfaces, 1, placed))
     IN interfaces' = SubSeq(interfaces, 1, k - 1) \o <<a>>
                        \o SubSeq(interfaces, k, placed)
                        \o SubSeq(interfaces, placed + 2, Len(interfaces))
  /\ placed' = placed + 1
  /\ UNCHANGED <<ifAddresses, version, pc, chosen>>

(* interfaces.front(), which is undefined for an empty vector.             *)
Front ==
  /\ pc = "sort" /\ placed >= Len(interfaces)
  /\ IF interfaces = << >> THEN \E a \in Address : chosen' = <<a>>
                           ELSE chosen' = <<interfaces[1]>>
  /\ pc' = "done"
  /\ UNCHANGED <<ifAddresses, version, interfaces, placed>>

Next == getLocalNetworkInterfaces \/ Insert \/ Front

Spec == Init /\ [][Next]_vars

-----------------------------------------------------------------------------
(* What a comment of the code says and the code does not do; see the run   *)
(* utils_localhost.                                                        *)

(* "ordering: ip should not be localhost, then prefer more specific        *)
(* netmasks": localhost is chosen only if there is nothing else.           *)
LocalhostIsLast ==
  pc = "done" /\ interfaces # << >> /\ chosen[1].localhost =>
    \A k \in DOMAIN interfaces : interfaces[k].localhost
=============================================================================
