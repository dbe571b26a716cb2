------------------------------- MODULE MCAcl -------------------------------
(* Instance of Acl for TLC: one entry, the entry that differs from it only *)
(* in its pattern, the broad entries whose filters would catch it, and the *)
(* entries that nothing can create.                                        *)
EXTENDS Acl

CONSTANTS Name, Principal, Host, Operation

Exact ==
  [type |-> "supported", pattern |-> "literal", name |-> Name,
   principal |-> Principal, host |-> Host, operation |-> Operation]

SampleEntries ==
  {Exact,
   [Exact EXCEPT !.pattern = "prefixed"],
   [Exact EXCEPT !.pattern = "match"],
   [Exact EXCEPT !.type = "delegation_token"],
   [Exact EXCEPT !.name = Any],
   [Exact EXCEPT !.principal = Any],
   [Exact EXCEPT !.operation = Any]}

(* A broker as it should be, a lite one, and one that may overlook the     *)
(* operation of a filter.                                                  *)
SampleBrokers ==
  {[overlooks |-> {}, lite |-> FALSE],
   [overlooks |-> {}, lite |-> TRUE],
   [overlooks |-> {"operation"}, lite |-> FALSE]}
============================================================================
