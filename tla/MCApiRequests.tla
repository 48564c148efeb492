--------------------------- MODULE MCApiRequests ---------------------------
(* One slot and two requests: the second is refused, or it overlaps the     *)
(* handler of the first after the timeout or a hang-up has freed the slot.  *)
EXTENDS ApiRequests
============================================================================
