------------------------------- MODULE Lease -------------------------------
(***************************************************************************)
(* What a DHCP client promises to the host it runs on: it asks only for    *)
(* what was offered to this host, and ends with no configuration, with a   *)
(* lease that was granted to it, or with an offer it falls back on, and    *)
(* keeps to that.  Nothing is said of packets, identifiers and time.       *)
(***************************************************************************)
CONSTANTS
  Address, Server,
  None       \* no lease

VARIABLES
  offered, asked, granted,   \* sets of leases, between the servers and this host
  outcome,                   \* "none" so far, "leased", "fallback" or "failed"
  lease                      \* what the interface is configured with

lvars == <<offered, asked, granted, outcome, lease>>

Init ==
  /\ offered = {} /\ asked = {} /\ granted = {}
  /\ outcome = "none" /\ lease = None

Offer(l) ==
  /\ outcome = "none"
  /\ offered' = offered \cup {l}
  /\ UNCHANGED <<asked, granted, outcome, lease>>

Ask(l) ==
  /\ outcome = "none" /\ l \in offered
  /\ asked' = asked \cup {l}
  /\ UNCHANGED <<offered, granted, outcome, lease>>

Grant(l) ==
  /\ outcome = "none" /\ l \in offered \cap asked
  /\ granted' = granted \cup {l}
  /\ UNCHANGED <<offered, asked, outcome, lease>>

Take(l) ==
  /\ outcome = "none" /\ l \in granted
  /\ outcome' = "leased" /\ lease' = l
  /\ UNCHANGED <<offered, asked, granted>>

FallBack(l) ==
  /\ outcome = "none" /\ l \in offered
  /\ outcome' = "fallback" /\ lease' = l
  /\ UNCHANGED <<offered, asked, granted>>

Fail ==
  /\ outcome = "none"
  /\ outcome' = "failed"
  /\ UNCHANGED <<offered, asked, granted, lease>>

Next ==
  \/ \E l \in [ip : Address, server : Server] :
       Offer(l) \/ Ask(l) \/ Grant(l) \/ Take(l) \/ FallBack(l)
  \/ Fail

Spec == Init /\ [][Next]_lvars
===========================================================================
