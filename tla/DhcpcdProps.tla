---------------------------- MODULE DhcpcdProps ----------------------------
(***************************************************************************)
(* dhcp_utils.c: requests to the dhcpcd daemon and its answers, all passed *)
(* through system properties that every process shares.  A caller writes   *)
(* "ctl.start" or "ctl.stop" and naps until a property has the value it    *)
(* waits for, or until it has napped too often.                            *)
(*                                                                         *)
(* External: init, which handles a ctl property before a nap ends, does    *)
(* nothing to start a service that runs or is being stopped, and reports   *)
(* its state; the daemon, whose hook writes the lease and then the result, *)
(* for a first lease as for a renewed one; and the one-shot renewal, which *)
(* does so too and which nobody stops.                                     *)
(***************************************************************************)
EXTENDS Naturals

CONSTANTS
  Caller,          \* threads or processes that call these functions
  Interface,
  P2p,             \* the interfaces whose name starts with "p2p"
  MaxCalls         \* bound: calls of a behaviour
ASSUME CallsAssumption == MaxCalls \in Nat

VARIABLES
  result,          \* dhcp.<prefix>.result, "" when erased
  svc,             \* init.svc.dhcpcd_<prefix>
  info,            \* the lease in dhcp.<prefix>.*: "none", or its mask "valid" or "invalid"
  told,            \* "yes": the lease is written, its result is not yet
  renewal,         \* "yes": iprenew_<prefix> runs
  call,            \* what each caller does, and what happened since its erasure or ctl.stop
  calls
dvars == <<result, svc, info, told, renewal, call, calls>>
daemon == <<svc, told, renewal>>

get_p2p_interface_replacement(i) == IF i \in P2p THEN "p2p" ELSE i

Prefix == {get_p2p_interface_replacement(i) : i \in Interface}

Ops == {"request", "renew", "stop", "release"}

Waits == {"await_running", "await_result", "await_stopped"}

Rest == [op |-> "none", on |-> "none", pc |-> "done", ret |-> 0, seen |-> {}]

DhcpcdInit ==
  /\ result = [p \in Prefix |-> ""] /\ svc = [p \in Prefix |-> ""]
  /\ info = [p \in Prefix |-> "none"] /\ told = [p \in Prefix |-> "no"]
  /\ renewal = [p \in Prefix |-> "no"]
  /\ call = [c \in Caller |-> Rest] /\ calls = 0

---------------------------------------------------------------------------
(* A caller c, on the properties p *)

At(c, p, pc) == call[c].pc = pc /\ call[c].on = p

Goes(c, pc) == call' = [call EXCEPT ![c].pc = pc]

Returns(c, r) == call' = [call EXCEPT ![c].pc = "done", ![c].ret = r]

Call(c) ==
  /\ call[c].pc = "done" /\ calls < MaxCalls /\ calls' = calls + 1
  /\ \E op \in Ops, i \in Interface :
       call' = [call EXCEPT ![c] =
                  [op |-> op, on |-> get_p2p_interface_replacement(i), pc |-> "begin",
                   ret |-> 0, seen |-> {}]]
  /\ UNCHANGED <<result, info, daemon>>

Observed(f, p, e) ==
  [c \in Caller |-> IF f[c].on = p THEN [f[c] EXCEPT !.seen = @ \cup {e}] ELSE f[c]]

Started(c, p, pc) == call' = Observed([call EXCEPT ![c].pc = pc], p, "start")

\* Mutant: the result of an earlier request stays.
EraseNothing(c, p) ==
  /\ At(c, p, "begin") /\ call[c].op \in {"request", "renew"}
  /\ call' = [call EXCEPT ![c].pc = "start", ![c].seen = {}]
  /\ UNCHANGED <<result, info, calls, daemon>>

Erase(c, p) ==
  /\ At(c, p, "begin") /\ call[c].op \in {"request", "renew"}
  /\ result' = [result EXCEPT ![p] = ""]
  /\ call' = [call EXCEPT ![c].pc = "start", ![c].seen = {}]
  /\ UNCHANGED <<info, calls, daemon>>

Start(c, p) ==
  /\ At(c, p, "start")
  /\ \/ /\ call[c].op = "request" /\ Started(c, p, "await_running")
        /\ svc' = [svc EXCEPT ![p] = IF @ = "stopping" THEN @ ELSE "running"]
        /\ UNCHANGED renewal
     \/ /\ call[c].op = "renew" /\ Started(c, p, "await_result")
        /\ renewal' = [renewal EXCEPT ![p] = "yes"] /\ UNCHANGED svc
  /\ UNCHANGED <<result, info, told, calls>>

SeeRunning(c, p) ==
  /\ At(c, p, "await_running") /\ svc[p] = "running" /\ Goes(c, "await_result")
  /\ UNCHANGED <<result, info, calls, daemon>>

SeeResult(c, p) ==
  /\ At(c, p, "await_result") /\ result[p] # "" /\ Goes(c, "get")
  /\ UNCHANGED <<result, info, calls, daemon>>

\* The property is read again; another caller may have erased it.
GetResult(c, p) ==
  /\ At(c, p, "get")
  /\ IF result[p] = "ok" THEN Goes(c, "fill") ELSE Returns(c, 1)
  /\ UNCHANGED <<result, info, calls, daemon>>

\* fill_ip_info refuses an invalid mask; the renewal does not look at what it returns.
Fill(c, p) ==
  /\ At(c, p, "fill")
  /\ Returns(c, IF info[p] = "invalid" /\ call[c].op = "request" THEN 1 ELSE 0)
  /\ UNCHANGED <<result, info, calls, daemon>>

Stop(c, p) ==
  /\ At(c, p, "begin") /\ call[c].op \in {"stop", "release"}
  /\ call' = [call EXCEPT ![c].pc = "await_stopped",
                          ![c].seen = IF renewal[p] = "yes" THEN {"start"} ELSE {}]
  /\ svc' = [svc EXCEPT ![p] = IF @ \in {"running", "stopping"} THEN "stopping" ELSE "stopped"]
  /\ UNCHANGED <<result, info, told, renewal, calls>>

SeeStopped(c, p) ==
  /\ At(c, p, "await_stopped") /\ svc[p] = "stopped"
  /\ IF call[c].op = "stop" THEN Goes(c, "mark") ELSE Returns(c, 0)
  /\ UNCHANGED <<result, info, calls, daemon>>

\* Mutant: as dhcp_release_lease, which leaves the result as it is.
MarkNothing(c, p) == At(c, p, "mark") /\ Returns(c, 0) /\ UNCHANGED <<result, info, calls, daemon>>

Mark(c, p) ==
  /\ At(c, p, "mark") /\ Returns(c, 0) /\ result' = [result EXCEPT ![p] = "failed"]
  /\ UNCHANGED <<info, calls, daemon>>

GiveUp(c, p) ==
  /\ call[c].pc \in Waits /\ call[c].on = p /\ Returns(c, 1)
  /\ UNCHANGED <<result, info, calls, daemon>>

---------------------------------------------------------------------------
(* Init and the daemon *)

Writes(p) == svc[p] \in {"running", "stopping"} \/ renewal[p] = "yes"

WriteInfo(p) ==
  /\ Writes(p) /\ told[p] = "no" /\ told' = [told EXCEPT ![p] = "yes"]
  /\ \E mask \in {"valid", "invalid"} : info' = [info EXCEPT ![p] = mask]
  /\ UNCHANGED <<result, svc, renewal, call, calls>>

WriteResult(p) ==
  /\ Writes(p)
  /\ \/ told[p] = "yes" /\ result' = [result EXCEPT ![p] = "ok"] /\ call' = Observed(call, p, "ok")
     \/ result' = [result EXCEPT ![p] = "failed"] /\ UNCHANGED call
  /\ told' = [told EXCEPT ![p] = "no"]
  /\ UNCHANGED <<svc, info, renewal, calls>>

\* It exits by itself, or was killed and is reaped.
Ends(p) ==
  /\ svc[p] \in {"running", "stopping"} /\ svc' = [svc EXCEPT ![p] = "stopped"]
  /\ told' = [told EXCEPT ![p] = IF renewal[p] = "yes" THEN @ ELSE "no"]
  /\ UNCHANGED <<result, info, renewal, call, calls>>

RenewalEnds(p) ==
  /\ renewal[p] = "yes" /\ renewal' = [renewal EXCEPT ![p] = "no"]
  /\ told' = [told EXCEPT ![p] = IF svc[p] \in {"running", "stopping"} THEN @ ELSE "no"]
  /\ UNCHANGED <<result, svc, info, call, calls>>

Step(c, p) ==
  \/ Erase(c, p) \/ Start(c, p) \/ SeeRunning(c, p) \/ SeeResult(c, p) \/ GetResult(c, p)
  \/ Fill(c, p) \/ Stop(c, p) \/ SeeStopped(c, p) \/ Mark(c, p) \/ GiveUp(c, p)

DhcpcdNext ==
  \/ \E c \in Caller : Call(c) \/ \E p \in Prefix : Step(c, p)
  \/ \E p \in Prefix : WriteInfo(p) \/ WriteResult(p) \/ Ends(p) \/ RenewalEnds(p)

DhcpcdSpec == DhcpcdInit /\ [][DhcpcdNext]_dvars

---------------------------------------------------------------------------
\* Only dhcp_do_request waits for the daemon, only a stop for its end.
DhcpcdTypeOK ==
  /\ result \in [Prefix -> {"", "ok", "failed"}]
  /\ svc \in [Prefix -> {"", "running", "stopping", "stopped"}]
  /\ info \in [Prefix -> {"none", "valid", "invalid"}]
  /\ told \in [Prefix -> {"yes", "no"}] /\ renewal \in [Prefix -> {"yes", "no"}]
  /\ calls \in 0 .. MaxCalls
  /\ \A c \in Caller :
       /\ call[c].on \in Prefix \cup {"none"} /\ call[c].ret \in {0, 1}
       /\ call[c].pc = "await_running" => call[c].op = "request"
       /\ call[c].pc = "await_stopped" => call[c].op \in {"stop", "release"}
       /\ call[c].pc \in {"await_result", "get", "fill"} => call[c].op \in {"request", "renew"}

\* dhcp_do_request and dhcp_do_request_renew return 0 only for an "ok" that was written
\* after they erased the result, never for one that an earlier request, a daemon stopped
\* since or another caller left in the property.  An "ok" says not to whom it is written:
\* one that comes late, for a request that timed out or for another p2p interface, is
\* taken by the next.
FreshAnswer ==
  \A c \in Caller :
    call[c].op \in {"request", "renew"} /\ call[c].pc = "done" /\ call[c].ret = 0 =>
      "ok" \in call[c].seen

\* After dhcp_stop has returned 0, and as long as nobody starts anything, no result
\* says that there is a lease, whatever the daemon wrote while it was being stopped.
StopForgets ==
  \A c \in Caller :
    call[c].op = "stop" /\ call[c].pc = "done" /\ call[c].ret = 0 /\ "start" \notin call[c].seen =>
      result[call[c].on] # "ok"
===========================================================================
