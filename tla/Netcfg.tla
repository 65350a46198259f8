------------------------------ MODULE Netcfg ------------------------------
(***************************************************************************)
(* netcfg, the commands of one of its lines and the interface functions    *)
(* they call (ifc_utils.c), and test_wifi.sh, which judges the interface   *)
(* by what netcfg prints.                                                  *)
(*                                                                         *)
(* A command is a sequence of operations, most of them one ioctl; another  *)
(* program, the driver, or a user's own netcfg may act between any two.    *)
(***************************************************************************)
EXTENDS Integers, Sequences

CONSTANTS
  Leases,          \* what a DHCP server may grant: address, prefix, gateway and DNS go together
  Lines,           \* command lines a user gives by hand
  MaxLines, MaxOthers   \* bounds: lines by hand, and doings of others

None == "none"

CMDS == {"dhcp", "up", "down", "hwaddr", "flhosts", "deldefault"}

ASSUME LinesAssumption == Lines \subseteq Seq(CMDS) /\ None \notin Leases
ASSUME BoundsAssumption == MaxLines \in Nat /\ MaxOthers \in Nat

VARIABLES
  net,             \* the kernel's side, and the DNS properties
  others,          \* how often others meddled, and whether since the last line began
  sock,            \* ifc_ctl_sock
  status,          \* of the last netcfg: "idle", "running", "ran", "failed"
  asked, done,     \* commands of its line, and those of them that succeeded
  ops,             \* what is left of the current command
  lease,           \* last_good_info
  lines,           \* how many were given
  script, dumps    \* test_wifi.sh, and how it saw the interface
nvars == <<net, others, sock, status, asked, done, ops, lease, lines, script, dumps>>

Grants == Leases \cup {None}

absent == [present |-> "no", up |-> "down", addr |-> None, prefix |-> None, gw |-> None,
           dns |-> None, hosts |-> "none"]

NetcfgInit ==
  /\ net \in {absent, [absent EXCEPT !.present = "yes"],
              [absent EXCEPT !.present = "yes", !.up = "up", !.hosts = "some"]}
  /\ others = [count |-> 0, quiet |-> "yes"]
  /\ sock = "closed" /\ status = "idle" /\ asked = <<>> /\ done = <<>> /\ ops = <<>>
  /\ lease = None /\ lines = 0 /\ script = "off" /\ dumps = <<>>

---------------------------------------------------------------------------
(* The commands.  ifc_configure, the end of "dhcp", opens the socket unless *)
(* it is open; the route is added by a function that opens and closes it.   *)

SimpleOps(c) ==
  CASE c = "up" -> <<"raise">>
    [] c = "down" -> <<"lower">>
    [] c = "hwaddr" -> <<"hwaddr">>
    [] c = "flhosts" -> <<"table", "init", "flush", "close">>
    [] c = "deldefault" -> <<"init", "delroute", "close">>

Ask == <<"raise", "look", "lease">>

\* Mutant: the route is added before the prefix length is set.
OpsRouteFirst(c) ==
  IF c = "dhcp"
  THEN <<"addr0">> \o Ask \o <<"init", "raise", "addr", "route", "prefix", "close", "dns">>
  ELSE SimpleOps(c)

ifc_configure == <<"init", "raise", "addr", "prefix", "init", "route", "close", "dns">>

\* Mutant: the old address stays until the new one is known.
OpsKeepAddress(c) == IF c = "dhcp" THEN Ask \o ifc_configure ELSE SimpleOps(c)

\* Mutant: the function that adds the route leaves the socket open.
OpsLeaveOpen(c) ==
  IF c = "dhcp"
  THEN <<"addr0">> \o Ask \o <<"init", "raise", "addr", "prefix", "init", "route", "dns">>
  ELSE SimpleOps(c)

OpsOf(c) == IF c = "dhcp" THEN <<"addr0">> \o Ask \o ifc_configure ELSE SimpleOps(c)

Running == status = "running"
AtOp(op) == Running /\ ops # <<>> /\ Head(ops) = op
Reached == sock = "open" /\ net.present = "yes"

\* The next operation; the command is done when none is left.
Proceed ==
  /\ ops' = Tail(ops)
  /\ done' = IF Len(ops) = 1 THEN Append(done, asked[Len(done) + 1]) ELSE done
  /\ UNCHANGED <<others, status, asked, lines, script, dumps>>

\* An ioctl on the interface that leaves it as n.
Ioctl(op, n) == AtOp(op) /\ Reached /\ net' = n /\ Proceed /\ UNCHANGED <<sock, lease>>

OpenSocket == AtOp("init") /\ sock' = "open" /\ Proceed /\ UNCHANGED <<net, lease>>
CloseSocket == AtOp("close") /\ sock' = "closed" /\ Proceed /\ UNCHANGED <<net, lease>>

Raise == Ioctl("raise", [net EXCEPT !.up = "up"])

\* The kernel drops the routes of an interface that goes down or loses its
\* address, which for a moment it does with every change of either part of it.
Lower == Ioctl("lower", [net EXCEPT !.up = "down", !.gw = None, !.hosts = "none"])
ClearAddr ==
  Ioctl("addr0", [net EXCEPT !.addr = None, !.prefix = None, !.gw = None, !.hosts = "none"])
SetAddr ==
  Ioctl("addr", [net EXCEPT !.addr = lease, !.prefix = "class", !.gw = None, !.hosts = "none"])
SetPrefix ==
  /\ net.addr # None
  /\ Ioctl("prefix", [net EXCEPT !.prefix = lease, !.gw = None, !.hosts = "none"])

\* The gateway must be within reach.
AddRoute ==
  /\ net.up = "up" /\ net.addr # None
  /\ Ioctl("route", [net EXCEPT !.gw = lease])

Look == Ioctl("look", net)
SetHwaddr == Ioctl("hwaddr", net)

DelRoute == net.gw # None /\ Ioctl("delroute", [net EXCEPT !.gw = None])

\* A route that cannot be removed is only reported.
FlushHosts ==
  /\ AtOp("flush")
  /\ \E left \in {net.hosts, "none"} :
       net' = IF Reached THEN [net EXCEPT !.hosts = left] ELSE net
  /\ Proceed /\ UNCHANGED <<sock, lease>>

ReadTable == AtOp("table") /\ Proceed /\ UNCHANGED <<net, sock, lease>>

\* dhcp_init_ifc gets an answer from some server.
GetLease ==
  /\ AtOp("lease") /\ net.present = "yes" /\ net.up = "up"
  /\ lease' \in Leases
  /\ Proceed /\ UNCHANGED <<net, sock>>

SetDns ==
  /\ AtOp("dns") /\ net' = [net EXCEPT !.dns = lease]
  /\ Proceed /\ UNCHANGED <<sock, lease>>

\* Anything that asks the kernel may fail, on a closed socket it must; netcfg then
\* closes the socket and exits, the rest of the line undone.
Refused ==
  /\ Running /\ ops # <<>>
  /\ Head(ops) \notin {"init", "close", "flush", "dns"}
  /\ status' = "failed" /\ ops' = <<>> /\ sock' = "closed"
  /\ UNCHANGED <<net, others, asked, done, lease, lines, script, dumps>>

---------------------------------------------------------------------------
(* netcfg's main *)

StartLine(line) ==
  /\ ~Running
  /\ asked' = line /\ done' = <<>> /\ ops' = <<>>
  /\ others' = [others EXCEPT !.quiet = "yes"]
  /\ status' = "running" /\ sock' = "open" /\ lease' = None
  /\ UNCHANGED net

NextCommand ==
  /\ Running /\ ops = <<>> /\ Len(done) < Len(asked)
  /\ ops' = OpsOf(asked[Len(done) + 1])
  /\ UNCHANGED <<net, others, sock, status, asked, done, lease, lines, script, dumps>>

LineDone ==
  /\ Running /\ ops = <<>> /\ done = asked
  /\ status' = "ran" /\ sock' = "closed"
  /\ UNCHANGED <<net, others, asked, done, ops, lease, lines, script, dumps>>

\* A user's own line.
ByHand ==
  /\ script = "off" /\ lines < MaxLines
  /\ \E line \in Lines : StartLine(line)
  /\ lines' = lines + 1 /\ UNCHANGED <<script, dumps>>

Others ==
  /\ others.count < MaxOthers
  /\ others' = [count |-> others.count + 1, quiet |-> "no"]
  /\ net' \in IF net.present = "no" THEN {[net EXCEPT !.present = "yes"]}
             ELSE IF net.up = "down"
             THEN {[net EXCEPT !.up = "up"], [absent EXCEPT !.dns = net.dns]}
             ELSE {[net EXCEPT !.up = "down", !.gw = None, !.hosts = "none"],
                   [absent EXCEPT !.dns = net.dns]}
  /\ UNCHANGED <<sock, status, asked, done, ops, lease, lines, script, dumps>>

---------------------------------------------------------------------------
(* test_wifi.sh: a dump, then "up" or "down" and "up", each with a dump *)

\* netcfg without arguments prints the interfaces there are, and wlan0 as UP or DOWN.
Dump == IF net.present = "no" THEN "absent" ELSE IF net.up = "up" THEN "UP" ELSE "DOWN"

See(d, then) ==
  /\ dumps' = Append(dumps, d) /\ script' = then
  /\ UNCHANGED <<net, others, sock, status, asked, done, ops, lease, lines>>

TestWifi ==
  /\ script = "off" /\ lines = 0
  /\ See(Dump, CASE Dump = "absent" -> "failed" [] Dump = "DOWN" -> "up" [] OTHER -> "down")

CallNetcfg ==
  \/ script = "down" /\ StartLine(<<"down">>) /\ script' = "lowered" /\ UNCHANGED <<lines, dumps>>
  \/ script = "up" /\ StartLine(<<"up">>) /\ script' = "raised" /\ UNCHANGED <<lines, dumps>>

\* Mutant: it is enough that the interface is up at the end.
SeeLoweredAny == script = "lowered" /\ ~Running /\ See(Dump, "up")

SeeLowered ==
  /\ script = "lowered" /\ ~Running
  /\ See(Dump, IF Dump = "DOWN" THEN "up" ELSE "failed")

SeeRaised ==
  /\ script = "raised" /\ ~Running
  /\ See(Dump, IF Dump = "UP" THEN "ok" ELSE "failed")

---------------------------------------------------------------------------
Netcfg ==
  \/ NextCommand \/ LineDone \/ Refused
  \/ OpenSocket \/ CloseSocket \/ Raise \/ Lower \/ ClearAddr \/ SetAddr \/ SetPrefix
  \/ AddRoute \/ DelRoute \/ FlushHosts \/ ReadTable \/ Look \/ SetHwaddr \/ GetLease \/ SetDns

NetcfgNext == Netcfg \/ ByHand \/ Others \/ TestWifi \/ CallNetcfg \/ SeeLowered \/ SeeRaised

NetcfgSpec == NetcfgInit /\ [][NetcfgNext]_nvars

---------------------------------------------------------------------------
NetcfgTypeOK ==
  /\ net \in [present : {"yes", "no"}, up : {"up", "down"}, addr : Grants,
              prefix : Grants \cup {"class"}, gw : Grants, dns : Grants, hosts : {"some", "none"}]
  /\ others \in [count : 0 .. MaxOthers, quiet : {"yes", "no"}]
  /\ sock \in {"open", "closed"} /\ status \in {"idle", "running", "ran", "failed"}
  /\ lease \in Grants /\ Len(done) <= Len(asked) /\ (ops # <<>> => Len(done) < Len(asked))
  /\ lines \in 0 .. MaxLines
  /\ script \in {"off", "up", "down", "lowered", "raised", "ok", "failed"}

\* After a "dhcp" that succeeded, undisturbed, the interface is up with address,
\* prefix length, default route and DNS servers of one and the same lease: no step
\* of do_dhcp and ifc_configure undoes what an earlier one did.
Configured ==
  Running /\ ops = <<>> /\ done # <<>> /\ done[Len(done)] = "dhcp" /\ others.quiet = "yes" =>
    /\ lease # None /\ net.up = "up"
    /\ net.addr = lease /\ net.prefix = lease /\ net.gw = lease /\ net.dns = lease

\* From its first step on "dhcp" leaves no address or route of an earlier lease,
\* wherever it fails.
NoOldLease ==
  status # "idle" /\ asked # <<>> /\ asked[1] = "dhcp" /\ done = <<>> /\ ops # <<>>
  /\ Len(ops) < Len(OpsOf("dhcp")) =>
    /\ net.addr \in {None, lease} /\ net.gw \in {None, lease}

\* netcfg opens the socket once for a line, and some of the commands close it: a
\* line with another command after them, other than one that opens it itself,
\* never succeeds.
SocketLost ==
  status = "ran" =>
    \A i, j \in DOMAIN asked :
      i < j /\ asked[i] \in {"dhcp", "flhosts", "deldefault"} =>
        asked[j] \in {"flhosts", "deldefault"}

\* "wifi_test ok" says that the interface was seen up after it was seen down.
WifiOk ==
  script = "ok" => \E i, j \in DOMAIN dumps : i < j /\ dumps[i] = "DOWN" /\ dumps[j] = "UP"
===========================================================================
