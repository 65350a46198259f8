-------------------------- MODULE NetutilsProofs ---------------------------
(***************************************************************************)
(* Proofs about libnetutils: netcfg, for every set of leases, every set of *)
(* lines a user may give, of any length, and any number of them and of the *)
(* doings of others; and the property protocol of dhcpcd, for any number   *)
(* of callers and interfaces.                                              *)
(***************************************************************************)
EXTENDS Netcfg, DhcpcdProps, TLAPS

(* netcfg *)

\* The operations commands are made of.
OpNames ==
  {"addr0", "raise", "look", "lease", "init", "addr", "prefix", "route", "close", "dns",
   "lower", "hwaddr", "table", "flush", "delroute"}

\* Two sequences of operations, one after the other.
LEMMA Joined ==
  ASSUME NEW s \in Seq(OpNames), NEW t \in Seq(OpNames)
  PROVE  /\ s \o t \in Seq(OpNames) /\ Len(s \o t) = Len(s) + Len(t)
         /\ \A i \in 1 .. Len(s) : (s \o t)[i] = s[i]
         /\ \A i \in 1 .. Len(t) : (s \o t)[Len(s) + i] = t[i]
OBVIOUS

\* What OpsOf gives for each command, operation by operation.
IsDhcp(s) ==
  /\ s \in Seq(OpNames) /\ Len(s) = 12
  /\ s[1] = "addr0" /\ s[2] = "raise" /\ s[3] = "look" /\ s[4] = "lease"
  /\ s[5] = "init" /\ s[6] = "raise" /\ s[7] = "addr" /\ s[8] = "prefix"
  /\ s[9] = "init" /\ s[10] = "route" /\ s[11] = "close" /\ s[12] = "dns"

\* "dhcp" is do_dhcp and then ifc_configure, twelve operations.
LEMMA DhcpOps == IsDhcp(OpsOf("dhcp"))
<1>. DEFINE first == <<"addr0">> \o Ask
<1>1. first \in Seq(OpNames) /\ Len(first) = 4 /\ first[1] = "addr0" /\ first[2] = "raise"
      /\ first[3] = "look" /\ first[4] = "lease"
  <2>. DEFINE one == <<"addr0">>
  <2>1. /\ one \in Seq(OpNames) /\ Len(one) = 1 /\ one[1] = "addr0"
        /\ Ask \in Seq(OpNames) /\ Len(Ask) = 3
        /\ Ask[1] = "raise" /\ Ask[2] = "look" /\ Ask[3] = "lease"
    BY DEF Ask, OpNames
  <2>. HIDE DEF one
  <2>. DEFINE begin == one \o Ask
  <2>2. /\ begin \in Seq(OpNames) /\ Len(begin) = Len(one) + Len(Ask)
        /\ \A i \in 1 .. Len(one) : begin[i] = one[i]
        /\ \A i \in 1 .. Len(Ask) : begin[Len(one) + i] = Ask[i]
    BY <2>1, Joined, Zenon
  <2>. HIDE DEF begin
  <2>3. /\ begin[1] = one[1] /\ begin[1 + 1] = Ask[1] /\ begin[1 + 2] = Ask[2]
        /\ begin[1 + 3] = Ask[3] /\ Len(begin) = 4
    BY <2>1, <2>2
  <2>. QED
    BY <2>1, <2>2, <2>3 DEF begin, one
<1>2. /\ ifc_configure \in Seq(OpNames) /\ Len(ifc_configure) = 8
      /\ ifc_configure[1] = "init" /\ ifc_configure[2] = "raise" /\ ifc_configure[3] = "addr"
      /\ ifc_configure[4] = "prefix" /\ ifc_configure[5] = "init" /\ ifc_configure[6] = "route"
      /\ ifc_configure[7] = "close" /\ ifc_configure[8] = "dns"
  BY DEF ifc_configure, OpNames
<1>3. OpsOf("dhcp") = first \o ifc_configure
  BY Zenon DEF OpsOf
<1>. HIDE DEF first
<1>. DEFINE all == first \o ifc_configure
<1>4. /\ all \in Seq(OpNames) /\ Len(all) = Len(first) + Len(ifc_configure)
      /\ \A i \in 1 .. Len(first) : all[i] = first[i]
      /\ \A i \in 1 .. Len(ifc_configure) : all[Len(first) + i] = ifc_configure[i]
  BY <1>1, <1>2, Joined, Zenon
<1>. HIDE DEF all
<1>5. /\ all[1] = first[1] /\ all[2] = first[2] /\ all[3] = first[3] /\ all[4] = first[4]
      /\ all[4 + 1] = ifc_configure[1] /\ all[4 + 2] = ifc_configure[2]
      /\ all[4 + 3] = ifc_configure[3] /\ all[4 + 4] = ifc_configure[4]
      /\ all[4 + 5] = ifc_configure[5] /\ all[4 + 6] = ifc_configure[6]
      /\ all[4 + 7] = ifc_configure[7] /\ all[4 + 8] = ifc_configure[8]
  BY <1>1, <1>2, <1>4
<1>6. IsDhcp(all)
  BY <1>1, <1>2, <1>4, <1>5 DEF IsDhcp
<1>. QED
  BY <1>3, <1>6 DEF all

IsFlush(s) ==
  s \in Seq(OpNames) /\ Len(s) = 4 /\ s[1] = "table" /\ s[2] = "init" /\ s[3] = "flush" /\ s[4] = "close"
IsDelete(s) ==
  s \in Seq(OpNames) /\ Len(s) = 3 /\ s[1] = "init" /\ s[2] = "delroute" /\ s[3] = "close"
IsOne(s, op) == s \in Seq(OpNames) /\ Len(s) = 1 /\ s[1] = op

\* The operations of "dhcp" by their place.
LEMMA DhcpAt ==
  ASSUME NEW s, IsDhcp(s), NEW k \in 1 .. 12
  PROVE  \/ k = 1 /\ s[k] = "addr0"
         \/ k = 2 /\ s[k] = "raise"
         \/ k = 3 /\ s[k] = "look"
         \/ k = 4 /\ s[k] = "lease"
         \/ k = 5 /\ s[k] = "init"
         \/ k = 6 /\ s[k] = "raise"
         \/ k = 7 /\ s[k] = "addr"
         \/ k = 8 /\ s[k] = "prefix"
         \/ k = 9 /\ s[k] = "init"
         \/ k = 10 /\ s[k] = "route"
         \/ k = 11 /\ s[k] = "close"
         \/ k = 12 /\ s[k] = "dns"
<1>1. k = 1 \/ k = 2 \/ k = 3 \/ k = 4 \/ k = 5 \/ k = 6
      \/ k = 7 \/ k = 8 \/ k = 9 \/ k = 10 \/ k = 11 \/ k = 12
  OBVIOUS
<1>. QED
  BY <1>1 DEF IsDhcp

\* The operations of the other commands.
LEMMA OtherOps ==
  /\ IsOne(OpsOf("up"), "raise") /\ IsOne(OpsOf("down"), "lower") /\ IsOne(OpsOf("hwaddr"), "hwaddr")
  /\ IsFlush(OpsOf("flhosts")) /\ IsDelete(OpsOf("deldefault"))
<1>1. /\ OpsOf("up") = <<"raise">> /\ OpsOf("down") = <<"lower">> /\ OpsOf("hwaddr") = <<"hwaddr">>
      /\ OpsOf("flhosts") = <<"table", "init", "flush", "close">>
      /\ OpsOf("deldefault") = <<"init", "delroute", "close">>
  BY DEF OpsOf, SimpleOps
<1>2. IsOne(<<"raise">>, "raise") /\ IsOne(<<"lower">>, "lower") /\ IsOne(<<"hwaddr">>, "hwaddr")
  BY DEF IsOne, OpNames
<1>3. IsFlush(<<"table", "init", "flush", "close">>)
  BY DEF IsFlush, OpNames
<1>4. IsDelete(<<"init", "delroute", "close">>)
  BY DEF IsDelete, OpNames
<1>. QED
  BY <1>1, <1>2, <1>3, <1>4, Zenon

\* Every command has an operation.
LEMMA SomeOps == ASSUME NEW c \in CMDS PROVE OpsOf(c) \in Seq(OpNames) /\ OpsOf(c) # <<>>
  BY DhcpOps, OtherOps, SMTT(60) DEF CMDS, IsDhcp, IsOne, IsFlush, IsDelete

---------------------------------------------------------------------------
(* Where netcfg is in its line and in the current command *)

Cur == asked[Len(done) + 1]
Closing == {"dhcp", "flhosts", "deldefault"}

LineInv ==
  /\ ops \in Seq(OpNames) /\ asked \in Seq(CMDS) /\ done \in Seq(CMDS)
  /\ Len(done) <= Len(asked) /\ \A i \in 1 .. Len(done) : done[i] = asked[i]
  /\ ops # <<>> => Running /\ Len(done) < Len(asked) /\ Len(ops) <= Len(OpsOf(Cur))
  /\ \A n \in 1 .. Len(ops) : ops[n] = OpsOf(Cur)[Len(OpsOf(Cur)) - Len(ops) + n]

\* What is next of the current command, by the number of operations left.
LEMMA NextOp ==
  ASSUME LineInv, ops # <<>>
  PROVE  /\ Cur \in CMDS /\ Len(ops) \in Nat \ {0} /\ Head(ops) = ops[1]
         /\ Cur = "up" => (Len(ops) = 1 /\ ops[1] = "raise")
         /\ Cur = "down" => (Len(ops) = 1 /\ ops[1] = "lower")
         /\ Cur = "hwaddr" => (Len(ops) = 1 /\ ops[1] = "hwaddr")
         /\ Cur = "flhosts" =>
               \/ (Len(ops) = 4 /\ ops[1] = "table") \/ (Len(ops) = 3 /\ ops[1] = "init")
               \/ (Len(ops) = 2 /\ ops[1] = "flush") \/ (Len(ops) = 1 /\ ops[1] = "close")
         /\ Cur = "deldefault" =>
               \/ (Len(ops) = 3 /\ ops[1] = "init") \/ (Len(ops) = 2 /\ ops[1] = "delroute")
               \/ (Len(ops) = 1 /\ ops[1] = "close")
         /\ Cur = "dhcp" =>
               \/ (Len(ops) = 12 /\ ops[1] = "addr0") \/ (Len(ops) = 11 /\ ops[1] = "raise")
               \/ (Len(ops) = 10 /\ ops[1] = "look") \/ (Len(ops) = 9 /\ ops[1] = "lease")
               \/ (Len(ops) = 8 /\ ops[1] = "init") \/ (Len(ops) = 7 /\ ops[1] = "raise")
               \/ (Len(ops) = 6 /\ ops[1] = "addr") \/ (Len(ops) = 5 /\ ops[1] = "prefix")
               \/ (Len(ops) = 4 /\ ops[1] = "init") \/ (Len(ops) = 3 /\ ops[1] = "route")
               \/ (Len(ops) = 2 /\ ops[1] = "close") \/ (Len(ops) = 1 /\ ops[1] = "dns")
<1>1. Cur \in CMDS /\ Len(ops) \in Nat \ {0} /\ Head(ops) = ops[1]
  BY DEF LineInv, Cur
<1>2. Len(ops) <= Len(OpsOf(Cur)) /\ ops[1] = OpsOf(Cur)[Len(OpsOf(Cur)) - Len(ops) + 1]
  BY <1>1 DEF LineInv
<1>. DEFINE L == Len(ops)
             s == OpsOf(Cur)
             op == ops[1]
<1>3. L \in Nat \ {0} /\ L <= Len(s) /\ op = s[Len(s) - L + 1]
  BY <1>1, <1>2
<1>4. ASSUME Cur = "dhcp" PROVE IsDhcp(s)
  BY <1>4, DhcpOps
<1>5. /\ Cur = "up" => IsOne(s, "raise")
      /\ Cur = "down" => IsOne(s, "lower")
      /\ Cur = "hwaddr" => IsOne(s, "hwaddr")
      /\ Cur = "flhosts" => IsFlush(s)
      /\ Cur = "deldefault" => IsDelete(s)
  BY OtherOps
<1>. HIDE DEF L, s, op
<1>6. ASSUME IsDhcp(s)
      PROVE  \/ (L = 12 /\ op = "addr0") \/ (L = 11 /\ op = "raise") \/ (L = 10 /\ op = "look")
             \/ (L = 9 /\ op = "lease") \/ (L = 8 /\ op = "init") \/ (L = 7 /\ op = "raise")
             \/ (L = 6 /\ op = "addr") \/ (L = 5 /\ op = "prefix") \/ (L = 4 /\ op = "init")
             \/ (L = 3 /\ op = "route") \/ (L = 2 /\ op = "close") \/ (L = 1 /\ op = "dns")
  <2>1. Len(s) = 12
    BY <1>6 DEF IsDhcp
  <2>. DEFINE k == 13 - L
  <2>2. L = 13 - k /\ k \in 1 .. 12 /\ Len(s) - L + 1 = k
    BY <1>3, <2>1
  <2>3. op = s[k]
    BY <1>3, <2>2, Zenon
  <2>. HIDE DEF k
  <2>. QED
    BY <1>6, <2>2, <2>3, DhcpAt
<1>7. ASSUME NEW o, IsOne(s, o) PROVE L = 1 /\ op = o
  <2>1. Len(s) = 1 /\ s[1] = o
    BY <1>7 DEF IsOne
  <2>2. L = 1 /\ Len(s) - L + 1 = 1
    BY <1>3, <2>1
  <2>. QED
    BY <1>3, <2>1, <2>2, Zenon
<1>8. ASSUME IsFlush(s)
      PROVE  \/ (L = 4 /\ op = "table") \/ (L = 3 /\ op = "init")
             \/ (L = 2 /\ op = "flush") \/ (L = 1 /\ op = "close")
  <2>1. Len(s) = 4 /\ s[1] = "table" /\ s[2] = "init" /\ s[3] = "flush" /\ s[4] = "close"
    BY <1>8 DEF IsFlush
  <2>. QED
    BY <1>3, <2>1
<1>9. ASSUME IsDelete(s)
      PROVE  (L = 3 /\ op = "init") \/ (L = 2 /\ op = "delroute") \/ (L = 1 /\ op = "close")
  <2>1. Len(s) = 3 /\ s[1] = "init" /\ s[2] = "delroute" /\ s[3] = "close"
    BY <1>9 DEF IsDelete
  <2>. QED
    BY <1>3, <2>1
<1>10. /\ Cur = "up" => (L = 1 /\ op = "raise")
       /\ Cur = "down" => (L = 1 /\ op = "lower")
       /\ Cur = "hwaddr" => (L = 1 /\ op = "hwaddr")
  BY <1>5, <1>7, Zenon
<1>11. /\ Cur = "flhosts" =>
            \/ (L = 4 /\ op = "table") \/ (L = 3 /\ op = "init")
            \/ (L = 2 /\ op = "flush") \/ (L = 1 /\ op = "close")
       /\ Cur = "deldefault" =>
            (L = 3 /\ op = "init") \/ (L = 2 /\ op = "delroute") \/ (L = 1 /\ op = "close")
  BY <1>5, <1>8, <1>9, Zenon
<1>. QED
  BY <1>1, <1>4, <1>6, <1>10, <1>11, Zenon DEF L, op

\* An operation moves on in the command, or completes it.
LEMMA ProceedStep ==
  ASSUME LineInv, ops # <<>>, Proceed
  PROVE  /\ LineInv' /\ Running' = Running
         /\ Len(ops) = 1 => /\ ops' = <<>> /\ done' # <<>> /\ Len(done') = Len(done) + 1
                            /\ done'[Len(done')] = Cur
         /\ Len(ops) > 1 => ops' # <<>> /\ done' = done /\ Cur' = Cur /\ Len(ops') = Len(ops) - 1
<1>1. /\ Len(ops) \in Nat \ {0} /\ ops' \in Seq(OpNames) /\ Len(ops') = Len(ops) - 1
      /\ \A n \in 1 .. Len(ops') : ops'[n] = ops[n + 1]
      /\ asked' = asked /\ status' = status
  BY DEF LineInv, Proceed
<1>2. CASE Len(ops) = 1
  <2>1. done' = Append(done, Cur) /\ Cur \in CMDS /\ ops' = <<>>
    BY <1>1, <1>2, NextOp DEF Proceed, Cur
  <2>2. /\ done' \in Seq(CMDS) /\ Len(done') = Len(done) + 1 /\ done'[Len(done) + 1] = Cur
        /\ \A i \in 1 .. Len(done) : done'[i] = done[i]
    BY <2>1 DEF LineInv
  <2>3. Len(done) \in Nat /\ Len(asked) \in Nat /\ Len(done) < Len(asked)
    BY DEF LineInv
  <2>4. \A i \in 1 .. Len(done') : done'[i] = asked'[i]
    BY <1>1, <2>2, <2>3, SMTT(60) DEF LineInv, Cur
  <2>5. Len(done') <= Len(asked') /\ asked' \in Seq(CMDS)
    BY <1>1, <2>2, <2>3 DEF LineInv
  <2>6. ops' = <<>> /\ \A n \in 1 .. Len(ops') : ops'[n] = OpsOf(Cur')[Len(OpsOf(Cur')) - Len(ops') + n]
    BY <1>1, <1>2, <2>1
  <2>7. LineInv'
    BY <1>1, <2>2, <2>4, <2>5, <2>6 DEF LineInv
  <2>. QED
    BY <1>1, <1>2, <2>1, <2>2, <2>3, <2>7 DEF Running
<1>3. CASE Len(ops) > 1
  <2>0. done' = done
    BY <1>1, <1>3, SMTT(60) DEF Proceed
  <2>1. done' = done /\ Cur' = Cur
    BY <1>1, <2>0, Zenon DEF Cur
  <2>. Len(ops') # 0 /\ ops' # <<>>
    BY <1>1, <1>3
  <2>2. Len(OpsOf(Cur)) \in Nat
    BY NextOp, SomeOps
  <2>3. \A n \in 1 .. Len(ops') : ops'[n] = OpsOf(Cur)[Len(OpsOf(Cur)) - Len(ops') + n]
    <3> TAKE n \in 1 .. Len(ops')
    <3>1. n + 1 \in 1 .. Len(ops)
      BY <1>1
    <3>2. ops'[n] = OpsOf(Cur)[Len(OpsOf(Cur)) - Len(ops) + (n + 1)]
      BY <1>1, <3>1 DEF LineInv
    <3>3. Len(OpsOf(Cur)) - Len(ops) + (n + 1) = Len(OpsOf(Cur)) - Len(ops') + n
      BY <1>1, <2>2
    <3>. QED
      BY <3>2, <3>3
  <2>4. LineInv'
    BY <1>1, <2>1, <2>2, <2>3 DEF LineInv, Running
  <2>. QED
    BY <1>1, <1>3, <2>1, <2>4 DEF Running
<1>. QED
  BY <1>1, <1>2, <1>3 DEF Running

\* A step of netcfg is one of an operation, a command or the line.
LEMMA LineInvStep ==
  ASSUME LineInv, [NetcfgNext]_nvars
  PROVE  LineInv'
<1>. USE DEF Running
<1>1. ASSUME UNCHANGED <<status, asked, done, ops>> PROVE LineInv'
  BY <1>1 DEF LineInv, Cur
<1>2. ASSUME NEW line \in Seq(CMDS), StartLine(line) PROVE LineInv'
  <2>1. asked' = line /\ done' = <<>> /\ ops' = <<>>
    BY <1>2 DEF StartLine
  <2>. QED
    BY <2>1 DEF LineInv
<1>3. CASE NextCommand
  <2>1. /\ ops' = OpsOf(Cur) /\ Cur \in CMDS /\ Cur' = Cur /\ status' = "running"
        /\ asked' = asked /\ done' = done /\ Len(done) < Len(asked)
    BY <1>3 DEF NextCommand, LineInv, Cur
  <2>2. ops' \in Seq(OpNames) /\ Len(ops') \in Nat
    BY <2>1, SomeOps
  <2>3. \A n \in 1 .. Len(ops') : ops'[n] = OpsOf(Cur)[Len(OpsOf(Cur)) - Len(ops') + n]
    <3> TAKE n \in 1 .. Len(ops')
    <3>1. Len(ops') - Len(ops') + n = n
      BY <2>2
    <3>. QED
      BY <2>1, <3>1
  <2>. QED
    BY <2>1, <2>2, <2>3 DEF LineInv
<1>4. ASSUME status' # "running", ops' = <<>>, UNCHANGED <<asked, done>> PROVE LineInv'
  BY <1>4 DEF LineInv
<1>5. ASSUME NEW op, AtOp(op), Proceed PROVE LineInv'
  BY <1>5, ProceedStep DEF AtOp
<1>6. CASE ByHand
  BY <1>2, <1>6, LinesAssumption DEF ByHand
<1>7. CASE CallNetcfg
  <2>1. <<"up">> \in Seq(CMDS) /\ <<"down">> \in Seq(CMDS)
    BY DEF CMDS
  <2>. QED
    BY <1>2, <1>7, <2>1 DEF CallNetcfg
<1>8. CASE Refused \/ LineDone
  BY <1>4, <1>8 DEF Refused, LineDone
<1>9. CASE Others \/ TestWifi \/ SeeLowered \/ SeeRaised \/ UNCHANGED nvars
  BY <1>1, <1>9 DEF Others, TestWifi, SeeLowered, SeeRaised, See, nvars
<1>10. CASE \/ OpenSocket \/ CloseSocket \/ Raise \/ Lower \/ ClearAddr \/ SetAddr \/ SetPrefix
            \/ AddRoute \/ DelRoute \/ FlushHosts \/ ReadTable \/ Look \/ SetHwaddr \/ GetLease \/ SetDns
  BY <1>5, <1>10 DEF OpenSocket, CloseSocket, Raise, Lower, ClearAddr, SetAddr, SetPrefix,
     AddRoute, DelRoute, FlushHosts, ReadTable, Look, SetHwaddr, GetLease, SetDns, Ioctl
<1>. QED
  BY <1>3, <1>6, <1>7, <1>8, <1>9, <1>10 DEF NetcfgNext, Netcfg

---------------------------------------------------------------------------
(* What "dhcp" leaves: from its first operation on nothing of an older lease, and  *)
(* undisturbed, after each operation, what that operation set.                    *)

NetInv ==
  /\ net \in [present : {"yes", "no"}, up : {"up", "down"}, addr : Grants,
              prefix : Grants \cup {"class"}, gw : Grants, dns : Grants, hosts : {"some", "none"}]
  /\ others \in [count : Nat, quiet : {"yes", "no"}]
  /\ lease \in Grants

InDhcp(n) == ops # <<>> /\ Cur = "dhcp" /\ Len(ops) <= n
Quiet == others.quiet = "yes"

DhcpInv ==
  /\ InDhcp(11) => net.addr \in {None, lease} /\ net.gw \in {None, lease}
  /\ InDhcp(11) /\ Len(ops) > 8 => net.addr = None /\ net.gw = None
  /\ InDhcp(8) => lease \in Leases
  /\ InDhcp(6) /\ Quiet => net.up = "up"
  /\ InDhcp(5) /\ Quiet => net.addr = lease
  /\ InDhcp(4) /\ Quiet => net.prefix = lease
  /\ InDhcp(2) /\ Quiet => net.gw = lease
  /\ Configured

\* Every step keeps the types of what the kernel holds and of the lease.
LEMMA NetInvStep ==
  ASSUME NetInv, [NetcfgNext]_nvars
  PROVE  NetInv'
<1>1. ASSUME UNCHANGED <<net, others, lease>> PROVE NetInv'
  BY <1>1 DEF NetInv
<1>2. ASSUME NEW line, StartLine(line) PROVE NetInv'
  BY <1>2 DEF StartLine, NetInv, Grants
<1>3. CASE ByHand \/ CallNetcfg
  BY <1>2, <1>3 DEF ByHand, CallNetcfg
<1>4. CASE \/ NextCommand \/ LineDone \/ Refused \/ TestWifi \/ SeeLowered \/ SeeRaised
           \/ OpenSocket \/ CloseSocket \/ ReadTable \/ UNCHANGED nvars
  BY <1>1, <1>4 DEF NextCommand, LineDone, Refused, TestWifi, SeeLowered, SeeRaised, See,
     OpenSocket, CloseSocket, ReadTable, Proceed, nvars
<1>5. CASE Others
  <2>1. /\ net' \in {[net EXCEPT !.present = "yes"], [net EXCEPT !.up = "up"],
                     [absent EXCEPT !.dns = net.dns],
                     [net EXCEPT !.up = "down", !.gw = None, !.hosts = "none"]}
    BY <1>5 DEF Others
  <2>5. others' = [count |-> others.count + 1, quiet |-> "no"] /\ lease' = lease
    BY <1>5 DEF Others
  <2>2. CASE net' = [absent EXCEPT !.dns = net.dns]
    BY <2>2, <2>5 DEF NetInv, absent, Grants
  <2>3. CASE net' = [net EXCEPT !.present = "yes"] \/ net' = [net EXCEPT !.up = "up"]
    BY <2>3, <2>5 DEF NetInv
  <2>4. CASE net' = [net EXCEPT !.up = "down", !.gw = None, !.hosts = "none"]
    <3>1. /\ net'.present = net.present /\ net'.up = "down" /\ net'.addr = net.addr
          /\ net'.prefix = net.prefix /\ net'.gw = None /\ net'.dns = net.dns /\ net'.hosts = "none"
          /\ net' = [present |-> net'.present, up |-> net'.up, addr |-> net'.addr,
                     prefix |-> net'.prefix, gw |-> net'.gw, dns |-> net'.dns, hosts |-> net'.hosts]
      BY <2>4 DEF NetInv
    <3>. QED
      BY <2>5, <3>1 DEF NetInv, Grants
  <2>. QED
    BY <2>1, <2>2, <2>3, <2>4
<1>6. CASE Raise \/ Lower \/ ClearAddr \/ DelRoute \/ Look \/ SetHwaddr
  BY <1>6, ZenonT(60) DEF Raise, Lower, ClearAddr, DelRoute, Look, SetHwaddr, Ioctl, Proceed, NetInv, Grants
<1>7. CASE SetAddr \/ SetPrefix \/ AddRoute \/ SetDns
  BY <1>7, ZenonT(60) DEF SetAddr, SetPrefix, AddRoute, SetDns, Ioctl, Proceed, NetInv, Grants
<1>8. CASE FlushHosts
  BY <1>8 DEF FlushHosts, Proceed, NetInv
<1>9. CASE GetLease
  BY <1>9 DEF GetLease, Proceed, NetInv, Grants
<1>. QED
  BY <1>3, <1>4, <1>5, <1>6, <1>7, <1>8, <1>9 DEF NetcfgNext, Netcfg

\* An operation of "dhcp", which came to its n-th last.
Does(op, n) ==
  /\ AtOp(op) /\ Cur = "dhcp" /\ Len(ops) = n
  /\ Running' /\ lease' \in Grants
  /\ n > 1 => ops' # <<>> /\ Cur' = "dhcp" /\ Len(ops') = n - 1
  /\ n = 1 => ops' = <<>> /\ done' # <<>> /\ done'[Len(done')] = "dhcp"
  /\ others' = others

\* In "dhcp" an operation tells how many are left.
LEMMA DhcpSteps ==
  ASSUME LineInv, NEW op, AtOp(op), Proceed, Cur = "dhcp", lease' \in Grants
  PROVE  /\ op \in {"addr0", "raise", "look", "lease", "init", "addr", "prefix", "route", "close", "dns"}
         /\ op = "addr0" => Does(op, 12)
         /\ op = "raise" => Does(op, 11) \/ Does(op, 7)
         /\ op = "look" => Does(op, 10)
         /\ op = "lease" => Does(op, 9)
         /\ op = "init" => Does(op, 8) \/ Does(op, 4)
         /\ op = "addr" => Does(op, 6)
         /\ op = "prefix" => Does(op, 5)
         /\ op = "route" => Does(op, 3)
         /\ op = "close" => Does(op, 2)
         /\ op = "dns" => Does(op, 1)
<1>. DEFINE n == Len(ops)
<1>1. /\ op = ops[1] /\ n \in Nat \ {0} /\ ops # <<>>
      /\ \/ (n = 12 /\ op = "addr0") \/ (n = 11 /\ op = "raise") \/ (n = 10 /\ op = "look")
         \/ (n = 9 /\ op = "lease") \/ (n = 8 /\ op = "init") \/ (n = 7 /\ op = "raise")
         \/ (n = 6 /\ op = "addr") \/ (n = 5 /\ op = "prefix") \/ (n = 4 /\ op = "init")
         \/ (n = 3 /\ op = "route") \/ (n = 2 /\ op = "close") \/ (n = 1 /\ op = "dns")
  BY NextOp DEF AtOp
<1>2. Does(op, n)
  <2>1. Running' /\ others' = others /\ n \in Nat
    BY <1>1, ProceedStep DEF AtOp, Proceed
  <2>2. n > 1 => ops' # <<>> /\ Cur' = "dhcp" /\ Len(ops') = n - 1
    BY <1>1, ProceedStep
  <2>3. n = 1 => ops' = <<>> /\ done' # <<>> /\ done'[Len(done')] = "dhcp"
    BY <1>1, ProceedStep
  <2>. QED
    BY <2>1, <2>2, <2>3 DEF Does
<1>. HIDE DEF n
<1>. QED
  BY <1>1, <1>2

\* Every step keeps what "dhcp" has set so far, and what it had removed.
LEMMA DhcpInvStep ==
  ASSUME LineInv, NetInv, DhcpInv, [NetcfgNext]_nvars
  PROVE  DhcpInv'
<1>1. ASSUME UNCHANGED <<status, asked, done, ops, net, lease, others>> PROVE DhcpInv'
  BY <1>1 DEF DhcpInv, InDhcp, Cur, Quiet, Configured, Running
<1>2. ASSUME ~(ops' # <<>> /\ Cur' = "dhcp" /\ Len(ops') <= 11), Configured' PROVE DhcpInv'
  <2>1. Len(ops') \in Nat
    BY LineInvStep DEF LineInv
  <2>. QED
    BY <1>2, <2>1 DEF DhcpInv, InDhcp
<1>3. ASSUME NEW line, StartLine(line) PROVE DhcpInv'
  BY <1>2, <1>3 DEF StartLine, Configured
<1>4. CASE ByHand \/ CallNetcfg
  BY <1>3, <1>4 DEF ByHand, CallNetcfg
<1>5. CASE TestWifi \/ SeeLowered \/ SeeRaised \/ UNCHANGED nvars
  BY <1>1, <1>5 DEF TestWifi, SeeLowered, SeeRaised, See, nvars
<1>6. CASE LineDone \/ Refused
  BY <1>2, <1>6 DEF LineDone, Refused, Configured, Running
<1>7. CASE NextCommand
  <2>1. Cur' = Cur /\ ops' = OpsOf(Cur) /\ Cur \in CMDS
    BY <1>7 DEF NextCommand, LineInv, Cur
  <2>2. ops' # <<>>
    BY <2>1, SomeOps
  <2>. DEFINE n == Len(ops')
  <2>3. ASSUME Cur = "dhcp" PROVE n = 12
    BY <2>1, <2>3, DhcpOps DEF IsDhcp
  <2>. HIDE DEF n
  <2>6. ASSUME Cur = "dhcp" PROVE ~(n <= 11)
    BY <2>3, <2>6
  <2>4. ASSUME Cur = "dhcp" PROVE ~(Len(ops') <= 11)
    BY <2>4, <2>6, Zenon DEF n
  <2>5. Configured'
    BY <2>2 DEF Configured
  <2>. QED
    BY <1>2, <2>1, <2>4, <2>5, Zenon
<1>8. CASE Others
  <2>1. /\ \/ net' \in {[net EXCEPT !.present = "yes"], [net EXCEPT !.up = "up"]}
           \/ net' \in {[absent EXCEPT !.dns = net.dns],
                       [net EXCEPT !.up = "down", !.gw = None, !.hosts = "none"]}
        /\ others' = [count |-> others.count + 1, quiet |-> "no"]
        /\ UNCHANGED <<status, asked, done, ops, lease>>
    BY <1>8 DEF Others
  <2>2. /\ net'.addr \in {net.addr, None} /\ net'.gw \in {net.gw, None} /\ ~Quiet'
    BY <2>1 DEF NetInv, absent, Quiet
  <2>. QED
    BY <2>1, <2>2 DEF DhcpInv, InDhcp, Cur, Configured, Quiet
<1>9. ASSUME NEW op, AtOp(op), Proceed, Cur # "dhcp" PROVE DhcpInv'
  <2>1. \/ ops' # <<>> /\ Cur' = Cur
        \/ ops' = <<>> /\ done' # <<>> /\ done'[Len(done')] = Cur
    <3>1. Len(ops) \in Nat \ {0} /\ ops # <<>>
      BY <1>9, NextOp DEF AtOp
    <3>. DEFINE n == Len(ops)
    <3>. HIDE DEF n
    <3>2. n \in Nat \ {0} => n = 1 \/ n > 1
      OBVIOUS
    <3>. USE DEF n
    <3>. QED
      BY <1>9, <3>1, <3>2, ProceedStep
  <2>. QED
    BY <1>2, <1>9, <2>1 DEF Configured
<1>10. CASE /\ Cur = "dhcp"
            /\ \/ OpenSocket \/ CloseSocket \/ Raise \/ Lower \/ ClearAddr \/ SetAddr \/ SetPrefix
               \/ AddRoute \/ DelRoute \/ FlushHosts \/ ReadTable \/ Look \/ SetHwaddr \/ GetLease
               \/ SetDns
  <2>. /\ NetInv' /\ lease' \in Grants
    BY NetInvStep DEF NetInv
  <2>. USE <1>10
  <2>1. ASSUME NEW n \in 2 .. 12, NEW op, Does(op, n),
               n <= 11 => net'.addr \in {None, lease'} /\ net'.gw \in {None, lease'},
               n \in 9 .. 12 => net'.addr = None /\ net'.gw = None,
               n <= 9 => lease' \in Leases,
               Quiet /\ n <= 7 => net'.up = "up",
               Quiet /\ n <= 6 => net'.addr = lease',
               Quiet /\ n <= 5 => net'.prefix = lease',
               Quiet /\ n <= 3 => net'.gw = lease'
        PROVE  DhcpInv'
    <3>1. ops' # <<>> /\ Len(ops') = n - 1 /\ Quiet' = Quiet
      BY <2>1 DEF Does, Quiet
    <3>2. Configured'
      BY <3>1 DEF Configured
    <3>. QED
      BY <2>1, <3>1, <3>2 DEF DhcpInv, InDhcp
  <2>2. ASSUME NEW n \in 1 .. 12, NEW op, Does(op, n)
        PROVE  /\ n <= 11 => net.addr \in {None, lease} /\ net.gw \in {None, lease}
               /\ n \in 9 .. 11 => net.addr = None /\ net.gw = None
               /\ n <= 8 => lease \in Leases
               /\ Quiet /\ n <= 6 => net.up = "up"
               /\ Quiet /\ n <= 5 => net.addr = lease
               /\ Quiet /\ n <= 4 => net.prefix = lease
               /\ Quiet /\ n <= 2 => net.gw = lease
    <3>1. Len(ops) = n /\ ops # <<>> /\ Cur = "dhcp"
      BY <2>2 DEF Does, AtOp
    <3>. QED
      BY <3>1 DEF DhcpInv, InDhcp
  <2>3. ASSUME UNCHANGED <<net, lease>>, NEW n \in {2, 4, 8, 10}, NEW op, Does(op, n) PROVE DhcpInv'
    <3>1. n \in 2 .. 12
      BY <2>3
    <3>. QED
      BY <2>1, <2>2, <2>3, <3>1
  <2>4. CASE OpenSocket \/ CloseSocket \/ Look
    <3>1. /\ UNCHANGED <<net, lease>>
          /\ Does("init", 8) \/ Does("init", 4) \/ Does("close", 2) \/ Does("look", 10)
      BY <2>4, DhcpSteps DEF OpenSocket, CloseSocket, Look, Ioctl
    <3>. QED
      BY <2>3, <3>1
  <2>5. CASE Raise
    <3>1. /\ net' = [net EXCEPT !.up = "up"] /\ lease' = lease
          /\ Does("raise", 11) \/ Does("raise", 7)
      BY <2>5, DhcpSteps DEF Raise, Ioctl
    <3>2. /\ net'.up = "up" /\ net'.addr = net.addr /\ net'.prefix = net.prefix
          /\ net'.gw = net.gw
      BY <3>1 DEF NetInv
    <3>3. ASSUME NEW n \in {7, 11}, Does("raise", n) PROVE DhcpInv'
      <4>1. n \in 2 .. 12
        OBVIOUS
      <4>. QED
        BY <2>1, <2>2, <3>1, <3>2, <3>3, <4>1
    <3>. QED
      BY <3>1, <3>3
  <2>6. CASE ClearAddr
    <3>1. Does("addr0", 12)
      BY <2>6, DhcpSteps DEF ClearAddr, Ioctl
    <3>2. net'.addr = None /\ net'.gw = None
      BY <2>6 DEF ClearAddr, Ioctl, NetInv
    <3>. QED
      BY <2>1, <3>1, <3>2
  <2>7. CASE GetLease
    <3>1. Does("lease", 9) /\ lease' \in Leases /\ net' = net
      BY <2>7, DhcpSteps DEF GetLease
    <3>. QED
      BY <2>1, <2>2, <3>1
  <2>8. CASE SetAddr
    <3>1. Does("addr", 6) /\ lease' = lease
      BY <2>8, DhcpSteps DEF SetAddr, Ioctl
    <3>2. net'.addr = lease /\ net'.gw = None /\ net'.up = net.up
      BY <2>8 DEF SetAddr, Ioctl, NetInv
    <3>. QED
      BY <2>1, <2>2, <3>1, <3>2
  <2>9. CASE SetPrefix
    <3>1. Does("prefix", 5) /\ lease' = lease
      BY <2>9, DhcpSteps DEF SetPrefix, Ioctl
    <3>2. net'.addr = net.addr /\ net'.prefix = lease /\ net'.gw = None /\ net'.up = net.up
      BY <2>9 DEF SetPrefix, Ioctl, NetInv
    <3>. QED
      BY <2>1, <2>2, <3>1, <3>2
  <2>10. CASE AddRoute
    <3>1. Does("route", 3) /\ lease' = lease
      BY <2>10, DhcpSteps DEF AddRoute, Ioctl
    <3>2. /\ net'.addr = net.addr /\ net'.prefix = net.prefix /\ net'.gw = lease
          /\ net'.up = net.up
      BY <2>10 DEF AddRoute, Ioctl, NetInv
    <3>. QED
      BY <2>1, <2>2, <3>1, <3>2
  <2>11. CASE SetDns
    <3>1. Does("dns", 1) /\ lease' = lease
      BY <2>11, DhcpSteps DEF SetDns
    <3>2. /\ net'.addr = net.addr /\ net'.prefix = net.prefix /\ net'.gw = net.gw
          /\ net'.up = net.up /\ net'.dns = lease
      BY <2>11 DEF SetDns, NetInv
    <3>3. ops' = <<>> /\ Quiet' = Quiet
      BY <3>1 DEF Does, Quiet
    <3>4. Configured'
      BY <2>2, <3>1, <3>2, <3>3, LinesAssumption DEF Configured, Quiet
    <3>. QED
      BY <1>2, <3>3, <3>4
  <2>12. ~(Lower \/ DelRoute \/ FlushHosts \/ ReadTable \/ SetHwaddr)
    BY DhcpSteps DEF Lower, DelRoute, FlushHosts, ReadTable, SetHwaddr, Ioctl
  <2>. QED
    BY <2>4, <2>5, <2>6, <2>7, <2>8, <2>9, <2>10, <2>11, <2>12
<1>11. CASE /\ Cur # "dhcp"
            /\ \/ OpenSocket \/ CloseSocket \/ Raise \/ Lower \/ ClearAddr \/ SetAddr \/ SetPrefix
               \/ AddRoute \/ DelRoute \/ FlushHosts \/ ReadTable \/ Look \/ SetHwaddr \/ GetLease
               \/ SetDns
  BY <1>9, <1>11 DEF OpenSocket, CloseSocket, Raise, Lower, ClearAddr, SetAddr, SetPrefix,
     AddRoute, DelRoute, FlushHosts, ReadTable, Look, SetHwaddr, GetLease, SetDns, Ioctl
<1>. QED
  BY <1>4, <1>5, <1>6, <1>7, <1>8, <1>10, <1>11 DEF NetcfgNext, Netcfg

---------------------------------------------------------------------------
(* The socket: once a command that closes it is done, only those succeed that *)
(* open it for themselves.                                                    *)

Reopens == {"flhosts", "deldefault"}
Lost == \E i \in 1 .. Len(done) : asked[i] \in Closing

SockInv ==
  /\ Running /\ ops = <<>> /\ Lost => sock = "closed"
  /\ ops # <<>> /\ Lost /\ Cur \notin Reopens => sock = "closed" /\ Len(ops) = Len(OpsOf(Cur))
  /\ ops # <<>> /\ Cur = "dhcp" /\ Len(ops) = 1 => sock = "closed"
  /\ \A i, j \in 1 .. Len(done) : i < j /\ asked[i] \in Closing => asked[j] \in Reopens
  /\ SocketLost

\* After the socket is lost, a command that does not open it has an ioctl before it.
LEMMA LostIsStuck ==
  ASSUME LineInv, SockInv, ops # <<>>, Lost, Cur \notin Reopens
  PROVE  sock = "closed" /\ ops[1] \in {"raise", "lower", "hwaddr", "addr0"}
<1>1. sock = "closed" /\ Len(ops) = Len(OpsOf(Cur))
  BY DEF SockInv
<1>2. Cur \in {"dhcp", "up", "down", "hwaddr"}
  BY NextOp DEF CMDS, Reopens
<1>3. ASSUME Cur = "dhcp" PROVE Len(ops) = 12
  BY <1>1, <1>3, DhcpOps DEF IsDhcp
<1>. DEFINE n == Len(ops)
<1>4. ASSUME Cur = "dhcp" PROVE ops[1] = "addr0"
  <2>1. /\ n = 12
        /\ \/ (n = 12 /\ ops[1] = "addr0") \/ (n = 11 /\ ops[1] = "raise") \/ (n = 10 /\ ops[1] = "look")
           \/ (n = 9 /\ ops[1] = "lease") \/ (n = 8 /\ ops[1] = "init") \/ (n = 7 /\ ops[1] = "raise")
           \/ (n = 6 /\ ops[1] = "addr") \/ (n = 5 /\ ops[1] = "prefix") \/ (n = 4 /\ ops[1] = "init")
           \/ (n = 3 /\ ops[1] = "route") \/ (n = 2 /\ ops[1] = "close") \/ (n = 1 /\ ops[1] = "dns")
    BY <1>3, <1>4, NextOp
  <2>. HIDE DEF n
  <2>. QED
    BY <2>1
<1>. QED
  BY <1>1, <1>2, <1>4, NextOp

\* Every step keeps the socket closed that a line has lost.
LEMMA SockInvStep ==
  ASSUME LineInv, SockInv, [NetcfgNext]_nvars
  PROVE  SockInv'
<1>1. ASSUME UNCHANGED <<status, asked, done, ops, sock>> PROVE SockInv'
  BY <1>1 DEF SockInv, Lost, Cur, SocketLost, Running
<1>2. ASSUME NEW line, StartLine(line) PROVE SockInv'
  BY <1>2 DEF StartLine, SockInv, Lost, SocketLost, Running
<1>3. CASE ByHand \/ CallNetcfg
  BY <1>2, <1>3 DEF ByHand, CallNetcfg
<1>4. CASE TestWifi \/ SeeLowered \/ SeeRaised \/ Others \/ UNCHANGED nvars
  BY <1>1, <1>4 DEF TestWifi, SeeLowered, SeeRaised, See, Others, nvars
<1>5. CASE Refused
  BY <1>5 DEF Refused, SockInv, Lost, SocketLost, Running
<1>6. CASE LineDone
  <2>1. /\ status' = "ran" /\ sock' = "closed" /\ ops' = <<>> /\ done' = done /\ asked' = asked
        /\ done = asked
    BY <1>6 DEF LineDone
  <2>2. DOMAIN asked = 1 .. Len(asked)
    BY DEF LineInv
  <2>. QED
    BY <2>1, <2>2 DEF SockInv, Lost, SocketLost, Running, Reopens, Closing
<1>7. CASE NextCommand
  <2>1. /\ Cur' = Cur /\ ops' = OpsOf(Cur) /\ Cur \in CMDS /\ Lost' = Lost /\ ops = <<>> /\ Running
        /\ UNCHANGED <<sock, status, asked, done>>
    BY <1>7 DEF NextCommand, LineInv, Cur, Lost
  <2>2. ops' # <<>>
    BY <2>1, SomeOps
  <2>3. Cur = "dhcp" => Len(ops') # 1
    BY <2>1, DhcpOps DEF IsDhcp
  <2>. QED
    BY <2>1, <2>2, <2>3 DEF SockInv, SocketLost, Running
<1>8. ASSUME NEW op, AtOp(op), Proceed, ~(Lost /\ Cur \notin Reopens),
             op = "close" => sock' = "closed",
             op = "dns" => sock' = sock
      PROVE  SockInv'
  <2>. DEFINE n == Len(ops)
  <2>1. /\ n \in Nat \ {0} /\ ops # <<>> /\ op = ops[1] /\ Running /\ asked' = asked
        /\ status' = status /\ Cur \in CMDS
    BY <1>8, NextOp DEF AtOp, Proceed
  <2>2. /\ Cur \in Reopens /\ n = 1 => op = "close"
        /\ Cur = "dhcp" /\ n = 1 => op = "dns"
        /\ Cur = "dhcp" /\ n = 2 => op = "close"
    <3>1. Cur = "dhcp" =>
            \/ (n = 12 /\ op = "addr0") \/ (n = 11 /\ op = "raise") \/ (n = 10 /\ op = "look")
            \/ (n = 9 /\ op = "lease") \/ (n = 8 /\ op = "init") \/ (n = 7 /\ op = "raise")
            \/ (n = 6 /\ op = "addr") \/ (n = 5 /\ op = "prefix") \/ (n = 4 /\ op = "init")
            \/ (n = 3 /\ op = "route") \/ (n = 2 /\ op = "close") \/ (n = 1 /\ op = "dns")
      BY <2>1, NextOp
    <3>2. /\ Cur = "flhosts" =>
             \/ (n = 4 /\ op = "table") \/ (n = 3 /\ op = "init")
             \/ (n = 2 /\ op = "flush") \/ (n = 1 /\ op = "close")
          /\ Cur = "deldefault" =>
             (n = 3 /\ op = "init") \/ (n = 2 /\ op = "delroute") \/ (n = 1 /\ op = "close")
      BY <2>1, NextOp
    <3>. HIDE DEF n
    <3>. QED
      BY <3>1, <3>2 DEF Reopens
  <2>3. CASE n = 1
    <3>1. /\ ops' = <<>> /\ done' = Append(done, Cur) /\ Cur = asked[Len(done) + 1]
      BY <1>8, <2>1, <2>3, ProceedStep DEF Proceed, Cur
    <3>2. Len(done) \in Nat /\ Len(done') = Len(done) + 1
      BY <2>1, <3>1 DEF LineInv
    <3>3. Lost' => Lost \/ Cur \in Closing
      BY <2>1, <3>1, <3>2 DEF Lost
    <3>4. Lost' => sock' = "closed"
      <4>1. ASSUME Lost' PROVE Cur \in Reopens \/ Cur = "dhcp"
        BY <1>8, <3>3, <4>1 DEF Closing, Reopens
      <4>2. Cur = "dhcp" => sock = "closed"
        BY <2>1, <2>3 DEF SockInv
      <4>. QED
        BY <1>8, <2>2, <2>3, <4>1, <4>2
    <3>5. ASSUME NEW i \in 1 .. Len(done'), NEW j \in 1 .. Len(done'), i < j, asked'[i] \in Closing
          PROVE  asked'[j] \in Reopens
      <4>1. i \in 1 .. Len(done) /\ (j \in 1 .. Len(done) \/ j = Len(done) + 1)
        BY <3>2, <3>5
      <4>2. CASE j \in 1 .. Len(done)
        BY <2>1, <3>5, <4>1, <4>2 DEF SockInv
      <4>3. CASE j = Len(done) + 1
        <5>1. Lost
          BY <2>1, <3>5, <4>1 DEF Lost
        <5>. QED
          BY <1>8, <2>1, <3>1, <4>3, <5>1
      <4>. QED
        BY <4>1, <4>2, <4>3
    <3>6. SocketLost'
      BY <2>1 DEF SocketLost, Running
    <3>. QED
      BY <3>1, <3>4, <3>5, <3>6 DEF SockInv
  <2>4. CASE n > 1
    <3>1. ops' # <<>> /\ done' = done /\ Cur' = Cur /\ Len(ops') = n - 1
      BY <1>8, <2>1, <2>4, ProceedStep
    <3>2. Lost' = Lost
      BY <2>1, <3>1 DEF Lost
    <3>3. Cur = "dhcp" /\ Len(ops') = 1 => sock' = "closed"
      <4>. DEFINE k == Len(ops')
      <4>1. k = n - 1 /\ n \in Nat
        BY <2>1, <3>1
      <4>. HIDE DEF k, n
      <4>2. k = 1 => n = 2
        BY <4>1
      <4>. USE DEF k, n
      <4>. QED
        BY <1>8, <2>2, <4>2
    <3>4. SocketLost'
      BY <2>1 DEF SocketLost, Running
    <3>. QED
      BY <1>8, <2>1, <3>1, <3>2, <3>3, <3>4 DEF SockInv
  <2>. HIDE DEF n
  <2>. QED
    BY <2>1, <2>3, <2>4
<1>9. CASE \/ Raise \/ Lower \/ ClearAddr \/ SetAddr \/ SetPrefix \/ AddRoute \/ DelRoute
           \/ Look \/ SetHwaddr
  <2>1. PICK op \in {"raise", "lower", "addr0", "addr", "prefix", "route", "delroute", "look", "hwaddr"} :
          AtOp(op) /\ Proceed /\ sock = "open"
    BY <1>9 DEF Raise, Lower, ClearAddr, SetAddr, SetPrefix, AddRoute, DelRoute, Look, SetHwaddr,
       Ioctl, Reached
  <2>2. ops # <<>>
    BY <2>1 DEF AtOp
  <2>3. ~(Lost /\ Cur \notin Reopens)
    BY <2>1, <2>2, LostIsStuck
  <2>. QED
    BY <1>8, <2>1, <2>3
<1>10. CASE OpenSocket \/ CloseSocket \/ FlushHosts \/ ReadTable \/ GetLease \/ SetDns
  <2>1. PICK op \in {"init", "close", "flush", "table", "lease", "dns"} :
          /\ AtOp(op) /\ Proceed
          /\ op = "close" => sock' = "closed"
          /\ op = "dns" => sock' = sock
    BY <1>10 DEF OpenSocket, CloseSocket, FlushHosts, ReadTable, GetLease, SetDns
  <2>2. ops # <<>> /\ op = ops[1]
    BY <2>1, NextOp DEF AtOp
  <2>3. ~(Lost /\ Cur \notin Reopens)
    BY <2>2, LostIsStuck
  <2>. QED
    BY <1>8, <2>1, <2>3
<1>. QED
  BY <1>3, <1>4, <1>5, <1>6, <1>7, <1>9, <1>10 DEF NetcfgNext, Netcfg

---------------------------------------------------------------------------
(* test_wifi.sh *)

DUMPS == {"absent", "UP", "DOWN"}

WifiInv ==
  /\ dumps \in Seq(DUMPS)
  /\ script \in {"up", "raised"} => dumps # <<>> /\ dumps[Len(dumps)] = "DOWN"
  /\ WifiOk

\* Every step keeps what test_wifi.sh has seen.
LEMMA WifiInvStep ==
  ASSUME WifiInv, [NetcfgNext]_nvars
  PROVE  WifiInv'
<1>1. ASSUME UNCHANGED <<script, dumps>> PROVE WifiInv'
  BY <1>1 DEF WifiInv, WifiOk
<1>2. CASE Netcfg \/ ByHand \/ Others \/ UNCHANGED nvars
  BY <1>1, <1>2 DEF Netcfg, ByHand, Others, NextCommand, LineDone, Refused, OpenSocket, CloseSocket,
     Raise, Lower, ClearAddr, SetAddr, SetPrefix, AddRoute, DelRoute, FlushHosts, ReadTable, Look,
     SetHwaddr, GetLease, SetDns, Ioctl, Proceed, nvars
<1>3. CASE CallNetcfg
  BY <1>3 DEF CallNetcfg, StartLine, WifiInv, WifiOk
<1>4. ASSUME NEW d \in DUMPS, NEW then, See(d, then),
             then \in {"up", "raised"} => d = "DOWN",
             then = "ok" => script = "raised" /\ d = "UP"
      PROVE  WifiInv'
  <2>1. /\ dumps' = Append(dumps, d) /\ script' = then
    BY <1>4 DEF See
  <2>2. /\ dumps' \in Seq(DUMPS) /\ dumps' # <<>> /\ Len(dumps') = Len(dumps) + 1
        /\ dumps'[Len(dumps) + 1] = d /\ \A i \in 1 .. Len(dumps) : dumps'[i] = dumps[i]
        /\ Len(dumps) \in Nat /\ DOMAIN dumps' = 1 .. Len(dumps')
    BY <2>1 DEF WifiInv
  <2>3. ASSUME then = "ok" PROVE WifiOk'
    <3>1. dumps # <<>> /\ dumps[Len(dumps)] = "DOWN" /\ d = "UP"
      BY <1>4, <2>3 DEF WifiInv
    <3>2. Len(dumps) \in 1 .. Len(dumps)
      BY <3>1 DEF WifiInv
    <3>. DEFINE n == Len(dumps)
    <3>3. n \in DOMAIN dumps' /\ n + 1 \in DOMAIN dumps' /\ n < n + 1 /\ dumps'[n] = "DOWN"
          /\ dumps'[n + 1] = "UP"
      BY <2>2, <3>1, <3>2
    <3>. HIDE DEF n
    <3>. QED
      BY <3>3 DEF WifiOk
  <2>4. then # "ok" => WifiOk'
    BY <2>1 DEF WifiOk
  <2>. QED
    BY <1>4, <2>1, <2>2, <2>3, <2>4 DEF WifiInv
<1>5. Dump \in DUMPS
  BY DEF Dump, DUMPS
<1>6. CASE TestWifi
  BY <1>4, <1>5, <1>6 DEF TestWifi, Dump
<1>7. CASE SeeLowered
  BY <1>4, <1>5, <1>7 DEF SeeLowered
<1>8. CASE SeeRaised
  BY <1>4, <1>5, <1>8 DEF SeeRaised
<1>. QED
  BY <1>2, <1>3, <1>6, <1>7, <1>8 DEF NetcfgNext

---------------------------------------------------------------------------
\* All of it holds at the start.
LEMMA NetcfgStarts == NetcfgInit => LineInv /\ NetInv /\ DhcpInv /\ SockInv /\ WifiInv
<1>. SUFFICES ASSUME NetcfgInit PROVE LineInv /\ NetInv /\ DhcpInv /\ SockInv /\ WifiInv
  OBVIOUS
<1>1. LineInv
  BY DEF NetcfgInit, LineInv
<1>2. NetInv
  <2>1. others \in [count : Nat, quiet : {"yes", "no"}] /\ lease \in Grants
    BY DEF NetcfgInit, Grants
  <2>. DEFINE kernel == [present : {"yes", "no"}, up : {"up", "down"}, addr : Grants,
                         prefix : Grants \cup {"class"}, gw : Grants, dns : Grants,
                         hosts : {"some", "none"}]
  <2>2. absent \in kernel
    BY DEF absent, Grants
  <2>3. [absent EXCEPT !.present = "yes"] \in kernel
    BY DEF absent, Grants
  <2>4. [absent EXCEPT !.present = "yes", !.up = "up", !.hosts = "some"] \in kernel
    BY DEF absent, Grants
  <2>. HIDE DEF kernel
  <2>5. net \in kernel
    BY <2>2, <2>3, <2>4, Zenon DEF NetcfgInit
  <2>. QED
    BY <2>1, <2>5 DEF NetInv, kernel
<1>3. DhcpInv
  BY DEF NetcfgInit, DhcpInv, InDhcp, Configured, Running
<1>4. SockInv
  BY DEF NetcfgInit, SockInv, Lost, SocketLost, Running
<1>5. WifiInv
  BY DEF NetcfgInit, WifiInv, WifiOk
<1>. QED
  BY <1>1, <1>2, <1>3, <1>4, <1>5

\* netcfg is always at one place of one command of its line.
LEMMA LineCorrect == NetcfgSpec => []LineInv
<1>1. LineInv /\ [NetcfgNext]_nvars => LineInv'
  BY LineInvStep
<1>. QED
  BY <1>1, NetcfgStarts, PTL DEF NetcfgSpec

\* do_dhcp and ifc_configure: after a "dhcp" that succeeded undisturbed, the interface
\* is up with address, prefix length, route and DNS servers of one lease, whatever
\* the line, and whatever the server grants.
THEOREM ConfiguredCorrect == NetcfgSpec => []Configured
<1>1. NetInv /\ [NetcfgNext]_nvars => NetInv'
  BY NetInvStep
<1>2. LineInv /\ NetInv /\ DhcpInv /\ [NetcfgNext]_nvars => DhcpInv'
  BY DhcpInvStep
<1>3. DhcpInv => Configured
  BY DEF DhcpInv
<1>. QED
  BY <1>1, <1>2, <1>3, LineCorrect, NetcfgStarts, PTL DEF NetcfgSpec

\* Past its first operation a "dhcp" has address and route of its own lease or none.
LEMMA NoOldLeaseIs == LineInv /\ DhcpInv => NoOldLease
<1>. SUFFICES ASSUME LineInv, DhcpInv, asked # <<>>, asked[1] = "dhcp", done = <<>>, ops # <<>>,
                     Len(ops) < Len(OpsOf("dhcp"))
              PROVE  net.addr \in {None, lease} /\ net.gw \in {None, lease}
  BY DEF NoOldLease
<1>1. Cur = "dhcp"
  BY DEF Cur
<1>. DEFINE n == Len(ops)
<1>. DEFINE all == Len(OpsOf("dhcp"))
<1>2. n \in Nat /\ n < all /\ all = 12
  BY DhcpOps DEF IsDhcp, LineInv
<1>. HIDE DEF n, all
<1>3. n <= 11
  BY <1>2
<1>. USE DEF n
<1>. QED
  BY <1>1, <1>3 DEF DhcpInv, InDhcp

\* do_dhcp: from its first operation on, a "dhcp" leaves no address or route of an
\* earlier lease, wherever it fails and whatever others do meanwhile.
THEOREM NoOldLeaseCorrect == NetcfgSpec => []NoOldLease
<1>1. NetInv /\ [NetcfgNext]_nvars => NetInv'
  BY NetInvStep
<1>2. LineInv /\ NetInv /\ DhcpInv /\ [NetcfgNext]_nvars => DhcpInv'
  BY DhcpInvStep
<1>. QED
  BY <1>1, <1>2, NoOldLeaseIs, LineCorrect, NetcfgStarts, PTL DEF NetcfgSpec

\* netcfg's main opens the socket once for all commands: no line succeeds that has
\* one after "dhcp", "flhosts" or "deldefault" other than one that opens it itself.
THEOREM SocketLostCorrect == NetcfgSpec => []SocketLost
<1>1. LineInv /\ SockInv /\ [NetcfgNext]_nvars => SockInv'
  BY SockInvStep
<1>2. SockInv => SocketLost
  BY DEF SockInv
<1>. QED
  BY <1>1, <1>2, LineCorrect, NetcfgStarts, PTL DEF NetcfgSpec

\* test_wifi.sh says ok only for an interface it saw down and, later, up, whatever
\* netcfg and others did.
THEOREM WifiOkCorrect == NetcfgSpec => []WifiOk
<1>1. WifiInv /\ [NetcfgNext]_nvars => WifiInv'
  BY WifiInvStep
<1>2. WifiInv => WifiOk
  BY DEF WifiInv
<1>. QED
  BY <1>1, <1>2, NetcfgStarts, PTL DEF NetcfgSpec

\* What is counted stays within its bounds, and the socket, the status of netcfg and
\* the place in test_wifi.sh are among theirs.
NetRoom ==
  /\ others.count <= MaxOthers
  /\ sock \in {"open", "closed"} /\ status \in {"idle", "running", "ran", "failed"}
  /\ lines \in 0 .. MaxLines
  /\ script \in {"off", "up", "down", "lowered", "raised", "ok", "failed"}

LEMMA NetRoomStep ==
  ASSUME NetInv, NetRoom, [NetcfgNext]_nvars PROVE NetRoom'
<1>. USE BoundsAssumption DEF NetRoom
<1>1. ASSUME NEW line, StartLine(line)
      PROVE  sock' = "open" /\ status' = "running" /\ others'.count <= MaxOthers
  BY <1>1 DEF StartLine, NetInv
<1>2. CASE ByHand
  <2>1. PICK line \in Lines : StartLine(line)
    BY <1>2 DEF ByHand
  <2>. QED
    BY <1>1, <1>2, <2>1 DEF ByHand
<1>3. CASE CallNetcfg
  BY <1>1, <1>3 DEF CallNetcfg
<1>4. CASE Others
  <2>1. others' = [count |-> others.count + 1, quiet |-> "no"] /\ others.count < MaxOthers
        /\ others.count \in Nat
    BY <1>4 DEF Others, NetInv
  <2>. QED
    BY <1>4, <2>1 DEF Others
<1>5. CASE TestWifi
  BY <1>5 DEF TestWifi, See
<1>6. CASE SeeLowered
  BY <1>6 DEF SeeLowered, See
<1>7. CASE SeeRaised
  BY <1>7 DEF SeeRaised, See
<1>8. CASE NextCommand \/ LineDone \/ Refused
  BY <1>8 DEF NextCommand, LineDone, Refused
<1>9. CASE \/ OpenSocket \/ CloseSocket \/ Raise \/ Lower \/ ClearAddr \/ SetAddr \/ SetPrefix
           \/ AddRoute \/ DelRoute \/ FlushHosts \/ ReadTable \/ Look \/ SetHwaddr \/ GetLease
           \/ SetDns
  <2>1. Proceed /\ sock' \in {sock, "open", "closed"}
    BY <1>9 DEF OpenSocket, CloseSocket, Raise, Lower, ClearAddr, SetAddr, SetPrefix,
       AddRoute, DelRoute, FlushHosts, ReadTable, Look, SetHwaddr, GetLease, SetDns, Ioctl
  <2>. QED
    BY <2>1 DEF Proceed
<1>10. CASE UNCHANGED nvars
  BY <1>10 DEF nvars
<1>. QED
  BY <1>2, <1>3, <1>4, <1>5, <1>6, <1>7, <1>8, <1>9, <1>10 DEF NetcfgNext, Netcfg

LEMMA NetRoomStart == NetcfgInit => NetRoom
BY BoundsAssumption DEF NetcfgInit, NetRoom

LEMMA NetRoomIsType == LineInv /\ NetInv /\ NetRoom => NetcfgTypeOK
<1>. SUFFICES ASSUME LineInv, NetInv, NetRoom PROVE NetcfgTypeOK
  OBVIOUS
<1>1. others \in [count : 0 .. MaxOthers, quiet : {"yes", "no"}]
  <2>1. others \in [count : Nat, quiet : {"yes", "no"}] /\ others.count <= MaxOthers
    BY DEF NetInv, NetRoom
  <2>. QED
    BY <2>1, BoundsAssumption
<1>2. Len(done) <= Len(asked) /\ (ops # <<>> => Len(done) < Len(asked))
  BY DEF LineInv
<1>. QED
  BY <1>1, <1>2 DEF NetInv, NetRoom, NetcfgTypeOK

\* The kernel's side keeps its form through every operation, and netcfg is always at a
\* command of its line.
THEOREM NetcfgTypeCorrect == NetcfgSpec => []NetcfgTypeOK
<1>1. NetInv /\ [NetcfgNext]_nvars => NetInv'
  BY NetInvStep
<1>2. NetInv /\ NetRoom /\ [NetcfgNext]_nvars => NetRoom'
  BY NetRoomStep
<1>. QED
  BY <1>1, <1>2, LineCorrect, NetcfgStarts, NetRoomStart, NetRoomIsType, PTL DEF NetcfgSpec

---------------------------------------------------------------------------
(* dhcpcd *)

Places ==
  {"begin", "start", "await_running", "await_result", "get", "fill",
   "await_stopped", "mark", "done"}

Calls ==
  [op : Ops \cup {"none"}, on : Prefix \cup {"none"}, pc : Places, ret : {0, 1},
   seen : SUBSET {"ok", "start"}]

Typed ==
  /\ result \in [Prefix -> {"", "ok", "failed"}]
  /\ svc \in [Prefix -> {"", "running", "stopping", "stopped"}]
  /\ renewal \in [Prefix -> {"yes", "no"}]
  /\ call \in [Caller -> Calls]

\* A call that asked for a lease, with what it knows about the result: until it reads
\* "ok" an "ok" in the property is one it saw written.
Fresh(r) ==
  r.op \in {"request", "renew"} =>
    /\ r.pc \in {"start", "await_running", "await_result", "get"} =>
         (result[r.on] = "ok" => "ok" \in r.seen)
    /\ r.pc = "fill" => "ok" \in r.seen
    /\ r.pc = "done" /\ r.ret = 0 => "ok" \in r.seen

\* A call of dhcp_stop since whose ctl.stop nothing was started: nobody is left to
\* write a result once it saw the daemon stopped.
Silent(r) ==
  r.op = "stop" /\ "start" \notin r.seen =>
    /\ r.pc \in {"await_stopped", "mark"} \/ (r.pc = "done" /\ r.ret = 0) => renewal[r.on] = "no"
    /\ r.pc = "mark" \/ (r.pc = "done" /\ r.ret = 0) => svc[r.on] \in {"", "stopped"}
    /\ r.pc = "done" /\ r.ret = 0 => result[r.on] # "ok"

\* Who is at a place is in the function that has it.
Placed(r) ==
  /\ r.pc \in {"start", "await_running", "await_result", "get", "fill"} =>
       r.op \in {"request", "renew"}
  /\ r.pc \in {"await_stopped", "mark"} => r.op \in {"stop", "release"}
  /\ r.pc = "mark" => r.op = "stop"
  /\ r.op # "none" => r.on \in Prefix

Inv == Typed /\ \A c \in Caller : Placed(call[c]) /\ Fresh(call[c]) /\ Silent(call[c])

LEMMA InvInit == DhcpcdInit => Inv
<1> SUFFICES ASSUME DhcpcdInit PROVE Inv
  OBVIOUS
<1>1. Rest \in Calls
  BY DEF Rest, Calls, Places
<1>2. Typed
  BY <1>1 DEF DhcpcdInit, Typed
<1>3. ASSUME NEW c \in Caller PROVE call[c] = Rest
  BY DEF DhcpcdInit
<1>4. Placed(Rest) /\ Fresh(Rest) /\ Silent(Rest)
  BY DEF Rest, Placed, Fresh, Silent
<1> QED
  BY <1>2, <1>3, <1>4 DEF Inv

\* A step of caller c leaves its operation, its properties and the other callers alone.
Moved(c) ==
  /\ call'[c] \in Calls /\ call'[c].op = call[c].op /\ call'[c].on = call[c].on
  /\ call' \in [Caller -> Calls]
  /\ \A d \in Caller \ {c} : call'[d] = call[d]

LEMMA GoesMoves ==
  ASSUME Typed, NEW c \in Caller, NEW pc \in Places, Goes(c, pc)
  PROVE  Moved(c) /\ call'[c].pc = pc /\ call'[c].ret = call[c].ret
           /\ call'[c].seen = call[c].seen
<1>1. call[c] \in Calls
  BY DEF Typed
<1>2. call'[c] = [call[c] EXCEPT !.pc = pc]
  BY DEF Typed, Goes
<1>3. call'[c] \in Calls
  BY <1>1, <1>2 DEF Calls
<1>4. \A d \in Caller \ {c} : call'[d] = call[d]
  BY DEF Typed, Goes
<1>5. call' \in [Caller -> Calls]
  BY <1>3, <1>4 DEF Typed, Goes
<1> QED
  BY <1>1, <1>2, <1>3, <1>4, <1>5 DEF Moved, Calls

LEMMA ReturnsMoves ==
  ASSUME Typed, NEW c \in Caller, NEW r \in {0, 1}, Returns(c, r)
  PROVE  Moved(c) /\ call'[c].pc = "done" /\ call'[c].ret = r
           /\ call'[c].seen = call[c].seen
<1>1. call[c] \in Calls
  BY DEF Typed
<1>2. call'[c] = [call[c] EXCEPT !.pc = "done", !.ret = r]
  BY <1>1 DEF Typed, Returns, Calls
<1>3. call'[c] \in Calls
  BY <1>1, <1>2 DEF Calls, Places
<1>4. \A d \in Caller \ {c} : call'[d] = call[d]
  BY DEF Typed, Returns
<1>5. call' \in [Caller -> Calls]
  BY <1>3, <1>4 DEF Typed, Returns
<1> QED
  BY <1>1, <1>2, <1>3, <1>4, <1>5 DEF Moved, Calls

\* Steps of a caller that leave the properties alone.
LEMMA LookStep ==
  ASSUME Inv, NEW c \in Caller, NEW p \in Prefix,
         SeeRunning(c, p) \/ SeeResult(c, p) \/ GetResult(c, p) \/ Fill(c, p)
           \/ SeeStopped(c, p) \/ GiveUp(c, p)
  PROVE  Inv'
<1>1. UNCHANGED <<result, svc, renewal>>
  BY DEF SeeRunning, SeeResult, GetResult, Fill, SeeStopped, GiveUp, daemon
<1>2. Typed /\ Placed(call[c]) /\ Fresh(call[c]) /\ Silent(call[c]) /\ call[c] \in Calls
  BY DEF Inv, Typed
<1> DEFINE Goal == Moved(c) /\ Placed(call[c])' /\ Fresh(call[c])' /\ Silent(call[c])'
<1>3. ASSUME SeeRunning(c, p) PROVE Goal
  <2>1. Goes(c, "await_result") /\ call[c].pc = "await_running"
    BY <1>3 DEF SeeRunning, At
  <2>2. Moved(c) /\ call'[c].pc = "await_result" /\ call'[c].seen = call[c].seen
    BY <1>2, <2>1, GoesMoves DEF Places
  <2> QED
    BY <1>1, <1>2, <2>1, <2>2 DEF Moved, Placed, Fresh, Silent
<1>4. ASSUME SeeResult(c, p) PROVE Goal
  <2>1. Goes(c, "get") /\ call[c].pc = "await_result"
    BY <1>4 DEF SeeResult, At
  <2>2. Moved(c) /\ call'[c].pc = "get" /\ call'[c].seen = call[c].seen
    BY <1>2, <2>1, GoesMoves DEF Places
  <2> QED
    BY <1>1, <1>2, <2>1, <2>2 DEF Moved, Placed, Fresh, Silent
<1>5. ASSUME GetResult(c, p) PROVE Goal
  <2>1. CASE result[p] = "ok"
    <3>1. Goes(c, "fill") /\ call[c].pc = "get" /\ call[c].on = p
      BY <1>5, <2>1 DEF GetResult, At
    <3>2. Moved(c) /\ call'[c].pc = "fill" /\ call'[c].seen = call[c].seen
      BY <1>2, <3>1, GoesMoves DEF Places
    <3> QED
      BY <1>1, <1>2, <2>1, <3>1, <3>2 DEF Moved, Placed, Fresh, Silent
  <2>2. CASE result[p] # "ok"
    <3>1. Returns(c, 1) /\ call[c].pc = "get"
      BY <1>5, <2>2 DEF GetResult, At
    <3>2. Moved(c) /\ call'[c].pc = "done" /\ call'[c].ret = 1
      BY <1>2, <3>1, ReturnsMoves
    <3> QED
      BY <1>2, <3>1, <3>2 DEF Moved, Placed, Fresh, Silent
  <2> QED
    BY <2>1, <2>2
<1>6. ASSUME Fill(c, p) PROVE Goal
  <2>1. PICK r \in {0, 1} : Returns(c, r)
    BY <1>6 DEF Fill
  <2>2. call[c].pc = "fill"
    BY <1>6 DEF Fill, At
  <2>3. Moved(c) /\ call'[c].pc = "done" /\ call'[c].seen = call[c].seen
    BY <1>2, <2>1, ReturnsMoves
  <2> QED
    BY <1>1, <1>2, <2>2, <2>3 DEF Moved, Placed, Fresh, Silent
<1>7. ASSUME SeeStopped(c, p) PROVE Goal
  <2>1. call[c].pc = "await_stopped" /\ call[c].on = p /\ svc[p] = "stopped"
    BY <1>7 DEF SeeStopped, At
  <2>2. CASE call[c].op = "stop"
    <3>1. Moved(c) /\ call'[c].pc = "mark" /\ call'[c].seen = call[c].seen
      BY <1>2, <1>7, <2>2, GoesMoves DEF SeeStopped, Places
    <3> QED
      BY <1>1, <1>2, <2>1, <2>2, <3>1 DEF Moved, Placed, Fresh, Silent
  <2>3. CASE call[c].op # "stop"
    <3>1. Moved(c) /\ call'[c].pc = "done"
      BY <1>2, <1>7, <2>3, ReturnsMoves DEF SeeStopped
    <3> QED
      BY <1>2, <2>1, <2>3, <3>1 DEF Moved, Placed, Fresh, Silent
  <2> QED
    BY <2>2, <2>3
<1>8. ASSUME GiveUp(c, p) PROVE Goal
  <2>1. Moved(c) /\ call'[c].pc = "done" /\ call'[c].ret = 1
    BY <1>2, <1>8, ReturnsMoves DEF GiveUp
  <2>2. Placed(call[c])'
    BY <1>2, <2>1 DEF Moved, Placed
  <2>3. Fresh(call[c])' /\ Silent(call[c])'
    BY <2>1 DEF Fresh, Silent
  <2> QED
    BY <2>1, <2>2, <2>3
<1>9. Goal
  BY <1>3, <1>4, <1>5, <1>6, <1>7, <1>8
<1>10. Typed'
  BY <1>1, <1>2, <1>9 DEF Typed, Moved
<1>11. ASSUME NEW d \in Caller, d # c
       PROVE  Placed(call[d])' /\ Fresh(call[d])' /\ Silent(call[d])'
  <2>1. call'[d] = call[d]
    BY <1>9, <1>11 DEF Moved
  <2>2. Placed(call[d]) /\ Fresh(call[d]) /\ Silent(call[d])
    BY DEF Inv
  <2> QED
    BY <1>1, <2>1, <2>2 DEF Placed, Fresh, Silent
<1> QED
  BY <1>9, <1>10, <1>11 DEF Inv

\* Steps of a caller that write properties or start and stop services.
LEMMA EraseStep == ASSUME Inv, NEW c \in Caller, NEW p \in Prefix, Erase(c, p) PROVE Inv'
<1>1. Typed /\ call[c] \in Calls /\ Placed(call[c])
  BY DEF Inv, Typed
<1>2. /\ call[c].on = p /\ call[c].op \in {"request", "renew"}
      /\ result' = [result EXCEPT ![p] = ""] /\ UNCHANGED <<svc, renewal>>
  BY DEF Erase, At, daemon
<1>3. call'[c] = [call[c] EXCEPT !.pc = "start", !.seen = {}]
  BY <1>1 DEF Erase, Typed, Calls
<1>4. call'[c] \in Calls
  BY <1>1, <1>3 DEF Calls, Places
<1>5. \A d \in Caller \ {c} : call'[d] = call[d]
  BY <1>1 DEF Erase, Typed
<1>6. Typed'
  BY <1>1, <1>2, <1>4, <1>5 DEF Erase, Typed
<1>7. Placed(call[c])' /\ Fresh(call[c])' /\ Silent(call[c])'
  <2>1. /\ call'[c].pc = "start" /\ call'[c].op = call[c].op /\ call'[c].on = p
        /\ result'[p] = ""
    BY <1>1, <1>2, <1>3 DEF Calls, Typed
  <2> QED
    BY <1>2, <2>1 DEF Placed, Fresh, Silent
<1>8. ASSUME NEW d \in Caller, d # c
      PROVE  Placed(call[d])' /\ Fresh(call[d])' /\ Silent(call[d])'
  <2>1. call'[d] = call[d] /\ Placed(call[d]) /\ Fresh(call[d]) /\ Silent(call[d])
    BY <1>5, <1>8 DEF Inv
  <2>2. \A q \in Prefix : result'[q] = "ok" => result[q] = "ok"
    BY <1>1, <1>2 DEF Typed
  <2> QED
    BY <1>2, <2>1, <2>2 DEF Placed, Fresh, Silent
<1> QED
  BY <1>6, <1>7, <1>8 DEF Inv

\* When something is started, every caller on its properties takes note.
LEMMA StartStep == ASSUME Inv, NEW c \in Caller, NEW p \in Prefix, Start(c, p) PROVE Inv'
<1>1. Typed /\ Placed(call[c]) /\ Fresh(call[c])
  BY DEF Inv
<1>2. PICK pc \in {"await_running", "await_result"} : Started(c, p, pc)
  BY DEF Start
<1>3. /\ call[c].on = p /\ call[c].pc = "start" /\ UNCHANGED result
      /\ \A q \in Prefix \ {p} : svc'[q] = svc[q] /\ renewal'[q] = renewal[q]
      /\ svc' \in [Prefix -> {"", "running", "stopping", "stopped"}]
      /\ renewal' \in [Prefix -> {"yes", "no"}]
  BY <1>1 DEF Start, At, Typed
<1>4. ASSUME NEW d \in Caller
      PROVE  /\ call'[d] \in Calls
             /\ call'[d].op = call[d].op /\ call'[d].on = call[d].on /\ call'[d].ret = call[d].ret
             /\ call'[d].pc = IF d = c THEN pc ELSE call[d].pc
             /\ call'[d].seen = IF call[d].on = p THEN call[d].seen \cup {"start"} ELSE call[d].seen
  <2> DEFINE f == [call EXCEPT ![c].pc = pc]
  <2>1. call[d] \in Calls /\ f[d] = [call[d] EXCEPT !.pc = IF d = c THEN pc ELSE @]
    BY <1>1 DEF Typed, Calls
  <2>2. /\ f[d] \in Calls /\ f[d].op = call[d].op /\ f[d].on = call[d].on
        /\ f[d].ret = call[d].ret /\ f[d].seen = call[d].seen
        /\ f[d].pc = IF d = c THEN pc ELSE call[d].pc
    BY <2>1 DEF Calls, Places
  <2>3. call'[d] = IF f[d].on = p THEN [f[d] EXCEPT !.seen = @ \cup {"start"}] ELSE f[d]
    BY <1>2 DEF Started, Observed
  <2> HIDE DEF f
  <2> QED
    BY <2>2, <2>3 DEF Calls
<1>5. Typed'
  BY <1>1, <1>2, <1>3, <1>4 DEF Typed, Started, Observed
<1>6. ASSUME NEW d \in Caller
      PROVE  Placed(call[d])' /\ Fresh(call[d])' /\ Silent(call[d])'
  <2>1. Placed(call[d]) /\ Fresh(call[d]) /\ Silent(call[d])
    BY DEF Inv
  <2>2. Placed(call[d])'
    BY <1>3, <1>4, <2>1 DEF Placed
  <2>3. Fresh(call[d])'
    BY <1>3, <1>4, <2>1 DEF Fresh
  <2>4. Silent(call[d])'
    BY <1>3, <1>4, <2>1, ZenonT(60) DEF Placed, Silent
  <2> QED
    BY <2>2, <2>3, <2>4
<1> QED
  BY <1>5, <1>6 DEF Inv

\* A stop begins: a service that runs is being stopped, any other is stopped.
LEMMA StopStep == ASSUME Inv, NEW c \in Caller, NEW p \in Prefix, Stop(c, p) PROVE Inv'
<1>1. Typed /\ call[c] \in Calls /\ Placed(call[c])
  BY DEF Inv, Typed
<1> DEFINE now == IF renewal[p] = "yes" THEN {"start"} ELSE {}
<1>2. /\ call[c].on = p /\ call[c].op \in {"stop", "release"} /\ UNCHANGED <<result, renewal>>
      /\ svc' = [svc EXCEPT ![p] = IF @ \in {"running", "stopping"} THEN "stopping" ELSE "stopped"]
  BY DEF Stop, At
<1>3. call'[c] = [call[c] EXCEPT !.pc = "await_stopped", !.seen = now]
  BY <1>1 DEF Stop, Typed, Calls
<1>4. call'[c] \in Calls /\ \A d \in Caller \ {c} : call'[d] = call[d]
  BY <1>1, <1>3, ZenonT(60) DEF Calls, Places, Stop, Typed
<1>5. Typed'
  BY <1>1, <1>2, <1>4 DEF Stop, Typed
<1>6. Placed(call[c])' /\ Fresh(call[c])' /\ Silent(call[c])'
  <2>1. /\ call'[c].pc = "await_stopped" /\ call'[c].op = call[c].op /\ call'[c].on = p
        /\ call'[c].seen = now
    BY <1>1, <1>2, <1>3 DEF Calls
  <2> QED
    BY <1>1, <1>2, <2>1, ZenonT(60) DEF Typed, Placed, Fresh, Silent
<1>7. ASSUME NEW d \in Caller, d # c
      PROVE  Placed(call[d])' /\ Fresh(call[d])' /\ Silent(call[d])'
  <2>1. call'[d] = call[d] /\ Placed(call[d]) /\ Fresh(call[d]) /\ Silent(call[d])
    BY <1>4, <1>7 DEF Inv
  <2>2. \A q \in Prefix : svc[q] \in {"", "stopped"} => svc'[q] \in {"", "stopped"}
    BY <1>1, <1>2 DEF Typed
  <2> QED
    BY <1>2, <2>1, <2>2 DEF Placed, Fresh, Silent
<1> QED
  BY <1>5, <1>6, <1>7 DEF Inv

\* dhcp_stop overwrites the result.
LEMMA MarkStep == ASSUME Inv, NEW c \in Caller, NEW p \in Prefix, Mark(c, p) PROVE Inv'
<1>1. Typed /\ call[c] \in Calls /\ Placed(call[c]) /\ Silent(call[c])
  BY DEF Inv, Typed
<1>2. /\ call[c].on = p /\ call[c].pc = "mark" /\ result' = [result EXCEPT ![p] = "failed"]
      /\ UNCHANGED <<svc, renewal>> /\ Returns(c, 0)
  BY DEF Mark, At, daemon
<1>3. Moved(c) /\ call'[c].pc = "done" /\ call'[c].seen = call[c].seen
  BY <1>1, <1>2, ReturnsMoves
<1>4. result' \in [Prefix -> {"", "ok", "failed"}]
      /\ \A q \in Prefix : result'[q] = "ok" => result[q] = "ok" /\ q # p
  BY <1>1, <1>2 DEF Typed
<1>5. Typed'
  BY <1>1, <1>2, <1>3, <1>4 DEF Typed, Moved
<1>6. Placed(call[c])' /\ Fresh(call[c])' /\ Silent(call[c])'
  BY <1>1, <1>2, <1>3, <1>4 DEF Moved, Placed, Fresh, Silent
<1>7. ASSUME NEW d \in Caller, d # c
      PROVE  Placed(call[d])' /\ Fresh(call[d])' /\ Silent(call[d])'
  <2>1. call'[d] = call[d] /\ Placed(call[d]) /\ Fresh(call[d]) /\ Silent(call[d])
    BY <1>3, <1>7 DEF Inv, Moved
  <2> QED
    BY <1>2, <1>4, <2>1 DEF Placed, Fresh, Silent
<1> QED
  BY <1>5, <1>6, <1>7 DEF Inv

\* A new call has seen nothing yet.
LEMMA CallStep == ASSUME Inv, NEW c \in Caller, Call(c) PROVE Inv'
<1>1. PICK op \in Ops, i \in Interface :
        call' = [call EXCEPT ![c] =
                   [op |-> op, on |-> get_p2p_interface_replacement(i), pc |-> "begin",
                    ret |-> 0, seen |-> {}]]
  BY DEF Call
<1>2. get_p2p_interface_replacement(i) \in Prefix
  BY DEF Prefix
<1> QED
  BY <1>1, <1>2, ZenonT(60) DEF Inv, Typed, Calls, Places, Ops, Call, daemon, Placed, Fresh, Silent

\* Whoever waits for a result sees the "ok" that is written; whoever knows that nothing
\* was started since its stop knows that nobody is left to write it.
LEMMA ResultStep == ASSUME Inv, NEW p \in Prefix, WriteResult(p) PROVE Inv'
<1>1. Typed /\ Writes(p) /\ UNCHANGED <<svc, renewal>>
  BY DEF Inv, WriteResult
<1>2. CASE result' = [result EXCEPT ![p] = "failed"] /\ UNCHANGED call
  <2>1. result' \in [Prefix -> {"", "ok", "failed"}]
        /\ \A q \in Prefix : result'[q] = "ok" => result[q] = "ok"
    BY <1>1, <1>2 DEF Typed
  <2>2. Typed'
    BY <1>1, <1>2, <2>1 DEF Typed
  <2> QED
    BY <1>1, <1>2, <2>1, <2>2, ZenonT(60) DEF Inv, Placed, Fresh, Silent
<1>3. CASE result' = [result EXCEPT ![p] = "ok"] /\ call' = Observed(call, p, "ok")
  <2>1. result' \in [Prefix -> {"", "ok", "failed"}]
        /\ \A q \in Prefix \ {p} : result'[q] = result[q]
    BY <1>1, <1>3 DEF Typed
  <2>2. ASSUME NEW d \in Caller
        PROVE  /\ call'[d] \in Calls
               /\ call'[d].op = call[d].op /\ call'[d].on = call[d].on
               /\ call'[d].ret = call[d].ret /\ call'[d].pc = call[d].pc
               /\ call'[d].seen = IF call[d].on = p THEN call[d].seen \cup {"ok"} ELSE call[d].seen
    <3>1. call[d] \in Calls
      BY <1>1 DEF Typed
    <3>2. call'[d] = IF call[d].on = p THEN [call[d] EXCEPT !.seen = @ \cup {"ok"}] ELSE call[d]
      BY <1>3 DEF Observed
    <3> QED
      BY <3>1, <3>2 DEF Calls
  <2>3. Typed'
    BY <1>1, <1>3, <2>1, <2>2 DEF Typed, Observed
  <2>4. ASSUME NEW d \in Caller
        PROVE  Placed(call[d])' /\ Fresh(call[d])' /\ Silent(call[d])'
    <3>1. Placed(call[d]) /\ Fresh(call[d]) /\ Silent(call[d])
      BY DEF Inv
    <3>2. Placed(call[d])'
      BY <2>2, <3>1 DEF Placed
    <3>3. Fresh(call[d])'
      BY <2>1, <2>2, <3>1, ZenonT(60) DEF Placed, Fresh
    <3>4. Silent(call[d])'
      BY <1>1, <2>1, <2>2, <3>1, ZenonT(60) DEF Placed, Silent, Writes
    <3> QED
      BY <3>2, <3>3, <3>4
  <2> QED
    BY <2>3, <2>4 DEF Inv
<1> QED
  BY <1>2, <1>3 DEF WriteResult

\* The daemon and init.
LEMMA EnvironmentStep ==
  ASSUME Inv, NEW p \in Prefix,
         WriteInfo(p) \/ WriteResult(p) \/ Ends(p) \/ RenewalEnds(p)
  PROVE  Inv'
<1>1. CASE WriteInfo(p)
  BY <1>1, ZenonT(60) DEF Inv, Typed, WriteInfo, Placed, Fresh, Silent
<1>2. CASE WriteResult(p)
  BY <1>2, ResultStep
<1>3. CASE Ends(p)
  BY <1>3, ZenonT(60) DEF Inv, Typed, Ends, Placed, Fresh, Silent
<1>4. CASE RenewalEnds(p)
  BY <1>4, ZenonT(60) DEF Inv, Typed, RenewalEnds, Placed, Fresh, Silent
<1> QED
  BY <1>1, <1>2, <1>3, <1>4

LEMMA InvStep == Inv /\ [DhcpcdNext]_dvars => Inv'
<1> SUFFICES ASSUME Inv, [DhcpcdNext]_dvars PROVE Inv'
  OBVIOUS
<1>1. ASSUME NEW c \in Caller, Call(c) PROVE Inv'
  BY <1>1, CallStep
<1>2. ASSUME NEW c \in Caller, NEW p \in Prefix, Step(c, p) PROVE Inv'
  BY <1>2, LookStep, EraseStep, StartStep, StopStep, MarkStep DEF Step
<1>3. ASSUME NEW p \in Prefix, WriteInfo(p) \/ WriteResult(p) \/ Ends(p) \/ RenewalEnds(p)
      PROVE  Inv'
  BY <1>3, EnvironmentStep
<1>4. CASE UNCHANGED dvars
  BY <1>4, ZenonT(60) DEF dvars, Inv, Typed, Placed, Fresh, Silent
<1> QED
  BY <1>1, <1>2, <1>3, <1>4 DEF DhcpcdNext

LEMMA InvCorrect == DhcpcdSpec => []Inv
<1>1. DhcpcdInit => Inv
  BY InvInit
<1>2. Inv /\ [DhcpcdNext]_dvars => Inv'
  BY InvStep
<1> QED
  BY <1>1, <1>2, PTL DEF DhcpcdSpec

\* What a call and its answer know of each other is what the callers rely on.
LEMMA FreshIs == Inv => FreshAnswer /\ StopForgets
BY DEF Inv, Fresh, FreshAnswer, Silent, StopForgets

\* A request returns 0 for an "ok" written since it erased the result, not for one that was
\* there, for any number of callers (dhcp_do_request, dhcp_do_request_renew).
THEOREM FreshAnswerCorrect == DhcpcdSpec => []FreshAnswer
BY FreshIs, InvCorrect, PTL

\* After dhcp_stop no result speaks of a lease until something is started.
THEOREM StopForgetsCorrect == DhcpcdSpec => []StopForgets
BY FreshIs, InvCorrect, PTL

\* What the daemon wrote, the calls that were made, and who waits for the daemon to run.
DhcpcdRoom ==
  /\ info \in [Prefix -> {"none", "valid", "invalid"}]
  /\ told \in [Prefix -> {"yes", "no"}] /\ calls \in 0 .. MaxCalls
  /\ \A c \in Caller : call[c].pc = "await_running" => call[c].op = "request"

\* What a call observes is not what it does.
LEMMA ObservedIs ==
  ASSUME NEW f \in [Caller -> Calls], NEW p, NEW e, NEW d \in Caller
  PROVE  Observed(f, p, e)[d].op = f[d].op /\ Observed(f, p, e)[d].pc = f[d].pc
<1>1. /\ [f[d] EXCEPT !.seen = @ \cup {e}].op = f[d].op
      /\ [f[d] EXCEPT !.seen = @ \cup {e}].pc = f[d].pc
  BY DEF Calls
<1>. QED
  BY <1>1 DEF Observed

\* Nothing but the call itself moves its place or changes what it does.
LEMMA DhcpcdRoomStep ==
  ASSUME Inv, DhcpcdRoom, [DhcpcdNext]_dvars PROVE DhcpcdRoom'
<1>1. call \in [Caller -> Calls] /\ DOMAIN call = Caller
  BY DEF Inv, Typed
<1>2. \A c \in Caller : call[c] = [op |-> call[c].op, on |-> call[c].on, pc |-> call[c].pc,
                                   ret |-> call[c].ret, seen |-> call[c].seen]
  BY <1>1 DEF Calls
<1>3. ASSUME NEW c \in Caller, Call(c) PROVE DhcpcdRoom'
  <2>1. calls' \in 0 .. MaxCalls
    BY <1>3, CallsAssumption DEF Call, DhcpcdRoom
  <2>2. PICK op \in Ops, i \in Interface :
          call' = [call EXCEPT ![c] =
                     [op |-> op, on |-> get_p2p_interface_replacement(i), pc |-> "begin",
                      ret |-> 0, seen |-> {}]]
    BY <1>3 DEF Call
  <2>3. \A d \in Caller : call'[d].pc = "await_running" => call'[d].op = "request"
    BY <1>1, <2>2 DEF DhcpcdRoom
  <2>. QED
    BY <1>3, <2>1, <2>3 DEF Call, DhcpcdRoom, daemon
<1>4. ASSUME NEW c \in Caller, NEW p \in Prefix, Step(c, p) PROVE DhcpcdRoom'
  <2>1. UNCHANGED <<info, told, calls>>
    BY <1>4 DEF Step, Erase, Start, SeeRunning, SeeResult, GetResult, Fill, Stop, SeeStopped,
       Mark, GiveUp, daemon
  <2>2. \A d \in Caller : /\ call'[d].op = call[d].op
                          /\ call'[d].pc = "await_running" => call'[d].op = "request"
    <3>1. CASE Start(c, p)
      <4>1. ASSUME NEW pc \in Places, pc = "await_running" => call[c].op = "request",
                   Started(c, p, pc)
            PROVE  \A d \in Caller : /\ call'[d].op = call[d].op
                                     /\ call'[d].pc = "await_running" => call'[d].op = "request"
        <5>. DEFINE f == [call EXCEPT ![c].pc = pc]
        <5>1. \A d \in Caller : /\ f[d].op = call[d].op
                                /\ f[d].pc = (IF d = c THEN pc ELSE call[d].pc)
          BY <1>1, <1>2
        <5>2. f \in [Caller -> Calls]
          BY <1>1 DEF Calls
        <5>3. call' = Observed(f, p, "start")
          BY <4>1 DEF Started
        <5>. HIDE DEF f
        <5>4. \A d \in Caller : call'[d].op = f[d].op /\ call'[d].pc = f[d].pc
          BY <5>2, <5>3, ObservedIs
        <5>. QED
          BY <4>1, <5>1, <5>4 DEF DhcpcdRoom
      <4>2. \/ call[c].op = "request" /\ Started(c, p, "await_running")
            \/ Started(c, p, "await_result")
        BY <3>1 DEF Start
      <4>3. "await_running" \in Places /\ "await_result" \in Places
        BY DEF Places
      <4>. QED
        BY <4>1, <4>2, <4>3
    <3>2. CASE ~Start(c, p)
      <4>1. PICK pc, r, s : /\ pc # "await_running"
                            /\ \/ call' = [call EXCEPT ![c].pc = pc]
                               \/ call' = [call EXCEPT ![c].pc = pc, ![c].ret = r]
                               \/ call' = [call EXCEPT ![c].pc = pc, ![c].seen = s]
        BY <1>4, <3>2 DEF Step, Erase, SeeRunning, SeeResult, GetResult, Fill, Stop, SeeStopped,
           Mark, GiveUp, Goes, Returns
      <4>2. \A d \in Caller : /\ call'[d].op = call[d].op
                              /\ call'[d].pc = (IF d = c THEN pc ELSE call[d].pc)
        BY <1>1, <1>2, <4>1
      <4>. QED
        BY <4>1, <4>2 DEF DhcpcdRoom
    <3>. QED
      BY <3>1, <3>2
  <2>. QED
    BY <2>1, <2>2 DEF DhcpcdRoom
<1>5. ASSUME NEW p \in Prefix, WriteInfo(p) \/ WriteResult(p) \/ Ends(p) \/ RenewalEnds(p)
      PROVE  DhcpcdRoom'
  <2>1. /\ info' \in [Prefix -> {"none", "valid", "invalid"}]
        /\ told' \in [Prefix -> {"yes", "no"}] /\ calls' = calls
    BY <1>5 DEF WriteInfo, WriteResult, Ends, RenewalEnds, DhcpcdRoom
  <2>2. \A d \in Caller : call'[d].op = call[d].op /\ call'[d].pc = call[d].pc
    <3>1. call' = call \/ call' = Observed(call, p, "ok")
      BY <1>5 DEF WriteInfo, WriteResult, Ends, RenewalEnds
    <3>. QED
      BY <1>1, <3>1, ObservedIs
  <2>. QED
    BY <2>1, <2>2 DEF DhcpcdRoom
<1>6. CASE UNCHANGED dvars
  BY <1>6 DEF dvars, DhcpcdRoom
<1>. QED
  BY <1>3, <1>4, <1>5, <1>6 DEF DhcpcdNext

LEMMA DhcpcdRoomStart == DhcpcdInit => DhcpcdRoom
<1>. SUFFICES ASSUME DhcpcdInit PROVE DhcpcdRoom
  OBVIOUS
<1>1. /\ info \in [Prefix -> {"none", "valid", "invalid"}] /\ told \in [Prefix -> {"yes", "no"}]
      /\ calls \in 0 .. MaxCalls
  <2>1. /\ info = [p \in Prefix |-> "none"] /\ told = [p \in Prefix |-> "no"] /\ calls = 0
    BY DEF DhcpcdInit
  <2>2. info \in [Prefix -> {"none", "valid", "invalid"}]
    BY <2>1
  <2>3. told \in [Prefix -> {"yes", "no"}]
    BY <2>1
  <2>4. calls \in 0 .. MaxCalls
    BY <2>1, CallsAssumption
  <2>. QED
    BY <2>2, <2>3, <2>4
<1>2. \A c \in Caller : call[c] = Rest
  BY DEF DhcpcdInit
<1>. QED
  BY <1>1, <1>2 DEF DhcpcdRoom, Rest

LEMMA DhcpcdRoomIsType == Inv /\ DhcpcdRoom => DhcpcdTypeOK
<1>. SUFFICES ASSUME Inv, DhcpcdRoom PROVE DhcpcdTypeOK
  OBVIOUS
<1>1. ASSUME NEW c \in Caller
      PROVE  /\ call[c].on \in Prefix \cup {"none"} /\ call[c].ret \in {0, 1}
             /\ call[c].pc = "await_running" => call[c].op = "request"
             /\ call[c].pc = "await_stopped" => call[c].op \in {"stop", "release"}
             /\ call[c].pc \in {"await_result", "get", "fill"} =>
                  call[c].op \in {"request", "renew"}
  BY DEF Inv, Typed, Calls, Placed, DhcpcdRoom
<1>. QED
  BY <1>1 DEF Inv, Typed, DhcpcdRoom, DhcpcdTypeOK

\* Every wait is one of the function that has it: only dhcp_do_request waits for the
\* daemon to run, only dhcp_stop and dhcp_release_lease for its end.
THEOREM DhcpcdTypeCorrect == DhcpcdSpec => []DhcpcdTypeOK
<1>1. Inv /\ DhcpcdRoom /\ [DhcpcdNext]_dvars => DhcpcdRoom'
  BY DhcpcdRoomStep
<1>. QED
  BY <1>1, InvCorrect, DhcpcdRoomStart, DhcpcdRoomIsType, PTL DEF DhcpcdSpec
============================================================================
