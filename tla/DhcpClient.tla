---------------------------- MODULE DhcpClient ----------------------------
(***************************************************************************)
(* The DHCP client of test_wifi/libnetutils (do_dhcp and dhcp_init_ifc of  *)
(* dhcpclient.c), as `netcfg <if> dhcp` runs it: one attempt to obtain a   *)
(* lease over a raw socket that hears every UDP datagram sent to port 68   *)
(* on the segment, this host's and its neighbours'.                        *)
(*                                                                         *)
(* Servers and neighbours are not part of the repository.  Servers answer  *)
(* what the client transmits; a reply stays available for ever, so it can  *)
(* be delivered late, out of order, twice or never.  Neighbours' replies   *)
(* are the packets of Noise: they may carry anything, at any time.         *)
(***************************************************************************)
EXTENDS Naturals

CONSTANTS
  Server,     \* the DHCP servers on the segment
  Address,    \* the addresses a server can hand out
  Client,     \* hardware address of this host (hwaddr)
  Neighbour,  \* hardware addresses of the other DHCP clients of the segment
  Zero,       \* 0.0.0.0, what memset leaves in an address field
  XidLimit    \* number of transaction ids (2^32 in the code)

ASSUME ClientAssumption == Client \notin Neighbour
ASSUME ZeroAssumption == Zero \notin Address \cup Server
ASSUME XidAssumption == XidLimit \in Nat /\ XidLimit > 1

TIMEOUT_INITIAL == 4000
TIMEOUT_MAX == 32000

Xid == 0 .. XidLimit - 1
NOTYPE == "none"                       \* info.type = 0
ReplyType == {"offer", "ack", "nak"}   \* what a server sends

\* What the client puts on the wire.  A DISCOVER names no address or server.
Message == [type : {"discover", "request"}, xid : Xid,
            ip : Address \cup {Zero}, server : Server \cup {Zero}]

\* What receive_packet delivers: `header` says whether the fields that
\* is_valid_reply compares with constants (size, op, htype, hlen) are right,
\* `cookie` whether there are DHCP options to decode.
Packet == [chaddr : Neighbour \cup {Client}, xid : Xid, type : ReplyType \cup {NOTYPE},
           yiaddr : Address \cup {Zero}, server : Server \cup {Zero},
           header : BOOLEAN, cookie : BOOLEAN]

\* struct dhcp_info; the lease's other parameters go with ipaddr.
Info == [type : ReplyType \cup {NOTYPE}, ipaddr : Address \cup {Zero},
         serveraddr : Server \cup {Zero}]

\* A packet too short to hold options.
Bare(p) == ~p.cookie /\ p.type = NOTYPE /\ p.yiaddr = Zero /\ p.server = Zero

\* On a shared segment: the replies to other hosts, and broken packets.
Noise ==
  {p \in Packet : /\ p.chaddr \in Neighbour /\ p.header /\ p.cookie
                  /\ p.yiaddr # Zero /\ p.server # Zero}
  \cup {p \in Packet : Neighbour # {} /\ p.chaddr = Client /\ ~p.header /\ Bare(p)}

VARIABLES
  pc,        \* "start", "poll" (blocked in poll) or "returned"
  state,     \* SELECTING or REQUESTING
  timeout,   \* the argument of the next poll, in ms
  xid,       \* transaction id of the next message
  info,      \* the one dhcp_info every packet is decoded into
  msg,       \* the discover_msg or request_msg last built
  sock,      \* the raw socket: "none", "open", "bad" (open failed), "closed"
  exit,      \* the return statement taken
  ret,       \* the value returned
  last_good_info

VARIABLES
  wire,      \* every message this client has sent
  replies,   \* every reply a server has sent to this client
  segment,   \* "busy", or "quiet": no packet arrives any more
  waited     \* history: ms spent in polls that timed out

cvars == <<pc, state, timeout, xid, info, msg, sock, exit, ret, last_good_info>>
nvars == <<wire, replies, segment>>
vars == <<cvars, nvars, waited>>

ZeroInfo == [type |-> NOTYPE, ipaddr |-> Zero, serveraddr |-> Zero]
NoMessage == [type |-> "discover", xid |-> 0, ip |-> Zero, server |-> Zero]

Init ==
  /\ pc = "start" /\ state = "SELECTING" /\ timeout = TIMEOUT_INITIAL
  /\ xid \in Xid
  /\ info = ZeroInfo /\ last_good_info = ZeroInfo
  /\ msg = NoMessage /\ sock = "none"
  /\ exit = "none" /\ ret = "running"
  /\ wire = {} /\ replies = {} /\ segment = "busy" /\ waited = 0

---------------------------------------------------------------------------
(* The client's helpers *)

\* init_dhcp_discover_msg and init_dhcp_request_msg
BuildMessage(st, x, i) ==
  IF st = "SELECTING"
  THEN [type |-> "discover", xid |-> x, ip |-> Zero, server |-> Zero]
  ELSE [type |-> "request", xid |-> x, ip |-> i.ipaddr, server |-> i.serveraddr]

\* The code under the label transmit.  A send on a bad descriptor fails, and
\* a failed send is only logged; a lost one is a message no server answers.
Transmit(st, x, i) ==
  /\ msg' = BuildMessage(st, x, i)
  /\ wire' = IF sock' = "open" THEN wire \cup {msg'} ELSE wire

\* decode_dhcp_msg clears the record before it looks at the packet.
Decode(p) ==
  IF p.cookie THEN [type |-> p.type, ipaddr |-> p.yiaddr, serveraddr |-> p.server]
              ELSE ZeroInfo

\* Mutant: the hardware address is not compared.
NoChaddrTest(m, p) == p.header /\ p.xid = m.xid

is_valid_reply(m, p) == p.header /\ p.xid = m.xid /\ p.chaddr = Client

Return(why, value) == pc' = "returned" /\ exit' = why /\ ret' = value

\* dhcp_configure: the lease is recorded first, ifc_configure may then fail.
dhcp_configure(i, why) ==
  /\ last_good_info' = i
  /\ \E r \in {"ok", "error"} : Return(why, r)

---------------------------------------------------------------------------
(* do_dhcp and the prologue of dhcp_init_ifc *)

\* Clearing the address, raising the interface or reading its hardware
\* address or index fails.
SetupFails ==
  /\ pc = "start"
  /\ Return("setup", "error")
  /\ UNCHANGED <<state, timeout, xid, info, msg, sock, last_good_info, nvars, waited>>

\* Nothing checks what open_raw_socket returned.
Begin ==
  /\ pc = "start"
  /\ pc' = "poll"
  /\ sock' \in {"open", "bad"}
  /\ Transmit(state, xid, info)
  /\ UNCHANGED <<state, timeout, xid, info, exit, ret, last_good_info,
                 replies, segment, waited>>

---------------------------------------------------------------------------
(* poll returns 0 *)

\* Mutants of Resend: the timeout is not doubled; one doubling too many.
ResendSameTimeout ==
  /\ pc = "poll" /\ timeout < TIMEOUT_MAX
  /\ timeout' = timeout
  /\ waited' = IF waited > 90000 THEN waited ELSE waited + timeout
  /\ UNCHANGED sock
  /\ Transmit(state, xid, info)
  /\ UNCHANGED <<pc, state, xid, info, exit, ret, last_good_info, replies, segment>>

ResendTripled ==
  /\ pc = "poll" /\ timeout < TIMEOUT_MAX
  /\ timeout' = timeout * 3
  /\ waited' = waited + timeout
  /\ UNCHANGED sock
  /\ Transmit(state, xid, info)
  /\ UNCHANGED <<pc, state, xid, info, exit, ret, last_good_info, replies, segment>>

Resend ==
  /\ pc = "poll" /\ timeout < TIMEOUT_MAX
  /\ timeout' = timeout * 2
  /\ waited' = waited + timeout
  /\ UNCHANGED sock
  /\ Transmit(state, xid, info)
  /\ UNCHANGED <<pc, state, xid, info, exit, ret, last_good_info, replies, segment>>

\* Mutant of AssumeOffer: falls back on whatever is in info.
AssumeAnything ==
  /\ pc = "poll" /\ timeout >= TIMEOUT_MAX
  /\ dhcp_configure(info, "assumed")
  /\ waited' = waited + timeout
  /\ UNCHANGED <<state, timeout, xid, info, msg, sock, nvars>>

\* "no acknowledgement from DHCP server, configuring with offered parameters";
\* the socket is left open.
AssumeOffer ==
  /\ pc = "poll" /\ timeout >= TIMEOUT_MAX
  /\ info.type = "offer"
  /\ dhcp_configure(info, "assumed")
  /\ waited' = waited + timeout
  /\ UNCHANGED <<state, timeout, xid, info, msg, sock, nvars>>

GiveUp ==
  /\ pc = "poll" /\ timeout >= TIMEOUT_MAX
  /\ info.type # "offer"
  /\ Return("etime", "error")
  /\ sock' = "closed"
  /\ waited' = waited + timeout
  /\ UNCHANGED <<state, timeout, xid, info, msg, last_good_info, nvars>>

PollTimesOut == Resend \/ AssumeOffer \/ GiveUp

---------------------------------------------------------------------------
(* poll reports a packet.  Packets that receive_packet filters out, and an *)
(* interrupted poll, change nothing but the time at which poll restarts:   *)
(* they are stuttering steps.                                              *)

Arrives(p) ==
  /\ pc = "poll" /\ sock = "open" /\ segment = "busy"
  /\ p \in replies \cup Noise
  /\ info' = Decode(p)
  /\ UNCHANGED <<replies, segment, waited>>

\* The packet is decoded into info before anything asks whose it is.
Discard(p) ==
  /\ Arrives(p)
  /\ ~is_valid_reply(msg, p)
  /\ UNCHANGED <<pc, state, timeout, xid, msg, sock, exit, ret, last_good_info, wire>>

\* Mutant of TakeOffer: the REQUEST is built from what info held before the
\* offer was decoded.
TakeOfferOldInfo(p) ==
  /\ Arrives(p) /\ is_valid_reply(msg, p)
  /\ state = "SELECTING" /\ info'.type = "offer"
  /\ state' = "REQUESTING"
  /\ timeout' = TIMEOUT_INITIAL
  /\ xid' = (xid + 1) % XidLimit
  /\ UNCHANGED sock
  /\ Transmit(state', xid', info)
  /\ UNCHANGED <<pc, exit, ret, last_good_info>>

TakeOffer(p) ==
  /\ Arrives(p) /\ is_valid_reply(msg, p)
  /\ state = "SELECTING" /\ info'.type = "offer"
  /\ state' = "REQUESTING"
  /\ timeout' = TIMEOUT_INITIAL
  /\ xid' = (xid + 1) % XidLimit
  /\ UNCHANGED sock
  /\ Transmit(state', xid', info')
  /\ UNCHANGED <<pc, exit, ret, last_good_info>>

TakeAck(p) ==
  /\ Arrives(p) /\ is_valid_reply(msg, p)
  /\ state = "REQUESTING" /\ info'.type = "ack"
  /\ sock' = "closed"
  /\ dhcp_configure(info', "acked")
  /\ UNCHANGED <<state, timeout, xid, msg, wire>>

TakeNak(p) ==
  /\ Arrives(p) /\ is_valid_reply(msg, p)
  /\ state = "REQUESTING" /\ info'.type = "nak"
  /\ sock' = "closed"
  /\ Return("nak", "error")
  /\ UNCHANGED <<state, timeout, xid, msg, last_good_info, wire>>

\* A valid reply of a type the state has no use for.
IgnoreType(p) ==
  /\ Arrives(p) /\ is_valid_reply(msg, p)
  /\ info'.type \notin (IF state = "SELECTING" THEN {"offer"} ELSE {"ack", "nak"})
  /\ UNCHANGED <<pc, state, timeout, xid, msg, sock, exit, ret, last_good_info, wire>>

Receive(p) == \/ Discard(p) \/ TakeOffer(p) \/ TakeAck(p) \/ TakeNak(p) \/ IgnoreType(p)

\* poll fails, or the read says ENETDOWN or ENXIO; the socket is left open.
LinkFails ==
  /\ pc = "poll"
  /\ Return("iofail", "error")
  /\ UNCHANGED <<state, timeout, xid, info, msg, sock, last_good_info, nvars, waited>>

---------------------------------------------------------------------------
(* The segment: the servers as the client relies on them *)

Reply(type, x, ip, s, cookie) ==
  [chaddr |-> Client, xid |-> x, type |-> type, yiaddr |-> ip, server |-> s,
   header |-> TRUE, cookie |-> cookie]

\* The address server s has offered to this client, if any.
Offered(s) == {p.yiaddr : p \in {q \in replies : q.type = "offer" /\ q.server = s}}

\* A server offers one address and holds to it.
ServerOffers(s, ip) ==
  /\ pc = "poll" /\ segment = "busy"
  /\ \E m \in wire : m.type = "discover"
       /\ Offered(s) \subseteq {ip}
       /\ replies' = replies \cup {Reply("offer", m.xid, ip, s, TRUE)}
  /\ UNCHANGED <<cvars, wire, segment, waited>>

\* A server grants only what it has offered; it may refuse at any time.
ServerAnswers(s) ==
  /\ pc = "poll" /\ segment = "busy"
  /\ \E m \in wire, verdict \in {"ack", "nak"} :
       /\ m.type = "request" /\ m.server = s /\ m.ip # Zero
       /\ verdict = "ack" => m.ip \in Offered(s)
       /\ replies' = replies \cup
            {Reply(verdict, m.xid, IF verdict = "ack" THEN m.ip ELSE Zero, s, TRUE)}
  /\ UNCHANGED <<cvars, wire, segment, waited>>

\* A plain BOOTP server answers without DHCP options.
BootpAnswers ==
  /\ pc = "poll" /\ segment = "busy"
  /\ \E m \in wire : replies' = replies \cup {Reply(NOTYPE, m.xid, Zero, Zero, FALSE)}
  /\ UNCHANGED <<cvars, wire, segment, waited>>

SegmentFallsQuiet ==
  /\ pc = "poll" /\ segment = "busy"
  /\ segment' = "quiet"
  /\ UNCHANGED <<cvars, wire, replies, waited>>

---------------------------------------------------------------------------
Next ==
  \/ SetupFails \/ Begin \/ LinkFails
  \/ Resend \/ AssumeOffer \/ GiveUp
  \/ \E p \in replies \cup Noise : Receive(p)
  \/ \E s \in Server, ip \in Address : ServerOffers(s, ip)
  \/ \E s \in Server : ServerAnswers(s)
  \/ BootpAnswers
  \/ SegmentFallsQuiet

Spec == Init /\ [][Next]_vars

\* poll restarts its clock for every packet, so a timeout is certain only on a
\* segment that has fallen quiet.
FairSpec == Spec /\ WF_vars(segment = "quiet" /\ PollTimesOut)

---------------------------------------------------------------------------
TypeOK ==
  /\ pc \in {"start", "poll", "returned"}
  /\ state \in {"SELECTING", "REQUESTING"}
  /\ timeout \in {4000, 8000, 16000, 32000}
  /\ xid \in Xid
  /\ info \in Info /\ last_good_info \in Info
  /\ msg \in Message
  /\ sock \in {"none", "open", "bad", "closed"}
  /\ exit \in {"none", "setup", "acked", "assumed", "nak", "etime", "iofail"}
  /\ ret \in {"running", "ok", "error"}
  /\ wire \subseteq Message /\ replies \subseteq Packet
  /\ segment \in {"busy", "quiet"} /\ waited \in Nat

---------------------------------------------------------------------------
(* Properties *)

OfferedPair(ip, s) ==
  \E p \in replies : p.type = "offer" /\ p.yiaddr = ip /\ p.server = s

RequestedPair(ip, s) ==
  \E m \in wire : m.type = "request" /\ m.ip = ip /\ m.server = s

\* What dhcp_init_ifc configures on an ACK is a lease that a server granted to
\* this host: the same server had offered it, the client had asked that server
\* for it, and no ACK on its way to a neighbour was taken instead.
AckedLeaseIsOurs ==
  exit = "acked" =>
    \E p \in replies :
      /\ p.type = "ack" /\ last_good_info = Decode(p)
      /\ OfferedPair(p.yiaddr, p.server)
      /\ RequestedPair(p.yiaddr, p.server)

\* Although every packet heard overwrites info, a client that waits for an ACK
\* has asked at least once for an offer that was made to it.
SelectedOfferRequested ==
  state = "REQUESTING" =>
    \E p \in replies : p.type = "offer" /\ RequestedPair(p.yiaddr, p.server)

\* The time spent in polls that time out, with the timeout doubled from 4 s to
\* 32 s once in each state: a client that gives up, or falls back on an offer,
\* has waited for a full round (60 s) and no client waits for 90 s.
BackoffBudget ==
  /\ waited < 90000
  /\ exit \in {"assumed", "etime"} => waited >= 60000
  /\ exit \in {"acked", "nak"} => waited < 60000

\* Packet p answers message m: the transaction id and, to a REQUEST, the server
\* asked and the address an ACK grants are those of the message.
Answers(p, m) ==
  /\ p.xid = m.xid
  /\ \/ p.type = "offer" /\ m.type = "discover"
     \/ p.type \in {"ack", "nak"} /\ m.type = "request" /\ p.server = m.server
  /\ p.type = "ack" => p.yiaddr = m.ip

\* What moves the exchange forward or ends it is a server's answer to a message
\* that this client sent in the transaction under way (msg.type and msg.xid):
\* never a neighbour's ACK or NAK, nor a late answer to the DISCOVER once the client
\* waits for an ACK.  Which REQUEST of the transaction it answers the client cannot
\* tell: they share one id, and a repeated one is built from what info then holds.
AdvancesOnOwnAnswer ==
  [][state' # state \/ (exit' # exit /\ exit' \in {"acked", "nak"}) =>
       \E p \in replies, m \in wire :
         /\ m.type = msg.type /\ m.xid = msg.xid
         /\ Answers(p, m) /\ info' = Decode(p)
         /\ p.type = "offer" <=> state = "SELECTING"]_vars

\* On a segment without other DHCP clients (late, repeated and reordered
\* replies, several servers and BOOTP replies included) the client asks for,
\* and falls back on, nothing but what some server offered it.
UsesOnlyOffers ==
  /\ \A m \in wire : m.ip # Zero => OfferedPair(m.ip, m.server)
  /\ exit = "assumed" => OfferedPair(last_good_info.ipaddr, last_good_info.serveraddr)

\* dhcpclient.c:432 announces "configuring %s with offered parameters".
AssumedWasOffered ==
  exit = "assumed" => OfferedPair(last_good_info.ipaddr, last_good_info.serveraddr)

\* The exchange as Lease describes it: the addresses in the packets between the
\* servers and this host, and what dhcp_init_ifc made of them.
LeaseIn(ip, s) == [ip |-> ip, server |-> s]
LeasesOf(type) == {LeaseIn(p.yiaddr, p.server) : p \in {q \in replies : q.type = type}}
LeasesAsked == {LeaseIn(m.ip, m.server) : m \in {q \in wire : q.ip # Zero}}
Outcome == CASE exit = "none" -> "none" [] exit = "acked" -> "leased"
             [] exit = "assumed" -> "fallback" [] OTHER -> "failed"

L == INSTANCE Lease WITH
  None <- ZeroInfo,
  offered <- LeasesOf("offer"), asked <- LeasesAsked, granted <- LeasesOf("ack"),
  outcome <- Outcome,
  lease <- IF Outcome \in {"leased", "fallback"}
           THEN LeaseIn(last_good_info.ipaddr, last_good_info.serveraddr) ELSE ZeroInfo

\* On a segment without other DHCP clients the program does what Lease promises,
\* whatever is lost, late, repeated or reordered, and however many servers answer:
\* it asks only for offers, and what it configures, once, was granted to it or, when
\* it falls back after the last timeout, offered.
ImplementsLease == L!Spec

\* Once the segment has fallen quiet the four or eight timeouts of the backoff
\* run out and dhcp_init_ifc returns.
QuietEnds == segment = "quiet" ~> pc = "returned"
===========================================================================
