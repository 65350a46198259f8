------------------------- MODULE DhcpClientProofs -------------------------
(***************************************************************************)
(* Proofs about DhcpClient for every set of servers, addresses and         *)
(* neighbours.                                                             *)
(***************************************************************************)
EXTENDS DhcpClient, TLAPS

USE XidAssumption DEF TIMEOUT_INITIAL, TIMEOUT_MAX

\* The record that decode_dhcp_msg fills is always a dhcp_info.
LEMMA DecodeType == ASSUME NEW p \in Packet PROVE Decode(p) \in Info
  BY DEF Decode, Packet, Info, ZeroInfo

\* A built message is well formed.
LEMMA BuildType ==
  ASSUME NEW st, NEW x \in Xid, NEW i \in Info PROVE BuildMessage(st, x, i) \in Message
  BY DEF BuildMessage, Message, Info

\* Noise is made of packets, and none of it passes is_valid_reply.
LEMMA NoiseInvalid ==
  ASSUME NEW p \in Noise, NEW m
  PROVE  p \in Packet /\ ~is_valid_reply(m, p)
  BY ClientAssumption DEF Noise, Packet, is_valid_reply

\* Transmission keeps the wire and the last message well formed.
LEMMA TransmitType ==
  ASSUME wire \subseteq Message, NEW st, NEW x \in Xid, NEW i \in Info, Transmit(st, x, i)
  PROVE  msg' \in Message /\ wire' \subseteq Message /\ wire \subseteq wire'
  BY BuildType DEF Transmit

\* What a server sends joins the replies.
LEMMA ReplySent ==
  ASSUME TypeOK, NEW r \in Packet, replies' = replies \cup {r},
         UNCHANGED <<cvars, wire, segment, waited>>
  PROVE  TypeOK'
<1>1. replies' \subseteq Packet
  BY DEF TypeOK
<1> QED
  BY <1>1 DEF TypeOK, cvars

\* An arriving packet is a packet and leaves a dhcp_info.
LEMMA ArrivesType ==
  ASSUME TypeOK, NEW p, Arrives(p)
  PROVE  p \in Packet /\ info' = Decode(p) /\ info' \in Info
  BY DecodeType, NoiseInvalid DEF Arrives, TypeOK

---------------------------------------------------------------------------
LEMMA TypeStep == TypeOK /\ [Next]_vars => TypeOK'
<1> SUFFICES ASSUME TypeOK, [Next]_vars PROVE TypeOK'
  OBVIOUS
<1>0. ZeroInfo \in Info
  BY DEF ZeroInfo, Info
<1>1. CASE SetupFails
  BY <1>1 DEF SetupFails, Return, TypeOK, nvars
<1>2. CASE Begin
  BY <1>2, TransmitType DEF Begin, TypeOK
<1>3. CASE LinkFails
  BY <1>3 DEF LinkFails, Return, TypeOK, nvars
<1>4. CASE Resend
  BY <1>4, TransmitType DEF Resend, TypeOK
<1>5. CASE AssumeOffer
  BY <1>5 DEF AssumeOffer, dhcp_configure, Return, TypeOK, nvars
<1>6. CASE GiveUp
  BY <1>6 DEF GiveUp, Return, TypeOK, nvars
<1>7. ASSUME NEW p \in replies \cup Noise, Receive(p) PROVE TypeOK'
  <2>1. CASE Discard(p)
    BY <2>1, ArrivesType DEF Discard, Arrives, TypeOK
  <2>2. CASE TakeOffer(p)
    <3>1. Arrives(p) /\ info' \in Info
      BY <2>2, ArrivesType DEF TakeOffer
    <3>2. xid' \in Xid
      BY <2>2 DEF TakeOffer, TypeOK, Xid
    <3>3. msg' \in Message /\ wire' \subseteq Message
      <4>1. Transmit(state', xid', info') /\ wire \subseteq Message
        BY <2>2 DEF TakeOffer, TypeOK
      <4>2. BuildMessage(state', xid', info') \in Message
        BY <3>1, <3>2, BuildType
      <4> QED
        BY <4>1, <4>2 DEF Transmit
    <3>4. /\ state' = "REQUESTING" /\ timeout' = 4000
          /\ UNCHANGED <<pc, sock, exit, ret, last_good_info, replies, segment, waited>>
      BY <2>2 DEF TakeOffer, Arrives
    <3> QED
      BY <3>1, <3>2, <3>3, <3>4 DEF TypeOK
  <2>3. CASE TakeAck(p)
    BY <2>3, ArrivesType DEF TakeAck, dhcp_configure, Return, Arrives, TypeOK
  <2>4. CASE TakeNak(p)
    BY <2>4, ArrivesType DEF TakeNak, Return, Arrives, TypeOK
  <2>5. CASE IgnoreType(p)
    BY <2>5, ArrivesType DEF IgnoreType, Arrives, TypeOK
  <2> QED
    BY <1>7, <2>1, <2>2, <2>3, <2>4, <2>5 DEF Receive
<1>8. ASSUME NEW s \in Server, NEW ip \in Address, ServerOffers(s, ip) PROVE TypeOK'
  <2> PICK m \in wire :
        m.type = "discover" /\ replies' = replies \cup {Reply("offer", m.xid, ip, s, TRUE)}
    BY <1>8 DEF ServerOffers
  <2>1. m.xid \in Xid
    BY DEF TypeOK, Message
  <2>2. Reply("offer", m.xid, ip, s, TRUE) \in Packet
    BY <2>1 DEF Reply, Packet, ReplyType
  <2>3. UNCHANGED <<cvars, wire, segment, waited>>
    BY <1>8 DEF ServerOffers
  <2> QED
    BY <2>2, <2>3, ReplySent
<1>9. ASSUME NEW s \in Server, ServerAnswers(s) PROVE TypeOK'
  <2> PICK m \in wire, verdict \in {"ack", "nak"} :
        replies' = replies \cup
          {Reply(verdict, m.xid, IF verdict = "ack" THEN m.ip ELSE Zero, s, TRUE)}
    BY <1>9 DEF ServerAnswers
  <2>1. m.xid \in Xid /\ m.ip \in Address \cup {Zero}
    BY DEF TypeOK, Message
  <2>2. Reply(verdict, m.xid, IF verdict = "ack" THEN m.ip ELSE Zero, s, TRUE) \in Packet
    BY <2>1 DEF Reply, Packet, ReplyType
  <2>3. UNCHANGED <<cvars, wire, segment, waited>>
    BY <1>9 DEF ServerAnswers
  <2> QED
    BY <2>2, <2>3, ReplySent
<1>10. CASE BootpAnswers
  <2> PICK m \in wire : replies' = replies \cup {Reply(NOTYPE, m.xid, Zero, Zero, FALSE)}
    BY <1>10 DEF BootpAnswers
  <2>1. m.xid \in Xid
    BY DEF TypeOK, Message
  <2>2. Reply(NOTYPE, m.xid, Zero, Zero, FALSE) \in Packet
    BY <2>1 DEF Reply, Packet
  <2>3. UNCHANGED <<cvars, wire, segment, waited>>
    BY <1>10 DEF BootpAnswers
  <2> QED
    BY <2>2, <2>3, ReplySent
<1>11. CASE SegmentFallsQuiet
  BY <1>11 DEF SegmentFallsQuiet, TypeOK, cvars
<1>12. CASE UNCHANGED vars
  BY <1>12 DEF TypeOK, vars, cvars, nvars
<1> QED
  BY <1>1, <1>2, <1>3, <1>4, <1>5, <1>6, <1>7, <1>8, <1>9, <1>10, <1>11, <1>12 DEF Next

LEMMA TypeInit == Init => TypeOK
  BY DEF Init, TypeOK, ZeroInfo, NoMessage, Info, Message, Xid

\* Every variable keeps its type; in particular the doubled timeout stays one
\* of the four values 4000, 8000, 16000 and 32000.
THEOREM TypeCorrect == Spec => []TypeOK
  BY TypeInit, TypeStep, PTL DEF Spec

---------------------------------------------------------------------------
(* The backoff *)

\* While the client is in SELECTING the polls that timed out add up to the
\* timeout less 4 s, a geometric sum; in REQUESTING what SELECTING cost, at
\* most 28 s, comes on top.
BackoffInv ==
  /\ pc = "start" => state = "SELECTING" /\ timeout = 4000 /\ waited = 0
  /\ pc # "returned" =>
       /\ exit = "none"
       /\ waited >= timeout - 4000
       /\ waited <= timeout - 4000 + (IF state = "SELECTING" THEN 0 ELSE 28000)
  /\ BackoffBudget

\* Nothing happens after the return.
LEMMA ReturnIsFinal == pc = "returned" /\ [Next]_vars => UNCHANGED vars
  BY DEF Next, SetupFails, Begin, LinkFails, Resend, AssumeOffer, GiveUp, Receive, Discard,
         TakeOffer, TakeAck, TakeNak, IgnoreType, Arrives, ServerOffers, ServerAnswers,
         BootpAnswers, SegmentFallsQuiet

\* Steps that move neither the client nor its clock.
LEMMA BackoffFrame ==
  ASSUME BackoffInv, UNCHANGED <<pc, state, timeout, exit, waited>>
  PROVE  BackoffInv'
  BY DEF BackoffInv, BackoffBudget

LEMMA BackoffStep == TypeOK /\ BackoffInv /\ [Next]_vars => BackoffInv'
<1> SUFFICES ASSUME TypeOK, BackoffInv, [Next]_vars PROVE BackoffInv'
  OBVIOUS
<1>1. CASE SetupFails
  BY <1>1 DEF SetupFails, Return, BackoffInv, BackoffBudget
<1>2. CASE Begin
  BY <1>2 DEF Begin, BackoffInv, BackoffBudget, TypeOK
<1>3. CASE LinkFails
  BY <1>3 DEF LinkFails, Return, BackoffInv, BackoffBudget, TypeOK
<1>4. CASE Resend
  BY <1>4 DEF Resend, BackoffInv, BackoffBudget, TypeOK
<1>5. CASE AssumeOffer
  BY <1>5 DEF AssumeOffer, dhcp_configure, Return, BackoffInv, BackoffBudget, TypeOK
<1>6. CASE GiveUp
  BY <1>6 DEF GiveUp, Return, BackoffInv, BackoffBudget, TypeOK
<1>7. ASSUME NEW p \in replies \cup Noise, Receive(p) PROVE BackoffInv'
  <2>1. CASE Discard(p) \/ IgnoreType(p)
    BY <2>1, BackoffFrame DEF Discard, IgnoreType, Arrives
  <2>2. CASE TakeOffer(p)
    BY <2>2 DEF TakeOffer, Arrives, BackoffInv, BackoffBudget, TypeOK
  <2>3. CASE TakeAck(p)
    BY <2>3 DEF TakeAck, dhcp_configure, Return, Arrives, BackoffInv, BackoffBudget, TypeOK
  <2>4. CASE TakeNak(p)
    BY <2>4 DEF TakeNak, Return, Arrives, BackoffInv, BackoffBudget, TypeOK
  <2> QED
    BY <1>7, <2>1, <2>2, <2>3, <2>4 DEF Receive
<1>8. ASSUME NEW s \in Server, NEW ip \in Address, ServerOffers(s, ip) PROVE BackoffInv'
  BY <1>8, BackoffFrame DEF ServerOffers, cvars
<1>9. ASSUME NEW s \in Server, ServerAnswers(s) PROVE BackoffInv'
  BY <1>9, BackoffFrame DEF ServerAnswers, cvars
<1>10. CASE BootpAnswers \/ SegmentFallsQuiet
  BY <1>10, BackoffFrame DEF BootpAnswers, SegmentFallsQuiet, cvars
<1>11. CASE UNCHANGED vars
  BY <1>11, BackoffFrame DEF vars, cvars
<1> QED
  BY <1>1, <1>2, <1>3, <1>4, <1>5, <1>6, <1>7, <1>8, <1>9, <1>10, <1>11 DEF Next

LEMMA BackoffInit == Init => BackoffInv
  BY DEF Init, BackoffInv, BackoffBudget

\* A client gives up or falls back on an offer only after a full round of 60 s
\* of silence, decides on an answer before that, and never waits for 90 s.
THEOREM BackoffCorrect == Spec => []BackoffBudget
<1>1. BackoffInv => BackoffBudget
  BY DEF BackoffInv
<1> QED
  BY TypeCorrect, BackoffInit, BackoffStep, <1>1, PTL DEF Spec

---------------------------------------------------------------------------
(* Whose answers the client acts on *)

\* A packet that passes is_valid_reply was sent to this client by a server.
LEMMA ValidIsReply ==
  ASSUME NEW p, Arrives(p), is_valid_reply(msg, p)
  PROVE  p \in replies
  BY NoiseInvalid DEF Arrives

\* Decoding a packet that holds a type finds the packet's own fields.
LEMMA DecodeFields ==
  ASSUME NEW p, Decode(p).type # NOTYPE
  PROVE  Decode(p) = [type |-> p.type, ipaddr |-> p.yiaddr, serveraddr |-> p.server]
  BY DEF Decode, ZeroInfo

\* Messages and replies stay available.
LEMMA HistoryGrows == [Next]_vars => wire \subseteq wire' /\ replies \subseteq replies'
<1> SUFFICES ASSUME [Next]_vars PROVE wire \subseteq wire' /\ replies \subseteq replies'
  OBVIOUS
<1>1. CASE SetupFails \/ LinkFails \/ AssumeOffer \/ GiveUp \/ UNCHANGED vars
  BY <1>1 DEF SetupFails, LinkFails, AssumeOffer, GiveUp, vars, nvars
<1>2. CASE Begin \/ Resend
  BY <1>2 DEF Begin, Resend, Transmit
<1>3. ASSUME NEW p \in replies \cup Noise, Receive(p)
      PROVE  wire \subseteq wire' /\ replies \subseteq replies'
  BY <1>3 DEF Receive, Discard, TakeOffer, TakeAck, TakeNak, IgnoreType, Arrives, Transmit
<1>4. ASSUME NEW s \in Server, NEW ip \in Address, ServerOffers(s, ip)
      PROVE  wire \subseteq wire' /\ replies \subseteq replies'
  BY <1>4 DEF ServerOffers
<1>5. ASSUME NEW s \in Server, ServerAnswers(s)
      PROVE  wire \subseteq wire' /\ replies \subseteq replies'
  BY <1>5 DEF ServerAnswers
<1>6. CASE BootpAnswers \/ SegmentFallsQuiet
  BY <1>6 DEF BootpAnswers, SegmentFallsQuiet
<1> QED
  BY <1>1, <1>2, <1>3, <1>4, <1>5, <1>6 DEF Next

LEMMA OfferedGrows ==
  ASSUME replies \subseteq replies', NEW ip, NEW s, OfferedPair(ip, s)
  PROVE  OfferedPair(ip, s)'
  BY DEF OfferedPair

LEMMA RequestedGrows ==
  ASSUME wire \subseteq wire', NEW ip, NEW s, RequestedPair(ip, s)
  PROVE  RequestedPair(ip, s)'
  BY DEF RequestedPair

\* Every reply with DHCP options answers a message this client has sent, and the
\* message last built is of the kind its state calls for.
Answered(p) == p.type # NOTYPE => \E m \in wire : Answers(p, m)

AnswerInv ==
  /\ \A p \in replies : Answered(p)
  /\ pc = "start" => state = "SELECTING"
  /\ pc = "poll" => msg.type = IF state = "SELECTING" THEN "discover" ELSE "request"

LEMMA AnsweredGrows ==
  ASSUME wire \subseteq wire', NEW p, Answered(p) PROVE Answered(p)'
  BY DEF Answered

LEMMA ReplyAnswers == TypeOK /\ AnswerInv /\ [Next]_vars => \A p \in replies' : Answered(p)'
<1> SUFFICES ASSUME TypeOK, AnswerInv, [Next]_vars, NEW p \in replies' PROVE Answered(p)'
  OBVIOUS
<1>0. wire \subseteq wire'
  BY HistoryGrows
<1>1. CASE p \in replies
  BY <1>0, <1>1, AnsweredGrows DEF AnswerInv
<1>2. CASE p \notin replies
  <2>1. UNCHANGED replies \/ BootpAnswers \/ \E s \in Server :
          ServerAnswers(s) \/ \E ip \in Address : ServerOffers(s, ip)
    BY DEF Next, vars, nvars, SetupFails, Begin, LinkFails, Resend, AssumeOffer, GiveUp,
           Receive, Discard, TakeOffer, TakeAck, TakeNak, IgnoreType, Arrives,
           SegmentFallsQuiet
  <2>2. CASE BootpAnswers
    BY <1>2, <2>2 DEF BootpAnswers, Reply, Answered
  <2>3. ASSUME NEW s \in Server, NEW ip \in Address, ServerOffers(s, ip) PROVE Answered(p)'
    <3> PICK m \in wire : /\ m.type = "discover"
                          /\ replies' = replies \cup {Reply("offer", m.xid, ip, s, TRUE)}
      BY <2>3 DEF ServerOffers
    <3>1. p.type = "offer" /\ p.xid = m.xid
      BY <1>2 DEF Reply
    <3> QED
      BY <1>0, <3>1 DEF Answered, Answers
  <2>4. ASSUME NEW s \in Server, ServerAnswers(s) PROVE Answered(p)'
    <3> PICK m \in wire, verdict \in {"ack", "nak"} :
          /\ m.type = "request" /\ m.server = s
          /\ replies' = replies \cup
               {Reply(verdict, m.xid, IF verdict = "ack" THEN m.ip ELSE Zero, s, TRUE)}
      BY <2>4 DEF ServerAnswers
    <3>1. p = Reply(verdict, m.xid, IF verdict = "ack" THEN m.ip ELSE Zero, s, TRUE)
      BY <1>2
    <3>2. /\ p.type = verdict /\ p.xid = m.xid /\ p.server = m.server
          /\ verdict = "ack" => p.yiaddr = m.ip
      BY <3>1 DEF Reply
    <3> QED
      BY <1>0, <3>2 DEF Answered, Answers
  <2> QED
    BY <1>0, <1>2, <2>1, <2>2, <2>3, <2>4
<1> QED
  BY <1>1, <1>2

LEMMA AnswerStep == TypeOK /\ AnswerInv /\ [Next]_vars => AnswerInv'
<1> SUFFICES ASSUME TypeOK, AnswerInv, [Next]_vars PROVE AnswerInv'
  OBVIOUS
<1> DEFINE Built == /\ (pc = "start" => state = "SELECTING")'
                    /\ (pc = "poll" => msg.type = IF state = "SELECTING" THEN "discover"
                                                                       ELSE "request")'
<1>1. CASE SetupFails \/ LinkFails \/ GiveUp \/ AssumeOffer
  BY <1>1, ReplyAnswers
     DEF SetupFails, LinkFails, GiveUp, AssumeOffer, dhcp_configure, Return, AnswerInv
<1>2. CASE Begin \/ Resend
  <2>1. state' = state /\ pc' = "poll" /\ state \in {"SELECTING", "REQUESTING"}
    BY <1>2 DEF Begin, Resend, TypeOK
  <2>2. msg' = BuildMessage(state, xid, info)
    BY <1>2 DEF Begin, Resend, Transmit
  <2>3. Built
    BY <2>1, <2>2 DEF BuildMessage
  <2> QED
    BY <2>3, ReplyAnswers DEF AnswerInv
<1>3. ASSUME NEW p \in replies \cup Noise, Receive(p) PROVE Built
  <2>1. CASE Discard(p) \/ IgnoreType(p)
    BY <2>1 DEF Discard, IgnoreType, AnswerInv
  <2>2. CASE TakeAck(p) \/ TakeNak(p)
    BY <2>2 DEF TakeAck, TakeNak, dhcp_configure, Return
  <2>3. CASE TakeOffer(p)
    <3>1. state' = "REQUESTING" /\ msg' = BuildMessage("REQUESTING", xid', info') /\ pc' = "poll"
      BY <2>3 DEF TakeOffer, Transmit, Arrives
    <3> QED
      BY <3>1 DEF BuildMessage
  <2> QED
    BY <1>3, <2>1, <2>2, <2>3 DEF Receive
<1>4. CASE UNCHANGED cvars
  BY <1>4, ReplyAnswers DEF cvars, AnswerInv
<1>5. UNCHANGED cvars \/ SetupFails \/ LinkFails \/ GiveUp \/ AssumeOffer \/ Begin \/ Resend
        \/ \E p \in replies \cup Noise : Receive(p)
  BY DEF Next, vars, ServerOffers, ServerAnswers, BootpAnswers, SegmentFallsQuiet
<1>6. CASE Built
  BY <1>6, ReplyAnswers DEF AnswerInv
<1>7. CASE SetupFails \/ LinkFails \/ GiveUp \/ AssumeOffer
  BY <1>1, <1>7
<1> QED
  BY <1>2, <1>3, <1>4, <1>5, <1>6, <1>7

LEMMA AnswerInit == Init => AnswerInv
  BY DEF Init, AnswerInv

\* The transaction under way is moved forward or ended by nothing but a server's
\* answer to a message this client has sent in it: same id, for an ACK or NAK the
\* server that was asked, for an ACK an address that was asked for.
THEOREM AdvancesCorrect == Spec => AdvancesOnOwnAnswer
<1> DEFINE Moves == state' # state \/ (exit' # exit /\ exit' \in {"acked", "nak"})
           Own == \E p \in replies, m \in wire :
                    /\ m.type = msg.type /\ m.xid = msg.xid
                    /\ Answers(p, m) /\ info' = Decode(p)
                    /\ p.type = "offer" <=> state = "SELECTING"
<1>1. TypeOK /\ AnswerInv /\ [Next]_vars => [Moves => Own]_vars
  <2> SUFFICES ASSUME TypeOK, AnswerInv, Next, Moves PROVE Own
    BY DEF vars, cvars
  <2>1. PICK p \in replies \cup Noise : TakeOffer(p) \/ TakeAck(p) \/ TakeNak(p)
    <3>1. ~SetupFails /\ ~Begin /\ ~LinkFails
      BY DEF SetupFails, Begin, LinkFails, Return
    <3>2. ~Resend /\ ~AssumeOffer /\ ~GiveUp
      BY DEF Resend, AssumeOffer, GiveUp, dhcp_configure, Return
    <3>3. \A p : ~Discard(p) /\ ~IgnoreType(p)
      BY DEF Discard, IgnoreType
    <3>4. UNCHANGED cvars => FALSE
      BY DEF cvars
    <3>5. ~BootpAnswers /\ ~SegmentFallsQuiet /\ \A s, ip : ~ServerOffers(s, ip) /\ ~ServerAnswers(s)
      BY <3>4 DEF BootpAnswers, SegmentFallsQuiet, ServerOffers, ServerAnswers
    <3> QED
      BY <3>1, <3>2, <3>3, <3>5 DEF Next, Receive
  <2>2. Arrives(p) /\ is_valid_reply(msg, p)
    BY <2>1 DEF TakeOffer, TakeAck, TakeNak
  <2>3. p \in replies
    BY <2>2, ValidIsReply
  <2>4. info' = Decode(p) /\ p.xid = msg.xid /\ pc = "poll"
    BY <2>2 DEF Arrives, is_valid_reply
  <2>5. \/ state = "SELECTING" /\ Decode(p).type = "offer"
        \/ state = "REQUESTING" /\ Decode(p).type \in {"ack", "nak"}
    BY <2>1, <2>4 DEF TakeOffer, TakeAck, TakeNak
  <2>6. p.type = Decode(p).type
    BY <2>5, DecodeFields DEF NOTYPE
  <2>7. PICK m \in wire : Answers(p, m)
    BY <2>3, <2>5, <2>6 DEF AnswerInv, Answered, NOTYPE
  <2>8. m.xid = msg.xid /\ m.type = msg.type
    BY <2>4, <2>5, <2>6, <2>7 DEF Answers, AnswerInv
  <2> QED
    BY <2>3, <2>4, <2>5, <2>6, <2>7, <2>8
<1> QED
  BY TypeCorrect, AnswerInit, AnswerStep, <1>1, PTL DEF Spec, AdvancesOnOwnAnswer

---------------------------------------------------------------------------
(* The lease *)

\* Every address in a reply was offered by its sender, and every ACK answers a
\* request for it; what AckedLeaseIsOurs and SelectedOfferRequested say of the
\* client rests on it.
ReplyInv ==
  \A p \in replies :
    /\ p.type = "ack" => p.cookie
    /\ p.yiaddr # Zero => OfferedPair(p.yiaddr, p.server)
    /\ p.type = "ack" => /\ OfferedPair(p.yiaddr, p.server)
                         /\ RequestedPair(p.yiaddr, p.server)

LeaseInv ==
  /\ ReplyInv
  /\ pc # "returned" => exit = "none"
  /\ pc = "start" => state = "SELECTING"
  /\ AckedLeaseIsOurs
  /\ SelectedOfferRequested

LEMMA ReplyStep == TypeOK /\ ReplyInv /\ [Next]_vars => ReplyInv'
<1> SUFFICES ASSUME TypeOK, ReplyInv, [Next]_vars, NEW p \in replies'
             PROVE  /\ p.type = "ack" => p.cookie
                    /\ p.yiaddr # Zero => OfferedPair(p.yiaddr, p.server)'
                    /\ p.type = "ack" => /\ OfferedPair(p.yiaddr, p.server)'
                                         /\ RequestedPair(p.yiaddr, p.server)'
  BY DEF ReplyInv
<1>1. CASE p \in replies
  BY <1>1, HistoryGrows, OfferedGrows, RequestedGrows DEF ReplyInv
<1>2. CASE p \notin replies
  <2>1. UNCHANGED replies \/ BootpAnswers \/ \E s \in Server :
          ServerAnswers(s) \/ \E ip \in Address : ServerOffers(s, ip)
    BY DEF Next, vars, nvars, SetupFails, Begin, LinkFails, Resend, AssumeOffer, GiveUp,
           Receive, Discard, TakeOffer, TakeAck, TakeNak, IgnoreType, Arrives,
           SegmentFallsQuiet
  <2>2. CASE BootpAnswers
    BY <1>2, <2>2 DEF BootpAnswers, Reply, NOTYPE
  <2>3. ASSUME NEW s \in Server, NEW ip \in Address, ServerOffers(s, ip)
        PROVE  p.type = "offer" /\ OfferedPair(p.yiaddr, p.server)'
    BY <1>2, <2>3 DEF ServerOffers, Reply, OfferedPair
  <2>4. ASSUME NEW s \in Server, ServerAnswers(s)
        PROVE  /\ p.yiaddr # Zero => p.type = "ack"
               /\ p.type = "ack" => /\ p.cookie
                                    /\ OfferedPair(p.yiaddr, p.server)
                                    /\ RequestedPair(p.yiaddr, p.server)
    <3> PICK m \in wire, verdict \in {"ack", "nak"} :
          /\ m.type = "request" /\ m.server = s /\ m.ip # Zero
          /\ verdict = "ack" => m.ip \in Offered(s)
          /\ replies' = replies \cup
               {Reply(verdict, m.xid, IF verdict = "ack" THEN m.ip ELSE Zero, s, TRUE)}
      BY <2>4 DEF ServerAnswers
    <3>1. p = Reply(verdict, m.xid, IF verdict = "ack" THEN m.ip ELSE Zero, s, TRUE)
      BY <1>2
    <3>2. CASE verdict = "nak"
      BY <3>1, <3>2 DEF Reply
    <3>3. CASE verdict = "ack"
      <4>1. p.type = "ack" /\ p.cookie /\ p.yiaddr = m.ip /\ p.server = s
        BY <3>1, <3>3 DEF Reply
      <4>2. OfferedPair(m.ip, s)
        BY <3>3 DEF Offered, OfferedPair
      <4>3. RequestedPair(m.ip, s)
        BY DEF RequestedPair
      <4> QED
        BY <4>1, <4>2, <4>3
    <3> QED
      BY <3>2, <3>3
  <2> QED
    BY <1>2, <2>1, <2>2, <2>3, <2>4, HistoryGrows, OfferedGrows, RequestedGrows
<1> QED
  BY <1>1, <1>2

\* A step that leaves the client's verdict, state and lease alone.
LEMMA LeaseFrame ==
  ASSUME LeaseInv, ReplyInv', [Next]_vars, UNCHANGED <<state, last_good_info>>,
         exit' = exit \/ exit' \notin {"none", "acked"},
         exit' = exit => pc' = pc \/ (pc = "start" /\ pc' = "poll"),
         exit' # exit => pc' = "returned"
  PROVE  LeaseInv'
<1>1. AckedLeaseIsOurs'
  <2> SUFFICES ASSUME exit = "acked" PROVE AckedLeaseIsOurs'
    BY DEF AckedLeaseIsOurs, LeaseInv
  <2> PICK p \in replies : /\ p.type = "ack" /\ last_good_info = Decode(p)
                           /\ OfferedPair(p.yiaddr, p.server)
                           /\ RequestedPair(p.yiaddr, p.server)
    BY DEF AckedLeaseIsOurs, LeaseInv
  <2> QED
    BY HistoryGrows, OfferedGrows, RequestedGrows DEF AckedLeaseIsOurs
<1>2. SelectedOfferRequested'
  <2> SUFFICES ASSUME state = "REQUESTING" PROVE SelectedOfferRequested'
    BY DEF SelectedOfferRequested, LeaseInv
  <2> PICK p \in replies : p.type = "offer" /\ RequestedPair(p.yiaddr, p.server)
    BY DEF SelectedOfferRequested, LeaseInv
  <2> QED
    BY HistoryGrows, RequestedGrows DEF SelectedOfferRequested
<1>3. (pc # "returned" => exit = "none")' /\ (pc = "start" => state = "SELECTING")'
  BY DEF LeaseInv
<1> QED
  BY <1>1, <1>2, <1>3 DEF LeaseInv

LEMMA LeaseStep == TypeOK /\ LeaseInv /\ [Next]_vars => LeaseInv'
<1> SUFFICES ASSUME TypeOK, LeaseInv, [Next]_vars PROVE LeaseInv'
  OBVIOUS
<1>0. ReplyInv'
  BY ReplyStep DEF LeaseInv
<1>1. CASE SetupFails \/ LinkFails \/ GiveUp
  <2>1. pc # "returned" /\ exit = "none"
    BY <1>1 DEF SetupFails, LinkFails, GiveUp, LeaseInv
  <2> QED
    BY <1>0, <1>1, <2>1, LeaseFrame DEF SetupFails, LinkFails, GiveUp, Return
<1>2. CASE Begin \/ Resend
  BY <1>0, <1>2, LeaseFrame DEF Begin, Resend
<1>3. CASE AssumeOffer
  <2>1. AckedLeaseIsOurs'
    BY <1>3 DEF AssumeOffer, dhcp_configure, Return, AckedLeaseIsOurs
  <2>2. SelectedOfferRequested'
    BY <1>3 DEF AssumeOffer, LeaseInv, SelectedOfferRequested, nvars, RequestedPair
  <2> QED
    BY <1>0, <1>3, <2>1, <2>2 DEF AssumeOffer, dhcp_configure, Return, LeaseInv
<1>4. ASSUME NEW p \in replies \cup Noise, Receive(p) PROVE LeaseInv'
  <2>1. CASE Discard(p) \/ IgnoreType(p)
    BY <1>0, <2>1, LeaseFrame DEF Discard, IgnoreType
  <2>2. CASE TakeNak(p)
    <3>1. pc # "returned" /\ exit = "none"
      BY <2>2 DEF TakeNak, Arrives, LeaseInv
    <3> QED
      BY <1>0, <2>2, <3>1, LeaseFrame DEF TakeNak, Return
  <2>3. CASE TakeOffer(p)
    <3>1. p \in replies /\ info' = Decode(p) /\ info'.type = "offer" /\ replies' = replies
      BY <2>3, ValidIsReply DEF TakeOffer, Arrives
    <3>2. p.type = "offer" /\ info'.ipaddr = p.yiaddr /\ info'.serveraddr = p.server
      BY <3>1, DecodeFields DEF NOTYPE
    <3>3. msg' = BuildMessage("REQUESTING", xid', info') /\ msg' \in wire'
      BY <2>3 DEF TakeOffer, Transmit, Arrives
    <3>4. RequestedPair(p.yiaddr, p.server)'
      BY <3>2, <3>3 DEF BuildMessage, RequestedPair
    <3>5. SelectedOfferRequested'
      BY <3>1, <3>2, <3>4 DEF SelectedOfferRequested
    <3>6. exit' = "none" /\ pc' = "poll"
      BY <2>3 DEF TakeOffer, Arrives, LeaseInv
    <3> QED
      BY <1>0, <3>5, <3>6 DEF LeaseInv, AckedLeaseIsOurs
  <2>4. CASE TakeAck(p)
    <3>1. p \in replies /\ info' = Decode(p) /\ info'.type = "ack"
      BY <2>4, ValidIsReply DEF TakeAck, Arrives
    <3>2. p.type = "ack"
      BY <3>1, DecodeFields DEF NOTYPE
    <3>3. p \in replies' /\ last_good_info' = Decode(p)
      BY <2>4, <3>1 DEF TakeAck, dhcp_configure, Arrives
    <3>4. OfferedPair(p.yiaddr, p.server)' /\ RequestedPair(p.yiaddr, p.server)'
      BY <1>0, <3>2, <3>3 DEF ReplyInv
    <3>5. AckedLeaseIsOurs'
      BY <3>2, <3>3, <3>4 DEF AckedLeaseIsOurs
    <3>6. SelectedOfferRequested'
      BY <2>4 DEF TakeAck, Arrives, LeaseInv, SelectedOfferRequested, RequestedPair
    <3> QED
      BY <1>0, <2>4, <3>5, <3>6 DEF TakeAck, dhcp_configure, Return, LeaseInv
  <2> QED
    BY <1>4, <2>1, <2>2, <2>3, <2>4 DEF Receive
<1>5. ASSUME NEW s \in Server, NEW ip \in Address, ServerOffers(s, ip) PROVE LeaseInv'
  BY <1>0, <1>5, LeaseFrame DEF ServerOffers, cvars
<1>6. ASSUME NEW s \in Server, ServerAnswers(s) PROVE LeaseInv'
  BY <1>0, <1>6, LeaseFrame DEF ServerAnswers, cvars
<1>7. CASE BootpAnswers \/ SegmentFallsQuiet
  BY <1>0, <1>7, LeaseFrame DEF BootpAnswers, SegmentFallsQuiet, cvars
<1>8. CASE UNCHANGED vars
  BY <1>0, <1>8, LeaseFrame DEF vars, cvars
<1> QED
  BY <1>1, <1>2, <1>3, <1>4, <1>5, <1>6, <1>7, <1>8 DEF Next

LEMMA LeaseInit == Init => LeaseInv
  BY DEF Init, LeaseInv, ReplyInv, AckedLeaseIsOurs, SelectedOfferRequested

LEMMA LeaseCorrect == Spec => []LeaseInv
  BY TypeCorrect, LeaseInit, LeaseStep, PTL DEF Spec

\* What is configured on an ACK is a lease a server granted to this host, on
\* the client's request for that server's offer.
THEOREM AckedLeaseCorrect == Spec => []AckedLeaseIsOurs
<1>1. LeaseInv => AckedLeaseIsOurs
  BY DEF LeaseInv
<1> QED
  BY LeaseCorrect, <1>1, PTL

\* A client in REQUESTING has asked for an offer that was made to it.
THEOREM SelectedOfferCorrect == Spec => []SelectedOfferRequested
<1>1. LeaseInv => SelectedOfferRequested
  BY DEF LeaseInv
<1> QED
  BY LeaseCorrect, <1>1, PTL

---------------------------------------------------------------------------
(* A segment without neighbours *)

AloneInv ==
  /\ info.ipaddr # Zero \/ info.type = "offer" => OfferedPair(info.ipaddr, info.serveraddr)
  /\ UsesOnlyOffers

\* A message is built from info, so a request names an offer or no address.
LEMMA AloneTransmit ==
  ASSUME NEW i, i.ipaddr # Zero => OfferedPair(i.ipaddr, i.serveraddr)', NEW st, NEW x,
         Transmit(st, x, i), \A m \in wire : m.ip # Zero => OfferedPair(m.ip, m.server)'
  PROVE  \A m \in wire' : m.ip # Zero => OfferedPair(m.ip, m.server)'
  BY DEF Transmit, BuildMessage

\* Without noise, what arrives was sent to this client.
LEMMA AloneArrives ==
  ASSUME Neighbour = {}, TypeOK, ReplyInv, NEW p, Arrives(p)
  PROVE  (info.ipaddr # Zero \/ info.type = "offer" =>
            OfferedPair(info.ipaddr, info.serveraddr))'
<1>1. p \in replies /\ info' = Decode(p) /\ replies' = replies
  BY DEF Arrives, Noise, Packet
<1>2. CASE p.cookie
  BY <1>1, <1>2 DEF Decode, ReplyInv, OfferedPair
<1>3. CASE ~p.cookie
  BY <1>1, <1>3 DEF Decode, ZeroInfo, NOTYPE
<1> QED
  BY <1>2, <1>3

LEMMA AloneStep ==
  ASSUME Neighbour = {}
  PROVE  TypeOK /\ LeaseInv /\ AloneInv /\ [Next]_vars => AloneInv'
<1> SUFFICES ASSUME TypeOK, LeaseInv, AloneInv, [Next]_vars PROVE AloneInv'
  OBVIOUS
<1>0. \A ip, s : OfferedPair(ip, s) => OfferedPair(ip, s)'
  BY HistoryGrows, OfferedGrows
<1>1. \A m \in wire : m.ip # Zero => OfferedPair(m.ip, m.server)'
  BY <1>0 DEF AloneInv, UsesOnlyOffers
<1>2. ASSUME UNCHANGED <<info, wire, last_good_info>>, exit' = exit \/ exit' # "assumed"
      PROVE  AloneInv'
  BY <1>0, <1>1, <1>2 DEF AloneInv, UsesOnlyOffers
<1>3. CASE SetupFails \/ LinkFails \/ GiveUp
  BY <1>2, <1>3 DEF SetupFails, LinkFails, GiveUp, Return, nvars
<1>4. CASE Begin \/ Resend
  <2>1. /\ UNCHANGED <<info, last_good_info, exit>>
        /\ \E st, x : Transmit(st, x, info)
    BY <1>4 DEF Begin, Resend
  <2>2. \A m \in wire' : m.ip # Zero => OfferedPair(m.ip, m.server)'
    BY <1>0, <1>1, <2>1, AloneTransmit DEF AloneInv
  <2> QED
    BY <1>0, <2>1, <2>2 DEF AloneInv, UsesOnlyOffers
<1>5. CASE AssumeOffer
  BY <1>0, <1>1, <1>5 DEF AssumeOffer, dhcp_configure, Return, AloneInv, UsesOnlyOffers, nvars
<1>6. ASSUME NEW p \in replies \cup Noise, Receive(p) PROVE AloneInv'
  <2>1. Arrives(p)
    BY <1>6 DEF Receive, Discard, TakeOffer, TakeAck, TakeNak, IgnoreType
  <2>2. (info.ipaddr # Zero \/ info.type = "offer" =>
           OfferedPair(info.ipaddr, info.serveraddr))'
    BY <2>1, AloneArrives DEF LeaseInv
  <2>3. CASE Discard(p) \/ TakeAck(p) \/ TakeNak(p) \/ IgnoreType(p)
    <3>1. wire' = wire /\ (exit' # "assumed" \/ UNCHANGED <<exit, last_good_info>>)
      BY <2>3 DEF Discard, TakeAck, TakeNak, IgnoreType, dhcp_configure, Return
    <3> QED
      BY <1>0, <1>1, <2>2, <3>1 DEF AloneInv, UsesOnlyOffers
  <2>4. CASE TakeOffer(p)
    <3>1. Transmit(state', xid', info') /\ UNCHANGED <<exit, last_good_info>>
      BY <2>4 DEF TakeOffer
    <3>2. \A m \in wire' : m.ip # Zero => OfferedPair(m.ip, m.server)'
      BY <1>1, <2>2, <3>1 DEF Transmit, BuildMessage
    <3> QED
      BY <1>0, <2>2, <3>1, <3>2 DEF AloneInv, UsesOnlyOffers
  <2> QED
    BY <1>6, <2>3, <2>4 DEF Receive
<1>7. ASSUME NEW s \in Server, NEW ip \in Address, ServerOffers(s, ip) PROVE AloneInv'
  BY <1>2, <1>7 DEF ServerOffers, cvars
<1>8. ASSUME NEW s \in Server, ServerAnswers(s) PROVE AloneInv'
  BY <1>2, <1>8 DEF ServerAnswers, cvars
<1>9. CASE BootpAnswers \/ SegmentFallsQuiet
  BY <1>2, <1>9 DEF BootpAnswers, SegmentFallsQuiet, cvars
<1>10. CASE UNCHANGED vars
  BY <1>2, <1>10 DEF vars, cvars, nvars
<1> QED
  BY <1>3, <1>4, <1>5, <1>6, <1>7, <1>8, <1>9, <1>10 DEF Next

LEMMA AloneInit == Init => AloneInv
  BY DEF Init, AloneInv, UsesOnlyOffers, ZeroInfo, NOTYPE

\* A client whose segment has no other DHCP client asks for, and falls back on,
\* nothing but what some server offered it.
THEOREM UsesOnlyOffersCorrect ==
  ASSUME Neighbour = {} PROVE Spec => []UsesOnlyOffers
<1>1. AloneInv => UsesOnlyOffers
  BY DEF AloneInv
<1>2. TypeOK /\ LeaseInv /\ AloneInv /\ [Next]_vars => AloneInv'
  BY AloneStep
<1> QED
  BY TypeCorrect, LeaseCorrect, AloneInit, <1>1, <1>2, PTL DEF Spec

---------------------------------------------------------------------------
(* DhcpClient implements Lease on a segment without other DHCP clients.    *)
(* The steps of the client and of the servers are those of Lease, one to   *)
(* one, or change nothing that Lease speaks of.                            *)

LEASE == [ip : Address, server : Server]

\* Offers and grants are complete: servers put neither 0.0.0.0 nor no server in them.
WholeInv ==
  \A p \in replies : p.type \in {"offer", "ack"} => LeaseIn(p.yiaddr, p.server) \in LEASE

LEMMA WholeStep == TypeOK /\ WholeInv /\ [Next]_vars => WholeInv'
<1> SUFFICES ASSUME TypeOK, WholeInv, [Next]_vars, NEW p \in replies',
                    p.type \in {"offer", "ack"}
             PROVE  LeaseIn(p.yiaddr, p.server) \in LEASE
  BY DEF WholeInv
<1>1. CASE p \in replies
  BY <1>1 DEF WholeInv
<1>2. CASE p \notin replies
  <2>1. UNCHANGED replies \/ BootpAnswers \/ \E s \in Server :
          ServerAnswers(s) \/ \E ip \in Address : ServerOffers(s, ip)
    BY DEF Next, vars, nvars, SetupFails, Begin, LinkFails, Resend, AssumeOffer, GiveUp,
           Receive, Discard, TakeOffer, TakeAck, TakeNak, IgnoreType, Arrives,
           SegmentFallsQuiet
  <2>2. ~BootpAnswers
    BY <1>2 DEF BootpAnswers, Reply, NOTYPE
  <2>3. ASSUME NEW s \in Server, NEW ip \in Address, ServerOffers(s, ip)
        PROVE  LeaseIn(p.yiaddr, p.server) \in LEASE
    BY <1>2, <2>3 DEF ServerOffers, Reply, LeaseIn, LEASE
  <2>4. ASSUME NEW s \in Server, ServerAnswers(s)
        PROVE  LeaseIn(p.yiaddr, p.server) \in LEASE
    <3> PICK m \in wire, verdict \in {"ack", "nak"} :
          /\ m.ip # Zero
          /\ replies' = replies \cup
               {Reply(verdict, m.xid, IF verdict = "ack" THEN m.ip ELSE Zero, s, TRUE)}
      BY <2>4 DEF ServerAnswers
    <3>1. p.yiaddr = m.ip /\ p.server = s
      BY <1>2 DEF Reply
    <3>2. m.ip \in Address
      BY DEF TypeOK, Message
    <3> QED
      BY <3>1, <3>2 DEF LeaseIn, LEASE
  <2> QED
    BY <1>2, <2>1, <2>2, <2>3, <2>4
<1> QED
  BY <1>1, <1>2

LEMMA WholeCorrect == Spec => []WholeInv
<1>1. Init => WholeInv
  BY DEF Init, WholeInv
<1> QED
  BY <1>1, TypeCorrect, WholeStep, PTL DEF Spec

---------------------------------------------------------------------------
(* The mapped variables *)

LEMMA InLeasesOf ==
  ASSUME NEW type, NEW ip, NEW s
  PROVE  LeaseIn(ip, s) \in LeasesOf(type) <=>
           \E p \in replies : p.type = type /\ p.yiaddr = ip /\ p.server = s
  BY DEF LeasesOf, LeaseIn

\* Only the fields Lease speaks of matter.
LEMMA Stutters ==
  ASSUME UNCHANGED <<exit, last_good_info>>,
         UNCHANGED <<LeasesOf("offer"), LeasesOf("ack"), LeasesAsked>>
  PROVE  UNCHANGED L!lvars
  BY DEF L!lvars, Outcome, LeasesOf, LeasesAsked

LEMMA NothingSent ==
  ASSUME UNCHANGED <<exit, last_good_info, replies, wire>>
  PROVE  UNCHANGED L!lvars
  BY DEF L!lvars, Outcome, LeasesOf, LeasesAsked

\* A reply adds its lease to those of its type.
LEMMA ReplyAdds ==
  ASSUME NEW r, replies' = replies \cup {r}
  PROVE  /\ LeasesOf("offer")' = IF r.type = "offer"
                                 THEN LeasesOf("offer") \cup {LeaseIn(r.yiaddr, r.server)}
                                 ELSE LeasesOf("offer")
         /\ LeasesOf("ack")' = IF r.type = "ack"
                               THEN LeasesOf("ack") \cup {LeaseIn(r.yiaddr, r.server)}
                               ELSE LeasesOf("ack")
  BY DEF LeasesOf

LEMMA MessageAdds ==
  ASSUME NEW m, wire' = wire \cup {m}
  PROVE  LeasesAsked' = IF m.ip # Zero THEN LeasesAsked \cup {LeaseIn(m.ip, m.server)}
                                       ELSE LeasesAsked
  BY DEF LeasesAsked

\* A transmission is a stutter, or asks for a lease that was offered.
LEMMA TransmitAsks ==
  ASSUME WholeInv, UsesOnlyOffers', exit = "none",
         NEW st, NEW x, NEW i, Transmit(st, x, i),
         UNCHANGED <<exit, last_good_info, replies>>
  PROVE  UNCHANGED L!lvars \/ \E l \in LEASE : L!Ask(l)
<1>1. CASE wire' = wire
  BY <1>1, NothingSent
<1>2. CASE wire' = wire \cup {msg'}
  <2>1. CASE msg'.ip = Zero
    <3>1. LeasesAsked' = LeasesAsked
      BY <1>2, <2>1, MessageAdds
    <3> QED
      BY <3>1, Stutters DEF LeasesOf
  <2>2. CASE msg'.ip # Zero
    <3> DEFINE l == LeaseIn(msg'.ip, msg'.server)
    <3>1. LeasesAsked' = LeasesAsked \cup {l}
      BY <1>2, <2>2, MessageAdds
    <3>2. PICK p \in replies :
            p.type = "offer" /\ p.yiaddr = msg'.ip /\ p.server = msg'.server
      BY <1>2, <2>2 DEF UsesOnlyOffers, OfferedPair
    <3>3. l \in LEASE /\ l \in LeasesOf("offer")
      BY <3>2, InLeasesOf DEF WholeInv
    <3>4. L!Ask(l)
      BY <3>1, <3>3 DEF L!Ask, Outcome, LeasesOf
    <3> QED
      BY <3>3, <3>4
  <2> QED
    BY <2>1, <2>2
<1> QED
  BY <1>1, <1>2 DEF Transmit

---------------------------------------------------------------------------
LEMMA StepImplements ==
  ASSUME Neighbour = {}
  PROVE  TypeOK /\ LeaseInv /\ AloneInv /\ AloneInv' /\ WholeInv /\ [Next]_vars
           => [L!Next]_(L!lvars)
<1> SUFFICES ASSUME TypeOK, LeaseInv, AloneInv, AloneInv', WholeInv, [Next]_vars
             PROVE  UNCHANGED L!lvars \/ L!Next
  OBVIOUS
<1>0. ASSUME \E l \in LEASE : L!Offer(l) \/ L!Ask(l) \/ L!Grant(l) \/ L!Take(l) \/ L!FallBack(l)
      PROVE  L!Next
  BY <1>0 DEF L!Next, LEASE
<1>1. CASE SetupFails \/ LinkFails \/ GiveUp
  <2>1. exit = "none" /\ exit' \in {"setup", "iofail", "etime"}
    BY <1>1 DEF SetupFails, LinkFails, GiveUp, Return, LeaseInv
  <2>2. UNCHANGED <<replies, wire>>
    BY <1>1 DEF SetupFails, LinkFails, GiveUp, nvars
  <2>3. L!Fail
    BY <2>1, <2>2 DEF L!Fail, Outcome, LeasesOf, LeasesAsked
  <2> QED
    BY <2>3 DEF L!Next
<1>2. CASE Begin \/ Resend
  <2>1. exit = "none" /\ UNCHANGED <<exit, last_good_info, replies>>
    BY <1>2 DEF Begin, Resend, LeaseInv
  <2>2. PICK st, x, i : Transmit(st, x, i)
    BY <1>2 DEF Begin, Resend
  <2> QED
    BY <1>0, <2>1, <2>2, TransmitAsks DEF AloneInv
<1>3. CASE AssumeOffer
  <2> DEFINE l == LeaseIn(info.ipaddr, info.serveraddr)
  <2>1. exit = "none" /\ exit' = "assumed" /\ last_good_info' = info /\ info.type = "offer"
    BY <1>3 DEF AssumeOffer, dhcp_configure, Return, LeaseInv
  <2>2. PICK p \in replies :
          p.type = "offer" /\ p.yiaddr = info.ipaddr /\ p.server = info.serveraddr
    BY <2>1 DEF AloneInv, OfferedPair
  <2>3. l \in LEASE /\ l \in LeasesOf("offer")
    BY <2>2, InLeasesOf DEF WholeInv
  <2>4. UNCHANGED <<replies, wire>>
    BY <1>3 DEF AssumeOffer, nvars
  <2>5. L!FallBack(l)
    BY <2>1, <2>3, <2>4 DEF L!FallBack, Outcome, LeasesOf, LeasesAsked
  <2> QED
    BY <1>0, <2>3, <2>5
<1>4. ASSUME NEW p \in replies \cup Noise, Receive(p) PROVE UNCHANGED L!lvars \/ L!Next
  <2>1. CASE Discard(p) \/ IgnoreType(p)
    BY <2>1, NothingSent DEF Discard, IgnoreType, Arrives
  <2>2. CASE TakeNak(p)
    <3>1. exit = "none" /\ exit' = "nak"
      BY <2>2 DEF TakeNak, Arrives, Return, LeaseInv
    <3>2. L!Fail
      BY <2>2, <3>1 DEF TakeNak, Arrives, L!Fail, Outcome, LeasesOf, LeasesAsked
    <3> QED
      BY <3>2 DEF L!Next
  <2>3. CASE TakeOffer(p)
    <3>1. exit = "none" /\ UNCHANGED <<exit, last_good_info, replies>>
      BY <2>3 DEF TakeOffer, Arrives, LeaseInv
    <3>2. Transmit(state', xid', info')
      BY <2>3 DEF TakeOffer
    <3> QED
      BY <1>0, <3>1, <3>2, TransmitAsks DEF AloneInv
  <2>4. CASE TakeAck(p)
    <3> DEFINE l == LeaseIn(p.yiaddr, p.server)
    <3>1. p \in replies /\ info' = Decode(p) /\ info'.type = "ack"
      BY <2>4, ValidIsReply DEF TakeAck, Arrives
    <3>2. p.type = "ack" /\ info'.ipaddr = p.yiaddr /\ info'.serveraddr = p.server
      BY <3>1, DecodeFields DEF NOTYPE
    <3>3. l \in LEASE /\ l \in LeasesOf("ack")
      BY <3>1, <3>2, InLeasesOf DEF WholeInv
    <3>4. /\ exit = "none" /\ exit' = "acked" /\ last_good_info' = info'
          /\ UNCHANGED <<replies, wire>>
      BY <2>4 DEF TakeAck, Arrives, dhcp_configure, Return, LeaseInv
    <3>5. L!Take(l)
      BY <3>2, <3>3, <3>4 DEF L!Take, Outcome, LeasesOf, LeasesAsked
    <3> QED
      BY <1>0, <3>3, <3>5
  <2> QED
    BY <1>4, <2>1, <2>2, <2>3, <2>4 DEF Receive
<1>5. ASSUME NEW s \in Server, NEW ip \in Address, ServerOffers(s, ip) PROVE L!Next
  <2> PICK m \in wire : replies' = replies \cup {Reply("offer", m.xid, ip, s, TRUE)}
    BY <1>5 DEF ServerOffers
  <2> DEFINE r == Reply("offer", m.xid, ip, s, TRUE)
  <2>0. r.type = "offer" /\ r.yiaddr = ip /\ r.server = s
    BY DEF Reply
  <2>1. /\ LeasesOf("offer")' = LeasesOf("offer") \cup {LeaseIn(ip, s)}
        /\ LeasesOf("ack")' = LeasesOf("ack")
    <3>1. replies' = replies \cup {r}
      OBVIOUS
    <3> HIDE DEF r
    <3> QED
      BY ONLY <2>0, <3>1, ReplyAdds
  <2>2. exit = "none" /\ UNCHANGED <<exit, last_good_info, wire>>
    BY <1>5 DEF ServerOffers, cvars, LeaseInv
  <2>3. L!Offer(LeaseIn(ip, s))
    BY <2>1, <2>2 DEF L!Offer, Outcome, LeasesAsked
  <2>4. LeaseIn(ip, s) \in LEASE
    BY DEF LeaseIn, LEASE
  <2> QED
    BY <1>0, <2>3, <2>4
<1>6. ASSUME NEW s \in Server, ServerAnswers(s) PROVE UNCHANGED L!lvars \/ L!Next
  <2>1. PICK m \in wire, verdict \in {"ack", "nak"} :
          /\ m.server = s /\ m.ip # Zero
          /\ verdict = "ack" => m.ip \in Offered(s)
          /\ replies' = replies \cup
               {Reply(verdict, m.xid, IF verdict = "ack" THEN m.ip ELSE Zero, s, TRUE)}
    BY <1>6 DEF ServerAnswers
  <2>2. exit = "none" /\ UNCHANGED <<exit, last_good_info, wire>>
    BY <1>6 DEF ServerAnswers, cvars, LeaseInv
  <2> DEFINE r == Reply(verdict, m.xid, IF verdict = "ack" THEN m.ip ELSE Zero, s, TRUE)
  <2>7. r.type = verdict /\ (verdict = "ack" => r.yiaddr = m.ip) /\ r.server = s
    BY DEF Reply
  <2>8. replies' = replies \cup {r}
    BY <2>1
  <2> HIDE DEF r
  <2>3. CASE verdict = "nak"
    <3>1. LeasesOf("offer")' = LeasesOf("offer") /\ LeasesOf("ack")' = LeasesOf("ack")
      BY ONLY <2>3, <2>7, <2>8, ReplyAdds
    <3> QED
      BY <2>2, <3>1, Stutters DEF LeasesAsked
  <2>4. CASE verdict = "ack"
    <3> DEFINE l == LeaseIn(m.ip, s)
    <3>1. /\ LeasesOf("ack")' = LeasesOf("ack") \cup {l}
          /\ LeasesOf("offer")' = LeasesOf("offer")
      BY ONLY <2>4, <2>7, <2>8, ReplyAdds
    <3>2. PICK p \in replies : p.type = "offer" /\ p.yiaddr = m.ip /\ p.server = s
      BY <2>1, <2>4 DEF Offered
    <3>3. l \in LEASE /\ l \in LeasesOf("offer")
      BY <3>2, InLeasesOf DEF WholeInv
    <3>4. l \in LeasesAsked
      BY <2>1 DEF LeasesAsked
    <3>5. L!Grant(l)
      BY <2>2, <3>1, <3>3, <3>4 DEF L!Grant, Outcome, LeasesAsked
    <3> QED
      BY <1>0, <3>3, <3>5
  <2> QED
    BY <2>1, <2>3, <2>4
<1>7. CASE BootpAnswers
  <2> PICK m \in wire : replies' = replies \cup {Reply(NOTYPE, m.xid, Zero, Zero, FALSE)}
    BY <1>7 DEF BootpAnswers
  <2> DEFINE r == Reply(NOTYPE, m.xid, Zero, Zero, FALSE)
  <2>0. r.type \notin {"offer", "ack"}
    BY DEF Reply, NOTYPE
  <2>1. LeasesOf("offer")' = LeasesOf("offer") /\ LeasesOf("ack")' = LeasesOf("ack")
    <3>1. replies' = replies \cup {r}
      OBVIOUS
    <3> HIDE DEF r
    <3> QED
      BY ONLY <2>0, <3>1, ReplyAdds
  <2> QED
    BY <1>7, <2>1, Stutters DEF BootpAnswers, cvars, LeasesAsked
<1>8. CASE SegmentFallsQuiet \/ UNCHANGED vars
  BY <1>8, NothingSent DEF SegmentFallsQuiet, vars, cvars, nvars
<1> QED
  BY <1>1, <1>2, <1>3, <1>4, <1>5, <1>6, <1>7, <1>8 DEF Next

LEMMA InitImplements == Init => L!Init
  BY DEF Init, L!Init, Outcome, LeasesOf, LeasesAsked

\* What a client whose segment has no other DHCP client configures was granted to it,
\* or offered if it falls back, and it asks for nothing else: every behaviour of the
\* program, servers and lost, late and repeated replies included, is one of Lease.
THEOREM ImplementsLeaseCorrect ==
  ASSUME Neighbour = {} PROVE Spec => ImplementsLease
<1>1. TypeOK /\ LeaseInv /\ AloneInv /\ [Next]_vars => AloneInv'
  BY AloneStep
<1>2. TypeOK /\ LeaseInv /\ AloneInv /\ AloneInv' /\ WholeInv /\ [Next]_vars
        => [L!Next]_(L!lvars)
  BY StepImplements
<1> QED
  BY <1>1, <1>2, TypeCorrect, LeaseCorrect, WholeCorrect, AloneInit, InitImplements, PTL
  DEF Spec, ImplementsLease, L!Spec
===========================================================================
