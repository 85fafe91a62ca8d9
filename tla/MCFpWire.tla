------------------------------ MODULE MCFpWire ------------------------------
(***************************************************************************)
(* Model-checking instance of FpWire.                                      *)
(*                                                                         *)
(* Inbound packets are built the way spec.md 6 lays them out: a header,    *)
(* then one or two payloads, cut at every length from 0 to the whole       *)
(* frame.  Each message is an abstract list of payloads, so the handler    *)
(* calls fpproto_rcv should make, and the error label it should take, can  *)
(* be stated without reference to the parser.                              *)
(*                                                                         *)
(* Outbound descriptors cover packets with and without a RESET request     *)
(* and with 0 to 2 A-REQ entries.                                          *)
(***************************************************************************)
EXTENDS FpWire

-----------------------------------------------------------------------------
(* Payloads, as the arbiter means them.                                    *)

\* A timestamp of 56 bits, as 8 bytes with a zero top byte.
PayloadReset == [kind |-> "reset", tstamp |-> << 0, 17, 34, 51, 68, 85, 102, 119 >>]

PayloadAllocEmpty == [kind |-> "alloc", base |-> 258, dst |-> << >>, tslots |-> << >>]

PayloadAlloc == [kind |-> "alloc", base |-> 2571, dst |-> << 772, 1286 >>,
                 tslots |-> << 9, 10 >>]

\* The run length's top nibble is the type; these are the other seven.
PayloadAck == [kind |-> "ack", runlen |-> << 3, 4, 5, 6, 7, 8, 9 >>,
               seq |-> 43981]

\* An A-REQ header, a type the endpoint does not parse.
PayloadUnknown == [kind |-> "unknown", raw |-> << 4 * 16, 1 >>]

Payloads == {PayloadReset, PayloadAllocEmpty, PayloadAlloc, PayloadAck,
             PayloadUnknown}

\* The arbiter's encoding of a payload, from the table of spec.md 6.
Encode(p) ==
  CASE p.kind = "reset" ->
         << FASTPASS_PTYPE_RESET * 16 >> \o SubSeq(p.tstamp, 2, 8)
    [] p.kind = "alloc" ->
         << FASTPASS_PTYPE_ALLOC * 16 + Len(p.dst), Len(p.tslots) \div 2 >>
         \o htons(p.base)
         \o FlattenSeq([i \in 1 .. Len(p.dst) |-> htons(p.dst[i])])
         \o p.tslots
    [] p.kind = "ack" ->
         LET w == << FASTPASS_PTYPE_ACK >> \o p.runlen
         IN  [i \in 1 .. 4 |-> w[2 * i - 1] * 16 + w[2 * i]]
         \o htons(p.seq)
    [] p.kind = "unknown" -> p.raw

\* The handler call a complete payload should produce.
Call(p) ==
  CASE p.kind = "reset" -> [kind |-> "reset", tstamp |-> p.tstamp]
    [] p.kind = "alloc" -> [kind |-> "alloc", base_tslot |-> p.base * 16,
                            dst |-> p.dst, tslots |-> p.tslots]
    [] p.kind = "ack"   -> [kind |-> "ack", ack_runlen |-> << FASTPASS_PTYPE_ACK >> \o p.runlen,
                            ack_seq |-> p.seq]

Header == << 18, 52, 0, 0 >>

EncodeAll(ps) == FlattenSeq([i \in 1 .. Len(ps) |-> Encode(ps[i])])

Lists == {<< p >> : p \in Payloads} \cup {<< p, q >> : p, q \in Payloads}

Messages == UNION {{[ps |-> ps, cut |-> c] : c \in 0 .. 4 + Len(EncodeAll(ps))}
                   : ps \in Lists}

Frame(m) == SubSeq(Header \o EncodeAll(m.ps), 1, m.cut)

MCPackets == {Frame(m) : m \in Messages}

-----------------------------------------------------------------------------
(* What fpproto_rcv should do with a message, stated on its payloads.      *)

\* Bytes of payload i of the frame that the cut leaves in the packet.
Avail(m, i) == m.cut - 4 - Len(EncodeAll(SubSeq(m.ps, 1, i - 1)))

\* The first payload that is not handled: unknown, or not wholly present.
Stop(m) ==
  LET stops == {i \in 1 .. Len(m.ps) :
                  m.ps[i].kind = "unknown" \/ Avail(m, i) < Len(Encode(m.ps[i]))}
  IN  IF stops = {} THEN Len(m.ps) + 1 ELSE CHOOSE i \in stops : \A j \in stops : i <= j

ExpectedCalls(m) ==
  IF m.cut < 5 THEN << >> ELSE [i \in 1 .. Stop(m) - 1 |-> Call(m.ps[i])]

ExpectedErr(m) ==
  LET i == Stop(m)
  IN  IF m.cut < 5 THEN "packet_too_short"
      ELSE IF i > Len(m.ps) \/ Avail(m, i) <= 0 THEN "none"
      ELSE CASE m.ps[i].kind = "unknown" -> "unknown_payload_type"
             [] m.ps[i].kind = "reset"   -> "incomplete_reset_payload"
             [] m.ps[i].kind = "ack"     -> "incomplete_ack_payload"
             [] m.ps[i].kind = "alloc"   ->
                  IF Avail(m, i) = 1 THEN "incomplete_alloc_payload_one_byte"
                                     ELSE "incomplete_alloc_payload"

Outcomes == {<< Frame(m), ExpectedCalls(m), ExpectedErr(m) >> : m \in Messages}

-----------------------------------------------------------------------------
(* Outbound descriptors and the arbiter's reading of what they emit.       *)

\* A realistic ns timestamp has a non-zero top byte.
Stamp == << 23, 154, 188, 222, 1, 35, 69, 103 >>

AreqLists == {<< >>,
              << [src_dst_key |-> 65541, tslots |-> 3] >>,
              << [src_dst_key |-> 7, tslots |-> 70000],
                 [src_dst_key |-> 258, tslots |-> 1] >>}

TestDescs == [seqno : {4660, 135000}, send_reset : BOOLEAN,
              reset_timestamp : {Stamp}, areq : AreqLists]

\* spec.md 6: header, an optional RESET (type RSTREQ) whose 8 bytes carry
\* timestamp bits 0..55, then the A-REQ header and its N entries.
ReadOutbound(b) ==
  LET rst == octet(b, 5) \div 16 = FASTPASS_PTYPE_RSTREQ
      a   == IF rst THEN 13 ELSE 5
      n   == ntohs(b, a) % 64
  IN  [seq    |-> ntohs(b, 1),
       reset  |-> IF rst THEN << 0 >> \o bytes_at(b, 6, 12) ELSE << >>,
       atype  |-> octet(b, a) \div 16,
       areq   |-> [i \in 1 .. n |-> [dst   |-> ntohs(b, a + 4 * i - 2),
                                     count |-> ntohs(b, a + 4 * i)]],
       length |-> a + 1 + 4 * n]

Meant(pd) ==
  [seq    |-> pd.seqno % 65536,
   reset  |-> IF pd.send_reset THEN << 0 >> \o SubSeq(pd.reset_timestamp, 2, 8)
                               ELSE << >>,
   atype  |-> FASTPASS_PTYPE_AREQ,
   areq   |-> [i \in 1 .. Len(pd.areq) |->
                 [dst |-> pd.areq[i].src_dst_key % 65536,
                  count |-> pd.areq[i].tslots % 65536]],
   length |-> payload_len(pd)]

-----------------------------------------------------------------------------
(* Properties.                                                             *)

\* When fpproto_rcv reaches cleanup, it has called the handlers for exactly
\* the payloads that lie wholly in the packet before the first unknown or
\* cut one, with the arguments the arbiter encoded, and it has taken the
\* error label that matches where and how the packet ends.
ParseMatchesPayloads ==
  pc = "cleanup" =>
    \A o \in Outcomes : o[1] = pkt => (calls = o[2] /\ err = o[3])

\* Every packet fpproto_send_packet writes fills exactly the payload_len
\* bytes the skb was sized for, and a reader following spec.md 6 gets back
\* the seqno's low 16 bits, timestamp bits 0..55 of a RESET request, and
\* every A-REQ entry truncated to 16 bits.
EmitMatchesWireFormat ==
  sent /= NoPacket =>
    /\ Len(sent.bytes) = sent.len
    /\ ReadOutbound(sent.bytes) = Meant(sent_pd)

=============================================================================
