------------------------------- MODULE FpWire -------------------------------
(***************************************************************************)
(* The wire codec of fastpass_proto.c.                                     *)
(*                                                                         *)
(* Emission: fpproto_send_packet lays out the 4-byte header, the optional  *)
(* RSTREQ payload and the A-REQ list in a buffer of payload_len bytes.     *)
(* It is the operator fpproto_send_packet, from a descriptor to the bytes  *)
(* it writes, paired with the length the skb was given.                    *)
(*                                                                         *)
(* Reception: fpproto_rcv walks the payloads of one packet with a cursor   *)
(* `data`, jumping between the labels handle_payload, the three payload    *)
(* cases, the error labels and cleanup.  Each label is one step of the     *)
(* state machine below.  The whole walk runs under the qdisc lock, so no   *)
(* other actor of the socket sees a state between two steps.  The handler  *)
(* calls it makes are recorded, with their arguments, in `calls`.          *)
(*                                                                         *)
(* Bytes are naturals below 256 and a packet is a sequence of them, so     *)
(* `data` is a 1-based index and data_end is Len(pkt) + 1.  A u64          *)
(* timestamp is its 8 bytes, most significant first, and a u32 ACK run     *)
(* length is its 8 nibbles, most significant first, as in FpAck.           *)
(***************************************************************************)
EXTENDS Naturals, Sequences, SequencesExt, Bitwise

CONSTANTS
  FASTPASS_PTYPE_RESET,   \* payload type nibbles, from the protocol header
  FASTPASS_PTYPE_ALLOC,
  FASTPASS_PTYPE_ACK,
  FASTPASS_PTYPE_RSTREQ,
  FASTPASS_PTYPE_AREQ,
  Packets,                \* byte sequences the link may deliver
  Descs                   \* packet descriptors the qdisc may send

VARIABLES
  pkt,    \* the skb being parsed
  data,   \* the cursor into it
  pc,     \* the label fpproto_rcv is at
  calls,  \* handle_reset / handle_alloc / handle_ack calls made so far
  err,    \* the error label taken, or "none"
  sent_pd,  \* the descriptor fpproto_send_packet was last called with
  sent      \* what it put on the wire; NoPacket if the skb alloc failed

rcv_vars == <<pkt, data, pc, calls, err>>

vars == <<pkt, data, pc, calls, err, sent_pd, sent>>

Byte == 0 .. 255

-----------------------------------------------------------------------------
(* Byte order conversions.                                                 *)

htons(x) == << (x \div 256) % 256, x % 256 >>

\* The byte at s[i].  Past the end of the packet lies the skb's tailroom;
\* the model reads it as 0, one of the values it may hold.  The code never
\* reads there while its length checks are right.
octet(s, i) == IF i \in 1 .. Len(s) THEN s[i] ELSE 0

ntohs(s, i) == octet(s, i) * 256 + octet(s, i + 1)

\* The bytes s[i] .. s[j].
bytes_at(s, i, j) == [k \in 1 .. (j - i + 1) |-> octet(s, i + k - 1)]

\* ntohl of the u32 at s[i], as its 8 nibbles, most significant first.
NtohlNibbles(s, i) ==
  [k \in 1 .. 8 |-> IF k % 2 = 1 THEN octet(s, i + (k - 1) \div 2) \div 16
                                 ELSE octet(s, i + (k - 1) \div 2) % 16]

-----------------------------------------------------------------------------
(* Emission (fpproto_send_packet).  A descriptor is a record with seqno,  *)
(* send_reset, reset_timestamp (8 bytes) and areq, a sequence of records  *)
(* with src_dst_key and tslots.                                            *)

payload_len(pd) ==
  4 + 8 * (IF pd.send_reset THEN 1 ELSE 0) + 2 + 4 * Len(pd.areq)

\* Fault variant: the & 0x00FFFFFF is dropped, so the timestamp's top byte
\* is ORed into the type nibble.
RstReqPayload_unmasked(ts) ==
  << (FASTPASS_PTYPE_RSTREQ * 16) | ts[1], ts[2], ts[3], ts[4] >> \o SubSeq(ts, 5, 8)

\* hi_word = (RSTREQ << 28) | ((reset_timestamp >> 32) & 0x00FFFFFF), then
\* the low u32 of the timestamp, both in network order.
RstReqPayload(ts) ==
  << FASTPASS_PTYPE_RSTREQ * 16, ts[2], ts[3], ts[4] >> \o SubSeq(ts, 5, 8)

AreqHeader(n) == htons(FASTPASS_PTYPE_AREQ * 4096 + (n & 63))

AreqEntry(a) == htons(a.src_dst_key % 65536) \o htons(a.tslots % 65536)

\* The bytes written and the size of the skb they were written into.  The
\* checksum field is written as 0; fpproto_egress_checksum fills it in
\* afterwards and is not modelled.
fpproto_send_packet(pd) ==
  [ len   |-> payload_len(pd),
    bytes |-> htons(pd.seqno % 65536) \o << 0, 0 >>
              \o (IF pd.send_reset THEN RstReqPayload(pd.reset_timestamp)
                                   ELSE << >>)
              \o AreqHeader(Len(pd.areq))
              \o FlattenSeq([i \in 1 .. Len(pd.areq) |-> AreqEntry(pd.areq[i])]) ]

-----------------------------------------------------------------------------
(* Reception (fpproto_rcv).                                                *)

data_end == Len(pkt) + 1

payload_type == octet(pkt, data) \div 16

\* "more payloads in packet?": loop back to handle_payload or clean up.
Continue(d) == IF d < data_end THEN "handle_payload" ELSE "cleanup"

Fail(label) == /\ pc' = "cleanup"
               /\ err' = label
               /\ UNCHANGED <<pkt, data, calls>>

\* fpproto_send_packet: sock_alloc_send_skb may fail (alloc_err) and
\* nothing is sent; otherwise the packet is built and queued.  A transmit
\* error is only counted.
NoPacket == [len |-> 0, bytes |-> << >>]

SendPacket ==
  /\ \E pd \in Descs :
       /\ sent_pd' = pd
       /\ \/ sent' = NoPacket
          \/ sent' = fpproto_send_packet(pd)
  /\ UNCHANGED rcv_vars

Init ==
  /\ sent_pd = "none"
  /\ sent = NoPacket
  /\ pkt = << >>
  /\ data = 1
  /\ pc = "idle"
  /\ calls = << >>
  /\ err = "none"

\* A packet arrives on the connected socket and the lock is taken.  Fewer
\* than 5 bytes go to packet_too_short; otherwise the cursor starts after
\* the 4-byte header.
Receive ==
  /\ pc = "idle"
  /\ \E p \in Packets :
       /\ pkt' = p
       /\ IF Len(p) < 5
            THEN pc' = "cleanup" /\ err' = "packet_too_short"
            ELSE pc' = "handle_payload" /\ err' = "none"
  /\ data' = 5
  /\ calls' = << >>

\* case FASTPASS_PTYPE_RESET: the low 24 bits of the first word are the
\* timestamp's bits 32..55, so its top byte is dropped.
HandleReset ==
  /\ pc = "handle_payload"
  /\ payload_type = FASTPASS_PTYPE_RESET
  /\ IF data + 8 > data_end
       THEN Fail("incomplete_reset_payload")
       ELSE /\ calls' = Append(calls,
                 [kind |-> "reset",
                  tstamp |-> << 0 >> \o bytes_at(pkt, data + 1, data + 7)])
            /\ data' = data + 8
            /\ pc' = Continue(data + 8)
            /\ UNCHANGED <<pkt, err>>

\* Fault variant: the second length check forgets the 2-byte base_tslot.
AllocFits_no_base(d, n_dst, n_tslot) == d + 2 * n_dst + n_tslot <= data_end

\* The second ALLOC length check: base_tslot, the destinations, the tslots.
AllocFits(d, n_dst, n_tslot) == d + 2 + 2 * n_dst + n_tslot <= data_end

\* case FASTPASS_PTYPE_ALLOC, with its two length checks.
HandleAlloc ==
  /\ pc = "handle_payload"
  /\ payload_type = FASTPASS_PTYPE_ALLOC
  /\ IF data + 2 > data_end
       THEN Fail("incomplete_alloc_payload_one_byte")
       ELSE LET hdr     == ntohs(pkt, data)
                n_dst   == (hdr \div 256) & 15
                n_tslot == 2 * (hdr & 63)
                d       == data + 2
            IN  IF ~AllocFits(d, n_dst, n_tslot)
                  THEN Fail("incomplete_alloc_payload")
                  ELSE LET dsts == d + 2
                           ts   == dsts + 2 * n_dst
                       IN  /\ calls' = Append(calls,
                                [kind |-> "alloc",
                                 base_tslot |-> ntohs(pkt, d) * 16,
                                 dst |-> [i \in 1 .. n_dst |->
                                            ntohs(pkt, dsts + 2 * (i - 1))],
                                 tslots |-> bytes_at(pkt, ts, ts + n_tslot - 1)])
                           /\ data' = ts + n_tslot
                           /\ pc' = Continue(ts + n_tslot)
                           /\ UNCHANGED <<pkt, err>>

\* case FASTPASS_PTYPE_ACK: a u32 run length, then the low 16 bits of the
\* seqno.
HandleAck ==
  /\ pc = "handle_payload"
  /\ payload_type = FASTPASS_PTYPE_ACK
  /\ IF data + 6 > data_end
       THEN Fail("incomplete_ack_payload")
       ELSE /\ calls' = Append(calls,
                 [kind |-> "ack",
                  ack_runlen |-> NtohlNibbles(pkt, data),
                  ack_seq |-> ntohs(pkt, data + 4)])
            /\ data' = data + 6
            /\ pc' = Continue(data + 6)
            /\ UNCHANGED <<pkt, err>>

UnknownPayload ==
  /\ pc = "handle_payload"
  /\ payload_type \notin {FASTPASS_PTYPE_RESET, FASTPASS_PTYPE_ALLOC,
                          FASTPASS_PTYPE_ACK}
  /\ Fail("unknown_payload_type")

\* cleanup: unlock, free the skb; the socket is ready for the next packet.
Cleanup ==
  /\ pc = "cleanup"
  /\ pc' = "idle"
  /\ UNCHANGED <<pkt, data, calls, err>>

fpproto_rcv ==
  /\ \/ Receive
     \/ HandleReset
     \/ HandleAlloc
     \/ HandleAck
     \/ UnknownPayload
     \/ Cleanup
  /\ UNCHANGED <<sent_pd, sent>>

Next == SendPacket \/ fpproto_rcv

Spec == Init /\ [][Next]_vars

=============================================================================
