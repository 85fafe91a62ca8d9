# TLA+ models of the Fastpass endpoint protocol

This directory holds TLA+ models of `src/src/kernel-mod/fastpass_proto.c`.
That file is the reliability core of a Fastpass endpoint. It hands packet
descriptors from the Fastpass qdisc to the arbiter, keeps them in an
outstanding window until they are acked, NACKed or freed, times them out
with an hrtimer and a tasklet, and resynchronises with the arbiter through
RESET payloads.

## The system's parts and how they interact

| Part | Code | State |
|---|---|---|
| Outstanding window | `outwnd_*` (98-312) | `bins[W]`, doubled `bin_mask[2W]`, `tx_num_unacked`, `next_seqno` |
| ACK processing | `fpproto_handle_ack`, `do_ack_seqno` (314-329, 489-548) | window only |
| Send path | `fpproto_prepare_to_send`, `fpproto_commit_packet` (853-898) | window, descriptor seqno/timestamp, timer, `earliest_unacked` |
| Retransmission | `cancel_and_reset_retrans_timer`, `retrans_timer_func`, `retrans_tasklet` (341-420) | hrtimer, tasklet, `earliest_unacked` |
| Protocol reset | `do_proto_reset`, `tstamp_in_window`, `fpproto_handle_reset` (422-483) | `last_reset_time`, `in_sync`, window |
| Receive dispatch | `fpproto_rcv` (553-703) | a cursor over the packet's payloads; calls the RESET, ALLOC and ACK handlers |
| Emission | `fpproto_send_packet` (903-986) | the skb it builds; statistics |
| Egress checksum | `fpproto_egress_checksum` (830-841) | the header's checksum field |
| Descriptor pool | `fpproto_pktdesc_alloc`, `fpproto_pktdesc_free` (86-96) | fresh zeroed descriptors; freed by the callbacks, by the core, or by `outwnd_reset` |
| Teardown | `fpproto_destroy_sock` (810-828), `fpproto_lock_qdisc` tombstone check (40-67) | `fp->qdisc`, timer, tasklet, window |
| Socket glue | connect, close, disconnect, hash, register | kernel bookkeeping |

Every handler that touches the window runs under the qdisc root lock
(`fpproto_lock_qdisc`). The qdisc calls the send path under that lock, and
`fpproto_rcv` takes it for the ACK and RESET handlers. Two actors run
outside it:
- the hrtimer callback, which only schedules the tasklet;
- the tasklet's first line, which reads the clock before the tasklet takes
  the lock.

`hrtimer_try_to_cancel` is the only way a locked handler learns about the
callback. It returns -1 while the callback runs, 1 when it removed an armed
timer, and 0 when the timer was idle.

## Modules

- **Outwnd.tla** holds pure operators on a window record, one per
  `outwnd_*` function. The two kernel bit scans are `FindNextBit` and
  `FindLastBit`. `outwnd_reset` is a RECURSIVE operator that follows the
  `goto clear_next_unacked` loop. Each operator maps a window to a window,
  so that one locked handler can be written as a composition of them.
- **FpAck.tla** models `fpproto_handle_ack`:
  - `FullSeqno` is the 16-bit to 64-bit seqno reconstruction.
  - The labels `do_next_positive` and `do_next_unacked` are two mutually
    recursive operators.
  - The u32 `ack_runlen` is a sequence of its 8 nibbles, most significant
    first, so that `<<= 4` is a tail plus a zero.
- **MCOutwnd.tla** drives one window through every reachable content. Its
  actions are adds, pops of any unacked seqno, and reset. In every state it
  compares the scans and the ACK walk with reference definitions stated on
  the set of unacked seqnos.
- **FpSession.tla** models one socket with all its actors. Each handler is
  one action: the whole handler, including the timer reset it ends with.
  - `SendPacket`: `fpproto_prepare_to_send` then `fpproto_commit_packet`,
    with the least free descriptor, stamped with the current time.
  - `ReceiveAck` and `ReceiveReset`: the `fpproto_rcv` cases.
  - `TimerExpire` and `retrans_timer_func`: the hrtimer firing, then its
    callback finishing. Between the two steps, `cb_running` makes
    `hrtimer_try_to_cancel` return -1.
  - `TaskletStart` and `retrans_tasklet`: the clock read before the lock,
    then the locked loop (`TaskletLoop`).
  - `Tick`: the clock.
  - `QdiscDestroy`: the qdisc's destroy function sets its `limit` to 0
    under the lock. That code is not under `src/`, so the step is modelled
    from spec.md 5.
  - `RcvDropped`, and the `qdisc = "dead"` branch of `retrans_tasklet`:
    the two places where `fpproto_lock_qdisc` sees the tombstone.
  - `DestroyReset`, `DestroyCancelTimer` and `DestroyKillTasklet`: the
    steps of `fpproto_destroy_sock`. They run without the lock. The last
    two block until the callback, and then the tasklet, are done.

  `SendPacket` takes a descriptor never handed out before, as
  `kmem_cache_zalloc` gives a fresh one. Who frees it, the upper
  layer's callback or the core, changes no protocol state.
  A ghost `bug` records the BUG_ON conditions that a handler can meet:
  `outwnd_add`'s at line 118 and the hint check at 206-207. The other
  BUG_ONs (119, 140, 160, 178, 318-322) are left out, because every pop is of
  a set bit and every scan argument is below `next_seqno`.
  `delivered` records which callback (`handle_ack`, `handle_neg_ack`, free on
  reset) each descriptor got.
- **ReliableSend.tla** is the abstract promise the qdisc relies on:
  - each descriptor takes the next seqno;
  - it stays outstanding until exactly one of: ack, NACK after its send
    timeout, NACK when it falls off the window at `next_seqno - W`, or a
    reset that frees it.

  `FpSession` instantiates it with a refinement mapping: a descriptor is
  outstanding exactly while the window holds it.
- **MCFpSession.tla** gives the session its constants.
- **FpReset.tla** holds the u64 timestamp arithmetic of
  `fpproto_handle_reset`: `FullTstamp` rebuilds a timestamp from its wire
  bits around `now`, and `tstamp_in_window` tests it against the reset
  window. Values are naturals taken modulo `2^WordBits`, so a subtraction
  below zero wraps as in the code. FpSession extends it.
- **MCFpReset.tla** lets the clock tick and wrap, and lets a RESET with
  any stamp arrive. It compares `FullTstamp` with spec.md 4.2 step 1 in
  every state.
- **FpWire.tla** models the wire codec at the byte level. A packet is a
  sequence of bytes, a u64 timestamp its 8 bytes, and a u32 run length its
  8 nibbles, as in FpAck.
  - `fpproto_send_packet` is an operator from a descriptor to the bytes
    it writes and the size the skb was given (`payload_len`), built from
    `RstReqPayload`, `AreqHeader` and `AreqEntry`. The action
    `SendPacket` adds the skb allocation failure, where nothing is sent.
  - `fpproto_rcv` is a state machine with one step per label: `Receive`
    (the length check), `HandleReset`, `HandleAlloc`, `HandleAck`,
    `UnknownPayload` (each with its error label, through `Fail`), and
    `Cleanup`. `data` is the cursor, `calls` the handler calls made so
    far, and `err` the error label taken. The whole walk holds the qdisc
    lock, so no other actor of the socket runs between its steps.
  - A read past `data_end` reads the skb's tailroom. `octet` returns 0
    there, one of the values it may hold. The code's length checks keep
    it from happening.
- **MCFpWire.tla** builds the inbound packets from abstract payloads, as
  spec.md 6 encodes them. Each packet has one or two payloads and is cut at
  every length. It states, from the payloads alone, what `fpproto_rcv`
  should call and which error label it should take. It also reads outbound
  packets back with a reader written from spec.md 6.

FpSession receives one ACK or RESET payload per step. A packet of several
payloads runs them in one lock hold. That makes no difference to what the
session can reach: every intermediate state is also the state after a
packet that carries only the first payloads.

## Runs

| Run | Expect | What it shows |
|---|---|---|
| `window_scans` (MCOutwnd.cfg) | pass | `ScansMatchReference` holds: `outwnd_at_or_before` and `outwnd_earliest_unacked_hint` find the right seqno for every seqno and every admissible hint, and the hint scan's BUG_ON never fires. `AckWalkMatchesRunlen` holds: the ACK walk acks exactly the seqnos the run-length word marks, under the code's polarity, and rejects ACKs that are too early. |
| `ack_spec_polarity` (MCOutwndSpecPolarity.cfg) | violation | The first run after the discarded top nibble is treated as acked. spec.md 4.4 calls it unacked. |
| `session` (MCFpSession.cfg) | pass | With all actors interleaved, teardown included: `NoBugOn` holds; the window stays well formed (`WindowIntegrity`); once `fpproto_destroy_sock` returns, no descriptor is undelivered and no timer, callback or tasklet is left (`DestroyQuiesces`); and the socket refines ReliableSend (`ImplementsReliableSend`). |
| `timer_covers_window` (MCFpSessionTimer.cfg) | violation | A fall-off NACK that cancels the armed timer returns without re-arming it (line 346: `!= 0` also catches 1). Unacked packets are then left with no timer and no tasklet. |
| `teardown_liveness` (MCFpSessionLive.cfg) | pass | Under `FairSpec`, once the qdisc is gone, `fpproto_destroy_sock` returns (`DestroyCompletes`). Its waits in `hrtimer_cancel` and `tasklet_kill` end because the tasklet gives up at `qdisc_destroyed`. |
| `expired_packets_resolved` (MCFpSessionExpiry.cfg) | violation | Under `FairSpec`, a packet whose deadline passes is never NACKed. Trace: commit 50 and 51, then ACK 51. `hrtimer_try_to_cancel` returns 1 and the timer is never re-armed. This is bug 1 on the ordinary ACK path. |
| `in_sync_once_acked` (MCFpSessionInSync.cfg) | violation | `InSyncOnceAcked`: spec.md 4.2 says any valid inbound packet that confirms the chosen reset flips `in_sync`. In the code only `fpproto_handle_reset` sets it. Trace: commit a packet, ACK it; the packet is acked and `in_sync` stays false, so every later commit still sets `send_reset` (line 884). |
| `reset_stamp` (MCFpReset.cfg) | pass | `FullTstampNearest`: for every clock value and wire stamp, the reconstructed timestamp is the value nearest to `now` with those low bits, as spec.md 4.2 step 1 says, across the u64 wrap of `now - 2^55` and of the sum. |
| `wire_codec` (MCFpWire.cfg) | pass | `ParseMatchesPayloads`: for every cut of every one- and two-payload packet, `fpproto_rcv` calls the handlers for exactly the payloads wholly present before the first unknown or truncated one, with the encoded arguments, and takes the matching error label. `EmitMatchesWireFormat`: `fpproto_send_packet` fills exactly the `payload_len` bytes of its skb, and the spec.md 6 layout reads back the seqno's low 16 bits, timestamp bits 0..55 and every A-REQ entry. |
| `tasklet_hint` (MCFpSessionHint.cfg) | violation | A cancel that races the running callback leaves `earliest_unacked` stale. After a fall-off, the tasklet scans from a hint outside the window (line 392, against the assumption stated at 188). |

Each property of a passing run has a mutant in PROJECT.json: a plausible
bug in the mapped code that TLC shows breaks it.

## Bounds

- `MCOutwnd`: W=4 and ten adds from seqno 100. Windows start at every
  residue mod 4, so the scans cross the seam between the two halves of the
  mask. The run-length words have zero-length runs, runs of 1-2, a non-zero
  discarded nibble, and a last positive run reached only through zero runs.
- `MCFpSession`:
  - W=2 with three descriptors, the smallest window in which a third
    commit forces a fall-off. Descriptors are never reused, so a behaviour
    has at most three commits. That covers one fall-off and its races with
    the timer and the tasklet, but not two in a row. With four descriptors
    the `session` run does not finish within ten minutes.
  - Send timeout 2 and the clock from 8 to 12 (13 in the two safety
    violation runs), so that packets expire while others are still fresh.
  - The two liveness runs stop the clock at 11 and offer one RESET stamp.
    Checking under fairness costs more per state, and the fall-off, the ACK
    path and the teardown all still happen within that bound.
  - RESET stamps 0 and 2 in a 3-bit wire field with a 5-bit word and window
    4. This exercises the accept, redundant and out-of-window branches of
    `fpproto_handle_reset`.
  - The jhash seqno base is `MCSeqBase`, which gives different epochs
    different bases.
  - ACK words cover acking the carried seqno only, and acking it plus the
    one below.

- `MCFpReset`: a 7-bit word and a 4-bit field. Every clock value is an
  initial state, so the window wraps around zero for the first and last
  eight of them. The algorithm uses only the ratio of the two widths and
  modular arithmetic, so these widths show every case that 64 and 56
  bits have.
- `MCFpWire`:
  - Five payloads: a RESET, an ALLOC with no destinations and no tslots, an
    ALLOC with two destinations and two tslot bytes, an ACK, and an A-REQ
    header, which the endpoint does not parse.
  - All lists of one or two of them, cut at every length from 0 to the
    whole frame. This reaches every error label. It reaches a cut in
    each field of each payload, including the one-byte ALLOC. It also
    reaches a second payload after each kind of first one.
  - Field values are distinct byte patterns, so a misplaced cursor shows
    up as wrong arguments.
  - The outbound descriptors have seqnos below and above 2^16, and are
    sent with and without RSTREQ. They carry 0, 1 or 2 A-REQ entries, with
    keys and counts that need truncating to 16 bits. The timestamp has a
    non-zero top byte, like any nanosecond realtime stamp.
  - The type nibbles are given in the cfg from spec.md 6. The protocol
    header that defines them is not under `src/`.

## Fairness

`FairSpec` adds weak fairness to the steps the kernel guarantees:
- the hrtimer firing once its expiry has passed (`TimerExpire`);
- a started callback finishing;
- the softirq running a scheduled tasklet to its end;
- the steps of `fpproto_destroy_sock` proceeding once what they wait on is
  done;
- `Tick`, because time passes.

Sends, ACKs, RESETs and the qdisc's destroy get no fairness: the upper
layer and the peer may stay silent forever. Fairness of `DestroyReset` is
written as `WF_destroy_pc(DestroyResetStep)`. That step is enabled exactly
when `DestroyReset` is, and only `DestroyReset` makes the `none` to
`cancel` move, so the two are equivalent. The cheaper form keeps TLC from
evaluating `outwnd_reset` for every transition.

## Not modelled

- `fpproto_egress_checksum` is left out. It is a ones-complement sum
  seeded with the jhash of the seqno and the IP pseudo-header, and it
  holds no protocol state. Nothing in `fpproto_rcv` checks it. Transmit
  errors are covered because the session never assumes delivery.
- The A-REQ count is checked for 0 to 2 entries. The header keeps only
  `n_areq & 0x3F`. Whether `n_areq` can reach 64 is decided by the qdisc
  that fills the descriptor, which is not under `src/`. It is not listed
  as a hazard of this code.
- Socket glue and registration are left out.
- A socket released while its qdisc is still live is not modelled. The
  model takes from spec.md 5 that the tombstone comes first, and then every
  handler that got the lock has finished before `destroy_sock` starts.
- The arbiter side of the RESET handshake is not modelled.

## Plan for later work

1. A handshake module that composes this endpoint with the arbiter over a
   lossy, reordering network, and checks that both eventually agree on an
   epoch. The arbiter is not in this repository. Two copies of this
   endpoint's handler would not be the right model: `in_sync_once_acked`
   shows that the endpoint needs a RESET echo, which the endpoint itself
   never sends.
2. Feed FpWire's handler calls into FpSession, so that the ACK and RESET
   steps take their arguments from parsed bytes at full width.
