------------------------------ MODULE FpSession -----------------------------
(***************************************************************************)
(* One Fastpass endpoint socket (struct fastpass_sock) and the actors that *)
(* touch it: the qdisc send path (fpproto_prepare_to_send followed by      *)
(* fpproto_commit_packet), the receive softirq (fpproto_rcv dispatching    *)
(* ACK and RESET payloads), the hrtimer callback retrans_timer_func, and   *)
(* the retrans_tasklet.  Every handler except the timer callback and the   *)
(* first line of the tasklet runs under the qdisc root lock, so each is    *)
(* one atomic action; the tasklet reads the clock before it takes the lock *)
(* and is split there.                                                     *)
(*                                                                         *)
(* Time is the ns clock fp_get_time_ns (CLOCK_REALTIME, which also drives  *)
(* the hrtimer).  The RESET timestamp arithmetic is done modulo            *)
(* 2^WordBits with a 2^TsBits wire field, scaled down from 64 and 56 bits. *)
(***************************************************************************)
EXTENDS FpAck, FpReset, TLC

CONSTANTS
  SendTimeout,   \* fp->send_timeout_us, added to the send timestamp
  RstWin,        \* fp->rst_win_ns
  SeqBase(_),    \* reset_time + jhash(reset_time) splatted: the epoch's seqno
  ClockInit,     \* fp_get_time_ns() at fpproto_sk_init
  MaxClock,      \* bound on the clock
  AckRunLens,    \* ack_runlen words an ACK payload may carry
  ResetStamps    \* low TsBits bits of the timestamps RESET payloads carry

ASSUME SendTimeout \in Nat \ {0} /\ RstWin \in Nat
ASSUME ClockInit \in Nat /\ MaxClock < 2 ^ WordBits
ASSUME ResetStamps \subseteq 0 .. (2 ^ TsBits - 1)

VARIABLES
  clock,            \* fp_get_time_ns()
  outwnd,           \* the window record of module Outwnd
  desc,             \* fields the core writes into each committed descriptor
  delivered,        \* what the upper layer was told about each descriptor
  timer,            \* fp->retrans_timer: armed and its absolute expiry
  cb_running,       \* retrans_timer_func is executing
  tasklet,          \* retrans_tasklet: scheduled, running (clock read), its now
  earliest_unacked, \* fp->earliest_unacked
  last_reset_time,  \* fp->last_reset_time
  in_sync,          \* fp->in_sync
  bug,              \* some BUG_ON condition was met
  qdisc,            \* fp->qdisc: "live", or "dead" once its limit is 0
  destroy_pc        \* progress of fpproto_destroy_sock

teardown == <<qdisc, destroy_pc>>

vars == <<clock, outwnd, desc, delivered, timer, cb_running, tasklet,
          earliest_unacked, last_reset_time, in_sync, bug, qdisc, destroy_pc>>


Allocated == DOMAIN desc

\* outwnd_timestamp: sent_timestamp of the descriptor in seqno's slot.
outwnd_timestamp(w, seqno) == desc[w.bins[outwnd_pos(seqno)]].sent_timestamp

Arm(expires) == [armed |-> TRUE, expires |-> expires]

(***************************************************************************)
(* cancel_and_reset_retrans_timer.  hrtimer_try_to_cancel returns -1 while *)
(* the callback runs, 1 when it removed an armed timer, 0 when the timer   *)
(* was not armed; the code returns early on any non-zero value.            *)
(***************************************************************************)
TryToCancel(tm) == IF cb_running THEN -1 ELSE IF tm.armed THEN 1 ELSE 0

cancel_and_reset_retrans_timer(w, tm, eu) ==
  LET rc == TryToCancel(tm)
      s  == outwnd_earliest_unacked(w)
  IN  IF rc # 0
      THEN [timer |-> IF rc = 1 THEN [tm EXCEPT !.armed = FALSE] ELSE tm,
            eu |-> eu, bug |-> FALSE]
      ELSE IF outwnd_empty(w) THEN [timer |-> tm, eu |-> eu, bug |-> FALSE]
      ELSE [timer |-> Arm(outwnd_timestamp(w, s) + SendTimeout), eu |-> s,
            bug |-> HintBugOn(w, w.next_seqno - W)]

-----------------------------------------------------------------------------
(***************************************************************************)
(* fpproto_prepare_to_send then fpproto_commit_packet, as the qdisc calls  *)
(* them under its lock for a freshly allocated descriptor pd stamped with  *)
(* the current time.  (fpproto_send_packet then only builds the skb; its   *)
(* failures are counted and recovered by the timer.)                       *)
(***************************************************************************)
fpproto_prepare_to_send ==
  LET edge == outwnd.next_seqno - W
      w1   == outwnd_pop(outwnd, edge)
      c    == cancel_and_reset_retrans_timer(w1, timer, earliest_unacked)
  IN  IF outwnd_is_unacked(outwnd, edge)
      THEN [w |-> w1, timer |-> c.timer, eu |-> c.eu, bug |-> c.bug,
            nacked |-> {PoppedPd(outwnd, edge)}]
      ELSE [w |-> outwnd, timer |-> timer, eu |-> earliest_unacked,
            bug |-> FALSE, nacked |-> {}]

\* Fault variant: "first packet in outwnd" tested on the count before the add.
FirstInOutwnd_before_add(w, w2) == w.tx_num_unacked = 1

\* "if first packet in outwnd", after outwnd_add made w into w2.
FirstInOutwnd(w, w2) == w2.tx_num_unacked = 1

fpproto_commit_packet(p, pd) ==
  LET w2 == outwnd_add(p.w, pd)
      first == FirstInOutwnd(p.w, w2)
  IN  /\ outwnd' = w2
      /\ desc' = desc @@ (pd :> [seqno |-> p.w.next_seqno,
                                 sent_timestamp |-> clock])
      /\ timer' = IF first THEN Arm(clock + SendTimeout) ELSE p.timer
      /\ earliest_unacked' = IF first THEN p.w.next_seqno ELSE p.eu
      /\ bug' = (bug \/ p.bug \/ AddWouldOverwrite(p.w))

SendPacket ==
  /\ qdisc = "live"
  /\ \E pd \in Pd \ Allocated :
    /\ \A q \in Pd \ Allocated : pd =< q
    /\ LET p == fpproto_prepare_to_send
       IN  /\ fpproto_commit_packet(p, pd)
           /\ delivered' = [d \in Pd |-> IF d \in p.nacked THEN "nacked"
                                         ELSE delivered[d]]
    /\ UNCHANGED <<clock, cb_running, tasklet, last_reset_time, in_sync>>
    /\ UNCHANGED teardown

-----------------------------------------------------------------------------
\* The hrtimer expires and starts running retrans_timer_func.
TimerExpire ==
  /\ timer.armed /\ clock >= timer.expires /\ ~cb_running
  /\ timer' = [timer EXCEPT !.armed = FALSE]
  /\ cb_running' = TRUE
  /\ UNCHANGED <<clock, outwnd, desc, delivered, tasklet, earliest_unacked,
                 last_reset_time, in_sync, bug, qdisc, destroy_pc>>

\* retrans_timer_func: tasklet_schedule, HRTIMER_NORESTART.
retrans_timer_func ==
  /\ cb_running
  /\ cb_running' = FALSE
  /\ tasklet' = [tasklet EXCEPT !.pending = TRUE]
  /\ UNCHANGED <<clock, outwnd, desc, delivered, timer, earliest_unacked,
                 last_reset_time, in_sync, bug, qdisc, destroy_pc>>

\* retrans_tasklet starts: the scheduled bit is cleared and now is read
\* before the qdisc lock is taken.
TaskletStart ==
  /\ tasklet.pending /\ ~tasklet.running
  /\ tasklet' = [pending |-> FALSE, running |-> TRUE, now |-> clock]
  /\ UNCHANGED <<clock, outwnd, desc, delivered, timer, cb_running,
                 earliest_unacked, last_reset_time, in_sync, bug, qdisc,
                 destroy_pc>>

(***************************************************************************)
(* The while loop of retrans_tasklet: from the hint, find the earliest     *)
(* unacked seqno; NACK it if its timeout is not after now, else re-arm the *)
(* timer for it.  Returns the window, the NACKed descriptors, whether the  *)
(* loop ended at set_next_timer, and with which seqno and timeout.         *)
(***************************************************************************)
RECURSIVE TaskletLoop(_, _, _, _, _)
TaskletLoop(w, seqno, now, nacked, bg) ==
  IF outwnd_empty(w)
  THEN [w |-> w, nacked |-> nacked, rearm |-> FALSE, seqno |-> seqno,
        timeout |-> 0, bug |-> bg]
  ELSE LET s       == outwnd_earliest_unacked_hint(w, seqno)
           timeout == outwnd_timestamp(w, s) + SendTimeout
           bg1     == bg \/ HintBugOn(w, seqno)
       IN  IF timeout > now
           THEN [w |-> w, nacked |-> nacked, rearm |-> TRUE, seqno |-> s,
                 timeout |-> timeout, bug |-> bg1]
           ELSE TaskletLoop(outwnd_pop(w, s), s, now,
                            nacked \cup {PoppedPd(w, s)}, bg1)

\* Fault variant: at qdisc_destroyed the tasklet reschedules itself to
\* retry the lock later.
retrans_tasklet_retry_destroyed ==
  /\ tasklet.running
  /\ \/ /\ qdisc = "live"
        /\ LET r == TaskletLoop(outwnd, earliest_unacked, tasklet.now, {}, FALSE)
           IN  /\ outwnd' = r.w
               /\ delivered' = [d \in Pd |-> IF d \in r.nacked THEN "nacked"
                                             ELSE delivered[d]]
               /\ earliest_unacked' = IF r.rearm THEN r.seqno
                                      ELSE earliest_unacked
               /\ timer' = IF r.rearm THEN Arm(r.timeout) ELSE timer
               /\ bug' = (bug \/ r.bug)
               /\ tasklet' = [tasklet EXCEPT !.running = FALSE]
     \/ /\ qdisc = "dead"
        /\ UNCHANGED <<outwnd, delivered, earliest_unacked, timer, bug>>
        /\ tasklet' = [tasklet EXCEPT !.running = FALSE, !.pending = TRUE]
  /\ UNCHANGED <<clock, desc, cb_running, last_reset_time, in_sync, qdisc,
                 destroy_pc>>

\* The rest of retrans_tasklet: fpproto_lock_qdisc, and either the early
\* return at qdisc_destroyed or the loop and unlock.
retrans_tasklet ==
  /\ tasklet.running
  /\ \/ /\ qdisc = "live"
        /\ LET r == TaskletLoop(outwnd, earliest_unacked, tasklet.now, {}, FALSE)
           IN  /\ outwnd' = r.w
               /\ delivered' = [d \in Pd |-> IF d \in r.nacked THEN "nacked"
                                             ELSE delivered[d]]
               /\ earliest_unacked' = IF r.rearm THEN r.seqno
                                      ELSE earliest_unacked
               /\ timer' = IF r.rearm THEN Arm(r.timeout) ELSE timer
               /\ bug' = (bug \/ r.bug)
     \/ /\ qdisc = "dead"
        /\ UNCHANGED <<outwnd, delivered, earliest_unacked, timer, bug>>
  /\ tasklet' = [tasklet EXCEPT !.running = FALSE]
  /\ UNCHANGED <<clock, desc, cb_running, last_reset_time, in_sync, qdisc,
                 destroy_pc>>

-----------------------------------------------------------------------------
(***************************************************************************)
(* An ACK payload for the seqno k below next_seqno (its low 16 bits on the *)
(* wire) with a given run-length word: fpproto_handle_ack, ending with     *)
(* cancel_and_reset_retrans_timer when it acked anything.                  *)
(***************************************************************************)
fpproto_handle_ack(k, rl) ==
  LET r == HandleAck(outwnd, (outwnd.next_seqno - k) % 65536, rl)
      ackedPd == {a[2] : a \in r.acked}
      c == cancel_and_reset_retrans_timer(r.w, timer, earliest_unacked)
  IN  /\ outwnd' = r.w
      /\ delivered' = [d \in Pd |-> IF d \in ackedPd THEN "acked"
                                    ELSE delivered[d]]
      /\ IF r.acked # {}
         THEN /\ timer' = c.timer
              /\ earliest_unacked' = c.eu
              /\ bug' = (bug \/ c.bug)
         ELSE UNCHANGED <<timer, earliest_unacked, bug>>

ReceiveAck ==
  /\ qdisc = "live"
  /\ \E k \in 1 .. (W + 1), rl \in AckRunLens : fpproto_handle_ack(k, rl)
  /\ UNCHANGED <<clock, desc, cb_running, tasklet, last_reset_time, in_sync>>
  /\ UNCHANGED teardown

(***************************************************************************)
(* A RESET payload carrying the low TsBits bits of a peer timestamp:       *)
(* fpproto_handle_reset, with do_proto_reset when the reset is accepted.   *)
(* FullTstamp and tstamp_in_window are in module FpReset.                  *)
(***************************************************************************)
\* Fault variant: the new epoch starts from a fresh window instead of
\* outwnd_reset, dropping the unacked descriptors.
do_proto_reset_no_clear(reset_time) ==
  /\ outwnd' = EmptyWindow(SeqBase(reset_time))
  /\ UNCHANGED delivered
  /\ last_reset_time' = reset_time

do_proto_reset(reset_time) ==
  LET r == outwnd_reset(outwnd)
  IN  /\ outwnd' = [r.w EXCEPT !.next_seqno = SeqBase(reset_time)]
      /\ delivered' = [d \in Pd |-> IF d \in r.freed THEN "freed"
                                    ELSE delivered[d]]
      /\ last_reset_time' = reset_time

fpproto_handle_reset(partial) ==
  LET full == FullTstamp(clock, partial)
  IN  IF full = last_reset_time
      THEN /\ in_sync' = TRUE
           /\ UNCHANGED <<outwnd, delivered, last_reset_time>>
      ELSE IF ~tstamp_in_window(full, clock, RstWin)
              \/ (tstamp_in_window(last_reset_time, clock, RstWin)
                  /\ full < last_reset_time)
      THEN UNCHANGED <<outwnd, delivered, last_reset_time, in_sync>>
      ELSE /\ do_proto_reset(full)
           /\ in_sync' = TRUE

ReceiveReset ==
  /\ qdisc = "live"
  /\ \E partial \in ResetStamps : fpproto_handle_reset(partial)
  /\ UNCHANGED <<clock, desc, timer, cb_running, tasklet, earliest_unacked,
                 bug, qdisc, destroy_pc>>

(***************************************************************************)
(* A packet arriving after the qdisc was destroyed: fpproto_lock_qdisc     *)
(* finds the tombstone and fpproto_rcv drops the packet.                   *)
(***************************************************************************)
RcvDropped ==
  /\ qdisc = "dead"
  /\ UNCHANGED vars

-----------------------------------------------------------------------------
(***************************************************************************)
(* Teardown.  The qdisc's destroy function sets its limit to 0 under the   *)
(* root lock (the tombstone fpproto_lock_qdisc checks) before the socket   *)
(* is released.  fpproto_destroy_sock then runs without the lock:         *)
(* fpproto_set_qdisc(NULL) and outwnd_reset, then hrtimer_cancel, which    *)
(* waits for a running callback, then tasklet_kill, which waits until the  *)
(* tasklet is neither scheduled nor running.                               *)
(***************************************************************************)
QdiscDestroy ==
  /\ qdisc = "live"
  /\ qdisc' = "dead"
  /\ UNCHANGED <<clock, outwnd, desc, delivered, timer, cb_running, tasklet,
                 earliest_unacked, last_reset_time, in_sync, bug, destroy_pc>>

\* fpproto_set_qdisc(sk, NULL) and outwnd_reset, freeing every descriptor
\* of the window without a callback.
DestroyReset ==
  /\ qdisc = "dead" /\ destroy_pc = "none"
  /\ LET r == outwnd_reset(outwnd)
     IN  /\ outwnd' = r.w
         /\ delivered' = [d \in Pd |-> IF d \in r.freed THEN "freed"
                                       ELSE delivered[d]]
  /\ destroy_pc' = "cancel"
  /\ UNCHANGED <<clock, desc, timer, cb_running, tasklet, earliest_unacked,
                 last_reset_time, in_sync, bug, qdisc>>

\* Fault variant: hrtimer_try_to_cancel in place of hrtimer_cancel, which
\* does not wait for a running callback.
destroy_cancel_no_wait ==
  /\ destroy_pc = "cancel"
  /\ timer' = [timer EXCEPT !.armed = FALSE]
  /\ destroy_pc' = "kill"
  /\ UNCHANGED <<clock, outwnd, desc, delivered, cb_running, tasklet,
                 earliest_unacked, last_reset_time, in_sync, bug, qdisc>>

\* hrtimer_cancel: returns once the callback is not running and the timer
\* is inactive.
DestroyCancelTimer ==
  /\ destroy_pc = "cancel" /\ ~cb_running
  /\ timer' = [timer EXCEPT !.armed = FALSE]
  /\ destroy_pc' = "kill"
  /\ UNCHANGED <<clock, outwnd, desc, delivered, cb_running, tasklet,
                 earliest_unacked, last_reset_time, in_sync, bug, qdisc>>

\* tasklet_kill: returns once the tasklet is neither scheduled nor running.
DestroyKillTasklet ==
  /\ destroy_pc = "kill" /\ ~tasklet.pending /\ ~tasklet.running
  /\ destroy_pc' = "done"
  /\ UNCHANGED <<clock, outwnd, desc, delivered, timer, cb_running, tasklet,
                 earliest_unacked, last_reset_time, in_sync, bug, qdisc>>

fpproto_destroy_sock == DestroyReset \/ DestroyCancelTimer \/ DestroyKillTasklet

-----------------------------------------------------------------------------
Tick == /\ clock < MaxClock
        /\ clock' = clock + 1
        /\ UNCHANGED <<outwnd, desc, delivered, timer, cb_running, tasklet,
                       earliest_unacked, last_reset_time, in_sync, bug,
                       qdisc, destroy_pc>>

\* fpproto_sk_init (do_proto_reset at the current time, not in sync) on a
\* zeroed socket, after fpproto_set_qdisc attached the qdisc.
Init ==
  /\ clock = ClockInit
  /\ outwnd = EmptyWindow(SeqBase(ClockInit))
  /\ desc = [d \in {} |-> 0]
  /\ delivered = [d \in Pd |-> "none"]
  /\ timer = [armed |-> FALSE, expires |-> 0]
  /\ cb_running = FALSE
  /\ tasklet = [pending |-> FALSE, running |-> FALSE, now |-> 0]
  /\ earliest_unacked = 0
  /\ last_reset_time = ClockInit
  /\ in_sync = FALSE
  /\ bug = FALSE
  /\ qdisc = "live"
  /\ destroy_pc = "none"

Next ==
  \/ SendPacket
  \/ ReceiveAck
  \/ ReceiveReset
  \/ TimerExpire
  \/ retrans_timer_func
  \/ TaskletStart
  \/ retrans_tasklet
  \/ RcvDropped
  \/ QdiscDestroy
  \/ fpproto_destroy_sock
  \/ Tick

Spec == Init /\ [][Next]_vars

(***************************************************************************)
(* Fairness the kernel gives: an expired hrtimer fires, a callback that   *)
(* started finishes, a scheduled tasklet is run by the softirq and runs to *)
(* the end, the steps of fpproto_destroy_sock proceed once what they wait *)
(* on is done, and time passes.  Nothing forces a send, an ACK, a RESET or *)
(* a teardown to happen.                                                   *)
(***************************************************************************)
\* The part of DestroyReset that fairness needs: it is enabled exactly when
\* DestroyReset is, and only DestroyReset takes destroy_pc from "none" to
\* "cancel", so WF of it is WF of DestroyReset (stated this way so that TLC
\* need not evaluate outwnd_reset for every transition).
DestroyResetStep ==
  qdisc = "dead" /\ destroy_pc = "none" /\ destroy_pc' = "cancel"

FairSpec ==
  /\ Spec
  /\ WF_vars(TimerExpire) /\ WF_vars(retrans_timer_func)
  /\ WF_vars(TaskletStart) /\ WF_vars(retrans_tasklet)
  /\ WF_destroy_pc(DestroyResetStep) /\ WF_vars(DestroyCancelTimer)
  /\ WF_vars(DestroyKillTasklet) /\ WF_vars(Tick)

-----------------------------------------------------------------------------
(* No BUG_ON of the outstanding window ever fires: outwnd_add never finds  *)
(* the slot it reuses still unacked (prepare_to_send freed it), and the    *)
(* earliest-unacked scan used by cancel_and_reset and by the tasklet never *)
(* finds an unacked seqno before the one it returns.                       *)
NoBugOn == ~bug

BinsHeld == {outwnd.bins[i] : i \in {j \in BinIdx : outwnd.bin_mask[j]}}

(* The outstanding window stays well formed across commits, ACK walks,     *)
(* tasklet NACKs, fall-off NACKs and protocol resets: the upper half of    *)
(* the doubled mask mirrors the lower half, a slot holds a descriptor      *)
(* exactly when its bit is set, tx_num_unacked counts the set bits, and    *)
(* the descriptor in slot i is the one committed with a seqno inside the   *)
(* window whose position is i, still undelivered (spec.md 3 and 8).        *)
WindowIntegrity ==
  LET set == {i \in BinIdx : outwnd.bin_mask[i]}
  IN  /\ \A i \in BinIdx : outwnd.bin_mask[i + W] = outwnd.bin_mask[i]
      /\ \A i \in BinIdx : outwnd.bin_mask[i] <=> outwnd.bins[i] # NULL
      /\ outwnd.tx_num_unacked = Cardinality(set)
      /\ \A i \in set :
           LET d == outwnd.bins[i]
           IN  /\ d \in Allocated
               /\ desc[d].seqno \in InWindow(outwnd)
               /\ outwnd_pos(desc[d].seqno) = i
               /\ delivered[d] = "none"

(* Once fpproto_destroy_sock has returned, nothing of the socket is left   *)
(* to run or to deliver: the window is empty and every committed          *)
(* descriptor has had its outcome, the timer is inactive and its callback *)
(* finished, and the tasklet is neither scheduled nor running, so no      *)
(* late timer or tasklet can touch the freed socket.  This rests on the   *)
(* order and the waiting of hrtimer_cancel and tasklet_kill.              *)
DestroyQuiesces ==
  destroy_pc = "done" =>
     /\ outwnd_empty(outwnd)
     /\ \A d \in Allocated : delivered[d] # "none"
     /\ ~timer.armed /\ ~cb_running
     /\ ~tasklet.pending /\ ~tasklet.running

(* Once the qdisc is gone, fpproto_destroy_sock runs to completion: its   *)
(* hrtimer_cancel and tasklet_kill do not wait forever on a callback or a  *)
(* tasklet, because the tasklet gives up at qdisc_destroyed and re-arms    *)
(* nothing.                                                                *)
DestroyCompletes == (qdisc = "dead") ~> (destroy_pc = "done")

(* spec.md 4.2: once any valid inbound packet confirms the chosen reset,  *)
(* in_sync flips and packets stop carrying a RESET request.  An ACK that   *)
(* acks a packet of the current epoch confirms it: the arbiter can only    *)
(* name that seqno from the same last_reset_time.  In the code only        *)
(* fpproto_handle_reset sets in_sync; fpproto_handle_ack leaves it alone.  *)
InSyncOnceAcked ==
  [][(\E d \in Pd : delivered[d] # "acked" /\ delivered'[d] = "acked")
       => in_sync']_vars

(* Every committed packet whose send timeout falls within the clock bound  *)
(* is eventually acked, NACKed or freed (spec.md 7: an expired packet is   *)
(* surfaced by a NACK callback).                                           *)
ExpiredPacketsResolved ==
  \A d \in Pd :
    (d \in Allocated /\ delivered[d] = "none"
       /\ desc[d].sent_timestamp + SendTimeout =< MaxClock)
      ~> (delivered[d] # "none")

(***************************************************************************)
(* Refinement: the session implements ReliableSend, where a descriptor is  *)
(* outstanding exactly while the window holds it.  A descriptor that left *)
(* the window without a callback, or got one while still in it, maps to a *)
(* status ReliableSend does not have.                                     *)
(***************************************************************************)
AbsOutcome ==
  [d \in Pd |->
     IF d \in BinsHeld
     THEN IF delivered[d] = "none" THEN "outstanding" ELSE "corrupt"
     ELSE IF delivered[d] # "none" THEN delivered[d]
     ELSE IF d \in Allocated THEN "lost" ELSE "unsent"]

AbsDesc == [d \in Allocated |-> [seqno |-> desc[d].seqno,
                                  sent_timestamp |-> desc[d].sent_timestamp]]

Abs == INSTANCE ReliableSend
         WITH next_seqno <- outwnd.next_seqno, desc <- AbsDesc,
              outcome <- AbsOutcome

(* Every step of the socket is a step of ReliableSend: packets are NACKed  *)
(* by time only once their send timeout has passed, fall off the window    *)
(* only at next_seqno - W, get one outcome each, and none is lost.         *)
ImplementsReliableSend == Abs!Spec

(* Whenever the window holds an unacked packet, something will run the     *)
(* tasklet that NACKs it on timeout: the retransmission timer is armed,    *)
(* its callback is running, or the tasklet is scheduled or running         *)
(* (spec.md 4.3: "if cancel fails ... the task will re-arm").  Once the    *)
(* qdisc is destroyed the tasklet gives up by design, so only a live qdisc *)
(* is held to this.                                                        *)
TimerCoversWindow ==
  qdisc = "live" /\ ~outwnd_empty(outwnd) =>
     timer.armed \/ cb_running \/ tasklet.pending \/ tasklet.running

(* When retrans_tasklet takes the lock and walks the window, the hint      *)
(* fp->earliest_unacked it starts from is inside the window and not after  *)
(* the earliest unacked seqno, as outwnd_earliest_unacked_hint assumes     *)
(* ("Assumes such a packet exists, and that hint is within the outwnd").   *)
TaskletHintInWindow ==
  [][ (tasklet.running /\ ~tasklet'.running /\ ~outwnd_empty(outwnd)) =>
        /\ earliest_unacked >= outwnd.next_seqno - W
        /\ \A s \in Outstanding(outwnd) : earliest_unacked =< s ]_vars


=============================================================================
