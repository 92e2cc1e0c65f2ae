------------------------------- MODULE UIStream -------------------------------
(***************************************************************************)
(* What the user interface is told while the simulation runs: the snapshot *)
(* buffer (src/src/metroflow/ui/stream_buffer.py) and the packet stream    *)
(* (ui/stream_server.py), driven by the steps of EventScheduler.  A step   *)
(* yields a snapshot when its control asks for one; the server turns it    *)
(* into packets, and the buffer decides whether a congestion frame is one  *)
(* of them.  A snapshot is identified by the tick it was taken at.         *)
(*                                                                         *)
(* ui_stream_enabled is True and event_overlay_emit_on_empty has its       *)
(* default, False.  The network geometry does not change during a run, so  *)
(* the topology packet is sent once.                                       *)
(***************************************************************************)
EXTENDS EventScheduler

CONSTANTS
    EmitInterval,       \* min_emit_interval_ticks of the buffer
    MetricsInterval,    \* metrics_emit_interval_ticks of the server
    MaxOffers           \* bound: snapshots offered, buffer calls made

ASSUME IntervalAssumption ==
    EmitInterval \in Nat \ {0} /\ MetricsInterval \in Nat \ {0} /\ MaxOffers \in Nat

VARIABLES
    pending,        \* _pending_snapshot_tick, or None
    lastEmitted,    \* last_emitted_tick, or None
    dropped,        \* _dropped_since_last_emit
    nextSeq,        \* _frame_seq_next
    stats,          \* offered, emitted, dropped_coalesced, forced_emits
    frame,          \* the last congestion frame the UI got
    signature,      \* _last_event_signature ({} for None as well)
    shown,          \* the events of the last overlay packet the UI got
    lastMetrics,    \* _last_metrics_emit_tick, or None
    geometrySent,   \* the topology packet was sent
    reported,       \* history: dropped frames the frames so far told of
    calls           \* history: buffer calls made, for the bound

buffer == <<pending, lastEmitted, dropped, nextSeq, stats>>
server == <<signature, shown, lastMetrics, geometrySent>>
history == <<reported, calls>>
uiVars == <<buffer, frame, server, history>>
streamVars == <<eventVars, uiVars>>

NoFrame == [seq |-> None, snapshot |-> None, at |-> None, lost |-> 0, forced |-> FALSE]

Init ==
    /\ EventInit
    /\ pending = None /\ lastEmitted = None /\ dropped = 0 /\ nextSeq = 0
    /\ stats = [offered |-> 0, emitted |-> 0, dropped |-> 0, forced |-> 0]
    /\ frame = NoFrame
    /\ signature = {} /\ shown = {} /\ lastMetrics = None /\ geometrySent = FALSE
    /\ reported = 0 /\ calls = 0

-----------------------------------------------------------------------------
(* UISnapshotStreamBuffer *)

(* Mutant: a replaced snapshot is not counted. *)
CoalescedUncounted == 0

(* The snapshot an offer (or a reset) displaces. *)
Coalesced == IF pending = None THEN 0 ELSE 1

LostAfterEmit(lost) == 0

EmitDue(now) == lastEmitted = None \/ now - lastEmitted >= EmitInterval

(* _emit_pending: the snapshot taken at tick snap goes out.                *)
Emit(snap, lost, now, forced) ==
    /\ frame' = [seq |-> nextSeq, snapshot |-> snap, at |-> now, lost |-> lost,
                 forced |-> forced]
    /\ nextSeq' = nextSeq + 1
    /\ lastEmitted' = now
    /\ pending' = None
    /\ dropped' = LostAfterEmit(lost)
    /\ reported' = reported + lost

(* offer: the new snapshot replaces the pending one, then poll.            *)
Offer(now, force) ==
    LET lost == dropped + Coalesced
        emits == force \/ EmitDue(now)
    IN  /\ stats' = [offered |-> stats.offered + 1,
                     emitted |-> stats.emitted + (IF emits THEN 1 ELSE 0),
                     dropped |-> stats.dropped + Coalesced,
                     forced |-> stats.forced + (IF force THEN 1 ELSE 0)]
        /\ IF emits THEN Emit(now, lost, now, force)
           ELSE /\ pending' = now /\ dropped' = lost
                /\ UNCHANGED <<frame, nextSeq, lastEmitted, reported>>

-----------------------------------------------------------------------------
(* NavigatorUIStreamServer *)

(* Mutant: no packet tells the UI that the last event is over. *)
OverlaySentIfActive(events) == events # {} /\ events # signature

(* _maybe_event_overlay_packet: a packet when the active events are others *)
(* than those of the last packet, and one packet without events when there *)
(* are none any more.                                                      *)
OverlaySent(events) == IF events = {} THEN signature # {} ELSE events # signature

OverlayPacket(events) ==
    IF OverlaySent(events) THEN signature' = events /\ shown' = events
    ELSE UNCHANGED <<signature, shown>>

MetricsDue(now) == lastMetrics = None \/ now - lastMetrics >= MetricsInterval

(* ingest_step_output of a step that made a snapshot. *)
Ingest(events, now, force) ==
    /\ geometrySent' = TRUE
    /\ Offer(now, force)
    /\ OverlayPacket(events)
    /\ lastMetrics' = IF MetricsDue(now) THEN now ELSE lastMetrics

Counted == calls < MaxOffers /\ calls' = calls + 1

Simulate == RunSome \/ PauseSome

SilentStep == Simulate /\ UNCHANGED uiVars

SnapshotStep ==
    /\ Counted
    /\ Simulate
    /\ \E force \in BOOLEAN : Ingest(active', tick', force)

(* poll and flush: the pending snapshot goes out if it is due, or forced.  *)
Poll(force) ==
    /\ Counted
    /\ pending # None /\ (force \/ EmitDue(tick))
    /\ Emit(pending, dropped, tick, force)
    /\ stats' = [offered |-> stats.offered, emitted |-> stats.emitted + 1,
                 dropped |-> stats.dropped, forced |-> stats.forced + (IF force THEN 1 ELSE 0)]
    /\ UNCHANGED <<eventVars, server>>

ClearPending ==
    /\ Counted
    /\ pending # None
    /\ stats' = [stats EXCEPT !.dropped = @ + Coalesced]
    /\ dropped' = dropped + Coalesced
    /\ pending' = None
    /\ UNCHANGED <<eventVars, lastEmitted, nextSeq, frame, server, reported>>

Next ==
    \/ SilentStep
    \/ SnapshotStep
    \/ \E force \in BOOLEAN : Poll(force)
    \/ ClearPending

Spec == Init /\ [][Next]_streamVars

-----------------------------------------------------------------------------
(* Every snapshot that was offered is emitted, dropped or pending, and the *)
(* losses the frames told the UI of, with those it will be told of next,   *)
(* are all the losses there were: dropped_frame_count_since_last neither   *)
(* misses nor repeats a loss, through forced frames and resets.            *)
LossesAccounted ==
    /\ stats.offered = stats.emitted + stats.dropped + Coalesced
    /\ reported + dropped = stats.dropped
    /\ nextSeq = stats.emitted

(* A frame never shows an older state than the frame before it, and after  *)
(* a snapshot step the events the UI shows are those that are active.      *)
NeverStale ==
    [][/\ frame' # frame => frame'.snapshot >= frame.snapshot
       /\ stats'.offered # stats.offered => shown' = active']_streamVars

===============================================================================
