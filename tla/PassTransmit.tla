---------------------------- MODULE PassTransmit -----------------------------
(***************************************************************************)
(* PassTransmitter on an SX1276Driver: the pending bundles are sent during *)
(* a pass, within the duty cycle, while another coroutine adapts the       *)
(* spreading factor or shuts the radio down.  A simulated radio sleeps for *)
(* the airtime of a packet; the real one is looked at after 10 ms, and     *)
(* reports these as the airtime.                                           *)
(***************************************************************************)
EXTENDS Integers, FiniteSets, Airtime

CONSTANTS
    Bundles,   \* bound: bundles in the source, in order of priority
    Size,      \* size of each, cut to max_payload_bytes
    AirtimeAt, \* [spreading factors -> [sizes -> units]]
    MaxAir,    \* airtime that no packet exceeds
    Glimpse,   \* the 10 ms, in the same units
    Budget, Window, \* DutyCycleTracker.budget_s, window_s
    Signals,   \* bound: rx_power, in half dBm
    Dopplers,  \* bound: Doppler shifts, in Hz
    Durations, \* bound: durations of passes
    MaxTime, MaxPasses, MaxSlips \* bounds

\* No spreading factor is slower than the one of the estimate.
PassAssumption ==
    /\ {Budget, Window, MaxAir, MaxTime, MaxPasses, MaxSlips} \subseteq Nat
    /\ Bundles \subseteq Nat /\ Durations \subseteq Nat /\ DOMAIN AirtimeAt = 7..12
    /\ \A b \in Bundles :
          /\ AirtimeAt[12][Size[b]] \in 1..MaxAir
          /\ Glimpse \in 1..AirtimeAt[12][Size[b]]
          /\ \A s \in 7..12 : AirtimeAt[s][Size[b]] \in 1..AirtimeAt[12][Size[b]]

VARIABLES
    clock,
    hardware,  \* mode = HARDWARE
    ready,     \* _initialized
    adaptive,  \* _adaptive_mode
    sf,        \* config.spreading_factor
    tuned,     \* _current_frequency - frequency_hz
    bundles,   \* of the pass: those not tried yet
    stored,    \* bundles pending in the source
    stage,     \* transmit_during_pass: "idle", "loop", "airing" or "gap"
    deadline,
    airing,    \* the transmission under way: its airtime and the offset asked
    txLog,     \* _tx_log, with what was really on the air; no two are of one time
    report,    \* PassTxReport
    tried,     \* history: bundles of the pass that were tried
    onAir,     \* history: bundles that were on the air, at which offset
    slips,     \* history: mark_transmitted raised
    passes     \* history: passes so far

vars == <<clock, hardware, ready, adaptive, sf, tuned, bundles, stored, stage, deadline,
          airing, txLog, report, tried, onAir, slips, passes>>

radio == <<hardware, ready, adaptive, sf, tuned>>

NoAir == [air |-> 0, offset |-> 0]
NoReport == [attempted |-> 0, sent |-> 0, failed |-> 0, stop |-> ""]

Init ==
    /\ clock = 0 /\ hardware \in BOOLEAN /\ ready = TRUE /\ adaptive = FALSE
    /\ sf = 12 /\ tuned = 0
    /\ bundles = {} /\ stored = Bundles /\ stage = "idle" /\ deadline = 0
    /\ airing = NoAir /\ txLog = {} /\ report = NoReport
    /\ tried = {} /\ onAir = {} /\ slips = 0 /\ passes = 0

-----------------------------------------------------------------------------
\* DutyCycleTracker: a record that leaves the window is pruned before it is
\* read again.
Pruned(log, time) == {e \in log : e.at > time - Window}
Used == AirtimeOf(txLog, [e \in txLog |-> e.recorded], MaxAir)
OnAirNow == AirtimeOf(txLog, [e \in txLog |-> e.real], MaxAir)

\* Mutant: any budget left is enough.
CanTransmitAny(a) == Used < Budget
CanTransmit(a) == Budget - Used >= a

\* estimate_packet_airtime_s, called without a spreading factor.
Estimate(b) == AirtimeAt[12][Size[b]]

\* get_pending sorts by priority.
Upcoming == CHOOSE b \in bundles : \A c \in bundles : b <= c

StartPass(duration) ==
    /\ stage = "idle" /\ passes < MaxPasses
    /\ passes' = passes + 1
    /\ tried' = {}
    /\ bundles' = stored
    /\ IF stored = {}
       THEN report' = [NoReport EXCEPT !.stop = "no_pending_bundles"] /\ UNCHANGED <<stage, deadline>>
       ELSE report' = NoReport /\ stage' = "loop" /\ deadline' = clock + duration
    /\ UNCHANGED <<clock, radio, stored, airing, txLog, onAir, slips>>

Stops(reason) ==
    /\ report' = [report EXCEPT !.stop = reason]
    /\ stage' = "idle" /\ bundles' = {} /\ deadline' = 0
    /\ UNCHANGED <<clock, radio, stored, airing, txLog, tried, onAir, slips, passes>>

Finish == stage = "loop" /\ bundles = {} /\ Stops("all_bundles_sent")
PassEnds == stage = "loop" /\ bundles # {} /\ clock >= deadline /\ Stops("pass_ended")
Exhausted ==
    /\ stage = "loop" /\ bundles # {} /\ clock < deadline
    /\ ~CanTransmit(Estimate(Upcoming))
    /\ Stops("duty_cycle_exceeded")

Attempts ==
    /\ stage = "loop" /\ bundles # {} /\ clock < deadline
    /\ CanTransmit(Estimate(Upcoming))
    /\ tried' = tried \cup {Upcoming}

\* A radio that is not initialized refuses, and the retry is counted.
Refused ==
    /\ Attempts /\ ~ready
    /\ report' = [report EXCEPT !.attempted = @ + 1, !.failed = @ + 1]
    /\ bundles' = bundles \ {Upcoming} /\ stage' = "gap"
    /\ UNCHANGED <<clock, radio, stored, deadline, airing, txLog, onAir, slips, passes>>

\* Doppler offset: an offset of 0 leaves the radio where it is.
Tuned(offset) == IF offset # 0 THEN offset ELSE tuned
Transmit(offset) ==
    /\ Attempts /\ ready
    /\ tuned' = Tuned(offset)
    /\ airing' = [air |-> AirtimeAt[sf][Size[Upcoming]], offset |-> offset]
    /\ report' = [report EXCEPT !.attempted = @ + 1]
    /\ stage' = "airing"
    /\ UNCHANGED <<clock, hardware, ready, adaptive, sf, bundles, stored, deadline, txLog, onAir,
                   slips, passes>>

\* What the driver reports, and when it returns.
Reported == IF hardware THEN Glimpse ELSE airing.air

Sent(marked) ==
    /\ stage = "airing"
    /\ clock' = clock + Reported
    /\ txLog' = Pruned(txLog, clock')
                   \cup {[at |-> clock', recorded |-> Reported, real |-> airing.air]}
    /\ onAir' = onAir \cup {[of |-> Upcoming, asked |-> airing.offset, at |-> tuned]}
    /\ IF marked
       THEN /\ report' = [report EXCEPT !.sent = @ + 1]
            /\ stored' = stored \ {Upcoming}
            /\ UNCHANGED slips
       ELSE /\ slips < MaxSlips
            /\ slips' = slips + 1
            /\ report' = [report EXCEPT !.sent = @ + 1, !.failed = @ + 1]
            /\ UNCHANGED stored
    /\ bundles' = bundles \ {Upcoming} /\ stage' = "gap" /\ airing' = NoAir
    /\ UNCHANGED <<radio, deadline, tried, passes>>

\* TX_HARDWARE_ERROR.
Fails ==
    /\ stage = "airing" /\ hardware
    /\ report' = [report EXCEPT !.failed = @ + 1]
    /\ bundles' = bundles \ {Upcoming} /\ stage' = "gap" /\ airing' = NoAir
    /\ UNCHANGED <<clock, radio, stored, deadline, txLog, tried, onAir, slips, passes>>

Gap ==
    /\ stage = "gap"
    /\ stage' = "loop"
    /\ UNCHANGED <<clock, radio, bundles, stored, deadline, airing, txLog, report, tried, onAir,
                   slips, passes>>

-----------------------------------------------------------------------------
\* The other coroutine runs while the transmitter awaits.
Elsewhere ==
    /\ stage # "loop"
    /\ UNCHANGED <<clock, bundles, stored, stage, deadline, airing, txLog, report, tried, onAir,
                   slips, passes>>

SetAdaptive == adaptive' = ~adaptive /\ Elsewhere /\ UNCHANGED <<hardware, ready, sf, tuned>>
Shutdown == ready /\ ready' = FALSE /\ Elsewhere /\ UNCHANGED <<hardware, adaptive, sf, tuned>>

\* select_optimal_sf: sensitivities in half dBm, tolerances in Hz.
Sensitivity == [s \in 7..12 |-> CASE s = 12 -> -274 [] s = 11 -> -269 [] OTHER -> -246 - 6 * (s - 7)]
Tolerance == [s \in 7..12 |-> CASE s < 10 -> 5000 - 1000 * (s - 7) [] OTHER -> 2500 - 500 * (s - 10)]
Fits(s, rx, doppler) == rx - Sensitivity[s] >= 6 /\ doppler <= Tolerance[s]
SelectOptimalSf(rx, doppler) ==
    LET fitting == {s \in 7..12 : Fits(s, rx, doppler)}
    IN IF fitting = {} THEN 12 ELSE CHOOSE s \in fitting : \A t \in fitting : s <= t

ApplyAdaptiveConfig(rx, doppler) ==
    /\ adaptive
    /\ sf' = SelectOptimalSf(rx, doppler)
    /\ Elsewhere /\ UNCHANGED <<hardware, ready, adaptive, tuned>>

Tick ==
    /\ clock < MaxTime /\ stage \in {"idle", "gap"}
    /\ clock' = clock + 1
    /\ txLog' = Pruned(txLog, clock')
    /\ UNCHANGED <<radio, bundles, stored, stage, deadline, airing, report, tried, onAir,
                   slips, passes>>

Next ==
    \/ \E d \in Durations : StartPass(d)
    \/ Finish \/ PassEnds \/ Exhausted \/ Refused \/ Fails \/ Gap \/ Tick
    \/ \E o \in {0, 1} : Transmit(o)
    \/ \E m \in BOOLEAN : Sent(m)
    \/ SetAdaptive \/ Shutdown
    \/ \E rx \in Signals, d \in Dopplers : ApplyAdaptiveConfig(rx, d)

Spec == Init /\ [][Next]_vars

-----------------------------------------------------------------------------
TypeOK ==
    /\ sf \in DOMAIN AirtimeAt /\ tuned \in {0, 1} /\ {hardware, ready, adaptive} \subseteq BOOLEAN
    /\ stored \subseteq Bundles /\ tried \subseteq Bundles
    /\ stage \in {"idle", "loop", "airing", "gap"}
    /\ report.attempted = Cardinality(tried)

(* A simulated radio never exceeds the duty cycle, whatever becomes of the *)
(* spreading factor between the estimate and the transmission; the real    *)
(* one exceeds it by what its report leaves out.                           *)
WithinDuty ==
    /\ ~hardware => OnAirNow <= Budget
    /\ Used <= Budget

(* The report adds up, bundle for bundle: what the source holds no more    *)
(* was on the air, what was on the air is still held only if marking it    *)
(* failed, and only an offset of 0 goes out at another one.                *)
ReportTrue ==
    /\ stage # "airing" => report.attempted + slips >= report.sent + report.failed
    /\ stage # "airing" /\ slips = 0 => report.attempted = report.sent + report.failed
    /\ Bundles \ stored \subseteq {a.of : a \in onAir}
    /\ slips = 0 => {a.of : a \in onAir} \cap stored = {}
    /\ \A a \in onAir : a.asked = a.at \/ a.asked = 0
    /\ report.stop = "all_bundles_sent" => stored \cap tried = {} \/ report.failed > 0

=============================================================================
