----------------------------- MODULE Calculator -----------------------------
(***************************************************************************)
(* The calculator goroutine of one space (avgsManager/calculator.go): it    *)
(* collects the registers the space sends and, when the space is silent, a  *)
(* copy of the last one at every tick, keeps the samples of the longest     *)
(* measuring window, and after every sample posts the real time             *)
(* measurements and, now and then, the reference measurements.              *)
(*                                                                          *)
(* Abstractions.  Time is counted in units that separate any two events.    *)
(* The flows of a register, a number per entry and gate that are all added  *)
(* up in the same way, are one number, flow.  An average is its numerator   *)
(* and denominator, before it is cut to two digits.  The registers that     *)
(* take the measurements are always ready (saferegister.go), so posting     *)
(* takes no time.  The accumulating flows (calculateAbsoluteFlows) are not  *)
(* part of this module.                                                     *)
(***************************************************************************)
EXTENDS Integers, Sequences, FiniteSetsExt, Functions

CONSTANTS
    Tick,        (* time of silence after which the last sample is repeated  *)
    Periods,     (* the real time measurements, by the length of the window  *)
    References,  (* the reference measurements, by their period              *)
    Slots,       (* the times at which a reset of the space may arrive       *)
    MaxDelay,    (* bound on the time from the space to the calculator       *)
    Start,       (* when the server starts, long after the epoch             *)
    Horizon,     (* bound on the time                                        *)
    MaxCount,    (* bound on the occupancy                                   *)
    MaxEvents    (* bound on the registers received between two resets       *)

MaxTick == Max(Periods \cup References)

ASSUME CalculatorAssumption ==
    /\ Tick \in Nat \ {0}
    /\ Periods \cup References \subseteq Nat \ {0}
    /\ IsFiniteSet(Periods) /\ IsFiniteSet(References)
    /\ Periods # {} /\ \A P \in Periods : 3 * Tick <= P
    /\ Slots \subseteq Nat
    /\ MaxDelay \in Nat
    /\ Start \in Nat /\ Horizon \in Nat /\ Start > 2 * MaxTick /\ Start <= Horizon
    /\ MaxCount \in Nat /\ MaxEvents \in Nat

VARIABLES
    now,        (* the clock                                                 *)
    silence,    (* time since the loop last waited for an event              *)
    samples,    (* the sliding window                                        *)
    reference,  (* the last measurement posted for every reference           *)
    occupancy   (* history: the counts of the space since its last reset,    *)
                (* with their timestamps                                     *)

vars == <<now, silence, samples, reference, occupancy>>

Nothing == [ts |-> 0, length |-> 0, total |-> 0, flow |-> 0]
Empty == [ts |-> 0, count |-> 0, flow |-> 0]
Count == IF occupancy = <<>> THEN 0 ELSE occupancy[Len(occupancy)].count
LastTs == IF occupancy = <<>> THEN 0 ELSE occupancy[Len(occupancy)].ts
Latest(s) == s[Len(s)]

-----------------------------------------------------------------------------
(* Mutation: the sample that still holds at edge goes too.                  *)
Droppable_Eager(s, i, edge) == s[i].ts < edge /\ i < Len(s)

(* The sliding window: the samples before edge go, but one that still holds *)
(* at edge stays, from edge on.                                             *)
Droppable(s, i, edge) == s[i].ts < edge /\ i < Len(s) /\ s[i + 1].ts <= edge

(* Mutation: the oldest sample is cut but keeps its flow.                   *)
Slide_KeepsFlow(s, edge, keepFlow) ==
    LET rest == SubSeq(s, Min({i \in DOMAIN s : ~Droppable(s, i, edge)}), Len(s))
    IN  IF rest[1].ts < edge /\ Len(rest) > 1 THEN [rest EXCEPT ![1].ts = edge]
        ELSE rest

Slide(s, edge, keepFlow) ==
    LET rest == SubSeq(s, Min({i \in DOMAIN s : ~Droppable(s, i, edge)}), Len(s))
    IN  IF rest[1].ts < edge /\ Len(rest) > 1
        THEN [rest EXCEPT ![1].ts = edge,
                          ![1].flow = IF keepFlow THEN @ ELSE 0]
        ELSE rest

(* Mutation: the sample before the window is used as it is.                 *)
Window_Uncut(s, P) ==
    LET outside == {i \in DOMAIN s : s[i].ts < Latest(s).ts - P}
    IN  IF outside = {} THEN s ELSE SubSeq(s, Max(outside), Len(s))

(* Mutation: the window begins at the first sample in it.                   *)
Window_Late(s, P) ==
    LET outside == {i \in DOMAIN s : s[i].ts < Latest(s).ts - P}
    IN  IF outside = {} THEN s ELSE SubSeq(s, Max(outside) + 1, Len(s))

(* The samples a window of length P that ends at the latest one uses: those *)
(* in it, preceded by what held when it began.                              *)
Window(s, P) ==
    LET begin   == Latest(s).ts - P
        outside == {i \in DOMAIN s : s[i].ts < begin}
        first   == IF outside = {} THEN 1 ELSE Max(outside) + 1
        inside  == SubSeq(s, first, Len(s))
    IN  IF outside = {} \/ s[first].ts = begin THEN inside
        ELSE <<[ts |-> begin, count |-> s[first - 1].count, flow |-> 0]>> \o inside

(* The measurement over the samples w of a window.                          *)
Measure(w) ==
    [ts     |-> Latest(w).ts,
     length |-> Latest(w).ts - w[1].ts,
     total  |-> SumFunction([i \in 1 .. Len(w) - 1 |->
                                w[i].count * (w[i + 1].ts - w[i].ts)]),
     flow   |-> SumFunction([i \in DOMAIN w |-> w[i].flow])]

(* A window with one sample is not a measurement.                           *)
Measurable(s, P) == Len(Window(s, P)) > 1

(* The reference measurements that are due.                                 *)
Due(s, P) == reference[P].ts + P < Latest(s).ts /\ Measurable(s, P)

(* What follows every sample.                                               *)
Post(s) ==
    reference' = [P \in References |->
                    IF Due(s, P) THEN Measure(Window(s, P)) ELSE reference[P]]

-----------------------------------------------------------------------------
Init ==
    /\ now = Start
    /\ silence = 0
    /\ samples = <<>>
    /\ reference = [P \in References |-> Nothing]
    /\ occupancy = <<>>

(* Time passes, but the tick does not wait.                                 *)
Pass ==
    /\ now < Horizon
    /\ silence < Tick
    /\ now' = now + 1
    /\ silence' = silence + 1
    /\ UNCHANGED <<samples, reference, occupancy>>

(* case data := <-latestData: somebody crossed at time ts.                  *)
Receive(ts, v) ==
    /\ silence > 0
    /\ Len(occupancy) < MaxEvents
    /\ ts > LastTs /\ ts >= Start /\ ts <= now
    /\ Count + v \in 0 .. MaxCount
    /\ samples' = Slide(Append(samples, [ts |-> ts, count |-> Count + v, flow |-> v]),
                        ts - MaxTick, FALSE)
    /\ occupancy' = Append(occupancy, [ts |-> ts, count |-> Count + v, flow |-> v])
    /\ Post(samples')
    /\ silence' = 0
    /\ UNCHANGED now

(* case data := <-latestData, the reset of the space: it has no timestamp.  *)
ReceiveReset ==
    /\ now \in Slots
    /\ silence > 0
    /\ samples' = Slide(Append(samples, Empty), -MaxTick, FALSE)
    /\ occupancy' = <<Empty>>
    /\ Post(samples')
    /\ silence' = 0
    /\ UNCHANGED now

(* case <-time.After(tick): the last sample is repeated, ahead of time.     *)
TickSample ==
    /\ silence = Tick
    /\ silence' = 0
    /\ IF samples = <<>> THEN UNCHANGED <<samples, reference>>
       ELSE /\ samples' = Slide(Append(samples, [Latest(samples) EXCEPT !.ts = now + Tick,
                                                                        !.flow = 0]),
                                now - MaxTick, TRUE)
            /\ Post(samples')
    /\ UNCHANGED <<now, occupancy>>

Next ==
    \/ Pass
    \/ \E delay \in 0 .. MaxDelay, v \in {-1, 1} : Receive(now - delay, v)
    \/ ReceiveReset
    \/ TickSample
    \/ now = Horizon /\ UNCHANGED vars

Spec == Init /\ [][Next]_vars

-----------------------------------------------------------------------------
Registers == [ts : Nat, count : 0 .. MaxCount, flow : -1 .. 1]
Measurements == [ts : Nat, length : Nat, total : Int, flow : Int]

TypeOK ==
    /\ now \in Start .. Horizon
    /\ silence \in 0 .. Tick
    /\ samples \in Seq(Registers) /\ occupancy \in Seq(Registers)
    /\ reference \in [References -> Measurements]
    /\ \A P \in References : reference[P].length <= P

(* What the calculator could know from the registers o: the count held at   *)
(* time t.                                                                  *)
CountIn(o, t) ==
    LET past == {i \in DOMAIN o : o[i].ts <= t}
    IN  IF past = {} THEN 0 ELSE o[Max(past)].count

CountAt(t) == CountIn(occupancy, t)

(* People in minus people out from time a to time b, by the registers o.    *)
FlowIn(o, a, b) ==
    SumFunction([i \in DOMAIN o |->
        IF a <= o[i].ts /\ o[i].ts <= b THEN o[i].flow ELSE 0])

(* A measurement is the exact average of the count over the period before   *)
(* it, or since the first crossing there was.                               *)
ExactIn(m, P, o) ==
    /\ m.length = Min({P, m.ts - o[1].ts})
    /\ m.total = SumFunction([t \in (m.ts - m.length) .. (m.ts - 1) |-> CountIn(o, t)])

Exact(m, P) == ExactIn(m, P, occupancy)

(* The latest sample is a reset, whose timestamp is missing.                *)
AtReset == samples # <<>> /\ Latest(samples).ts = 0

(* How far a tick may be ahead of a register that is received after it.     *)
Lateness == IF MaxDelay = 0 THEN 0 ELSE MaxDelay - 1

(* The periods for which the samples reach back far enough, even when the   *)
(* register that ends them was overtaken by a tick.                         *)
Covered(P) == P + Lateness <= MaxTick

(* The latest register comes from before the last tick.                     *)
Overtaken == \E i \in DOMAIN samples : Latest(samples).ts <= samples[i].ts - Tick

(* The length a measurement may have: the period, or the time since the     *)
(* first crossing, and what the samples do not reach back.                  *)
FullLength(m, P) == Min({P, m.ts - occupancy[1].ts})
Long(m, P) == m.length <= FullLength(m, P) /\ FullLength(m, P) <= m.length + Lateness

(* calculator.go:346-441: a real time measurement is the exact average over *)
(* its window, although samples carry a time to come and arrive out of      *)
(* order, and the window cuts them.  After a reset the space counts as      *)
(* empty until then; only the measurement made at the reset is not exact.   *)
(* The longest window, and any that is not Covered, has an exception: when  *)
(* a tick overtook the register that ends it, the tick has cut the samples  *)
(* (calculator.go:247-254) further than this window begins.  It is then     *)
(* shorter than its period, by no more than the register was late.          *)
WindowIsExact ==
    \A P \in Periods : samples # <<>> /\ ~AtReset /\ Measurable(samples, P) =>
        LET m == Measure(Window(samples, P))
        IN  Long(m, P) /\ (Covered(P) \/ ~Overtaken => Exact(m, P))

(* calculator.go:382-417: and its flow, like that of a reference            *)
(* measurement, counts every crossing in the window once, with one at its   *)
(* very beginning.  Only after a register that a tick overtook can it count *)
(* one more: the tick (calculator.go:251) moved the oldest sample into the  *)
(* window without taking its flow away.                                     *)
FlowIsExact ==
    \A P \in Periods \cup References :
        samples # <<>> /\ ~AtReset /\ ~Overtaken /\ Measurable(samples, P) =>
            LET m == Measure(Window(samples, P))
            IN  m.flow = FlowIn(occupancy, m.ts - m.length, m.ts)

(* calculator.go:456-541: a reference measurement is exact when it is       *)
(* stored, and no two of them overlap.  Here the longest one is no          *)
(* exception: a tick that overtakes a register has posted the reference     *)
(* that was due, for the time to come, so no register it overtook ends one. *)
ReferencesAreExact ==
    [][\A P \in References : reference'[P] # reference[P] =>
        /\ Exact(reference[P], P)'
        /\ reference[P].ts <= reference'[P].ts - reference'[P].length]_vars

(* measurements.ini:3-4: a measurement is over the last seconds of its      *)
(* sliding window.                                                          *)
WindowIsPeriod ==
    \A P \in Periods : samples # <<>> /\ Measurable(samples, P) =>
        Measure(Window(samples, P)).length \in 1 .. P

(* Samples s never hide a later count of the registers o: what a sample     *)
(* says holds from its time to that of any sample after it.                 *)
Lasts(s, o) ==
    \A k \in DOMAIN s : \A t \in Nat :
        s[k].ts <= t /\ (\A j \in k + 1 .. Len(s) : t < s[j].ts) =>
            CountIn(o, t) = s[k].count

(* The count of o added up over the time before t.                          *)
AreaIn(o, t) == SumFunctionOnSet([u \in Nat |-> CountIn(o, u)], 0 .. t - 1)

(* No sample after the k-th is a reset or from before it.                   *)
Settled(s, k) == \A j \in k + 1 .. Len(s) : s[j].ts # 0 /\ s[k].ts <= s[j].ts

(* Whatever order the samples are in, what they add up to is the area under *)
(* the count: h is that area as they tell it.                               *)
Tells(h, s, o) ==
    /\ h \in [DOMAIN s -> Int]
    /\ \A i \in 1 .. Len(s) - 1 : s[i + 1].ts # 0 =>
            h[i + 1] = h[i] + s[i].count * (s[i + 1].ts - s[i].ts)
    /\ \A k \in DOMAIN s : Settled(s, k) => h[k] = AreaIn(o, s[k].ts)

(* A tick moved the first sample, and its flow with it.                     *)
Moved(s) == \E i \in DOMAIN s : s[1].ts + MaxTick + Tick <= s[i].ts

(* There was no reset since the i-th sample.                                *)
SinceReset(s, i) == \A j \in i .. Len(s) : s[j].ts # 0

(* The i-th sample of s is at the place of a register in o, or of none: p[i]*)
(* registers came before it.                                                *)
Placed(p, s, o, i) ==
    \/ p[i + 1] = p[i] /\ s[i].flow = 0
    \/ p[i + 1] = p[i] + 1 /\ s[i].flow = o[p[i + 1]].flow /\ s[i].ts = o[p[i + 1]].ts

(* The registers among the samples: those that came before a sample are     *)
(* from before it and all that follow, but not after the sample before it.  *)
Places(p, s, o) ==
    /\ p \in [1 .. Len(s) + 1 -> 0 .. Len(o)] /\ p[Len(s) + 1] = Len(o)
    /\ \A i \in DOMAIN s : SinceReset(s, i) =>
        /\ Placed(p, s, o, i) \/ (i = 1 /\ Moved(s) /\ p[2] = p[1])
        /\ \A j \in 1 .. p[i] :
            /\ \A k \in i .. Len(s) : o[j].ts < s[k].ts
            /\ i > 1 => o[j].ts <= s[i - 1].ts

(* What the samples were cut at, if they were.                              *)
Cut(s, o) ==
    \/ \E i \in DOMAIN s : s[i].ts = 0
    \/ s[1].ts = o[1].ts
    \/ s[1].ts + MaxTick <= Latest(o).ts
    \/ Moved(s)

(* The registers of the space, and the latest sample among them.            *)
Ordered(o) == \A i, j \in DOMAIN o : i < j => o[i].ts < o[j].ts

HistoryOK ==
    /\ Ordered(occupancy)
    /\ LastTs <= now
    /\ samples = <<>> <=> occupancy = <<>>
    /\ samples # <<>> =>
        /\ Latest(samples).count = Count /\ LastTs <= Latest(samples).ts
        /\ Latest(samples).ts = 0 \/ Start <= Latest(samples).ts
    /\ \A i \in DOMAIN samples : occupancy[1].ts <= samples[i].ts

(* When the loop last waited for an event.                                  *)
LastEvent == now - silence

(* The samples reach back to the first register, or so far that a window    *)
(* lacks no more than the register that ends it was late.                   *)
ReachBack ==
    samples # <<>> =>
        \/ \E i \in DOMAIN samples : samples[i].ts = 0
        \/ samples[1].ts = occupancy[1].ts
        \/ /\ samples[1].ts + MaxTick <= LastEvent
           /\ samples[1].ts + MaxTick <= Latest(samples).ts + Lateness

(* The last reference measurements are not long before any sample.          *)
Recent(s, ref) ==
    \A i \in DOMAIN s : (\A j \in i + 1 .. Len(s) : s[j].ts # 0) =>
        \A P \in References : s[i].ts <= ref[P].ts + P

Referenced ==
    \/ Recent(samples, reference)
    \/ Len(samples) = 1 /\ samples[1].ts <= LastTs

(* The inductive invariant.                                                 *)
CalculatorInv ==
    /\ TypeOK /\ HistoryOK /\ ReachBack /\ Referenced
    /\ Lasts(samples, occupancy)
    /\ \E h : Tells(h, samples, occupancy)
    /\ \E p : Places(p, samples, occupancy)
    /\ samples # <<>> => Cut(samples, occupancy)
=============================================================================
