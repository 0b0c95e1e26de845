-------------------------------- MODULE Gate --------------------------------
(***************************************************************************)
(* One gate goroutine (gateManager/gate.go): it receives the signed samples *)
(* of the one or two sensors mounted on a passage, turns them into crossings *)
(* (detectTransition), watches for a sensor that has gone silent, and sends *)
(* every result to the entries the gate belongs to.                         *)
(*                                                                          *)
(* Abstractions.  unusedSampleSumIn is unused.in; unusedSampleSumOut, which *)
(* the code keeps as a number <= 0, is unused.out, its absolute value, so   *)
(* that one operator describes both directions.  scratchPad.senData and     *)
(* sensorLatestData hold the same value for a sensor after every sample:    *)
(* both are val.  A timestamp only matters by being equal to the one of the *)
(* previous sample of the same sensor or not.  The offers made on           *)
(* globals.ResetChannel leave no trace in the gate, accepted or timed out.  *)
(* ConfigurationReset is a channel nobody in the program sends on.          *)
(***************************************************************************)
EXTENDS Integers, Sequences, FiniteSets

CONSTANTS
    Sensors,          (* the sensors the gate is configured with             *)
    Layout,           (* the same sensors, first to last (gateSensorsOrdered) *)
    Reversed,         (* the sensors mounted the other way round ("!sensor") *)
    AsymmetryMax,     (* lead of one sensor that makes the other suspect     *)
    AsymmetryIter,    (* suspicions after which it is disabled, 0 = never    *)
    AsymmetricNull,   (* TRUE: a sample 0 is not counted as a sign of life   *)
    AsymmetryReset,   (* samples after which suspicions are forgotten        *)
    Entries,          (* the entries the gate belongs to                     *)
    Recipients,       (* the same entries, in the order they are sent to     *)
    ChannelLength,    (* capacity of an entry's channel (ChannellingLength)  *)
    MaxOwed           (* bound on the samples not reported, per direction    *)

ASSUME LayoutAssumption ==
    \/ \E a \in Sensors : Sensors = {a} /\ Layout = <<a>>
    \/ \E a, b \in Sensors : a # b /\ Sensors = {a, b} /\ Layout = <<a, b>>

ASSUME SettingsAssumption ==
    /\ Reversed \subseteq Sensors
    /\ AsymmetryMax \in Nat \ {0}
    /\ AsymmetryIter \in Nat
    /\ AsymmetricNull \in BOOLEAN
    /\ AsymmetryReset \in Nat \ {0}
    /\ Recipients \in Seq(Entries)
    /\ ChannelLength \in Nat \ {0}
    /\ MaxOwed \in Nat

VARIABLES
    listening,   (* the keys of sensorLatestData: sensors still believed     *)
    ordered,     (* gateSensorsOrdered                                       *)
    val,         (* last sample of each sensor                               *)
    unused,      (* samples not matched by the other sensor, per direction   *)
    diff,        (* sensorDifferential                                       *)
    times,       (* sensorDifferentialTimes                                  *)
    resetCount,  (* asymmetryResetCounter                                    *)
    net,         (* newGateData.Netflow, the value being sent to the entries *)
    pending,     (* the entries it has not been sent to yet                  *)
    channel,     (* the entries' data channels                               *)
    owed         (* history: samples of a crossing minus crossings reported, *)
                 (* per direction                                            *)

detector == <<listening, ordered, val, unused, owed>>
watch == <<diff, times, resetCount>>
vars == <<detector, watch, net, pending, channel>>

Samples == {-1, 0, 1}

Least(m, n) == IF m <= n THEN m ELSE n
Most(m, n) == IF m >= n THEN m ELSE n
Zero == [s \in Sensors |-> 0]

-----------------------------------------------------------------------------
(* detectTransition *)

(* Mutation: the sign of the sample is lost.                                *)
Absorb_SignLost(sum, s, v) == [sum EXCEPT ![s] = Most(0, @ + v * v)]

(* A new sample v (seen in one direction) is added to what its sensor has   *)
(* not matched yet; the opposite movement takes it back.                    *)
Absorb(sum, s, v) == [sum EXCEPT ![s] = Most(0, @ + v)]

(* Mutation: a single pair of samples is not matched.                       *)
Matched_OffByOne(sum, a, b) == Least(sum[a], sum[b]) \div 2

(* Crossings that both sensors have seen.                                   *)
Matched(sum, a, b) == Least(sum[a], sum[b])

(* A crossing the far sensor missed: it reports that nobody is there while  *)
(* the near one still has an unmatched sample.                              *)
Missed(sum, near, far, s, v, fresh) ==
    IF fresh /\ s = far /\ v = 0 /\ sum[near] > 0 THEN 1 ELSE 0

(* Mutation: the limit is off by one.                                       *)
Excess_OffByOne(sum, x) == IF sum[x] > 3 THEN 1 ELSE 0

(* A sensor with more than two unmatched samples has one of them counted.   *)
Excess(sum, x) == IF sum[x] > 2 THEN 1 ELSE 0

(* What a sample means for one direction of a two sensor gate: the samples  *)
(* left unmatched and the crossings found.                                  *)
Detect(sum, near, far, s, v, fresh) ==
    LET new  == IF fresh THEN Absorb(sum, s, v) ELSE sum
        both == Matched(new, near, far)
        rest == [new EXCEPT ![near] = @ - both, ![far] = @ - both]
        late == Missed(rest, near, far, s, v, fresh)
        left == [rest EXCEPT ![near] = @ - late]
    IN  [sum   |-> [left EXCEPT ![near] = @ - Excess(left, near),
                                ![far] = @ - Excess(left, far)],
         count |-> both + late + Excess(left, near) + Excess(left, far)]

(* A gate with one sensor passes its samples on.                            *)
Follow(sum, x, v) == [sum |-> [sum EXCEPT ![x] = 0], count |-> Most(0, v)]

(* The two directions mirror each other: out is in with the sensors swapped *)
(* and the sign changed.                                                    *)
DetectTransition(o, sums, s, v, fresh) ==
    IF Len(o) = 1
    THEN [in  |-> Follow(sums.in, o[1], v),
          out |-> Follow(sums.out, o[1], -v)]
    ELSE [in  |-> Detect(sums.in, o[1], o[2], s, v, fresh),
          out |-> Detect(sums.out, o[2], o[1], s, -v, fresh)]

-----------------------------------------------------------------------------
(* The watch for asymmetric sensors *)

Watched(v) ==
    /\ AsymmetryIter # 0
    /\ Len(ordered) > 1
    /\ ~(AsymmetricNull /\ v = 0)

(* The differentials after a sample of s; they are zeroed at midnight.      *)
Advance(s, newDay) == [(IF newDay THEN Zero ELSE diff) EXCEPT ![s] = @ + 1]

(* Only a gate with both its sensors is watched.                            *)
Lowest(d) == Least(d[ordered[1]], d[ordered[2]])
Highest(d) == Most(d[ordered[1]], d[ordered[2]])
(* Mutation: the limit itself is tolerated.                                 *)
Suspicious_Strict(d) == Highest(d) - Lowest(d) > AsymmetryMax
Suspicious(d) == Highest(d) - Lowest(d) >= AsymmetryMax

Unchanged == [diff |-> diff, times |-> times, ordered |-> ordered, dropped |-> {}]

(* No sensor is ahead: the differentials are kept small.                    *)
Calm(d) == [diff |-> [x \in Sensors |-> d[x] - Lowest(d)], times |-> times,
            ordered |-> ordered, dropped |-> {}]

(* A suspicion: the background of all the sensors of the gate is reset.     *)
Warn(x) == [diff |-> Zero, times |-> [times EXCEPT ![x] = @ + 1],
            ordered |-> ordered, dropped |-> {}]

(* Mutation: the order list is not rebuilt.                                 *)
Disable_KeepsOrder(x, y) == [diff |-> Zero, times |-> [times EXCEPT ![x] = @ + 1],
                             ordered |-> ordered, dropped |-> {x}]

(* One suspicion too many: the suspect is disabled, y remains.              *)
Disable(x, y) == [diff |-> Zero, times |-> [times EXCEPT ![x] = @ + 1],
                  ordered |-> <<y>>, dropped |-> {x}]

(* What the watch makes of a sample v of s.                                 *)
Verdicts(s, v) ==
    IF ~Watched(v) THEN {Unchanged}
    ELSE UNION {
        LET d        == Advance(s, newDay)
            suspects == {x \in Sensors : d[x] = Lowest(d)}
        IN  IF ~Suspicious(d) THEN {Calm(d)}
            ELSE {Warn(x) : x \in {x \in suspects : times[x] + 1 < AsymmetryIter}}
                 \cup {Disable(x, y) : x \in {x \in suspects : times[x] + 1 >= AsymmetryIter},
                                       y \in listening \ suspects}
        : newDay \in BOOLEAN}

-----------------------------------------------------------------------------
Init ==
    /\ listening = Sensors
    /\ ordered = Layout
    /\ val = Zero
    /\ unused = [in |-> Zero, out |-> Zero]
    /\ diff = Zero
    /\ times = Zero
    /\ resetCount = AsymmetryReset
    /\ net = 0
    /\ pending = <<>>
    /\ channel = [e \in Entries |-> <<>>]
    /\ owed = [in |-> 0, out |-> 0]

(* Mutation: nothing is deleted with a disabled sensor.                     *)
Without_Kept(f, D) == f

(* Forget what the gate kept about the sensors of set D.                    *)
Without(f, D) == [s \in Sensors |-> IF s \in D THEN 0 ELSE f[s]]

(* After AsymmetryReset samples the suspicions are forgotten, and with them *)
(* the unmatched samples of the out direction.                              *)
Expires == resetCount = 1

(* case data := <-in, of a sensor the gate listens to: the sample raw, with *)
(* the timestamp of the sensor's previous sample or a new one.              *)
Sample(s, raw, sameTs) ==
    LET v     == IF s \in Reversed THEN -raw ELSE raw
        fresh == ~sameTs \/ v # val[s]
    IN
    /\ pending = <<>>
    /\ s \in listening
    /\ v = 1 => owed.in < MaxOwed
    /\ v = -1 => owed.out < MaxOwed
    /\ \E w \in Verdicts(s, v) :
        LET kept  == [in  |-> Without(unused.in, w.dropped),
                      out |-> Without(unused.out, w.dropped)]
            found == DetectTransition(w.ordered, kept, s, v, fresh)
        IN  /\ listening' = (listening \ w.dropped) \cup {s}
            /\ ordered' = w.ordered
            /\ val' = [Without(val, w.dropped) EXCEPT ![s] = v]
            /\ unused' = [in  |-> found.in.sum,
                          out |-> IF Expires THEN Zero ELSE found.out.sum]
            /\ diff' = IF Expires THEN Zero ELSE w.diff
            /\ times' = IF Expires THEN Zero ELSE w.times
            /\ resetCount' = IF Expires THEN AsymmetryReset ELSE resetCount - 1
            /\ net' = found.in.count - found.out.count
            /\ owed' = [in  |-> owed.in + Most(0, v) - found.in.count,
                        out |-> owed.out + Most(0, -v) - found.out.count]
    /\ pending' = Recipients
    /\ UNCHANGED channel

HasRoom(e) == Len(channel[e]) < ChannelLength

(* for _, ch := range gateEntryChannels: the next entry gets the value, as  *)
(* soon as its channel has room.                                            *)
Send ==
    /\ pending # <<>>
    /\ LET e == Head(pending) IN
        /\ HasRoom(e)
        /\ channel' = [channel EXCEPT ![e] = Append(@, net)]
    /\ pending' = Tail(pending)
    /\ UNCHANGED <<detector, watch, net>>

(* An entry takes the next value from its channel, whenever it gets to it:  *)
(* it may be held up by its spaces (Delivery) for any length of time, and   *)
(* no fairness is assumed of it here.                                       *)
Take(e) ==
    /\ channel[e] # <<>>
    /\ channel' = [channel EXCEPT ![e] = Tail(@)]
    /\ UNCHANGED <<detector, watch, net, pending>>

Next ==
    \/ \E s \in Sensors, raw \in Samples, sameTs \in BOOLEAN : Sample(s, raw, sameTs)
    \/ Send
    \/ \E e \in Entries : Take(e)

Spec == Init /\ [][Next]_vars

-----------------------------------------------------------------------------
TypeOK ==
    /\ listening \subseteq Sensors
    /\ ordered = Layout \/ \E s \in Sensors : ordered = <<s>>
    /\ val \in [Sensors -> Samples]
    /\ unused \in [in : [Sensors -> 0 .. 2], out : [Sensors -> 0 .. 2]]
    /\ diff \in [Sensors -> Nat]
    /\ times \in [Sensors -> Nat]
    /\ resetCount \in 1 .. AsymmetryReset
    /\ net \in Samples
    /\ pending \in Seq(Entries)
    /\ channel \in [Entries -> Seq(Samples)]
    /\ owed \in [in : Int, out : Int]

(* gate.go:52-81: an unmatched crossing belongs to one sensor only, whatever *)
(* the order in which the samples of the two sensors arrive, the midnight   *)
(* and expiry resets and the sensor disabled in between.                    *)
OneSidedScratch ==
    \A a, b \in Sensors : a # b =>
        /\ unused.in[a] = 0 \/ unused.in[b] = 0
        /\ unused.out[a] = 0 \/ unused.out[b] = 0

Total(sum) == IF Len(Layout) = 1 THEN sum[Layout[1]] ELSE sum[Layout[1]] + sum[Layout[2]]

(* gate.go:18-121: a crossing is only reported for a sample of a crossing in *)
(* that direction, and no sample is used for two of them: what is still in  *)
(* the scratchpad is covered by samples not yet reported.                   *)
NoPhantomCrossing ==
    /\ Total(unused.in) <= owed.in
    /\ Total(unused.out) <= owed.out

(* gate.go:286-304: the order list the detector indexes names exactly the   *)
(* sensors the gate listens to and is never empty: in particular the sensor *)
(* disabled is never the one whose sample is being processed, which would   *)
(* put it back.                                                             *)
OrderedIsListening ==
    /\ listening # {}
    /\ listening = {ordered[i] : i \in DOMAIN ordered}

(* gate.go:234-247: the differentials never build up a lead: the lagging    *)
(* sensor is at zero and the other below the limit.                         *)
LeadBelowMax ==
    /\ \A s \in Sensors : diff[s] < AsymmetryMax
    /\ \E s \in Sensors : diff[s] = 0

(* gate.go:286-295: a sensor that was disabled is ignored for good, nothing *)
(* of it stays in the scratchpad for the remaining sensor to match, and the *)
(* sensor left is never disabled.                                           *)
DisabledForGood ==
    [][/\ listening' \subseteq listening
       /\ Cardinality(listening) = 1 => listening' = listening
       /\ \A s \in Sensors \ listening' : val'[s] = 0 /\ unused'.in[s] = 0 /\ unused'.out[s] = 0
      ]_vars

(* The inductive invariant behind the theorems of GateProofs.               *)
GateInv ==
    /\ TypeOK
    /\ OneSidedScratch
    /\ NoPhantomCrossing
    /\ OrderedIsListening
    /\ LeadBelowMax
    /\ \A s \in Sensors \ listening :
            val[s] = 0 /\ unused.in[s] = 0 /\ unused.out[s] = 0
=============================================================================
