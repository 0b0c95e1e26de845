----------------------------- MODULE GateProofs -----------------------------
(***************************************************************************)
(* Theorems about Gate, for every configuration of its constants, and about *)
(* Passage, for any number of people in front of it.                        *)
(*                                                                          *)
(* The argument: in each direction the scratchpad of a two sensor gate holds *)
(* unmatched samples of at most one sensor, at most two of them             *)
(* (DetectStep); a verdict of the watch either leaves the sensors alone or  *)
(* drops the one that did not just report (VerdictStep).  The two facts     *)
(* together make GateInv inductive.  With people in front of it, what is in *)
(* the scratchpad is the sample of who is between the sensors (PassageInv). *)
(***************************************************************************)
EXTENDS Passage, FiniteSetTheorems, TLAPS

(* What one direction of a two sensor gate makes of unmatched samples sum   *)
(* and a new one u: r, which stays on one side, reports at most one crossing *)
(* and no more than it had and received.                                    *)
Balanced(r, sum, a, b, u) ==
    /\ r.sum \in [Sensors -> 0 .. 2]
    /\ r.sum[a] = 0 \/ r.sum[b] = 0
    /\ r.count \in 0 .. 1
    /\ r.sum[a] + r.sum[b] + r.count <= sum[a] + sum[b] + Most(0, u)

(* One direction of a two sensor gate.  A sample keeps the unmatched samples *)
(* on one side and below three, reports at most one crossing, and pays for  *)
(* it with samples: those it had or the one that just arrived.              *)
LEMMA DetectStep ==
    ASSUME NEW a \in Sensors, NEW b \in Sensors, a # b,
           NEW sum \in [Sensors -> 0 .. 2], sum[a] = 0 \/ sum[b] = 0,
           NEW s \in {a, b}, NEW v \in Samples, NEW fresh \in BOOLEAN
    PROVE  Balanced(Detect(sum, a, b, s, v, fresh), sum, a, b, v)
<1> DEFINE new  == IF fresh THEN Absorb(sum, s, v) ELSE sum
           both == Matched(new, a, b)
           rest == [new EXCEPT ![a] = @ - both, ![b] = @ - both]
           late == Missed(rest, a, b, s, v, fresh)
           left == [rest EXCEPT ![a] = @ - late]
           r    == Detect(sum, a, b, s, v, fresh)
<1>1. /\ new \in [Sensors -> 0 .. 3]
      /\ new[a] + new[b] <= sum[a] + sum[b] + Most(0, v)
      /\ \/ new[a] = 0
         \/ new[b] = 0
         \/ new[a] = 1 /\ new[b] \in 1 .. 2
         \/ new[b] = 1 /\ new[a] \in 1 .. 2
      /\ (new[a] > 0 /\ new[b] > 0) => v = 1
      /\ (new[a] = 3 \/ new[b] = 3) => v = 1
  BY SMTT(30) DEF Absorb, Most, Samples
<1>2. /\ both \in 0 .. 1
      /\ both = 1 => v = 1
      /\ new[a] - both \in 0 .. 3
      /\ new[b] - both \in 0 .. 3
      /\ new[a] - both = 0 \/ new[b] - both = 0
      /\ both = 1 => new[a] - both < 2 /\ new[b] - both < 2
  <2> HIDE DEF new
  <2> QED BY <1>1 DEF Matched, Least
<1>3. /\ rest \in [Sensors -> 0 .. 3]
      /\ rest[a] = new[a] - both
      /\ rest[b] = new[b] - both
      /\ rest[a] + rest[b] + 2 * both = new[a] + new[b]
      /\ \A x \in Sensors \ {a, b} : rest[x] = sum[x]
  <2>1. \A x \in Sensors \ {a, b} : new[x] = sum[x]
    BY DEF Absorb
  <2> HIDE DEF new, both
  <2> QED BY <1>1, <1>2, <2>1
<1>4. /\ late \in 0 .. 1
      /\ late = 1 => v = 0 /\ rest[a] > 0
  <2> HIDE DEF rest
  <2> QED BY <1>3 DEF Missed
<1>5. /\ left \in [Sensors -> 0 .. 3]
      /\ left[a] = rest[a] - late
      /\ left[b] = rest[b]
      /\ \A x \in Sensors \ {a, b} : left[x] = sum[x]
  <2> HIDE DEF rest, late
  <2> QED BY <1>3, <1>4
<1>6. /\ r.sum = [left EXCEPT ![a] = @ - Excess(left, a), ![b] = @ - Excess(left, b)]
      /\ r.count = both + late + Excess(left, a) + Excess(left, b)
  BY DEF Detect
<1>7. /\ Excess(left, a) = (IF left[a] = 3 THEN 1 ELSE 0)
      /\ Excess(left, b) = (IF left[b] = 3 THEN 1 ELSE 0)
  <2> HIDE DEF left
  <2> QED BY <1>5 DEF Excess
<1> HIDE DEF new, both, rest, late, left, r
<1>8. /\ r.sum \in [Sensors -> 0 .. 2]
      /\ r.sum[a] = left[a] - Excess(left, a)
      /\ r.sum[b] = left[b] - Excess(left, b)
  BY <1>5, <1>6, <1>7, SMTT(30)
<1>9. Most(0, v) \in 0 .. 1
  BY DEF Most, Samples
<1>10. QED
  <2>1. r.sum[a] = 0 \/ r.sum[b] = 0
    BY <1>1, <1>2, <1>3, <1>4, <1>5, <1>7, <1>8
  <2>2. r.count \in 0 .. 1
    BY <1>1, <1>2, <1>3, <1>4, <1>5, <1>6, <1>7
  <2>3. r.sum[a] + r.sum[b] + r.count <= sum[a] + sum[b] + Most(0, v)
    BY <1>1, <1>2, <1>3, <1>4, <1>5, <1>6, <1>7, <1>8, <1>9
  <2> QED BY <1>8, <2>1, <2>2, <2>3 DEF r, Balanced

(* The gate listens to its configured sensors, or to one that is left.      *)
LEMMA ListeningShape ==
    ASSUME GateInv
    PROVE  \/ ordered = Layout /\ listening = Sensors
           \/ \E x \in Sensors : ordered = <<x>> /\ listening = {x}
<1>1. CASE ordered = Layout
  BY <1>1, LayoutAssumption DEF GateInv, OrderedIsListening
<1>2. CASE \E x \in Sensors : ordered = <<x>>
  BY <1>2 DEF GateInv, OrderedIsListening
<1> QED BY <1>1, <1>2 DEF GateInv, TypeOK

(* The watch keeps the differentials small, and when it disables a sensor   *)
(* it is the one other than the sender of the sample.                       *)
LEMMA VerdictStep ==
    ASSUME GateInv, NEW s \in listening, NEW v \in Samples, NEW w \in Verdicts(s, v)
    PROVE  /\ w.diff \in [Sensors -> Nat]
           /\ \A x \in Sensors : w.diff[x] < AsymmetryMax
           /\ \E x \in Sensors : w.diff[x] = 0
           /\ w.times \in [Sensors -> Nat]
           /\ \/ w.dropped = {} /\ w.ordered = ordered
              \/ /\ w.ordered = <<s>>
                 /\ w.dropped # {}
                 /\ listening = Sensors
                 /\ Sensors = w.dropped \cup {s}
                 /\ s \notin w.dropped
<1> USE SettingsAssumption
<1>1. s \in Sensors
  BY DEF GateInv, TypeOK
<1>2. CASE ~Watched(v)
  BY <1>2 DEF Verdicts, Unchanged, GateInv, TypeOK, LeadBelowMax
<1>3. CASE Watched(v)
  <2>1. PICK a, b \in Sensors : /\ a # b
                                /\ Sensors = {a, b}
                                /\ ordered = <<a, b>>
                                /\ listening = Sensors
    <3>1. Len(ordered) > 1
      BY <1>3 DEF Watched
    <3>2. ASSUME NEW x \in Sensors, ordered = <<x>>
          PROVE  FALSE
      <4>1. Len(<<x>>) = 1
        OBVIOUS
      <4> QED BY <3>1, <3>2, <4>1
    <3>3. ordered = Layout /\ listening = Sensors
      BY <3>2, ListeningShape
    <3>4. PICK a, b \in Sensors : a # b /\ Sensors = {a, b} /\ Layout = <<a, b>>
      BY <3>2, <3>3, LayoutAssumption
    <3> QED BY <3>3, <3>4
  <2>2. PICK newDay \in BOOLEAN :
          LET d        == Advance(s, newDay)
              suspects == {x \in Sensors : d[x] = Lowest(d)}
          IN  w \in IF ~Suspicious(d) THEN {Calm(d)}
                    ELSE {Warn(x) : x \in {x \in suspects : times[x] + 1 < AsymmetryIter}}
                         \cup {Disable(x, y) : x \in {x \in suspects : times[x] + 1 >= AsymmetryIter},
                                               y \in listening \ suspects}
    BY <1>3 DEF Verdicts
  <2> DEFINE d        == Advance(s, newDay)
             suspects == {x \in Sensors : d[x] = Lowest(d)}
  <2>3. PICK o \in Sensors : o # s /\ Sensors = {s, o}
    BY <1>1, <2>1
  <2>4. diff \in [Sensors -> Nat] /\ times \in [Sensors -> Nat]
    BY DEF GateInv, TypeOK
  <2>5. /\ d \in [Sensors -> Nat]
        /\ d[s] <= AsymmetryMax
        /\ d[o] < AsymmetryMax
        /\ d[s] >= 1
        /\ d[s] = 1 \/ d[o] = 0
    <3>1. CASE newDay
      BY <3>1, <1>1, <2>3 DEF Advance, Zero
    <3>2. CASE ~newDay
      <4>1. d = [diff EXCEPT ![s] = @ + 1]
        BY <3>2 DEF Advance
      <4>2. diff[s] < AsymmetryMax /\ diff[o] < AsymmetryMax /\ (diff[s] = 0 \/ diff[o] = 0)
        BY <1>1, <2>3 DEF GateInv, LeadBelowMax
      <4> QED BY <4>1, <4>2, <2>3, <2>4, <1>1
    <3> QED BY <3>1, <3>2
  <2> HIDE DEF d
  <2>6. /\ Lowest(d) = Least(d[s], d[o])
        /\ Highest(d) = Most(d[s], d[o])
    <3>1. ordered[1] = a /\ ordered[2] = b
      BY <2>1
    <3>2. d[a] \in Nat /\ d[b] \in Nat
      BY <2>5
    <3>3. (a = s /\ b = o) \/ (a = o /\ b = s)
      BY <2>1, <2>3
    <3> QED BY <3>1, <3>2, <3>3 DEF Lowest, Highest, Least, Most
  <2>7. CASE ~Suspicious(d)
    <3>1. w = Calm(d)
      BY <2>2, <2>7 DEF d
    <3>2. /\ w.diff = [x \in Sensors |-> d[x] - Lowest(d)]
          /\ w.times = times
          /\ w.ordered = ordered
          /\ w.dropped = {}
      BY <3>1 DEF Calm
    <3>3. /\ w.diff[s] = d[s] - Least(d[s], d[o])
          /\ w.diff[o] = d[o] - Least(d[s], d[o])
      BY <1>1, <2>3, <2>6, <3>2
    <3>4. Most(d[s], d[o]) - Least(d[s], d[o]) < AsymmetryMax
      BY <2>5, <2>6, <2>7, <1>1 DEF Suspicious, Least, Most
    <3>5. /\ w.diff[s] \in Nat /\ w.diff[s] < AsymmetryMax
          /\ w.diff[o] \in Nat /\ w.diff[o] < AsymmetryMax
          /\ w.diff[s] = 0 \/ w.diff[o] = 0
      <4>1. d[s] \in Nat /\ d[o] \in Nat
        BY <1>1, <2>5
      <4> QED BY <4>1, <3>3, <3>4 DEF Least, Most
    <3>6. w.diff \in [Sensors -> Nat]
      BY <2>3, <3>2, <3>5
    <3> QED BY <1>1, <2>3, <2>4, <3>2, <3>5, <3>6
  <2>8. CASE Suspicious(d)
    <3>1. d[o] = 0 /\ d[s] = AsymmetryMax
      <4>1. d[s] \in Nat /\ d[o] \in Nat
        BY <1>1, <2>5
      <4> QED BY <4>1, <2>5, <2>6, <2>8 DEF Suspicious, Least, Most
    <3>2. suspects = {o}
      BY <1>1, <2>3, <2>6, <3>1 DEF Least
    <3>3. \/ w = Warn(o)
          \/ \E y \in listening \ {o} : w = Disable(o, y)
      BY <2>2, <2>8, <3>2 DEF d
    <3>4. /\ Zero \in [Sensors -> Nat]
          /\ \A x \in Sensors : Zero[x] < AsymmetryMax
          /\ \E x \in Sensors : Zero[x] = 0
          /\ [times EXCEPT ![o] = @ + 1] \in [Sensors -> Nat]
      BY <2>3, <2>4 DEF Zero
    <3>5. CASE w = Warn(o)
      BY <3>4, <3>5 DEF Warn
    <3>6. CASE \E y \in listening \ {o} : w = Disable(o, y)
      <4>1. w = Disable(o, s)
        BY <2>1, <2>3, <3>6
      <4>2. /\ w.diff = Zero
            /\ w.times = [times EXCEPT ![o] = @ + 1]
            /\ w.ordered = <<s>>
            /\ w.dropped = {o}
        BY <4>1 DEF Disable
      <4> QED BY <2>1, <2>3, <3>4, <4>2
    <3> QED BY <3>3, <3>5, <3>6
  <2> QED BY <2>7, <2>8
<1> QED BY <1>2, <1>3

(* A gate that hears one sensor matches nothing: the scratchpad is emptied  *)
(* and the sample passed on.                                                *)
LEMMA FollowStep ==
    ASSUME NEW s \in Sensors, NEW v \in Samples,
           NEW sum \in [Sensors -> 0 .. 2], \A x \in Sensors \ {s} : sum[x] = 0
    PROVE  /\ Follow(sum, s, v).sum = Zero
           /\ Follow(sum, s, v).count = Most(0, v)
BY DEF Follow, Zero

(* Totals of the scratchpad are those of the two sensors.                   *)
LEMMA TotalOfZero == Total(Zero) = 0
<1>1. CASE \E a \in Sensors : Sensors = {a} /\ Layout = <<a>>
  BY <1>1 DEF Total, Zero
<1>2. CASE \E a, b \in Sensors : a # b /\ Sensors = {a, b} /\ Layout = <<a, b>>
  BY <1>2 DEF Total, Zero
<1> QED BY <1>1, <1>2, LayoutAssumption

LEMMA TotalIsNat ==
    ASSUME NEW sum \in [Sensors -> 0 .. 2]
    PROVE  Total(sum) \in Nat
<1>1. CASE \E a \in Sensors : Sensors = {a} /\ Layout = <<a>>
  BY <1>1 DEF Total
<1>2. CASE \E a, b \in Sensors : a # b /\ Sensors = {a, b} /\ Layout = <<a, b>>
  BY <1>2 DEF Total
<1> QED BY <1>1, <1>2, LayoutAssumption

(* What one direction owes its samples: r, found for a sample u, leaves a   *)
(* sound scratchpad and reports no more than it had and received.           *)
Sound(r, sum, u) ==
    /\ r.sum \in [Sensors -> 0 .. 2]
    /\ \A a, b \in Sensors : a # b => r.sum[a] = 0 \/ r.sum[b] = 0
    /\ r.count \in 0 .. 1
    /\ Total(r.sum) + r.count <= Total(sum) + Most(0, u)

LEMMA NegatedSample ==
    ASSUME NEW v \in Samples
    PROVE  -v \in Samples /\ Most(0, v) \in 0 .. 1
BY DEF Samples, Most

(* Both directions are sound whatever the verdict of the watch.             *)
LEMMA SampleFindings ==
    ASSUME GateInv, NEW s \in listening, NEW v \in Samples, NEW w \in Verdicts(s, v),
           NEW fresh \in BOOLEAN
    PROVE  LET kept  == [in  |-> Without(unused.in, w.dropped),
                         out |-> Without(unused.out, w.dropped)]
               found == DetectTransition(w.ordered, kept, s, v, fresh)
               after == (listening \ w.dropped) \cup {s}
           IN  /\ Sound(found.in, unused.in, v)
               /\ Sound(found.out, unused.out, -v)
               /\ \/ /\ w.ordered = Layout
                     /\ after = Sensors
                  \/ /\ w.ordered = <<s>>
                     /\ after = {s}
                     /\ found.in.sum = Zero
                     /\ found.out.sum = Zero
<1> DEFINE kept  == [in  |-> Without(unused.in, w.dropped),
                     out |-> Without(unused.out, w.dropped)]
           found == DetectTransition(w.ordered, kept, s, v, fresh)
           after == (listening \ w.dropped) \cup {s}
<1>1. /\ s \in Sensors
      /\ unused.in \in [Sensors -> 0 .. 2]
      /\ unused.out \in [Sensors -> 0 .. 2]
      /\ -v \in Samples
  BY NegatedSample DEF GateInv, TypeOK
<1>2. CASE w.ordered = <<s>> /\ after = {s}
  <2>1. /\ kept.in \in [Sensors -> 0 .. 2]
        /\ kept.out \in [Sensors -> 0 .. 2]
    BY <1>1 DEF Without
  <2>2. \A x \in Sensors \ {s} : kept.in[x] = 0 /\ kept.out[x] = 0
    BY <1>1, <1>2 DEF Without, GateInv
  <2> HIDE DEF kept
  <2>3. found = [in |-> Follow(kept.in, s, v), out |-> Follow(kept.out, s, -v)]
    BY <1>2 DEF DetectTransition
  <2>4. /\ found.in.sum = Zero
        /\ found.in.count = Most(0, v)
    BY <1>1, <2>1, <2>2, <2>3, FollowStep
  <2>5. /\ found.out.sum = Zero
        /\ found.out.count = Most(0, -v)
    BY <1>1, <2>1, <2>2, <2>3, FollowStep
  <2>6. /\ Zero \in [Sensors -> 0 .. 2]
        /\ \A x \in Sensors : Zero[x] = 0
    BY DEF Zero
  <2>7. Most(0, v) \in 0 .. 1 /\ Most(0, -v) \in 0 .. 1
    BY <1>1, NegatedSample
  <2>8. Total(unused.in) \in Nat /\ Total(unused.out) \in Nat
    BY <1>1, TotalIsNat
  <2> HIDE DEF found
  <2>9. Sound(found.in, unused.in, v)
    BY <2>4, <2>6, <2>7, <2>8, TotalOfZero DEF Sound
  <2>10. Sound(found.out, unused.out, -v)
    BY <2>5, <2>6, <2>7, <2>8, TotalOfZero DEF Sound
  <2> QED BY <1>2, <2>4, <2>5, <2>9, <2>10 DEF found, kept
<1>3. CASE /\ w.ordered = Layout /\ after = Sensors /\ w.dropped = {}
           /\ \E a, b \in Sensors : a # b /\ Sensors = {a, b} /\ Layout = <<a, b>>
  <2>1. PICK a, b \in Sensors : a # b /\ Sensors = {a, b} /\ Layout = <<a, b>>
    BY <1>3
  <2>2. kept.in = unused.in /\ kept.out = unused.out
    BY <1>1, <1>3 DEF Without
  <2>3. /\ unused.in[a] = 0 \/ unused.in[b] = 0
        /\ unused.out[a] = 0 \/ unused.out[b] = 0
    BY <2>1 DEF GateInv, OneSidedScratch
  <2> HIDE DEF kept
  <2>4. found = [in  |-> Detect(unused.in, a, b, s, v, fresh),
                 out |-> Detect(unused.out, b, a, s, -v, fresh)]
    BY <1>3, <2>1, <2>2 DEF DetectTransition
  <2>5. s \in {a, b} /\ s \in {b, a}
    BY <1>1, <2>1
  <2>6. \A sum : Total(sum) = sum[a] + sum[b]
    BY <2>1 DEF Total
  <2>7. /\ Balanced(found.in, unused.in, a, b, v)
        /\ Balanced(found.out, unused.out, b, a, -v)
    <3>1. v \in Samples /\ -v \in Samples /\ fresh \in BOOLEAN
      BY <1>1 DEF Samples
    <3>2. unused.in \in [Sensors -> 0 .. 2] /\ unused.out \in [Sensors -> 0 .. 2]
      BY DEF GateInv, TypeOK
    <3>3. /\ Balanced(Detect(unused.in, a, b, s, v, fresh), unused.in, a, b, v)
          /\ Balanced(Detect(unused.out, b, a, s, -v, fresh), unused.out, b, a, -v)
      BY <2>1, <2>3, <2>5, <3>1, <3>2, DetectStep
    <3> QED BY <2>4, <3>3
  <2> HIDE DEF found
  <2>8. Sound(found.in, unused.in, v)
    BY <2>1, <2>6, <2>7 DEF Sound, Balanced
  <2>9. /\ unused.out[b] + unused.out[a] = unused.out[a] + unused.out[b]
        /\ found.out.sum[b] + found.out.sum[a] = found.out.sum[a] + found.out.sum[b]
    BY <1>1, <2>7 DEF Balanced
  <2>10. Sound(found.out, unused.out, -v)
    BY <2>1, <2>6, <2>7, <2>9 DEF Sound, Balanced
  <2> QED BY <1>3, <2>8, <2>10 DEF found, kept
<1>4. \/ w.ordered = <<s>> /\ after = {s}
      \/ /\ w.ordered = Layout /\ after = Sensors /\ w.dropped = {}
         /\ \E a, b \in Sensors : a # b /\ Sensors = {a, b} /\ Layout = <<a, b>>
  <2>1. CASE w.dropped = {} /\ w.ordered = ordered
    BY <1>1, <2>1, ListeningShape, LayoutAssumption
  <2>2. CASE /\ w.ordered = <<s>>
             /\ Sensors = w.dropped \cup {s}
             /\ listening = Sensors
             /\ s \notin w.dropped
    BY <1>1, <2>2
  <2> QED BY <2>1, <2>2, VerdictStep
<1> QED BY <1>2, <1>3, <1>4

(* A sample preserves the invariant.                                        *)
LEMMA SampleStep ==
    ASSUME GateInv, NEW s \in Sensors, NEW raw \in Samples, NEW sameTs \in BOOLEAN,
           Sample(s, raw, sameTs)
    PROVE  GateInv'
<1> DEFINE v     == IF s \in Reversed THEN -raw ELSE raw
           fresh == ~sameTs \/ v # val[s]
<1>1. s \in listening /\ v \in Samples /\ fresh \in BOOLEAN
  BY NegatedSample DEF Sample
<1>2. PICK w \in Verdicts(s, v) :
        LET kept  == [in  |-> Without(unused.in, w.dropped),
                      out |-> Without(unused.out, w.dropped)]
            found == DetectTransition(w.ordered, kept, s, v, fresh)
        IN  /\ listening' = (listening \ w.dropped) \cup {s}
            /\ ordered' = w.ordered
            /\ val' = [Without(val, w.dropped) EXCEPT ![s] = v]
            /\ unused' = [in  |-> found.in.sum,
                          out |-> IF Expires THEN Zero ELSE found.out.sum]
            /\ diff' = IF Expires THEN Zero ELSE w.diff
            /\ times' = IF Expires THEN Zero ELSE w.times
            /\ resetCount' = IF Expires THEN AsymmetryReset ELSE resetCount - 1
            /\ net' = found.in.count - found.out.count
            /\ owed' = [in  |-> owed.in + Most(0, v) - found.in.count,
                        out |-> owed.out + Most(0, -v) - found.out.count]
  BY DEF Sample
<1> DEFINE kept  == [in  |-> Without(unused.in, w.dropped),
                     out |-> Without(unused.out, w.dropped)]
           found == DetectTransition(w.ordered, kept, s, v, fresh)
<1>3. /\ Sound(found.in, unused.in, v)
      /\ Sound(found.out, unused.out, -v)
      /\ \/ ordered' = Layout /\ listening' = Sensors
         \/ /\ ordered' = <<s>> /\ listening' = {s}
            /\ found.in.sum = Zero /\ found.out.sum = Zero
  <2> HIDE DEF v, fresh
  <2> QED BY <1>1, <1>2, SampleFindings
<1>4. /\ pending' = Recipients
      /\ channel' = channel
  BY DEF Sample
<1>5. /\ unused'.in = found.in.sum
      /\ unused'.out = IF Expires THEN Zero ELSE found.out.sum
      /\ unused' = [in |-> unused'.in, out |-> unused'.out]
      /\ net' = found.in.count - found.out.count
      /\ owed' = [in |-> owed'.in, out |-> owed'.out]
      /\ owed'.in = owed.in + Most(0, v) - found.in.count
      /\ owed'.out = owed.out + Most(0, -v) - found.out.count
  BY <1>2
<1>6. /\ diff' = IF Expires THEN Zero ELSE w.diff
      /\ times' = IF Expires THEN Zero ELSE w.times
      /\ resetCount' = IF Expires THEN AsymmetryReset ELSE resetCount - 1
      /\ val' = [Without(val, w.dropped) EXCEPT ![s] = v]
      /\ listening' = (listening \ w.dropped) \cup {s}
  BY <1>2
<1>7. /\ Zero \in [Sensors -> 0 .. 2]
      /\ Zero \in [Sensors -> Nat]
      /\ \A x \in Sensors : Zero[x] = 0
  BY DEF Zero
<1>8. /\ Most(0, v) \in 0 .. 1
      /\ Most(0, -v) \in 0 .. 1
  <2> HIDE DEF v
  <2> QED BY <1>1, NegatedSample
<1> HIDE DEF v, fresh, found, kept
<1>9. TypeOK'
  <2>1. listening' \subseteq Sensors
    BY <1>3
  <2>2. ordered' = Layout \/ \E x \in Sensors : ordered' = <<x>>
    BY <1>3
  <2>3. val' \in [Sensors -> Samples]
    <3>1. Without(val, w.dropped) \in [Sensors -> Samples]
      BY DEF GateInv, TypeOK, Without, Samples
    <3> QED BY <1>1, <1>6, <3>1
  <2>4. unused' \in [in : [Sensors -> 0 .. 2], out : [Sensors -> 0 .. 2]]
    BY <1>3, <1>5, <1>7 DEF Sound
  <2>5. /\ diff' \in [Sensors -> Nat]
        /\ times' \in [Sensors -> Nat]
    BY <1>1, <1>6, <1>7, VerdictStep
  <2>6. resetCount' \in 1 .. AsymmetryReset
    BY <1>6, SettingsAssumption DEF Expires, GateInv, TypeOK
  <2>7. net' \in Samples
    BY <1>3, <1>5 DEF Sound, Samples
  <2>8. pending' \in Seq(Entries) /\ channel' \in [Entries -> Seq(Samples)]
    BY <1>4, SettingsAssumption DEF GateInv, TypeOK
  <2>9. owed' \in [in : Int, out : Int]
    <3>1. owed'.in \in Int /\ owed'.out \in Int
      BY <1>3, <1>5, <1>8 DEF GateInv, TypeOK, Sound
    <3> QED BY <1>5, <3>1
  <2> QED BY <2>1, <2>2, <2>3, <2>4, <2>5, <2>6, <2>7, <2>8, <2>9 DEF TypeOK
<1>10. OneSidedScratch'
  BY <1>3, <1>5, <1>7 DEF OneSidedScratch, Sound
<1>11. NoPhantomCrossing'
  <2>1. /\ Total(unused.in) \in Nat /\ Total(unused.out) \in Nat
        /\ Total(found.in.sum) \in Nat /\ Total(found.out.sum) \in Nat
    BY <1>3, TotalIsNat DEF GateInv, TypeOK, Sound
  <2>2. /\ owed.in \in Int /\ Total(unused.in) <= owed.in
        /\ owed.out \in Int /\ Total(unused.out) <= owed.out
    BY DEF GateInv, TypeOK, NoPhantomCrossing
  <2>3. Total(found.in.sum) <= owed'.in /\ Total(found.out.sum) <= owed'.out
    BY <1>3, <1>5, <1>8, <2>1, <2>2 DEF Sound
  <2>4. 0 <= owed'.out
    BY <1>3, <1>5, <1>8, <2>1, <2>2 DEF Sound
  <2>5. /\ Total(unused.in)' = Total(found.in.sum)
        /\ Total(unused.out)' = IF Expires THEN 0 ELSE Total(found.out.sum)
    <3>1. /\ Total(unused.in)' = Total(unused'.in)
          /\ Total(unused.out)' = Total(unused'.out)
      BY DEF Total
    <3> QED BY <1>5, <3>1, TotalOfZero
  <2> QED BY <2>3, <2>4, <2>5 DEF NoPhantomCrossing
<1>12. OrderedIsListening'
  <2>1. CASE ordered' = Layout /\ listening' = Sensors
    BY <2>1, LayoutAssumption DEF OrderedIsListening
  <2>2. CASE ordered' = <<s>> /\ listening' = {s}
    BY <2>2 DEF OrderedIsListening
  <2> QED BY <1>3, <2>1, <2>2
<1>13. LeadBelowMax'
  BY <1>1, <1>6, <1>7, VerdictStep, SettingsAssumption DEF LeadBelowMax
<1>14. (\A x \in Sensors \ listening :
            val[x] = 0 /\ unused.in[x] = 0 /\ unused.out[x] = 0)'
  <2> SUFFICES ASSUME NEW x \in Sensors, x \notin listening'
               PROVE  val'[x] = 0 /\ unused'.in[x] = 0 /\ unused'.out[x] = 0
    OBVIOUS
  <2>1. unused'.in[x] = 0 /\ unused'.out[x] = 0
    BY <1>3, <1>5, <1>7
  <2>2. x # s /\ (x \in w.dropped \/ x \notin listening)
    BY <1>6
  <2>3. val'[x] = 0
    BY <1>6, <2>2 DEF Without, GateInv, TypeOK
  <2> QED BY <2>1, <2>3
<1> QED BY <1>9, <1>10, <1>11, <1>12, <1>13, <1>14 DEF GateInv

(* Handing a result over leaves the detector alone.                         *)
LEMMA HandOverStep ==
    ASSUME GateInv, Send \/ \E e \in Entries : Take(e)
    PROVE  GateInv'
<1>1. UNCHANGED <<detector, watch, net>>
  BY DEF Send, Take
<1>2. pending' \in Seq(Entries) /\ channel' \in [Entries -> Seq(Samples)]
  <2>1. CASE Send
    <3>1. Head(pending) \in Entries /\ Tail(pending) \in Seq(Entries)
      BY <2>1 DEF Send, GateInv, TypeOK
    <3>2. Append(channel[Head(pending)], net) \in Seq(Samples)
      BY <3>1 DEF GateInv, TypeOK
    <3> QED BY <2>1, <3>1, <3>2 DEF Send, GateInv, TypeOK
  <2>2. CASE \E e \in Entries : Take(e)
    BY <2>2 DEF Take, GateInv, TypeOK
  <2> QED BY <2>1, <2>2
<1>3. TypeOK'
  BY <1>1, <1>2 DEF GateInv, TypeOK, detector, watch
<1> QED BY <1>1, <1>3 DEF GateInv, detector, watch, OneSidedScratch, NoPhantomCrossing,
           OrderedIsListening, LeadBelowMax, Total

LEMMA GateInvInit == Init => GateInv
<1> SUFFICES ASSUME Init PROVE GateInv
  OBVIOUS
<1> USE SettingsAssumption DEF Init
<1>1. /\ Zero \in [Sensors -> 0 .. 2]
      /\ Zero \in [Sensors -> Nat]
      /\ Zero \in [Sensors -> Samples]
      /\ \A x \in Sensors : Zero[x] = 0
  BY DEF Zero, Samples
<1>2. \E x \in Sensors : TRUE
  BY LayoutAssumption
<1>3. TypeOK
  BY <1>1 DEF TypeOK, Samples
<1>4. OneSidedScratch /\ LeadBelowMax
  BY <1>1, <1>2 DEF OneSidedScratch, LeadBelowMax
<1>5. NoPhantomCrossing
  BY TotalOfZero DEF NoPhantomCrossing
<1>6. OrderedIsListening
  BY LayoutAssumption DEF OrderedIsListening
<1> QED BY <1>1, <1>3, <1>4, <1>5, <1>6 DEF GateInv

LEMMA GateInvStep == GateInv /\ [Next]_vars => GateInv'
<1> SUFFICES ASSUME GateInv, [Next]_vars PROVE GateInv'
  OBVIOUS
<1>1. CASE \E s \in Sensors, raw \in Samples, sameTs \in BOOLEAN : Sample(s, raw, sameTs)
  BY <1>1, SampleStep
<1>2. CASE Send \/ \E e \in Entries : Take(e)
  BY <1>2, HandOverStep
<1>3. CASE UNCHANGED vars
  BY <1>3 DEF vars, detector, watch, GateInv, TypeOK, OneSidedScratch, NoPhantomCrossing,
              OrderedIsListening, LeadBelowMax, Total
<1> QED BY <1>1, <1>2, <1>3 DEF Next

(* The inductive invariant holds in every reachable state.                  *)
THEOREM GateInvariant == Spec => []GateInv
BY GateInvStep, GateInvInit, PTL DEF Spec

(* Every variable of the gate keeps its type, and a sample never changes    *)
(* the count by more than one (net).                                        *)
THEOREM GateTypeCorrect == Spec => []TypeOK
<1>1. GateInv => TypeOK
  BY DEF GateInv
<1> QED BY <1>1, GateInvariant, PTL

(* A crossing waits for its match in one sensor only.                       *)
THEOREM GateOneSided == Spec => []OneSidedScratch
<1>1. GateInv => OneSidedScratch
  BY DEF GateInv
<1> QED BY <1>1, GateInvariant, PTL

(* No crossing is reported that no sensor saw, or reported twice for the    *)
(* same samples.                                                            *)
THEOREM GateNoPhantom == Spec => []NoPhantomCrossing
<1>1. GateInv => NoPhantomCrossing
  BY DEF GateInv
<1> QED BY <1>1, GateInvariant, PTL

(* The detector never indexes a sensor the gate dropped, nor an empty list. *)
THEOREM GateOrderedIsListening == Spec => []OrderedIsListening
<1>1. GateInv => OrderedIsListening
  BY DEF GateInv
<1> QED BY <1>1, GateInvariant, PTL

(* The differentials never build up a lead.                                 *)
THEOREM GateLeadBelowMax == Spec => []LeadBelowMax
<1>1. GateInv => LeadBelowMax
  BY DEF GateInv
<1> QED BY <1>1, GateInvariant, PTL

(* The sensor that was disabled is ignored for good, and the last one is    *)
(* never disabled.                                                          *)
THEOREM GateDisabledForGood == Spec => DisabledForGood
<1> DEFINE Forgotten == \A s \in Sensors \ listening' :
                            val'[s] = 0 /\ unused'.in[s] = 0 /\ unused'.out[s] = 0
           Good == /\ listening' \subseteq listening
                   /\ Cardinality(listening) = 1 => listening' = listening
                   /\ Forgotten
<1>1. ASSUME GateInv, GateInv', [Next]_vars PROVE [Good]_vars
  <2>1. Forgotten
    BY <1>1 DEF GateInv
  <2>2. listening' \subseteq listening
    <3>1. ASSUME NEW s \in Sensors, NEW raw \in Samples, NEW sameTs \in BOOLEAN,
                 Sample(s, raw, sameTs)
          PROVE  listening' \subseteq listening
      BY <3>1 DEF Sample
    <3>2. ASSUME Send \/ (\E e \in Entries : Take(e)) \/ UNCHANGED vars
          PROVE  listening' = listening
      BY <3>2 DEF Send, Take, vars, detector
    <3> QED BY <1>1, <3>1, <3>2 DEF Next
  <2>3. listening' # {} /\ listening \subseteq Sensors
    BY <1>1 DEF GateInv, OrderedIsListening, TypeOK
  <2>4. IsFiniteSet(listening)
    <3>1. IsFiniteSet(Sensors)
      <4>1. \E a, b \in Sensors : Sensors = {a} \cup {b}
        BY LayoutAssumption
      <4>2. PICK a, b \in Sensors : Sensors = {a} \cup {b}
        BY <4>1
      <4>3. IsFiniteSet({a})
        BY FS_Singleton
      <4>4. IsFiniteSet({a} \cup {b})
        BY <4>3, FS_AddElement
      <4> QED BY <4>2, <4>4
    <3> QED BY <2>3, <3>1, FS_Subset
  <2>5. Cardinality(listening) = 1 => listening' = listening
    BY <2>2, <2>3, <2>4, FS_Singleton
  <2> QED BY <2>1, <2>2, <2>5
<1> QED BY <1>1, GateInvariant, PTL DEF Spec, DisabledForGood
-----------------------------------------------------------------------------
(* The gate with people in front of it (Passage).                           *)

(* A gate with one sensor passes its sample on.                             *)
LEMMA OneSensorSample ==
    ASSUME GateInv, Len(Layout) = 1, ordered = Layout,
           NEW s, NEW raw, NEW sameTs, Sample(s, raw, sameTs),
           NEW v \in Samples, v = IF s \in Reversed THEN -raw ELSE raw
    PROVE  listening' = listening /\ ordered' = ordered /\ net' = v
<1>1. s \in listening
  BY DEF Sample
<1>2. Verdicts(s, v) = {Unchanged}
  <2>1. PICK x : ordered = <<x>>
    BY LayoutAssumption
  <2>2. Len(<<x>>) = 1
    OBVIOUS
  <2>3. ~Watched(v)
    BY <2>1, <2>2 DEF Watched
  <2> QED BY <2>3 DEF Verdicts
<1>3. PICK w \in Verdicts(s, v) :
        LET kept  == [in  |-> Without(unused.in, w.dropped),
                      out |-> Without(unused.out, w.dropped)]
            fresh == ~sameTs \/ v # val[s]
            found == DetectTransition(w.ordered, kept, s, v, fresh)
        IN  /\ listening' = (listening \ w.dropped) \cup {s}
            /\ ordered' = w.ordered
            /\ net' = found.in.count - found.out.count
  BY DEF Sample
<1>4. w.dropped = {} /\ w.ordered = ordered
  BY <1>2 DEF Unchanged
<1>5. net' = Most(0, v) - Most(0, -v)
  BY <1>3, <1>4 DEF DetectTransition, Follow
<1>6. Most(0, v) - Most(0, -v) = v
  BY DEF Samples, Most
<1> QED BY <1>1, <1>3, <1>4, <1>5, <1>6

(* What a sample of a gate with two sensors does in one direction when all  *)
(* it leaves unmatched is one sample of the first sensor or nothing: of the *)
(* unmatched samples new both are a crossing, and rest is left.             *)
Matches(sum, a, b, s, v, new, both, rest) ==
    /\ new \in [Sensors -> Int] /\ new = Absorb(sum, s, v)
    /\ both \in {0, 1} /\ Matched(new, a, b) = both
    /\ rest \in [Sensors -> {0, 1}]
    /\ \A x \in Sensors : rest[x] = IF x \in {a, b} THEN new[x] - both ELSE new[x]
    /\ ~(s = b /\ v = 0 /\ rest[a] = 1)

Finds(r, rest, both) == r.sum = rest /\ r.count = both

LEMMA FindsRecord == \A rest, both : Finds([sum |-> rest, count |-> both], rest, both)
BY DEF Finds

LEMMA NoSign == -0 = 0
<1>1. -0 \in Int /\ 0 + (-0) = 0
  OBVIOUS
<1>2. \A n \in Int : 0 + n = 0 => n = 0
  OBVIOUS
<1> QED BY <1>1, <1>2, Zenon

LEMMA DetectMatches ==
    ASSUME NEW a \in Sensors, NEW b \in Sensors, a # b, NEW s, NEW v, NEW sum,
           NEW new, NEW both, NEW rest, Matches(sum, a, b, s, v, new, both, rest)
    PROVE  Finds(Detect(sum, a, b, s, v, TRUE), rest, both)
<1> USE DEF Matches
<1> DEFINE late == Missed(rest, a, b, s, v, TRUE)
           left == [rest EXCEPT ![a] = @ - late]
           end  == [left EXCEPT ![a] = @ - Excess(left, a), ![b] = @ - Excess(left, b)]
           all  == both + late + Excess(left, a) + Excess(left, b)
<1>1. rest[a] \in {0, 1} /\ rest[b] \in {0, 1}
  OBVIOUS
<1>2. [new EXCEPT ![a] = @ - both, ![b] = @ - both] = rest
  OBVIOUS
<1>3. Detect(sum, a, b, s, v, TRUE) = [sum |-> end, count |-> all]
  BY <1>2 DEF Detect
<1>4. late = 0
  BY <1>1 DEF Missed
<1>5. left = rest
  <2> HIDE DEF late
  <2> QED BY <1>4
<1> HIDE DEF late, left
<1>6. Excess(left, a) = 0 /\ Excess(left, b) = 0
  BY <1>5, <1>1 DEF Excess
<1>7. end = rest
  BY <1>5, <1>6
<1>8. all = both
  BY <1>4, <1>6
<1> HIDE DEF end, all, Matches
<1>9. Finds([sum |-> end, count |-> all], end, all)
  BY FindsRecord
<1>10. Finds(Detect(sum, a, b, s, v, TRUE), end, all)
  BY <1>3, <1>9, Zenon
<1> QED BY <1>7, <1>8, <1>10, Zenon

LEMMA DetectNobody ==
    ASSUME NEW a \in Sensors, NEW b \in Sensors, a # b, NEW s \in {a, b}, NEW v \in {-1, 0}
    PROVE  Finds(Detect(Zero, a, b, s, v, TRUE), Zero, 0)
<1>1. Zero \in [Sensors -> {0, 1}] /\ Zero[a] = 0 /\ Zero[b] = 0 /\ Absorb(Zero, s, v) = Zero
  BY DEF Zero, Absorb, Most
<1>2. Matched(Zero, a, b) = 0
  BY <1>1 DEF Matched, Least
<1>3. v \in Samples /\ 0 \in {0, 1} /\ ~(s = b /\ v = 0 /\ Zero[a] = 1)
  BY <1>1 DEF Samples
<1>4. Zero \in [Sensors -> Int]
      /\ \A x \in Sensors : Zero[x] = IF x \in {a, b} THEN Zero[x] - 0 ELSE Zero[x]
  BY DEF Zero
<1>5. Matches(Zero, a, b, s, v, Zero, 0, Zero)
  BY <1>1, <1>2, <1>3, <1>4 DEF Matches
<1> QED BY <1>5, DetectMatches

LEMMA DetectFirst ==
    ASSUME NEW a \in Sensors, NEW b \in Sensors, a # b
    PROVE  Finds(Detect(Zero, a, b, a, 1, TRUE), [Zero EXCEPT ![a] = 1], 0)
<1> DEFINE first == [Zero EXCEPT ![a] = 1]
<1>1. first \in [Sensors -> {0, 1}] /\ first[a] = 1 /\ first[b] = 0
  BY DEF Zero
<1>2. Absorb(Zero, a, 1) = first
  BY DEF Zero, Absorb, Most
<1> HIDE DEF first
<1>3. Matched(first, a, b) = 0
  BY <1>1 DEF Matched, Least
<1>4. /\ 1 \in Samples /\ first \in [Sensors -> Int]
      /\ \A x \in Sensors : first[x] = IF x \in {a, b} THEN first[x] - 0 ELSE first[x]
  BY <1>1 DEF Samples
<1>5. Finds(Detect(Zero, a, b, a, 1, TRUE), first, 0)
  <2>1. Matches(Zero, a, b, a, 1, first, 0, first)
    BY <1>1, <1>2, <1>3, <1>4 DEF Matches
  <2> QED BY <2>1, DetectMatches
<1> QED BY <1>5 DEF first

LEMMA DetectSecond ==
    ASSUME NEW a \in Sensors, NEW b \in Sensors, a # b
    PROVE  Finds(Detect([Zero EXCEPT ![a] = 1], a, b, b, 1, TRUE), Zero, 1)
<1> DEFINE first == [Zero EXCEPT ![a] = 1]
           both == Absorb(first, b, 1)
<1>1. both = [x \in Sensors |-> IF x \in {a, b} THEN 1 ELSE 0]
  BY DEF Zero, Absorb, Most
<1> HIDE DEF both, first
<1>2. /\ both \in [Sensors -> Int] /\ both[a] = 1 /\ both[b] = 1
      /\ \A x \in Sensors : Zero[x] = IF x \in {a, b} THEN both[x] - 1 ELSE both[x]
  BY <1>1 DEF Zero
<1>3. Matched(both, a, b) = 1
  BY <1>2 DEF Matched, Least
<1>4. 1 \in Samples /\ Zero \in [Sensors -> {0, 1}]
  BY DEF Samples, Zero
<1>5. Finds(Detect(first, a, b, b, 1, TRUE), Zero, 1)
  <2>1. Matches(first, a, b, b, 1, both, 1, Zero)
    BY <1>2, <1>3, <1>4 DEF Matches, both
  <2> QED BY <2>1, DetectMatches
<1> QED BY <1>5 DEF first

(* The watch of a gate whose people walk in: the sensors take turns, and    *)
(* neither is ever suspect.                                                 *)
LEMMA WalkVerdict ==
    ASSUME GateInv, ordered = Layout, Dependable, Len(Layout) # 1,
           NEW s \in Sensors, NEW o \in Sensors, s # o, NEW v \in {0, 1},
           AsymmetryIter = 0 => diff = Zero,
           v = 1 => diff[s] = 0 /\ diff[o] <= 1,
           NEW w \in Verdicts(s, v)
    PROVE  /\ w.ordered = ordered /\ w.dropped = {}
           /\ AsymmetryIter = 0 => w.diff = Zero
           /\ v = 0 => w.diff = diff
           /\ v = 1 => w.diff[s] <= 1 /\ w.diff[o] = 0
<1> USE SettingsAssumption
<1>1. diff \in [Sensors -> Nat]
  BY DEF GateInv, TypeOK
<1>2. CASE ~Watched(v)
  <2>1. w.ordered = ordered /\ w.dropped = {} /\ w.diff = diff
    BY <1>2 DEF Verdicts, Unchanged
  <2>2. Len(ordered) > 1
    BY LayoutAssumption
  <2>3. v = 1 => AsymmetryIter = 0
    BY <1>2, <2>2 DEF Watched
  <2> QED BY <2>1, <2>3 DEF Zero
<1>3. CASE Watched(v)
  <2>1. v = 1 /\ AsymmetryIter # 0 /\ AsymmetryMax > 1
    BY <1>3 DEF Watched, Dependable
  <2>2. PICK newDay \in BOOLEAN :
          LET d        == Advance(s, newDay)
              suspects == {x \in Sensors : d[x] = Lowest(d)}
          IN  w \in IF ~Suspicious(d) THEN {Calm(d)}
                    ELSE {Warn(x) : x \in {x \in suspects : times[x] + 1 < AsymmetryIter}}
                         \cup {Disable(x, y) : x \in {x \in suspects : times[x] + 1 >= AsymmetryIter},
                                               y \in listening \ suspects}
    BY <1>3 DEF Verdicts
  <2> DEFINE d == Advance(s, newDay)
  <2>3. d \in [Sensors -> Nat] /\ d[s] = 1 /\ d[o] <= 1
    BY <1>1, <2>1 DEF Advance, Zero
  <2> HIDE DEF d
  <2>4. Lowest(d) = d[o] /\ Highest(d) = 1
    <3>1. PICK a, b \in Sensors : a # b /\ Sensors = {a, b} /\ Layout = <<a, b>>
      BY LayoutAssumption
    <3>2. ordered[1] = a /\ ordered[2] = b /\ ((a = s /\ b = o) \/ (a = o /\ b = s))
      BY <3>1
    <3>3. d[o] \in Nat
      BY <2>3
    <3> QED BY <2>3, <3>2, <3>3 DEF Lowest, Highest, Least, Most
  <2>5. d[o] \in Nat
    BY <2>3
  <2>6. ~Suspicious(d)
    BY <2>1, <2>4, <2>5 DEF Suspicious
  <2>7. w = Calm(d)
    BY <2>2, <2>6 DEF d
  <2>8. /\ w.ordered = ordered /\ w.dropped = {}
        /\ w.diff = [x \in Sensors |-> d[x] - Lowest(d)]
    BY <2>7 DEF Calm
  <2>9. w.diff[s] = 1 - d[o] /\ w.diff[o] = d[o] - d[o]
    BY <2>3, <2>4, <2>8
  <2> QED BY <2>1, <2>5, <2>8, <2>9
<1> QED BY <1>2, <1>3

(* A sample of a gate with two sensors and people who walk in.              *)
SampleSeen(a, b, s, o, v) ==
    /\ listening' = Sensors /\ ordered' = Layout /\ unused'.out = Zero
    /\ unused'.in = Detect(unused.in, a, b, s, v, TRUE).sum
    /\ net' = Detect(unused.in, a, b, s, v, TRUE).count
    /\ AsymmetryIter = 0 => diff' = Zero
    /\ diff' \in {diff, Zero} \/ v = 1
    /\ v = 1 => diff'[s] <= 1 /\ diff'[o] = 0

LEMMA TwoSensorSample ==
    ASSUME GateInv, Dependable, listening = Sensors, ordered = Layout,
           NEW a \in Sensors, NEW b \in Sensors, a # b, Sensors = {a, b}, Layout = <<a, b>>,
           NEW s \in {a, b}, NEW o \in {a, b}, s # o,
           NEW raw, Sample(s, raw, FALSE),
           NEW v \in {0, 1}, v = IF s \in Reversed THEN -raw ELSE raw,
           unused.out = Zero, AsymmetryIter = 0 => diff = Zero,
           v = 1 => diff[s] = 0 /\ diff[o] <= 1
    PROVE  SampleSeen(a, b, s, o, v)
<1>1. PICK w \in Verdicts(s, v) :
        LET kept  == [in  |-> Without(unused.in, w.dropped),
                      out |-> Without(unused.out, w.dropped)]
            found == DetectTransition(w.ordered, kept, s, v, TRUE)
        IN  /\ listening' = (listening \ w.dropped) \cup {s}
            /\ ordered' = w.ordered
            /\ unused' = [in  |-> found.in.sum,
                          out |-> IF Expires THEN Zero ELSE found.out.sum]
            /\ diff' = IF Expires THEN Zero ELSE w.diff
            /\ net' = found.in.count - found.out.count
  BY DEF Sample
<1>2. /\ w.ordered = ordered /\ w.dropped = {}
      /\ AsymmetryIter = 0 => w.diff = Zero
      /\ v = 0 => w.diff = diff
      /\ v = 1 => w.diff[s] <= 1 /\ w.diff[o] = 0
  BY WalkVerdict
<1>3. Without(unused.in, {}) = unused.in /\ Without(Zero, {}) = Zero
  BY DEF Without, Zero, GateInv, TypeOK
<1> DEFINE in == Detect(unused.in, a, b, s, v, TRUE)
           out == Detect(Zero, b, a, s, -v, TRUE)
<1>4. Len(ordered) # 1 /\ ordered[1] = a /\ ordered[2] = b
  OBVIOUS
<1>5. /\ unused'.in = in.sum
      /\ unused'.out = IF Expires THEN Zero ELSE out.sum
      /\ net' = in.count - out.count
  BY <1>1, <1>2, <1>3, <1>4 DEF DetectTransition
<1>6. out.sum = Zero /\ out.count = 0
  <2>1. -v \in {-1, 0}
    OBVIOUS
  <2>2. Finds(Detect(Zero, b, a, s, -v, TRUE), Zero, 0)
    BY <2>1, DetectNobody
  <2> QED BY <2>2 DEF Finds
<1>7. in.count \in Int
  <2>1. unused.in \in [Sensors -> 0 .. 2] /\ (unused.in[a] = 0 \/ unused.in[b] = 0)
    BY DEF GateInv, TypeOK, OneSidedScratch
  <2>2. v \in Samples /\ TRUE \in BOOLEAN
    BY DEF Samples
  <2>3. Balanced(in, unused.in, a, b, v)
    BY <2>1, <2>2, DetectStep
  <2> HIDE DEF in
  <2> QED BY <2>3 DEF Balanced
<1> HIDE DEF in, out
<1>8. /\ unused'.in = in.sum /\ unused'.out = Zero /\ net' = in.count
  BY <1>5, <1>6, <1>7
<1>9. /\ AsymmetryIter = 0 => diff' = Zero
      /\ diff' \in {diff, Zero} \/ v = 1
      /\ v = 1 => diff'[s] <= 1 /\ diff'[o] = 0
  BY <1>1, <1>2 DEF Zero
<1>10. listening' = Sensors /\ ordered' = Layout
  BY <1>1, <1>2
<1> QED BY <1>8, <1>9, <1>10 DEF in, SampleSeen

(* What walker is, when somebody has entered.                               *)
LEMMA WalksTheLayout ==
    ASSUME NEW a, NEW b
    PROVE  /\ Head(<<a>>) = a /\ Tail(<<a>>) = <<>> /\ Len(<<a>>) = 1 /\ Reverse(<<a>>) = <<a>>
           /\ Head(<<a, b>>) = a /\ Tail(<<a, b>>) = <<b>> /\ Len(<<a, b>>) = 2
           /\ <<a>> # <<>> /\ <<a, b>> # <<>> /\ <<a, b>> # <<b>>
<1>1. Reverse(<<a>>) = <<a>>
  BY DEF Reverse
<1>2. <<a, b>> # <<b>>
  <2>1. Len(<<a, b>>) # Len(<<b>>)
    OBVIOUS
  <2> QED BY <2>1, Zenon
<1> QED BY <1>1, <1>2

(* What everybody sees is a sample of the gate.                             *)
LEMMA SeenIsHeading ==
    ASSUME NEW dir \in {-1, 0, 1}, NEW s
    PROVE  /\ Seen(s, dir) \in Samples /\ dir \in Samples
           /\ dir = IF s \in Reversed THEN -Seen(s, dir) ELSE Seen(s, dir)
BY DEF Seen, Samples

LEMMA PassageGateStep ==
    ASSUME PassageInv, [PassageNext]_allVars
    PROVE  GateInv'
<1> USE DEF PassageInv
<1>1. ASSUME NEW s, NEW raw \in Samples, Sample(s, raw, FALSE) PROVE Next
  <2>1. s \in Sensors
    BY <1>1 DEF Sample
  <2> QED BY <1>1, <2>1 DEF Next
<1>2. CASE Pass
  <2>1. heading \in {-1, 0, 1}
    BY <1>2, PassageAssumption DEF Pass
  <2> QED BY <1>1, <1>2, <2>1, SeenIsHeading, GateInvStep DEF Pass
<1>3. CASE \E s \in Sensors : Idle(s)
  <2>1. 0 \in Samples
    BY DEF Samples
  <2> QED BY <1>1, <1>3, <2>1, GateInvStep DEF Idle
<1>4. CASE Deliver
  BY <1>4, GateInvStep DEF Deliver, Next
<1>5. CASE \E dir \in Headings : Enter(dir)
  <2>1. UNCHANGED vars
    BY <1>5 DEF Enter
  <2> QED BY <2>1, GateInvStep
<1>6. CASE UNCHANGED allVars
  <2>1. UNCHANGED vars
    BY <1>6 DEF allVars
  <2> QED BY <2>1, GateInvStep
<1> QED BY <1>2, <1>3, <1>4, <1>5, <1>6 DEF PassageNext

(* One sensor: everybody who passes it is reported at once.                 *)
LEMMA OneSensorStep ==
    ASSUME PassageInv, Len(Layout) = 1, [PassageNext]_allVars
    PROVE  PassageInv'
<1> USE DEF PassageInv
<1>1. PICK a \in Sensors : Sensors = {a} /\ Layout = <<a>>
  <2>1. \A x, y : Len(<<x, y>>) = 2
    OBVIOUS
  <2> QED BY <2>1, LayoutAssumption
<1>2. walker \in {<<>>, <<a>>} /\ GateInv'
  BY <1>1, PassageGateStep
<1>3. ASSUME UNCHANGED <<listening, ordered, lead>>, walker' \in {<<>>, Layout},
             walker' # <<>> => heading' \in Headings
      PROVE  PassageInv'
  BY <1>2, <1>3
<1>4. CASE Pass
  <2>1. walker = <<a>> /\ heading \in Headings /\ heading \in {-1, 0, 1}
    BY <1>2, <1>4, PassageAssumption DEF Pass
  <2>2. Sample(a, Seen(a, heading), FALSE) /\ walker' = <<>> /\ lead' = lead + heading - net'
    BY <1>4, <2>1, WalksTheLayout DEF Pass
  <2>3. listening' = listening /\ ordered' = ordered /\ net' = heading
    BY <2>1, <2>2, SeenIsHeading, OneSensorSample
  <2>4. lead' = 0
    BY <2>1, <2>2, <2>3
  <2> QED BY <1>2, <2>2, <2>3, <2>4
<1>5. ASSUME NEW s \in Sensors, Idle(s) PROVE PassageInv'
  <2>1. Sample(s, 0, FALSE) /\ walker' = walker /\ walker = <<>> /\ lead' = lead - net'
    BY <1>5 DEF Idle
  <2>2. 0 \in Samples /\ 0 = IF s \in Reversed THEN -0 ELSE 0
    BY NoSign DEF Samples
  <2>3. listening' = listening /\ ordered' = ordered /\ net' = 0
    BY <2>1, <2>2, OneSensorSample
  <2> QED BY <1>2, <2>1, <2>3
<1>6. CASE Deliver
  BY <1>2, <1>3, <1>6 DEF Deliver, Send, Take, detector, passage
<1>7. ASSUME NEW dir \in Headings, Enter(dir) PROVE PassageInv'
  BY <1>1, <1>3, <1>7, WalksTheLayout DEF Enter, vars, detector
<1>8. CASE UNCHANGED allVars
  BY <1>2, <1>3, <1>8 DEF allVars, vars, detector, passage
<1> QED BY <1>4, <1>5, <1>6, <1>7, <1>8 DEF PassageNext

(* Two sensors: between them the scratchpad holds the one sample of the     *)
(* first.                                                                   *)
LEMMA TwoSensorStep ==
    ASSUME PassageInv, Dependable, Len(Layout) # 1, [PassageNext]_allVars
    PROVE  PassageInv'
<1> USE DEF PassageInv
<1>1. PICK a, b \in Sensors : a # b /\ Sensors = {a, b} /\ Layout = <<a, b>>
  <2>1. \A x : Len(<<x>>) = 1
    OBVIOUS
  <2> QED BY <2>1, LayoutAssumption
<1>2. Layout[1] = a /\ Layout[2] = b /\ GateInv' /\ diff \in [Sensors -> Nat]
  BY <1>1, PassageGateStep DEF GateInv, TypeOK
<1> DEFINE first == [Zero EXCEPT ![a] = 1]
           before(w, u, d) == w \in {<<>>, <<a, b>>} /\ u = Zero /\ d[a] = 0 /\ d[b] <= 1
           between(w, u, d) == w = <<b>> /\ u = first /\ d[a] <= 1 /\ d[b] = 0
<1>3. /\ unused.out = Zero
      /\ AsymmetryIter = 0 => diff = Zero
      /\ before(walker, unused.in, diff) \/ between(walker, unused.in, diff)
  BY <1>1, <1>2
<1>4. ASSUME listening' = Sensors, ordered' = Layout, lead' = 0, unused'.out = Zero,
             walker' # <<>> => heading' \in Headings,
             AsymmetryIter = 0 => diff' = Zero,
             before(walker', unused'.in, diff') \/ between(walker', unused'.in, diff')
      PROVE  PassageInv'
  BY <1>1, <1>2, <1>4
<1> HIDE DEF PassageInv
<1>5. /\ lead = 0 /\ listening = Sensors /\ ordered = Layout /\ GateInv
      /\ walker # <<>> => heading = 1 /\ heading \in Headings
  BY DEF PassageInv, Dependable
<1>6. Zero[a] = 0 /\ Zero[b] = 0
  BY DEF Zero
<1>7. CASE Pass
  <2>1. walker # <<>> /\ heading = 1 /\ heading' = heading
    BY <1>5, <1>7 DEF Pass
  <2>2. CASE before(walker, unused.in, diff)
    <3>1. walker = <<a, b>>
      BY <2>1, <2>2
    <3>2. /\ Sample(a, Seen(a, 1), FALSE) /\ walker' = <<b>>
          /\ lead' = lead + 0 - net'
      <4>1. Head(walker) = a /\ Tail(walker) = <<b>> /\ Len(walker) # 1
        BY <3>1, WalksTheLayout
      <4> QED BY <1>7, <2>1, <4>1 DEF Pass
    <3>3. SampleSeen(a, b, a, b, 1)
      BY <1>1, <1>3, <1>5, <2>2, <3>2, SeenIsHeading, TwoSensorSample
    <3>4. unused'.in = first /\ net' = 0
      BY <1>1, <2>2, <3>3, DetectFirst DEF Finds, SampleSeen
    <3>5. /\ lead' = 0
          /\ walker' # <<>> => heading' \in Headings
      BY <1>5, <2>1, <3>2, <3>4
    <3>6. between(walker', unused'.in, diff')
      BY <3>2, <3>3, <3>4 DEF SampleSeen
    <3> HIDE DEF before, between
    <3> QED BY <1>4, <3>3, <3>5, <3>6 DEF SampleSeen
  <2>3. CASE between(walker, unused.in, diff)
    <3>1. /\ Sample(b, Seen(b, 1), FALSE) /\ walker' = <<>>
          /\ lead' = lead + 1 - net'
      BY <1>7, <2>1, <2>3, WalksTheLayout DEF Pass
    <3>2. SampleSeen(a, b, b, a, 1)
      BY <1>1, <1>3, <1>5, <2>3, <3>1, SeenIsHeading, TwoSensorSample
    <3>3. unused'.in = Zero /\ net' = 1
      BY <1>1, <2>3, <3>2, DetectSecond DEF Finds, SampleSeen
    <3>4. lead' = 0 /\ walker' = <<>>
      BY <1>5, <3>1, <3>3
    <3>5. before(walker', unused'.in, diff')
      BY <3>1, <3>2, <3>3 DEF SampleSeen
    <3> HIDE DEF before, between
    <3> QED BY <1>4, <3>2, <3>4, <3>5 DEF SampleSeen
  <2> QED BY <1>3, <2>2, <2>3
<1>8. ASSUME NEW s \in Sensors, Idle(s) PROVE PassageInv'
  <2>1. /\ walker = <<>> /\ walker' = walker /\ Sample(s, 0, FALSE) /\ lead' = lead - net'
        /\ before(walker, unused.in, diff)
    BY <1>3, <1>8, WalksTheLayout DEF Idle
  <2>2. 0 \in {0, 1} /\ 0 = IF s \in Reversed THEN -0 ELSE 0
    BY NoSign
  <2>3. PICK o \in {a, b} : s # o
    BY <1>1
  <2>4. SampleSeen(a, b, s, o, 0)
    BY <1>1, <1>3, <1>5, <2>1, <2>2, <2>3, TwoSensorSample
  <2>5. unused'.in = Zero /\ net' = 0
    <3>1. 0 \in {-1, 0} /\ s \in {a, b}
      BY <1>1
    <3>2. Finds(Detect(Zero, a, b, s, 0, TRUE), Zero, 0)
      BY <1>1, <3>1, DetectNobody
    <3>3. unused.in = Zero
      BY <2>1
    <3> QED BY <2>4, <3>2, <3>3 DEF Finds, SampleSeen
  <2>6. lead' = 0 /\ walker' = <<>>
    BY <1>5, <2>1, <2>5
  <2>7. diff' \in {diff, Zero}
    BY <2>4 DEF SampleSeen
  <2>8. before(walker', unused'.in, diff')
    BY <1>6, <2>1, <2>5, <2>7
  <2> HIDE DEF before, between
  <2> QED BY <1>4, <2>4, <2>6, <2>8 DEF SampleSeen
<1>9. CASE Deliver
  BY <1>3, <1>4, <1>5, <1>9 DEF Deliver, Send, Take, detector, watch, passage
<1>10. ASSUME NEW dir \in Headings, Enter(dir) PROVE PassageInv'
  <2>1. dir = 1
    BY DEF Dependable
  <2>2. /\ walker = <<>> /\ walker' = <<a, b>> /\ heading' = dir
        /\ UNCHANGED <<listening, ordered, lead, unused, diff>>
    BY <1>1, <1>10, <2>1 DEF Enter, vars, detector, watch
  <2> QED BY <1>3, <1>4, <1>5, <2>2, WalksTheLayout
<1>11. CASE UNCHANGED allVars
  BY <1>3, <1>4, <1>5, <1>11 DEF allVars, vars, detector, watch, passage
<1> QED BY <1>7, <1>8, <1>9, <1>10, <1>11 DEF PassageNext

LEMMA PassageInvInit == PassageInit => PassageInv
<1> SUFFICES ASSUME PassageInit PROVE PassageInv
  OBVIOUS
<1>1. GateInv
  BY GateInvInit DEF PassageInit
<1>2. /\ listening = Sensors /\ ordered = Layout /\ unused.in = Zero /\ unused.out = Zero
      /\ diff = Zero /\ walker = <<>> /\ lead = 0
  BY DEF PassageInit, Init
<1>3. CASE Len(Layout) = 1
  BY <1>1, <1>2, <1>3 DEF PassageInv
<1>4. CASE Len(Layout) # 1
  <2>1. Layout[1] \in Sensors /\ Layout[2] \in Sensors
    <3>1. \A x : Len(<<x>>) = 1
      OBVIOUS
    <3> QED BY <1>4, <3>1, LayoutAssumption
  <2>2. Zero[Layout[1]] = 0 /\ Zero[Layout[2]] = 0
    BY <2>1 DEF Zero
  <2> QED BY <1>1, <1>2, <1>4, <2>2 DEF PassageInv
<1> QED BY <1>3, <1>4

(* The gate does what it is for: whenever the passage is empty it has       *)
(* reported exactly the people that crossed it (gate.go:46-115), at a gate  *)
(* with one sensor, or with two that are never suspect and people who walk  *)
(* in.  The other way it does not hold: the expiry (gate.go:318-327)        *)
(* forgets who is between the sensors.                                      *)
THEOREM PassageCountsEveryone ==
    ASSUME Dependable
    PROVE  PassageSpec => []EveryCrossingCounted
<1>1. PassageInv /\ [PassageNext]_allVars => PassageInv'
  BY OneSensorStep, TwoSensorStep
<1>2. PassageInv => EveryCrossingCounted
  BY DEF PassageInv, EveryCrossingCounted
<1> QED BY <1>1, <1>2, PassageInvInit, PTL DEF PassageSpec
=============================================================================
