------------------------------- MODULE Passage ------------------------------
(* A gate together with the passage it is mounted on: people cross it one    *)
(* after the other, each of its sensors sees every one of them, and a        *)
(* sensor that has nothing to tell may report it between two people.  This   *)
(* is the situation the gate is built for; the abstract promise is that the  *)
(* gate then reports exactly the people that crossed.                        *)
EXTENDS Gate, SequencesExt

CONSTANT Headings     (* the directions people walk in: a subset of {-1, 1}  *)

ASSUME PassageAssumption == Headings \subseteq {-1, 1}

VARIABLES
    walker,   (* the samples the person in the passage still has to trigger  *)
    heading,  (* the direction of that person                                *)
    lead      (* people that crossed minus people reported, out negative     *)

passage == <<walker, heading, lead>>
allVars == <<vars, passage>>

(* A sensor mounted the other way round reports the opposite sign.          *)
Seen(s, dir) == IF s \in Reversed THEN -dir ELSE dir

PassageInit ==
    /\ Init
    /\ walker = <<>>
    /\ heading = 1
    /\ lead = 0

(* Somebody enters the empty passage: from the side of the first sensor on  *)
(* the way in, from the side of the last one on the way out.  MaxOwed       *)
(* bounds the number of people.                                             *)
Enter(dir) ==
    /\ walker = <<>>
    /\ Most(owed.in, owed.out) + 2 <= MaxOwed
    /\ pending = <<>>
    /\ walker' = IF dir = 1 THEN Layout ELSE Reverse(Layout)
    /\ heading' = dir
    /\ UNCHANGED <<vars, lead>>

(* The person passes the next sensor; the crossing is complete at the last. *)
Pass ==
    /\ walker # <<>>
    /\ Sample(Head(walker), Seen(Head(walker), heading), FALSE)
    /\ walker' = Tail(walker)
    /\ lead' = lead + (IF Len(walker) = 1 THEN heading ELSE 0) - net'
    /\ UNCHANGED heading

(* Nobody is in the passage and a sensor says so.                           *)
Idle(s) ==
    /\ walker = <<>>
    /\ Sample(s, 0, FALSE)
    /\ lead' = lead - net'
    /\ UNCHANGED <<walker, heading>>

Deliver == (Send \/ \E e \in Entries : Take(e)) /\ UNCHANGED passage

PassageNext ==
    \/ \E dir \in Headings : Enter(dir)
    \/ Pass
    \/ \E s \in Sensors : Idle(s)
    \/ Deliver

PassageSpec == PassageInit /\ [][PassageNext]_allVars

-----------------------------------------------------------------------------
(* gate.go:46-115 with gate.go:318-327: whenever the passage is empty, the  *)
(* gate has reported exactly the people that crossed it.                    *)
EveryCrossingCounted == walker = <<>> => lead = 0

(* Where it is so: at a gate with one sensor, and at a gate with two that   *)
(* everybody enters, if nobody in the passage makes a sensor suspect.       *)
Dependable ==
    \/ Len(Layout) = 1
    \/ /\ Headings \subseteq {1}
       /\ AsymmetryMax > 1
       /\ AsymmetricNull \/ AsymmetryIter = 0

(* The inductive invariant: the gate has nothing in its scratchpad but the  *)
(* sample of who is between the sensors, and no sensor is ahead by more.    *)
PassageInv ==
    /\ GateInv
    /\ listening = Sensors /\ ordered = Layout
    /\ lead = 0
    /\ walker # <<>> => heading \in Headings
    /\ IF Len(Layout) = 1 THEN walker \in {<<>>, Layout}
       ELSE LET a == Layout[1]
                b == Layout[2]
            IN  /\ unused.out = Zero
                /\ AsymmetryIter = 0 => diff = Zero
                /\ \/ /\ walker \in {<<>>, Layout}
                      /\ unused.in = Zero /\ diff[a] = 0 /\ diff[b] <= 1
                   \/ /\ walker = <<b>>
                      /\ unused.in = [Zero EXCEPT ![a] = 1]
                      /\ diff[a] <= 1 /\ diff[b] = 0
=============================================================================
