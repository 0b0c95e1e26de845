-------------------------------- MODULE Tally -------------------------------
(***************************************************************************)
(* The accumulated in and out flows a calculator keeps of its space, of the *)
(* entries and of the gates (calculateAbsoluteFlows in                      *)
(* avgsManager/calculator.go), with the space that feeds it                 *)
(* (spaceManager/space.go): registers and resets are offered for some time  *)
(* only, and what the calculator receives is a copy of the register whose   *)
(* maps still belong to the space.                                          *)
(*                                                                          *)
(* Abstractions.  Timestamps are left out.  Integers have Width bits.  An   *)
(* element that is not in a snapshot is Zero, as the code treats it; which  *)
(* gates an entry lists is kept.  The register of a space tells one         *)
(* crossing (Space: RegisterTellsOneCrossing).                              *)
(***************************************************************************)
EXTENDS Integers, FiniteSetsExt, Functions

CONSTANTS
    Entries,          (* the entries of the space                            *)
    Gates,            (* the gates of those entries                          *)
    GatesOf,          (* [Entries -> SUBSET Gates]                           *)
    AcceptNegatives,  (* TRUE: the count may be negative                     *)
    Width,            (* the width of an integer                             *)
    MaxFlow           (* bound on the net flow of any element                *)

Half == 2 ^ (Width - 1)
Flows == -MaxFlow .. MaxFlow

(* Half \in Nat \ {0} is true of every such Width; the provers know nothing *)
(* about powers.                                                            *)
ASSUME TallyAssumption ==
    /\ IsFiniteSet(Entries) /\ IsFiniteSet(Gates)
    /\ GatesOf \in [Entries -> SUBSET Gates]
    /\ AcceptNegatives \in BOOLEAN
    /\ Width \in Nat \ {0} /\ Half \in Nat \ {0}
    /\ MaxFlow \in Nat /\ MaxFlow < Half

VARIABLES
    count,      (* spaceRegister.Count                                       *)
    shown,      (* spaceRegister.Flows, its variations                       *)
    offer,      (* what the space offers: "nothing", "register" or "reset"   *)
    taken,      (* the count of the register being copied, if there is one     *)
    snapshot,   (* the accumulated flows                                     *)
    adrift,     (* history: what the space counted and did not get across    *)
    resetLost,  (* history: the last reset was not taken                     *)
    rushed      (* history: somebody crossed while a register was copied     *)

space == <<count, shown, offer>>
calculator == <<taken, snapshot>>
history == <<adrift, resetLost, rushed>>
vars == <<space, calculator, history>>

Zero == [in |-> 0, out |-> 0, net |-> 0]
NoGates == [g \in {} |-> 0]
Emptied == [e \in Entries |-> [variation |-> 0, flows |-> NoGates]]
Blank == [own |-> Zero, entry |-> [e \in Entries |-> [own |-> Zero, gate |-> NoGates]]]

-----------------------------------------------------------------------------
Wrap(n) == ((n + Half) % (2 * Half)) - Half

(* Mutation: nobody looks for an overflow.                                  *)
Restarted_Never(t, net) == t

(* Flows that overflowed start again from the net flow.                     *)
Restarted(t, net) ==
    IF t.in >= 0 /\ t.out <= 0 THEN t
    ELSE [in |-> Max({net, 0}), out |-> Min({net, 0}), net |-> t.net]

(* A tally takes flows in and out, and the net flow that comes with them.   *)
Credited(t, in, out, net) ==
    [in |-> Wrap(t.in + in), out |-> Wrap(t.out + out), net |-> Wrap(t.net + net)]

Ins(flows) == SumFunction([g \in DOMAIN flows |-> Max({flows[g], 0})])
Outs(flows) == SumFunction([g \in DOMAIN flows |-> Min({flows[g], 0})])

(* The same of a register, and the variations it shows.                     *)
AllIns(register) == SumFunction([e \in Entries |-> Ins(register[e].flows)])
AllOuts(register) == SumFunction([e \in Entries |-> Outs(register[e].flows)])
Variation(register) == SumFunction([e \in Entries |-> register[e].variation])

(* The tally of a gate: a gate that is new starts from zero.                *)
Before(old, g) == IF g \in DOMAIN old THEN old[g] ELSE Zero

GateTally(old, g, v) ==
    LET t == Credited(Before(old, g), Max({v, 0}), Min({v, 0}), v)
    IN  Restarted(t, t.net)

(* Mutation: a gate is only kept if it brings something.                    *)
EntryTally_DropsQuiet(old, state) ==
    LET t == Credited(old.own, Ins(state.flows), Outs(state.flows), state.variation)
    IN  [own  |-> Restarted(t, t.net),
         gate |-> [g \in {h \in DOMAIN state.flows : state.flows[h] # 0} |->
                    GateTally(old.gate, g, state.flows[g])]]

(* The tally of an entry; it keeps the gates that are in the register.      *)
EntryTally(old, state) ==
    LET t == Credited(old.own, Ins(state.flows), Outs(state.flows), state.variation)
    IN  [own  |-> Restarted(t, t.net),
         gate |-> [g \in DOMAIN state.flows |-> GateTally(old.gate, g, state.flows[g])]]

(* The tally of the space goes by the gates; its net flow is its count.     *)
SpaceTally(old, n, register) ==
    Restarted([in  |-> Wrap(old.in + AllIns(register)),
               out |-> Wrap(old.out + AllOuts(register)), net |-> n], n)

(* calculateAbsoluteFlows, for a register with count n.                     *)
Accumulated(s, n, register) ==
    [own   |-> SpaceTally(s.own, n, register),
     entry |-> [e \in Entries |-> EntryTally(s.entry[e], register[e])]]

-----------------------------------------------------------------------------
Init ==
    /\ count = 0
    /\ shown = Emptied
    /\ offer = "nothing"
    /\ taken = {}
    /\ snapshot = Blank
    /\ adrift = 0
    /\ resetLost = FALSE
    /\ rushed = FALSE

(* MaxFlow bounds every net flow there is; once a copy was disturbed, what  *)
(* comes of it is followed to the next reset, without further crossings.    *)
InBounds(v) ==
    /\ ~rushed
    /\ count + v \in Flows
    /\ \A e \in Entries :
        /\ snapshot.entry[e].own.net + v \in Flows
        /\ \A t \in Range(snapshot.entry[e].gate) : t.net + v \in Flows

(* What a crossing of gate g of entry e makes of the variations: everything *)
(* is zeroed, the entry comes with all its gates.                           *)
Crossed(e, g, v) ==
    [f \in Entries |->
        IF f = e THEN [variation |-> v,
                       flows |-> [h \in GatesOf[e] |-> IF h = g THEN v ELSE 0]]
        ELSE [variation |-> 0, flows |-> [h \in DOMAIN shown[f].flows |-> 0]]]

(* A negative count is corrected.                                           *)
Corrected(v) == IF ~AcceptNegatives /\ count + v < 0 THEN -count ELSE v

(* The space updates its register, in place, and offers it.                 *)
Update(e, g, v) ==
    /\ offer = "nothing"
    /\ g \in GatesOf[e]
    /\ InBounds(v)
    /\ count' = count + Corrected(v)
    /\ shown' = Crossed(e, g, Corrected(v))
    /\ offer' = "register"

(* A register that is still being copied now shows this crossing.           *)
Crossing(e, g, v) ==
    /\ Update(e, g, v)
    /\ rushed' = (taken # {})
    /\ UNCHANGED <<calculator, adrift, resetLost>>

(* The maps change while the calculator copies them: of every entry, and of *)
(* its gates, it sees what was there, nothing, or what comes.               *)
Sights(old, new) ==
    {[variation |-> v, flows |-> f] :
        v \in {old.variation, 0, new.variation},
        f \in {old.flows, [h \in DOMAIN old.flows |-> 0], new.flows}}

CrossingDuringCopy(e, g, v) ==
    /\ Update(e, g, v)
    /\ \E n \in taken,
          seen \in [Entries -> UNION {Sights(shown[f], shown'[f]) : f \in Entries}] :
        /\ \A f \in Entries : seen[f] \in Sights(shown[f], shown'[f])
        /\ snapshot' = Accumulated(snapshot, n, seen)
    /\ taken' = {}
    /\ rushed' = TRUE
    /\ UNCHANGED <<adrift, resetLost>>

(* case calculator <- spaceRegister.                                        *)
RegisterTaken ==
    /\ offer = "register"
    /\ taken = {}
    /\ offer' = "nothing"
    /\ taken' = {count}
    /\ UNCHANGED <<count, shown, snapshot, history>>

(* The time to take the register is over; it is longer than a copy takes.   *)
RegisterLate ==
    /\ offer = "register"
    /\ taken = {}
    /\ offer' = "nothing"
    /\ adrift' = adrift + Variation(shown)
    /\ UNCHANGED <<count, shown, calculator, resetLost, rushed>>

(* Flows that start again from the count have nothing missing any more.     *)
Restarts(register) ==
    \/ Wrap(snapshot.own.in + AllIns(register)) < 0
    \/ Wrap(snapshot.own.out + AllOuts(register)) > 0

(* The calculator copies the register and accumulates it.  A register that  *)
(* was thrown away meanwhile stays missing.                                 *)
Copy ==
    /\ \E n \in taken : snapshot' = Accumulated(snapshot, n, shown)
    /\ taken' = {}
    /\ adrift' = IF Restarts(shown) THEN 0 ELSE adrift
    /\ UNCHANGED <<space, resetLost, rushed>>

(* The reset slot begins.                                                   *)
OfferReset ==
    /\ offer = "nothing"
    /\ offer' = "reset"
    /\ UNCHANGED <<count, shown, calculator, history>>

(* The space empties its register, whether or not the reset was taken.      *)
Empty ==
    /\ offer = "reset"
    /\ offer' = "nothing"
    /\ count' = 0
    /\ shown' = Emptied

(* Mutation: the snapshot survives the reset.                               *)
ClearedSnapshot_Kept == snapshot

(* The snapshot a reset leaves.                                             *)
ClearedSnapshot == Accumulated(Blank, 0, Emptied)

ResetTaken ==
    /\ Empty
    /\ taken = {}
    /\ snapshot' = ClearedSnapshot
    /\ adrift' = 0
    /\ resetLost' = FALSE
    /\ rushed' = FALSE
    /\ UNCHANGED taken

ResetLate ==
    /\ Empty
    /\ taken = {}
    /\ adrift' = adrift - count
    /\ resetLost' = TRUE
    /\ UNCHANGED <<calculator, rushed>>

Next ==
    \/ \E e \in Entries, g \in Gates, v \in {-1, 1} :
        Crossing(e, g, v) \/ CrossingDuringCopy(e, g, v)
    \/ RegisterTaken \/ RegisterLate \/ Copy
    \/ OfferReset \/ ResetTaken \/ ResetLate

Spec == Init /\ [][Next]_vars

-----------------------------------------------------------------------------
Balanced(t) == t.in >= 0 /\ t.out <= 0 /\ t.in + t.out = t.net

(* calculator.go:130-154: whichever of them overflow, the flows of a gate   *)
(* keep their signs and add up to its net flow, even when the register      *)
(* changed while it was copied; those of an entry need an undisturbed copy. *)
ElementsBalance ==
    \A e \in Entries :
        /\ \A t \in Range(snapshot.entry[e].gate) : Balanced(t)
        /\ ~rushed => Balanced(snapshot.entry[e].own)

(* space.go:193-198, 322-334 with calculator.go:159-169: the flows of the   *)
(* space explain its count up to what never got across: registers thrown    *)
(* away and resets not taken, and these only until the flows start again.   *)
(* A copy the space disturbed is the exception, until the next reset.       *)
DriftIsLoss ==
    offer # "register" /\ taken = {} /\ ~rushed =>
        snapshot.own.in + snapshot.own.out + adrift = count

(* calculator.go:80-142: the gates of an entry account for all of its net   *)
(* flow, however many registers were thrown away; only a reset that was not *)
(* taken, which empties the register but not the snapshot, loses gates.     *)
NetOf(gates) == SumFunction([g \in DOMAIN gates |-> gates[g].net])

EntryIsItsGates ==
    ~resetLost /\ ~rushed => \A e \in Entries :
        snapshot.entry[e].own.net = NetOf(snapshot.entry[e].gate)

(* The types; the flows of a gate balance.                                  *)
Tallies == [in : 0 .. Half - 1, out : -Half .. 0, net : -Half .. Half - 1]
GateTallies == {t \in Tallies : Balanced(t)}
GateMaps(S) == UNION {[D -> S] : D \in SUBSET Gates}
EntryTallies == [own : Tallies, gate : GateMaps(GateTallies)]
Snapshots == [own : Tallies, entry : [Entries -> EntryTallies]]
Steps == {-1, 0, 1} \cap Flows
States == [variation : Steps, flows : GateMaps(Steps)]

TypeOK ==
    /\ count \in Flows /\ (~AcceptNegatives => count >= 0)
    /\ shown \in [Entries -> States]
    /\ offer \in {"nothing", "register", "reset"}
    /\ taken \in SUBSET Flows
    /\ snapshot \in Snapshots
    /\ adrift \in Int
    /\ resetLost \in BOOLEAN /\ rushed \in BOOLEAN

(* An entry shows its variation at one of its gates, if there is any; and   *)
(* of a register, one entry does.                                           *)
AtOneGate(state) ==
    \/ state.variation = 0 /\ \A g \in DOMAIN state.flows : state.flows[g] = 0
    \/ \E g \in DOMAIN state.flows :
        /\ state.flows[g] = state.variation
        /\ \A h \in DOMAIN state.flows \ {g} : state.flows[h] = 0

OneEntry(register) ==
    \A e, f \in Entries : e # f => register[e].variation = 0 \/ register[f].variation = 0

TellsOneCrossing ==
    /\ \A e \in Entries :
        DOMAIN shown[e].flows \in {{}, GatesOf[e]} /\ AtOneGate(shown[e])
    /\ OneEntry(shown)

EntriesBalance == ~rushed => \A e \in Entries : Balanced(snapshot.entry[e].own)

(* What the calculator is about to accumulate.                              *)
Pending == offer = "register" \/ taken # {}

(* The flows of the space explain its count, with what is pending.          *)
CountExplained ==
    /\ taken # {} => taken = {count} /\ offer # "register"
    /\ snapshot.own.in + snapshot.own.out + adrift
        + (IF Pending THEN Variation(shown) ELSE 0) = count

(* No net flow overflows, not even with what is pending.                    *)
NetsInBounds ==
    \A e \in Entries :
        /\ snapshot.entry[e].own.net \in Flows
        /\ \A t \in Range(snapshot.entry[e].gate) : t.net \in Flows
        /\ Pending => /\ snapshot.entry[e].own.net + shown[e].variation \in Flows
                      /\ \A g \in DOMAIN shown[e].flows :
                            Before(snapshot.entry[e].gate, g).net + shown[e].flows[g] \in Flows

(* A snapshot has no gates that are not in the register.                    *)
GatesInRegister ==
    \A e \in Entries :
        DOMAIN snapshot.entry[e].gate \in {{}, DOMAIN shown[e].flows}

(* The inductive invariant.                                                 *)
TallyInv ==
    /\ TypeOK /\ TellsOneCrossing /\ EntriesBalance
    /\ ~rushed => CountExplained /\ NetsInBounds
    /\ ~rushed /\ ~resetLost => GatesInRegister
    /\ EntryIsItsGates
=============================================================================
