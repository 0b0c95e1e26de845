-------------------------------- MODULE Space -------------------------------
(***************************************************************************)
(* One space goroutine (spaceManager/space.go) fed by the entries that lead *)
(* to the space (entryManager/entry.go).  It keeps the occupancy count, the *)
(* last crossing of every entry and gate, and a shadow count that is not    *)
(* corrected; it empties the space during the reset slot; and it offers     *)
(* every new register to the calculator, waiting for it only so long.       *)
(*                                                                          *)
(* Abstractions.  A gate reports crossings one at a time (Gate: net is in   *)
(* -1 .. 1), so a correction never leaves a variation to distribute over    *)
(* several gates (space.go:285-303 runs no round).  Timestamps and the id   *)
(* strings are left out; a map of gate flows is a function with 0 for a     *)
(* missing key.  InClosureTime is the clock: inSlot.  Its error return      *)
(* cannot happen (it parses what it formatted itself).  The space is        *)
(* enabled: nothing in the program sends on SetReset.                       *)
(***************************************************************************)
EXTENDS Integers, Sequences

CONSTANTS
    Entries,          (* the entries of the space                            *)
    Gates,            (* the gates of those entries                          *)
    GatesOf,          (* [Entries -> SUBSET Gates]                           *)
    ReversedEntries,  (* the entries written "!entry" in the space           *)
    ReversedGates,    (* the pairs <<entry, gate>> written "!gate"           *)
    AcceptNegatives,  (* TRUE: the count may be negative                     *)
    Shadowing,        (* TRUE: the shadow data is saved to the database      *)
    HasSlot,          (* TRUE: the space has a reset slot                    *)
    ChannelLength,    (* capacity of the space's data channel                *)
    MaxNet            (* bound on the crossings, either way                  *)

None == [entry |-> "none"]

ASSUME SpaceAssumption ==
    /\ GatesOf \in [Entries -> SUBSET Gates]
    /\ ReversedEntries \subseteq Entries
    /\ ReversedGates \subseteq Entries \X Gates
    /\ AcceptNegatives \in BOOLEAN
    /\ Shadowing \in BOOLEAN
    /\ HasSlot \in BOOLEAN
    /\ ChannelLength \in Nat \ {0}
    /\ MaxNet \in Nat

VARIABLES
    inbox,       (* the data channel of the space                            *)
    inSlot,      (* the clock is in the reset slot                           *)
    pc,          (* "select", or what is being offered to the calculator     *)
    held,        (* the message that triggered a reset, None for the timer   *)
    count,       (* spaceRegister.Count                                      *)
    variation,   (* spaceRegister.Flows[e].Variation                         *)
    flows,       (* spaceRegister.Flows[e].Flows[g].Variation                *)
    resetDone,   (* the reset of this slot has been done                     *)
    shadow,      (* shadowSpaceRegister.Count                                *)
    shadowDb,    (* the count last saved to the shadow database              *)
    crossed,     (* history: people in minus people out, since the start     *)
    since,       (* history: the same, since the space was last emptied      *)
    lowest       (* history: the lowest value of since, 0 included           *)

register == <<count, variation, flows>>
history == <<crossed, since, lowest>>
vars == <<inbox, inSlot, pc, held, register, resetDone, shadow, shadowDb, history>>

Least(m, n) == IF m <= n THEN m ELSE n
NoVariation == [e \in Entries |-> 0]
NoFlow == [g \in Gates |-> 0]
NoFlows == [e \in Entries |-> NoFlow]

Messages == [entry : Entries, gate : Gates, variation : {-1, 1}]

-----------------------------------------------------------------------------
(* The entry: what it makes of a value net of one of its gates.  Its        *)
(* register is overwritten by every value, so it needs no state here.       *)
EntryMessage(e, g, net) ==
    [entry |-> e, gate |-> g,
     variation |-> IF <<e, g>> \in ReversedGates THEN -net ELSE net]

(* What a variation means for the space; rev is the data.Reversed in force. *)
Signed(m, rev) == IF rev THEN -m.variation ELSE m.variation

(* The sign of a message the way the configuration of the space wants it.   *)
Configured(m) == Signed(m, m.entry \in ReversedEntries)

(* Mutation: a negative count is not corrected.                             *)
Accepted_Unchecked(v) == v

(* The variation the register takes: one that would make the count negative *)
(* only takes it to zero.                                                   *)
Accepted(v) ==
    IF ~AcceptNegatives /\ count + v < 0 THEN -count ELSE v

(* Mutation: the entries keep their previous variation.                     *)
UpdateRegister_KeepsOthers(m, v) ==
    /\ variation' = [variation EXCEPT ![m.entry] = v]
    /\ flows' = [flows EXCEPT ![m.entry] = [NoFlow EXCEPT ![m.gate] = v]]
    /\ count' = count + v

(* Mutation: the variations accumulate.                                     *)
UpdateRegister_Accumulates(m, v) ==
    /\ variation' = [variation EXCEPT ![m.entry] = @ + v]
    /\ flows' = [flows EXCEPT ![m.entry][m.gate] = @ + v]
    /\ count' = count + v

(* updateRegister: everything else in the register is zeroed.               *)
UpdateRegister(m, v) ==
    /\ variation' = [NoVariation EXCEPT ![m.entry] = v]
    /\ flows' = [NoFlows EXCEPT ![m.entry] = [NoFlow EXCEPT ![m.gate] = v]]
    /\ count' = count + v

-----------------------------------------------------------------------------
Init ==
    /\ inbox = <<>>
    /\ inSlot = FALSE
    /\ pc = "select"
    /\ held = None
    /\ count = 0
    /\ variation = NoVariation
    /\ flows = NoFlows
    /\ resetDone = FALSE
    /\ shadow = 0
    /\ shadowDb = 0
    /\ crossed = 0
    /\ since = 0
    /\ lowest = 0

(* MaxNet bounds the people there are, those still in the channel included, *)
(* and twice MaxNet the shadow count, which can stray from them.            *)
InBounds(d) ==
    /\ IF d = 1 THEN crossed + Len(inbox) < MaxNet ELSE crossed - Len(inbox) > -MaxNet
    /\ shadow + Len(inbox) < 2 * MaxNet
    /\ shadow - Len(inbox) > -2 * MaxNet

(* An entry of the space sends on a crossing reported by one of its gates.  *)
(* A value 0 goes no further than the entry.                                *)
Cross(e, g, net) ==
    /\ g \in GatesOf[e]
    /\ net # 0
    /\ Len(inbox) < ChannelLength
    /\ InBounds(Configured(EntryMessage(e, g, net)))
    /\ inbox' = Append(inbox, EntryMessage(e, g, net))
    /\ UNCHANGED <<inSlot, pc, held, register, resetDone, shadow, shadowDb, history>>

(* The clock enters or leaves the reset slot.                               *)
Clock ==
    /\ HasSlot
    /\ inSlot' = ~inSlot
    /\ UNCHANGED <<inbox, pc, held, register, resetDone, shadow, shadowDb, history>>

(* What the message really was is recorded when the space takes it.         *)
Take(m) ==
    /\ pc = "select"
    /\ inbox # <<>>
    /\ m = Head(inbox)
    /\ inbox' = Tail(inbox)
    /\ crossed' = crossed + Configured(m)

(* In the reset slot the shadow register is updated without looking up the  *)
(* orientation of the entry: data.Reversed is what the entry sent, false.   *)
ShadowInSlot(m) ==
    /\ shadow' = shadow + Signed(m, FALSE)
    /\ shadowDb' = IF Shadowing THEN shadow' ELSE shadowDb

(* case data := <-in, in the reset slot, the reset being done.              *)
DataInSlot ==
    /\ \E m \in Messages : inSlot /\ resetDone /\ Take(m) /\ ShadowInSlot(m)
    /\ UNCHANGED <<inSlot, pc, held, register, resetDone, since, lowest>>

(* case data := <-in, the first of the reset slot: the reset is offered to  *)
(* the calculator.                                                          *)
DataStartsReset ==
    /\ \E m \in Messages : inSlot /\ ~resetDone /\ Take(m) /\ held' = m
    /\ pc' = "resetting"
    /\ UNCHANGED <<inSlot, register, resetDone, shadow, shadowDb, since, lowest>>

(* The timer of the loop fires in the reset slot.                           *)
TimerStartsReset ==
    /\ pc = "select"
    /\ inSlot
    /\ ~resetDone
    /\ pc' = "resetting"
    /\ held' = None
    /\ UNCHANGED <<inbox, inSlot, register, resetDone, shadow, shadowDb, history>>

(* Mutation: the gate flows are not emptied with the count.                 *)
EmptyRegister_CountOnly ==
    /\ count' = 0
    /\ UNCHANGED <<variation, flows>>

EmptyRegister ==
    /\ count' = 0
    /\ variation' = NoVariation
    /\ flows' = NoFlows

(* Once the calculator took the reset, or the time to take it is over, the  *)
(* register is emptied, and the message that led here goes to the shadow.   *)
FinishReset ==
    /\ pc = "resetting"
    /\ pc' = "select"
    /\ resetDone' = TRUE
    /\ EmptyRegister
    /\ IF held = None THEN UNCHANGED <<shadow, shadowDb>> ELSE ShadowInSlot(held)
    /\ held' = None
    /\ since' = 0
    /\ lowest' = 0
    /\ UNCHANGED <<inbox, inSlot, crossed>>

(* Mutation: the next reset slot is not armed.                              *)
Rearm_Forgotten == UNCHANGED resetDone

(* A crossing outside the reset slot arms the reset of the next one.        *)
Rearm == resetDone' = FALSE

(* case data := <-in, outside the reset slot: both registers are updated    *)
(* and the new one is offered to the calculator.                            *)
DataActive ==
    /\ ~inSlot
    /\ \E m \in Messages :
        /\ Take(m)
        /\ shadow' = shadow + Configured(m)
        /\ UpdateRegister(m, Accepted(Configured(m)))
        /\ since' = since + Configured(m)
        /\ lowest' = Least(lowest, since')
    /\ Rearm
    /\ pc' = "posting"
    /\ UNCHANGED <<inSlot, held, shadowDb>>

(* The calculator took the register, or the time to take it is over; what   *)
(* goes to the shadow database is the register.                             *)
FinishPost ==
    /\ pc = "posting"
    /\ pc' = "select"
    /\ shadowDb' = IF Shadowing THEN count ELSE shadowDb
    /\ UNCHANGED <<inbox, inSlot, held, register, resetDone, shadow, history>>

SpaceStep ==
    \/ DataInSlot
    \/ DataStartsReset
    \/ TimerStartsReset
    \/ FinishReset
    \/ DataActive
    \/ FinishPost

Next ==
    \/ \E e \in Entries, g \in Gates, net \in {-1, 0, 1} : Cross(e, g, net)
    \/ Clock
    \/ SpaceStep

Spec == Init /\ [][Next]_vars

(* The space goroutine is scheduled, its offers end (both have a timeout)   *)
(* and its timer fires when nothing arrives.                                *)
FairSpec == Spec /\ WF_vars(SpaceStep)

-----------------------------------------------------------------------------
TypeOK ==
    /\ inbox \in Seq(Messages)
    /\ inSlot \in BOOLEAN
    /\ pc \in {"select", "resetting", "posting"}
    /\ held \in Messages \cup {None}
    /\ count \in Int
    /\ variation \in [Entries -> {-1, 0, 1}]
    /\ flows \in [Entries -> [Gates -> {-1, 0, 1}]]
    /\ resetDone \in BOOLEAN
    /\ shadow \in Int
    /\ shadowDb \in Int
    /\ crossed \in Int
    /\ since \in Int
    /\ lowest \in Int

(* space.go:254-306: the occupancy is the number of people that crossed     *)
(* since the space was emptied, raised by the deepest deficit there was: a  *)
(* correction forgives what went out too many, once, and nothing else.      *)
CountIsReflected ==
    /\ AcceptNegatives => count = since
    /\ ~AcceptNegatives => count = since - lowest /\ count >= 0

(* space.go:196-245: a space whose reset was done holds nobody, and nothing *)
(* in its register, until the first crossing outside the slot; a crossing   *)
(* in the slot does not count.                                              *)
EmptyAfterReset ==
    resetDone => count = 0 /\ variation = NoVariation /\ flows = NoFlows

(* space.go:20-65, 285-303: what the register says of entries and gates is  *)
(* the one crossing that made the count what it is, with the same sign at   *)
(* every level, also when it was corrected.                                 *)
RegisterTellsOneCrossing ==
    \A e \in Entries :
        /\ \A g \in Gates : flows[e][g] \in {0, variation[e]}
        /\ variation[e] # 0 =>
            /\ \E g \in GatesOf[e] : flows[e] = [NoFlow EXCEPT ![g] = variation[e]]
            /\ \A f \in Entries \ {e} : variation[f] = 0

(* The inductive invariant behind the theorems of SpaceProofs.              *)
SpaceInv ==
    /\ TypeOK
    /\ CountIsReflected
    /\ EmptyAfterReset
    /\ RegisterTellsOneCrossing
    /\ lowest <= since /\ lowest <= 0
    /\ pc = "resetting" => ~resetDone
    /\ pc # "resetting" => held = None
    /\ ~HasSlot => ~inSlot /\ pc # "resetting"
    /\ \A i \in DOMAIN inbox : inbox[i].gate \in GatesOf[inbox[i].entry]

(* space.go:71: "shadowSpaceRegister is a register copy without             *)
(* adjustments": it is the sum of all crossings.  A message that waits for  *)
(* the reset to finish is still missing.                                    *)
ShadowIsUncorrected ==
    shadow + (IF held = None THEN 0 ELSE Configured(held)) = crossed

(* gateserver.ini:8: with shadowing, "uncorrected data will be saved in the *)
(* shadow data database".                                                   *)
ShadowDbIsUncorrected == [][shadowDb' # shadowDb => shadowDb' = shadow']_vars

(* space.go:350-397: in a reset slot the space is eventually emptied,       *)
(* whether people keep crossing or not, unless the slot ends first.         *)
SlotEmpties == inSlot ~> (count = 0 \/ ~inSlot)

-----------------------------------------------------------------------------
(* The boundary the space watches: a message of an entry is one crossing,   *)
(* and the space is closed from the reset slot to the end of its reset.     *)
Boundary == INSTANCE Occupancy WITH
    waiting <- [i \in DOMAIN inbox |-> Configured(inbox[i])],
    people <- count,
    closed <- inSlot \/ pc = "resetting"

(* space.go:138-398: the goroutine with its two registers, its reset slot,  *)
(* its timer and its offers keeps the promise of Occupancy: no crossing is  *)
(* counted twice, out of order, with the wrong orientation or in the slot.  *)
KeepsOccupancy == Boundary!Spec
=============================================================================
