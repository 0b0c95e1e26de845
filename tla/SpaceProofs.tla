---------------------------- MODULE SpaceProofs -----------------------------
(***************************************************************************)
(* Theorems about Space, for every configuration of its constants.          *)
(*                                                                          *)
(* The argument: the count is since - lowest because a correction happens   *)
(* exactly when since reaches a new low (AcceptedReflects), and the register *)
(* tells one crossing because updateRegister starts from an empty one.      *)
(* SpaceInv adds what ties the reset of a slot to the program counter.      *)
(***************************************************************************)
EXTENDS Space, TLAPS

(* A message means one person in or out, whatever the orientations.         *)
LEMMA MessageTypes ==
    ASSUME NEW m \in Messages
    PROVE  /\ m.entry \in Entries /\ m.gate \in Gates /\ m.variation \in {-1, 1}
           /\ Configured(m) \in {-1, 1}
           /\ Signed(m, FALSE) \in {-1, 1}
           /\ m # None
BY DEF Messages, Configured, Signed, None

(* A correction keeps the count equal to the distance from the lowest point: *)
(* it is made exactly when a new low is reached.                            *)
LEMMA AcceptedReflects ==
    ASSUME SpaceInv, NEW v \in {-1, 1}
    PROVE  /\ Accepted(v) \in {-1, 0, 1}
           /\ AcceptNegatives => count + Accepted(v) = since + v
           /\ ~AcceptNegatives =>
                /\ count + Accepted(v) = since + v - Least(lowest, since + v)
                /\ count + Accepted(v) >= 0
           /\ Least(lowest, since + v) \in Int
           /\ Least(lowest, since + v) <= since + v
           /\ Least(lowest, since + v) <= 0
BY DEF SpaceInv, TypeOK, CountIsReflected, Accepted, Least

(* Taking a message leaves messages of the configured gates in the channel. *)
LEMMA TakeKeeps ==
    ASSUME SpaceInv, NEW m \in Messages, Take(m)
    PROVE  /\ inbox' \in Seq(Messages)
           /\ \A i \in DOMAIN inbox' : inbox'[i].gate \in GatesOf[inbox'[i].entry]
           /\ m.gate \in GatesOf[m.entry]
           /\ crossed' \in Int
           /\ crossed' = crossed + Configured(m)
           /\ pc = "select" /\ held = None
<1> USE DEF SpaceInv, TypeOK, Take
<1>1. inbox \in Seq(Messages) /\ inbox # <<>> /\ m = inbox[1] /\ inbox' = Tail(inbox)
  OBVIOUS
<1>2. inbox' \in Seq(Messages) /\ \A i \in DOMAIN inbox' : inbox'[i] = inbox[i + 1]
  BY <1>1
<1>3. \A i \in DOMAIN inbox' : i + 1 \in DOMAIN inbox
  BY <1>1
<1>4. 1 \in DOMAIN inbox
  BY <1>1
<1> QED
  BY <1>1, <1>2, <1>3, <1>4, MessageTypes

(* updateRegister leaves a register that tells one crossing, or none.       *)
LEMMA UpdateTellsOne ==
    ASSUME SpaceInv, NEW m \in Messages, m.gate \in GatesOf[m.entry],
           NEW v \in {-1, 0, 1}, UpdateRegister(m, v)
    PROVE  /\ variation' \in [Entries -> {-1, 0, 1}]
           /\ flows' \in [Entries -> [Gates -> {-1, 0, 1}]]
           /\ count' = count + v
           /\ RegisterTellsOneCrossing'
<1>1. m.entry \in Entries /\ m.gate \in Gates
  BY MessageTypes
<1>2. variation' = [e \in Entries |-> IF e = m.entry THEN v ELSE 0]
  BY DEF UpdateRegister, NoVariation
<1>3. flows' = [e \in Entries |->
                    IF e = m.entry THEN [NoFlow EXCEPT ![m.gate] = v] ELSE NoFlow]
  BY DEF UpdateRegister, NoFlows
<1>4. [NoFlow EXCEPT ![m.gate] = v] = [g \in Gates |-> IF g = m.gate THEN v ELSE 0]
  BY DEF NoFlow
<1>5. RegisterTellsOneCrossing'
  BY <1>1, <1>2, <1>3, <1>4 DEF RegisterTellsOneCrossing, NoFlow
<1>6. variation' \in [Entries -> {-1, 0, 1}]
  BY <1>2
<1>7. [NoFlow EXCEPT ![m.gate] = v] \in [Gates -> {-1, 0, 1}]
      /\ NoFlow \in [Gates -> {-1, 0, 1}]
  BY <1>4 DEF NoFlow
<1>8. flows' \in [Entries -> [Gates -> {-1, 0, 1}]]
  BY <1>3, <1>7
<1> QED
  BY <1>5, <1>6, <1>8 DEF UpdateRegister

(* An empty register tells no crossing.                                     *)
LEMMA EmptyTellsNone ==
    ASSUME variation = NoVariation, flows = NoFlows
    PROVE  /\ RegisterTellsOneCrossing
           /\ variation \in [Entries -> {-1, 0, 1}]
           /\ flows \in [Entries -> [Gates -> {-1, 0, 1}]]
BY DEF RegisterTellsOneCrossing, NoVariation, NoFlows, NoFlow

-----------------------------------------------------------------------------
LEMMA SpaceInit == Init => SpaceInv
<1> SUFFICES ASSUME Init PROVE SpaceInv
  OBVIOUS
<1>1. /\ RegisterTellsOneCrossing
      /\ variation \in [Entries -> {-1, 0, 1}]
      /\ flows \in [Entries -> [Gates -> {-1, 0, 1}]]
  BY EmptyTellsNone DEF Init
<1>2. TypeOK
  <2>1. inbox \in Seq(Messages) /\ held \in Messages \cup {None}
    BY DEF Init
  <2>2. inSlot \in BOOLEAN /\ resetDone \in BOOLEAN
    BY DEF Init
  <2>3. /\ pc \in {"select", "resetting", "posting"}
        /\ count \in Int /\ shadow \in Int /\ shadowDb \in Int
        /\ crossed \in Int /\ since \in Int /\ lowest \in Int
    BY DEF Init
  <2> QED
    BY <1>1, <2>1, <2>2, <2>3 DEF TypeOK
<1>3. CountIsReflected /\ EmptyAfterReset
  BY DEF Init, CountIsReflected, EmptyAfterReset
<1>4. \A i \in DOMAIN inbox : inbox[i].gate \in GatesOf[inbox[i].entry]
  BY DEF Init
<1> QED
  BY <1>1, <1>2, <1>3, <1>4 DEF Init, SpaceInv

LEMMA CrossKeeps ==
    ASSUME SpaceInv, NEW e \in Entries, NEW g \in Gates, NEW net \in {-1, 0, 1},
           Cross(e, g, net)
    PROVE  SpaceInv'
<1> DEFINE m == EntryMessage(e, g, net)
<1>1. m \in Messages /\ m.entry = e /\ m.gate = g
  BY DEF Cross, EntryMessage, Messages
<1>2. inbox \in Seq(Messages) /\ inbox' = Append(inbox, m)
  BY DEF SpaceInv, TypeOK, Cross
<1>3. inbox' \in Seq(Messages)
  <2> HIDE DEF m
  <2> QED BY <1>1, <1>2
<1>4. \A i \in DOMAIN inbox' : inbox'[i].gate \in GatesOf[inbox'[i].entry]
  <2> HIDE DEF m
  <2>1. g \in GatesOf[e]
    BY DEF Cross
  <2>2. \A i \in DOMAIN inbox' :
            \/ i \in DOMAIN inbox /\ inbox'[i] = inbox[i]
            \/ inbox'[i] = m
    BY <1>1, <1>2
  <2> QED
    BY <1>1, <2>1, <2>2 DEF SpaceInv
<1> QED
  BY <1>3, <1>4 DEF Cross, SpaceInv, TypeOK, CountIsReflected, EmptyAfterReset,
     RegisterTellsOneCrossing, register, history

(* The shadow count of a message in the reset slot stays a number.          *)
LEMMA ShadowInSlotTypes ==
    ASSUME SpaceInv, NEW m \in Messages, ShadowInSlot(m)
    PROVE  shadow' \in Int /\ shadowDb' \in Int
<1>1. shadow \in Int /\ shadowDb \in Int /\ m.variation \in Int
  BY DEF SpaceInv, TypeOK, Messages
<1>2. shadow' = shadow + m.variation
  BY DEF ShadowInSlot, Signed
<1>3. shadow' \in Int
  BY <1>1, <1>2
<1> QED
  BY <1>1, <1>3 DEF ShadowInSlot

LEMMA DataInSlotKeeps == ASSUME SpaceInv, DataInSlot PROVE SpaceInv'
<1>1. PICK m \in Messages : inSlot /\ resetDone /\ Take(m) /\ ShadowInSlot(m)
  BY DEF DataInSlot
<1>2. shadow' \in Int /\ shadowDb' \in Int
  BY <1>1, ShadowInSlotTypes
<1>3. /\ inbox' \in Seq(Messages)
      /\ \A i \in DOMAIN inbox' : inbox'[i].gate \in GatesOf[inbox'[i].entry]
      /\ crossed' \in Int
  BY <1>1, TakeKeeps
<1> QED
  BY <1>2, <1>3 DEF DataInSlot, SpaceInv, TypeOK, CountIsReflected,
     EmptyAfterReset, RegisterTellsOneCrossing, register

LEMMA DataStartsResetKeeps == ASSUME SpaceInv, DataStartsReset PROVE SpaceInv'
<1>1. PICK m \in Messages : inSlot /\ ~resetDone /\ Take(m) /\ held' = m
  BY DEF DataStartsReset
<1>2. /\ inbox' \in Seq(Messages)
      /\ \A i \in DOMAIN inbox' : inbox'[i].gate \in GatesOf[inbox'[i].entry]
      /\ crossed' \in Int
  BY <1>1, TakeKeeps
<1> QED
  BY <1>1, <1>2 DEF DataStartsReset, SpaceInv, TypeOK, CountIsReflected,
     EmptyAfterReset, RegisterTellsOneCrossing, register

LEMMA FinishResetKeeps == ASSUME SpaceInv, FinishReset PROVE SpaceInv'
<1>1. /\ RegisterTellsOneCrossing'
      /\ count' = 0 /\ variation' = NoVariation /\ flows' = NoFlows
      /\ variation' \in [Entries -> {-1, 0, 1}]
      /\ flows' \in [Entries -> [Gates -> {-1, 0, 1}]]
  BY EmptyTellsNone DEF FinishReset, EmptyRegister, RegisterTellsOneCrossing,
     NoVariation, NoFlows, NoFlow
<1>2. shadow' \in Int /\ shadowDb' \in Int
  <2>1. CASE held = None
    BY <2>1 DEF FinishReset, SpaceInv, TypeOK
  <2>2. CASE held # None
    <3>1. held \in Messages /\ ShadowInSlot(held)
      BY <2>2 DEF FinishReset, SpaceInv, TypeOK
    <3> QED
      BY <3>1, ShadowInSlotTypes
  <2> QED
    BY <2>1, <2>2
<1>3. TypeOK'
  BY <1>1, <1>2 DEF FinishReset, SpaceInv, TypeOK
<1>4. CountIsReflected' /\ EmptyAfterReset'
  BY <1>1 DEF FinishReset, CountIsReflected, EmptyAfterReset, NoVariation, NoFlows, NoFlow
<1> QED
  BY <1>1, <1>3, <1>4 DEF FinishReset, SpaceInv, TypeOK

LEMMA DataActiveKeeps == ASSUME SpaceInv, DataActive PROVE SpaceInv'
<1>0. PICK m \in Messages :
        /\ Take(m)
        /\ shadow' = shadow + Configured(m)
        /\ UpdateRegister(m, Accepted(Configured(m)))
        /\ since' = since + Configured(m)
        /\ lowest' = Least(lowest, since')
  BY DEF DataActive
<1> DEFINE v == Configured(m)
           w == Accepted(v)
<1>1. v \in {-1, 1} /\ m.gate \in GatesOf[m.entry]
  BY <1>0, MessageTypes, TakeKeeps
<1>2. /\ w \in {-1, 0, 1}
      /\ AcceptNegatives => count + w = since'
      /\ ~AcceptNegatives => count + w = since' - lowest' /\ count + w >= 0
      /\ lowest' \in Int /\ lowest' <= since' /\ lowest' <= 0
  <2>1. since' = since + v /\ lowest' = Least(lowest, since + v)
    BY <1>0
  <2>2. w = Accepted(v)
    OBVIOUS
  <2>3. since \in Int /\ count \in Int /\ v \in Int
    BY <1>1 DEF SpaceInv, TypeOK
  <2> HIDE DEF v, w
  <2>4. /\ Accepted(v) \in {-1, 0, 1}
        /\ AcceptNegatives => count + Accepted(v) = since + v
    BY <1>1, AcceptedReflects
  <2>5. ~AcceptNegatives =>
            count + Accepted(v) = since + v - lowest' /\ count + Accepted(v) >= 0
    BY <1>1, <2>1, AcceptedReflects
  <2>6. lowest' \in Int /\ lowest' <= since' /\ lowest' <= 0
    BY <1>1, <2>1, AcceptedReflects
  <2>7. AcceptNegatives => count + w = since'
    BY <2>1, <2>2, <2>4
  <2>8. ~AcceptNegatives => count + w = since' - lowest' /\ count + w >= 0
    BY <2>1, <2>2, <2>3, <2>4, <2>5, <2>6
  <2> QED
    BY <2>2, <2>4, <2>6, <2>7, <2>8
<1>3. /\ variation' \in [Entries -> {-1, 0, 1}]
      /\ flows' \in [Entries -> [Gates -> {-1, 0, 1}]]
      /\ count' = count + w
      /\ RegisterTellsOneCrossing'
  <2>1. UpdateRegister(m, w)
    BY <1>0
  <2> HIDE DEF w
  <2> QED BY <1>1, <1>2, <2>1, UpdateTellsOne
<1>4. since' \in Int /\ shadow' \in Int
  BY <1>0, <1>1, MessageTypes DEF SpaceInv, TypeOK
<1>5. resetDone' = FALSE /\ inSlot' = FALSE /\ inSlot' = inSlot /\ pc' = "posting"
      /\ held' = held /\ shadowDb' = shadowDb
  BY DEF DataActive, Rearm, SpaceInv, TypeOK
<1>6. /\ inbox' \in Seq(Messages)
      /\ \A i \in DOMAIN inbox' : inbox'[i].gate \in GatesOf[inbox'[i].entry]
      /\ crossed' \in Int /\ held = None
  BY <1>0, TakeKeeps
<1> HIDE DEF v, w
<1>7. count' \in Int
  BY <1>2, <1>3 DEF SpaceInv, TypeOK
<1>8. TypeOK'
  BY <1>2, <1>3, <1>4, <1>5, <1>6, <1>7 DEF SpaceInv, TypeOK
<1>9. CountIsReflected' /\ EmptyAfterReset'
  BY <1>2, <1>3, <1>5 DEF CountIsReflected, EmptyAfterReset
<1> QED
  BY <1>2, <1>3, <1>5, <1>6, <1>8, <1>9 DEF SpaceInv

(* The clock, the timer and the end of an offer change nothing SpaceInv     *)
(* relates.                                                                 *)
LEMMA OthersKeep ==
    ASSUME SpaceInv, Clock \/ TimerStartsReset \/ FinishPost \/ UNCHANGED vars
    PROVE  SpaceInv'
<1> USE DEF SpaceInv, TypeOK, CountIsReflected, EmptyAfterReset,
        RegisterTellsOneCrossing, register, history
<1>1. CASE Clock
  BY <1>1 DEF Clock
<1>2. CASE TimerStartsReset
  BY <1>2 DEF TimerStartsReset
<1>3. CASE FinishPost
  BY <1>3 DEF FinishPost
<1>4. CASE UNCHANGED vars
  BY <1>4 DEF vars
<1> QED
  BY <1>1, <1>2, <1>3, <1>4

LEMMA SpaceKeeps == SpaceInv /\ [Next]_vars => SpaceInv'
BY CrossKeeps, DataInSlotKeeps, DataStartsResetKeeps, FinishResetKeeps,
   DataActiveKeeps, OthersKeep DEF Next, SpaceStep

-----------------------------------------------------------------------------
(* SpaceInv holds in every state of every space.                            *)
THEOREM SpaceInvariant == Spec => []SpaceInv
BY SpaceInit, SpaceKeeps, PTL DEF Spec

(* space.go:67-400: type correctness, for every configuration.              *)
THEOREM SpaceTypeCorrect == Spec => []TypeOK
<1>1. SpaceInv => TypeOK
  BY DEF SpaceInv
<1> QED
  BY <1>1, SpaceInvariant, PTL

(* space.go:254-306: the occupancy is the number of people that crossed     *)
(* since the space was emptied, raised by its deepest deficit.              *)
THEOREM SpaceCountIsReflected == Spec => []CountIsReflected
<1>1. SpaceInv => CountIsReflected
  BY DEF SpaceInv
<1> QED
  BY <1>1, SpaceInvariant, PTL

(* space.go:196-245: after its reset a space holds nobody until the first   *)
(* crossing outside the slot.                                               *)
THEOREM SpaceEmptyAfterReset == Spec => []EmptyAfterReset
<1>1. SpaceInv => EmptyAfterReset
  BY DEF SpaceInv
<1> QED
  BY <1>1, SpaceInvariant, PTL

(* space.go:20-65: the register tells one crossing, at every level.         *)
THEOREM SpaceRegisterTellsOne == Spec => []RegisterTellsOneCrossing
<1>1. SpaceInv => RegisterTellsOneCrossing
  BY DEF SpaceInv
<1> QED
  BY <1>1, SpaceInvariant, PTL

-----------------------------------------------------------------------------
(* The shadow count gains what crossed when no correction of the sign is    *)
(* missed: there is no reset slot, or no entry is reversed in the space.    *)
LEMMA ShadowKeeps ==
    ASSUME ~HasSlot \/ ReversedEntries = {}
    PROVE  SpaceInv /\ ShadowIsUncorrected /\ [Next]_vars => ShadowIsUncorrected'
<1> SUFFICES ASSUME SpaceInv, ShadowIsUncorrected, [Next]_vars
             PROVE  ShadowIsUncorrected'
  OBVIOUS
<1> USE DEF ShadowIsUncorrected
<1>0. shadow \in Int /\ crossed \in Int
  BY DEF SpaceInv, TypeOK
<1>1. ASSUME inSlot \/ pc = "resetting", NEW m \in Messages
      PROVE  Signed(m, FALSE) = Configured(m)
  BY <1>1 DEF SpaceInv, Signed, Configured
<1>2. ASSUME NEW e \in Entries, NEW g \in Gates, NEW net \in {-1, 0, 1}, Cross(e, g, net)
      PROVE  ShadowIsUncorrected'
  BY <1>2 DEF Cross, history
<1>3. CASE DataInSlot
  <2>1. PICK m \in Messages : inSlot /\ resetDone /\ Take(m) /\ ShadowInSlot(m)
    BY <1>3 DEF DataInSlot
  <2>2. shadow' = shadow + Configured(m)
    BY <1>1, <2>1 DEF ShadowInSlot
  <2>3. crossed' = crossed + Configured(m) /\ held = None /\ Configured(m) \in {-1, 1}
    BY <2>1, TakeKeeps, MessageTypes
  <2> QED
    BY <1>0, <1>3, <2>2, <2>3 DEF DataInSlot
<1>4. CASE DataStartsReset
  <2>1. PICK m \in Messages : inSlot /\ ~resetDone /\ Take(m) /\ held' = m
    BY <1>4 DEF DataStartsReset
  <2>2. crossed' = crossed + Configured(m) /\ held = None /\ Configured(m) \in {-1, 1} /\ m # None
    BY <2>1, TakeKeeps, MessageTypes
  <2>3. shadow' = shadow
    BY <1>4 DEF DataStartsReset
  <2> QED
    BY <1>0, <2>1, <2>2, <2>3
<1>5. CASE TimerStartsReset
  BY <1>5 DEF TimerStartsReset, SpaceInv, history
<1>6. CASE FinishReset
  <2>1. CASE held = None
    BY <1>0, <1>6, <2>1 DEF FinishReset
  <2>2. CASE held # None
    <3>1. held \in Messages /\ pc = "resetting" /\ ShadowInSlot(held)
      BY <1>6, <2>2 DEF FinishReset, SpaceInv, TypeOK
    <3>2. shadow' = shadow + Configured(held)
      BY <1>1, <3>1 DEF ShadowInSlot
    <3>3. held' = None /\ crossed' = crossed
      BY <1>6 DEF FinishReset
    <3> QED
      BY <1>0, <2>2, <3>1, <3>2, <3>3, MessageTypes
  <2> QED
    BY <2>1, <2>2
<1>7. CASE DataActive
  <2>1. PICK m \in Messages :
        Take(m) /\ shadow' = shadow + Configured(m)
    BY <1>7 DEF DataActive
  <2>2. shadow' = shadow + Configured(m)
    BY <2>1 DEF Configured
  <2>3. crossed' = crossed + Configured(m) /\ held = None /\ Configured(m) \in {-1, 1}
    BY <2>1, TakeKeeps, MessageTypes
  <2>4. held' = held
    BY <1>7 DEF DataActive
  <2> QED
    BY <1>0, <2>2, <2>3, <2>4
<1>8. CASE Clock \/ FinishPost \/ UNCHANGED vars
  BY <1>8 DEF Clock, FinishPost, vars, history
<1> QED
  BY <1>2, <1>3, <1>4, <1>5, <1>6, <1>7, <1>8 DEF Next, SpaceStep

(* space.go:71, 222-223, 241-242: the shadow count is the sum of all        *)
(* crossings in a space without reset slot, or whose entries are none of    *)
(* them reversed.                                                           *)
THEOREM SpaceShadowUncorrected ==
    ASSUME ~HasSlot \/ ReversedEntries = {}
    PROVE  Spec => []ShadowIsUncorrected
<1>1. Init => ShadowIsUncorrected
  BY DEF Init, ShadowIsUncorrected
<1> QED
  BY <1>1, ShadowKeeps, SpaceInvariant, PTL DEF Spec

-----------------------------------------------------------------------------
(* The crossings that wait at the boundary, as Occupancy sees them.         *)
Waiting == [i \in DOMAIN inbox |-> Configured(inbox[i])]

(* An entry that sends a message is somebody crossing the boundary.         *)
LEMMA SendingIsArriving ==
    ASSUME SpaceInv, NEW m \in Messages, inbox' = Append(inbox, m)
    PROVE  Waiting' = Append(Waiting, Configured(m))
<1>1. inbox \in Seq(Messages)
  BY DEF SpaceInv, TypeOK
<1>2. PICK n \in Nat : DOMAIN inbox = 1 .. n /\ Len(inbox) = n
  BY <1>1
<1>3. DOMAIN inbox' = 1 .. n + 1
  BY <1>1, <1>2
<1>4. \A i \in 1 .. n + 1 : inbox'[i] = IF i = n + 1 THEN m ELSE inbox[i]
  BY <1>1, <1>2
<1>5. Waiting' = [i \in 1 .. n + 1 |-> IF i = n + 1 THEN Configured(m) ELSE Configured(inbox[i])]
  BY <1>2, <1>3, <1>4 DEF Waiting, Configured, Signed
<1>6. Waiting = [i \in 1 .. n |-> Configured(inbox[i])]
  BY <1>2 DEF Waiting
<1>7. Len(Waiting) = n
  BY <1>6
<1>8. Append(Waiting, Configured(m)) =
        [i \in 1 .. n + 1 |-> IF i = n + 1 THEN Configured(m) ELSE Waiting[i]]
  BY <1>6, <1>7
<1> QED
  BY <1>5, <1>6, <1>8

(* A message the space takes is the first crossing that waits.              *)
LEMMA TakingIsTheFirst ==
    ASSUME SpaceInv, NEW m \in Messages, Take(m)
    PROVE  Waiting # <<>> /\ Head(Waiting) = Configured(m) /\ Waiting' = Tail(Waiting)
<1>1. inbox \in Seq(Messages) /\ inbox # <<>> /\ m = Head(inbox) /\ inbox' = Tail(inbox)
  BY DEF SpaceInv, TypeOK, Take
<1>2. PICK n \in Nat : DOMAIN inbox = 1 .. n /\ Len(inbox) = n
  BY <1>1
<1>3. n > 0 /\ m = inbox[1]
  BY <1>1, <1>2
<1>4. DOMAIN inbox' = 1 .. n - 1 /\ \A i \in 1 .. n - 1 : inbox'[i] = inbox[i + 1]
  BY <1>1, <1>2
<1>5. Waiting = [i \in 1 .. n |-> Configured(inbox[i])]
  BY <1>2 DEF Waiting
<1>6. Waiting' = [i \in 1 .. n - 1 |-> Configured(inbox[i + 1])]
  BY <1>4 DEF Waiting, Configured, Signed
<1>7. Len(Waiting) = n /\ Waiting # <<>> /\ Head(Waiting) = Configured(m)
  BY <1>3, <1>5
<1>8. Tail(Waiting) = [i \in 1 .. n - 1 |-> Waiting[i + 1]]
  BY <1>5, <1>7
<1> QED
  BY <1>3, <1>5, <1>6, <1>7, <1>8

(* Crossings outside the slot are counted the way Occupancy counts them.    *)
LEMMA ActiveCounts == ASSUME SpaceInv, DataActive PROVE Boundary!Count
<1>1. PICK m \in Messages : Take(m) /\ UpdateRegister(m, Accepted(Configured(m)))
  BY DEF DataActive
<1>2. Waiting # <<>> /\ Head(Waiting) = Configured(m) /\ Waiting' = Tail(Waiting)
  BY <1>1, TakingIsTheFirst
<1>3. ~inSlot /\ ~inSlot' /\ pc = "select" /\ pc' = "posting"
  BY <1>1 DEF DataActive, Take
<1>4. count' = count + Accepted(Configured(m))
  BY <1>1 DEF UpdateRegister
<1>5. count \in Int /\ Configured(m) \in {-1, 1}
  BY <1>1, MessageTypes DEF SpaceInv, TypeOK
<1>6. count' = Boundary!After(Configured(m))
  BY <1>4, <1>5 DEF Accepted, Boundary!After
<1> QED
  BY <1>2, <1>3, <1>6 DEF Boundary!Count, Waiting

(* Those the reset or the slot swallows are ignored.                        *)
LEMMA SlotIgnores == ASSUME SpaceInv, DataInSlot \/ DataStartsReset PROVE Boundary!Ignore
<1>1. PICK m \in Messages : Take(m)
  BY DEF DataInSlot, DataStartsReset
<1>2. Waiting # <<>> /\ Waiting' = Tail(Waiting)
  BY <1>1, TakingIsTheFirst
<1>3. inSlot /\ inSlot' /\ count' = count
  BY DEF DataInSlot, DataStartsReset, register
<1> QED
  BY <1>2, <1>3 DEF Boundary!Ignore, Waiting

(* Every step of a space is a step of Occupancy, or none.                   *)
LEMMA StepIsOccupancy == SpaceInv /\ [Next]_vars => [Boundary!Next]_(Boundary!vars)
<1> SUFFICES ASSUME SpaceInv, [Next]_vars PROVE [Boundary!Next]_(Boundary!vars)
  OBVIOUS
<1> USE DEF Boundary!vars
<1>1. ASSUME NEW e \in Entries, NEW g \in Gates, NEW net \in {-1, 0, 1}, Cross(e, g, net)
      PROVE  Boundary!Next
  <2> DEFINE m == EntryMessage(e, g, net)
  <2>1. m \in Messages
    BY <1>1 DEF Cross, EntryMessage, Messages
  <2>2. inbox' = Append(inbox, m)
    BY <1>1 DEF Cross
  <2>3. Waiting' = Append(Waiting, Configured(m)) /\ Configured(m) \in {-1, 1}
    <3> HIDE DEF m
    <3> QED BY <2>1, <2>2, SendingIsArriving, MessageTypes
  <2>4. count' = count /\ inSlot' = inSlot /\ pc' = pc
    BY <1>1 DEF Cross, register
  <2> HIDE DEF m
  <2> QED BY <2>3, <2>4 DEF Boundary!Next, Boundary!Arrive, Waiting
<1>2. ASSUME inbox' = inbox PROVE Waiting' = Waiting
  BY <1>2 DEF Waiting, Configured, Signed
<1>3. CASE Clock
  <2>1. inbox' = inbox /\ count' = count /\ inSlot' = ~inSlot /\ pc' = pc
    BY <1>3 DEF Clock, register
  <2>2. CASE pc = "resetting"
    BY <1>2, <2>1, <2>2 DEF Waiting
  <2>3. CASE pc # "resetting"
    BY <1>2, <2>1, <2>3 DEF Boundary!Next, Boundary!Turn, Waiting
  <2> QED BY <2>2, <2>3
<1>4. CASE DataInSlot \/ DataStartsReset
  BY <1>4, SlotIgnores DEF Boundary!Next
<1>5. CASE TimerStartsReset \/ FinishPost
  <2>1. /\ inbox' = inbox /\ count' = count
        /\ (inSlot' \/ pc' = "resetting") <=> (inSlot \/ pc = "resetting")
    BY <1>5 DEF TimerStartsReset, FinishPost, register
  <2> QED BY <1>2, <2>1 DEF Waiting
<1>6. CASE FinishReset
  <2>1. /\ inbox' = inbox /\ count' = 0 /\ pc = "resetting"
        /\ (inSlot' \/ pc' = "resetting") \in BOOLEAN
    BY <1>6 DEF FinishReset, EmptyRegister
  <2> QED BY <1>2, <2>1 DEF Boundary!Next, Boundary!Empty, Waiting
<1>7. CASE DataActive
  BY <1>7, ActiveCounts DEF Boundary!Next
<1>8. CASE UNCHANGED vars
  BY <1>2, <1>8 DEF vars, register, Waiting
<1> QED
  BY <1>1, <1>3, <1>4, <1>5, <1>6, <1>7, <1>8 DEF Next, SpaceStep

(* space.go:138-398: a space, whatever its entries, gates, orientations and *)
(* settings, implements Occupancy: every crossing is counted once, in       *)
(* order, or falls into the reset slot.                                     *)
THEOREM SpaceImplementsOccupancy == Spec => KeepsOccupancy
<1>1. Init => Boundary!Init
  BY DEF Init, Boundary!Init
<1> QED
  BY <1>1, StepIsOccupancy, SpaceInvariant, PTL DEF Spec, KeepsOccupancy, Boundary!Spec
=============================================================================
