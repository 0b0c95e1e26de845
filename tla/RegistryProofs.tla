--------------------------- MODULE RegistryProofs ---------------------------
(***************************************************************************)
(* Theorems about Registry, for every set of connections, devices and ids.  *)
(*                                                                          *)
(* The argument: a handler writes ActiveSensors and the disk cache only for *)
(* its own device and its own id.  What it removes could be in use by       *)
(* another handler in two cases only, and RegistryInv excludes both: two    *)
(* registered handlers of one device (RegisteredOnce), and an entry whose   *)
(* writer is gone while another handler relies on it (IdsAreInUse and       *)
(* NoLeftovers name a handler that is still there for every entry, but those *)
(* a delete failed on).                                                     *)
(***************************************************************************)
EXTENDS Registry, FiniteSetTheorems, TLAPS

(* A handler that holds a token before and after a step leaves the tokens   *)
(* as they are held.                                                        *)
LEMMA KeepsToken ==
    ASSUME TypeOK, TokensAreHeld, NEW c \in Conns, NEW p, tokens' = tokens,
           pc[c] \notin {"none", "closed"}, p \notin {"none", "closed"}, Goto(c, p)
    PROVE  TokensAreHeld'
<1>1. Served' = Served
  BY DEF TypeOK, Goto, Served
<1> QED BY <1>1 DEF TokensAreHeld

(* A token leaves the free ones exactly when a handler starts with it.      *)
LEMMA AcceptStep ==
    ASSUME RegistryInv, NEW c \in Conns, Accept(c)
    PROVE  RegistryInv'
<1> USE RegistryAssumption
    DEF RegistryInv, TypeOK, Accept, Goto, HasToken, sensorDef, shared, stuck, InLoop, Registered
<1>1. TypeOK'
  BY DEF SensorIsDefined
<1>2. RegisteredOnce'
  BY DEF RegisteredOnce, SensorIsDefined
<1>3. IdsAreInUse'
  BY DEF IdsAreInUse, SensorIsDefined
<1>4. NoLeftovers'
  BY DEF NoLeftovers, SensorIsDefined
<1>5. TokensAreHeld'
  <2>1. CASE HasToken
    <3>1. Served' = Served \cup {c} /\ c \notin Served
      BY <2>1 DEF TypeOK, Served, Accept, Goto
    <3>2. IsFiniteSet(Served') /\ Cardinality(Served') = Cardinality(Served) + 1
      BY <3>1, FS_AddElement DEF TokensAreHeld
    <3>3. tokens' = tokens - 1
      BY <2>1 DEF Accept
    <3> QED BY <3>2, <3>3, FS_CardinalityType DEF TokensAreHeld
  <2>2. CASE ~HasToken
    <3>1. Served' = Served /\ tokens' = tokens
      BY <2>2 DEF TypeOK, Served, Accept, Goto
    <3> QED BY <3>1 DEF TokensAreHeld
  <2> QED BY <2>1, <2>2
<1>6. SensorIsDefined'
  BY DEF SensorIsDefined
<1> QED BY <1>1, <1>2, <1>3, <1>4, <1>5, <1>6

(* A handler that is refused before its mac is known has nothing to undo.   *)
LEMMA RefuseStep ==
    ASSUME RegistryInv, NEW c \in Conns, Refuse(c)
    PROVE  RegistryInv'
<1> USE RegistryAssumption
    DEF RegistryInv, TypeOK, Refuse, Goto, sensorDef, shared, stuck, InLoop, Registered
<1>1. TypeOK'
  BY DEF SensorIsDefined
<1>2. RegisteredOnce'
  BY DEF RegisteredOnce, SensorIsDefined
<1>3. IdsAreInUse'
  BY DEF IdsAreInUse, SensorIsDefined
<1>4. NoLeftovers'
  BY DEF NoLeftovers, SensorIsDefined
<1>5. TokensAreHeld'
  BY KeepsToken
<1>6. SensorIsDefined'
  BY DEF SensorIsDefined
<1> QED BY <1>1, <1>2, <1>3, <1>4, <1>5, <1>6

(* A device gets this handler only if it has none.                          *)
LEMMA ReadMacStep ==
    ASSUME RegistryInv, NEW c \in Conns, NEW m \in Macs, ReadMac(c, m)
    PROVE  RegistryInv'
<1> USE RegistryAssumption
    DEF RegistryInv, TypeOK, ReadMac, Goto, Register, InUse, sensorDef, shared, stuck, InLoop, Registered
<1>1. TypeOK'
  BY DEF SensorIsDefined
<1>2. RegisteredOnce'
  BY DEF RegisteredOnce, SensorIsDefined
<1>3. IdsAreInUse'
  BY DEF IdsAreInUse, SensorIsDefined
<1>4. NoLeftovers'
  BY DEF NoLeftovers, SensorIsDefined
<1>5. TokensAreHeld'
  BY KeepsToken
<1>6. SensorIsDefined'
  BY DEF SensorIsDefined
<1> QED BY <1>1, <1>2, <1>3, <1>4, <1>5, <1>6

(* A handler that waited is registered or refused, as the other one ended.  *)
LEMMA RecheckStep ==
    ASSUME RegistryInv, NEW c \in Conns, Recheck(c)
    PROVE  RegistryInv'
<1> USE RegistryAssumption
    DEF RegistryInv, TypeOK, Recheck, Goto, Register, InUse, sensorDef, shared, stuck, InLoop, Registered
<1>1. TypeOK'
  BY DEF SensorIsDefined
<1>2. RegisteredOnce'
  BY DEF RegisteredOnce, SensorIsDefined
<1>3. IdsAreInUse'
  BY DEF IdsAreInUse, SensorIsDefined
<1>4. NoLeftovers'
  BY DEF NoLeftovers, SensorIsDefined
<1>5. TokensAreHeld'
  BY KeepsToken
<1>6. SensorIsDefined'
  BY DEF SensorIsDefined
<1> QED BY <1>1, <1>2, <1>3, <1>4, <1>5, <1>6

(* The device is listed by a handler that removes it again.                 *)
LEMMA ListStep ==
    ASSUME RegistryInv, NEW c \in Conns, List(c)
    PROVE  RegistryInv'
<1> USE RegistryAssumption
    DEF RegistryInv, TypeOK, List, Goto, sensorDef, shared, stuck, InLoop, Registered
<1>1. TypeOK'
  BY DEF SensorIsDefined
<1>2. RegisteredOnce'
  BY DEF RegisteredOnce, SensorIsDefined
<1>3. IdsAreInUse'
  BY DEF IdsAreInUse, SensorIsDefined
<1>4. NoLeftovers'
  BY DEF NoLeftovers, SensorIsDefined
<1>5. TokensAreHeld'
  BY KeepsToken
<1>6. SensorIsDefined'
  BY DEF SensorIsDefined
<1> QED BY <1>1, <1>2, <1>3, <1>4, <1>5, <1>6

(* A handler is past the first packet only with a valid id in use.          *)
LEMMA FirstPacketStep ==
    ASSUME RegistryInv, NEW c \in Conns, NEW sent \in Ids, FirstPacket(c, sent)
    PROVE  RegistryInv'
<1> USE RegistryAssumption
    DEF RegistryInv, TypeOK, FirstPacket, Goto, Outcomes, IdToBeChecked, sensorDef, shared, stuck, InLoop, Registered
<1>1. TypeOK'
  BY DEF SensorIsDefined
<1>2. RegisteredOnce'
  BY DEF RegisteredOnce, SensorIsDefined
<1>3. IdsAreInUse'
  BY DEF IdsAreInUse, SensorIsDefined
<1>4. NoLeftovers'
  BY DEF NoLeftovers, SensorIsDefined
<1>5. TokensAreHeld'
  <2>1. PICK o \in Outcomes(c, sent) : Goto(c, o[1])
    BY DEF FirstPacket
  <2>2. o[1] \in {"inactive", "closing", "adding"}
    BY <2>1 DEF Outcomes
  <2> QED BY <2>1, <2>2, KeepsToken DEF FirstPacket
<1>6. SensorIsDefined'
  <2>1. PICK o \in Outcomes(c, sent) : Goto(c, o[1]) /\ id' = [id EXCEPT ![c] = o[2]]
    BY DEF FirstPacket
  <2>2. \/ o[1] \in {"inactive", "closing"}
        \/ o[1] = "adding" /\ o[2] = IdToBeChecked(c, sent)
    BY <2>1 DEF Outcomes
  <2>3. IdToBeChecked(c, sent) # NoId
    BY DEF IdToBeChecked, NoId
  <2> QED BY <2>1, <2>2, <2>3 DEF TypeOK, SensorIsDefined, FirstPacket, Goto, InLoop, sensorDef
<1> QED BY <1>1, <1>2, <1>3, <1>4, <1>5, <1>6

(* The lookup key is one that this handler deletes at its end.              *)
LEMMA AddLookUpStep ==
    ASSUME RegistryInv, NEW c \in Conns, AddLookUp(c)
    PROVE  RegistryInv'
<1> USE RegistryAssumption
    DEF RegistryInv, TypeOK, AddLookUp, Goto, Keys, sensorDef, shared, stuck, InLoop, Registered
<1>1. TypeOK'
  BY DEF SensorIsDefined
<1>2. RegisteredOnce'
  BY DEF RegisteredOnce, SensorIsDefined
<1>3. IdsAreInUse'
  BY DEF IdsAreInUse, SensorIsDefined
<1>4. NoLeftovers'
  BY DEF NoLeftovers, SensorIsDefined
<1>5. TokensAreHeld'
  BY KeepsToken
<1>6. SensorIsDefined'
  BY DEF SensorIsDefined
<1> QED BY <1>1, <1>2, <1>3, <1>4, <1>5, <1>6

(* The mark is one that this handler deletes at its end.                    *)
LEMMA MarkDeviceActiveStep ==
    ASSUME RegistryInv, NEW c \in Conns, MarkDeviceActive(c)
    PROVE  RegistryInv'
<1> USE RegistryAssumption
    DEF RegistryInv, TypeOK, MarkDeviceActive, Goto, sensorDef, shared, stuck, InLoop, Registered
<1>1. TypeOK'
  BY DEF SensorIsDefined
<1>2. RegisteredOnce'
  BY DEF RegisteredOnce, SensorIsDefined
<1>3. IdsAreInUse'
  BY DEF IdsAreInUse, SensorIsDefined
<1>4. NoLeftovers'
  BY DEF NoLeftovers, SensorIsDefined
<1>5. TokensAreHeld'
  BY KeepsToken
<1>6. SensorIsDefined'
  BY DEF SensorIsDefined
<1> QED BY <1>1, <1>2, <1>3, <1>4, <1>5, <1>6

(* The id is taken by the handler that uses it.                             *)
LEMMA ActivateStep ==
    ASSUME RegistryInv, NEW c \in Conns, Activate(c)
    PROVE  RegistryInv'
<1> USE RegistryAssumption
    DEF RegistryInv, TypeOK, Activate, Goto, sensorDef, shared, stuck, InLoop, Registered
<1>1. TypeOK'
  BY DEF SensorIsDefined
<1>2. RegisteredOnce'
  BY DEF RegisteredOnce, SensorIsDefined
<1>3. IdsAreInUse'
  BY DEF IdsAreInUse, SensorIsDefined
<1>4. NoLeftovers'
  BY DEF NoLeftovers, SensorIsDefined
<1>5. TokensAreHeld'
  BY KeepsToken
<1>6. SensorIsDefined'
  BY DEF SensorIsDefined
<1> QED BY <1>1, <1>2, <1>3, <1>4, <1>5, <1>6

(* Leaving the loop removes nothing yet.                                    *)
LEMMA ReturnStep ==
    ASSUME RegistryInv, NEW c \in Conns, Return(c)
    PROVE  RegistryInv'
<1> USE RegistryAssumption
    DEF RegistryInv, TypeOK, Return, Goto, sensorDef, shared, stuck, InLoop, Registered
<1>1. TypeOK'
  BY DEF SensorIsDefined
<1>2. RegisteredOnce'
  BY DEF RegisteredOnce, SensorIsDefined
<1>3. IdsAreInUse'
  BY DEF IdsAreInUse, SensorIsDefined
<1>4. NoLeftovers'
  BY DEF NoLeftovers, SensorIsDefined
<1>5. TokensAreHeld'
  BY KeepsToken
<1>6. SensorIsDefined'
  BY DEF SensorIsDefined
<1> QED BY <1>1, <1>2, <1>3, <1>4, <1>5, <1>6

(* Telling a command process to end touches no registration.                *)
LEMMA StopStep ==
    ASSUME RegistryInv, NEW c \in Conns, Stop(c)
    PROVE  RegistryInv'
<1> USE RegistryAssumption
    DEF RegistryInv, TypeOK, Stop, Goto, sensorDef, shared, stuck, InLoop, Registered
<1>1. TypeOK'
  BY DEF SensorIsDefined
<1>2. RegisteredOnce'
  BY DEF RegisteredOnce, SensorIsDefined
<1>3. IdsAreInUse'
  BY DEF IdsAreInUse, SensorIsDefined
<1>4. NoLeftovers'
  BY DEF NoLeftovers, SensorIsDefined
<1>5. TokensAreHeld'
  BY KeepsToken
<1>6. SensorIsDefined'
  BY DEF SensorIsDefined
<1> QED BY <1>1, <1>2, <1>3, <1>4, <1>5, <1>6

(* Only entries of this device and of this id are removed from              *)
(* ActiveSensors.                                                           *)
LEMMA UnregisterStep ==
    ASSUME RegistryInv, NEW c \in Conns, Unregister(c)
    PROVE  RegistryInv'
<1> USE RegistryAssumption
    DEF RegistryInv, TypeOK, Unregister, Goto, FreeId, sensorDef, shared, stuck, InLoop, Registered
<1>1. TypeOK'
  BY DEF SensorIsDefined
<1>2. RegisteredOnce'
  BY DEF RegisteredOnce, SensorIsDefined
<1>3. IdsAreInUse'
  BY DEF IdsAreInUse, SensorIsDefined
<1>4. NoLeftovers'
  BY DEF NoLeftovers, SensorIsDefined
<1>5. TokensAreHeld'
  BY KeepsToken
<1>6. SensorIsDefined'
  BY DEF SensorIsDefined
<1> QED BY <1>1, <1>2, <1>3, <1>4, <1>5, <1>6

(* A mark of another device has another handler.                            *)
LEMMA UnlistStep ==
    ASSUME RegistryInv, NEW c \in Conns, Unlist(c)
    PROVE  RegistryInv'
<1> USE RegistryAssumption
    DEF RegistryInv, TypeOK, Unlist, Goto, sensorDef, shared, stuck, InLoop, Registered
<1>1. TypeOK'
  BY DEF SensorIsDefined
<1>2. RegisteredOnce'
  BY DEF RegisteredOnce, SensorIsDefined
<1>3. IdsAreInUse'
  BY DEF IdsAreInUse, SensorIsDefined
<1>4. NoLeftovers'
  BY DEF NoLeftovers, SensorIsDefined
<1>5. TokensAreHeld'
  BY KeepsToken
<1>6. SensorIsDefined'
  BY DEF SensorIsDefined
<1> QED BY <1>1, <1>2, <1>3, <1>4, <1>5, <1>6

(* What is left in lookup has another handler; the token is returned once.  *)
LEMMA CloseStep ==
    ASSUME RegistryInv, NEW c \in Conns, Close(c)
    PROVE  RegistryInv'
<1> USE RegistryAssumption
    DEF RegistryInv, TypeOK, Close, Returned, Goto, Stale, sensorDef, shared, stuck, InLoop, Registered
<1>1. TokensAreHeld' /\ tokens' \in 0 .. MaxTcp
  <2>1. Served' = Served \ {c} /\ c \in Served
    BY DEF Served, Close, Goto
  <2>2. /\ IsFiniteSet(Served') /\ Cardinality(Served') = Cardinality(Served) - 1
        /\ Cardinality(Served') \in Nat
    BY <2>1, FS_RemoveElement, FS_CardinalityType DEF TokensAreHeld
  <2>3. Cardinality(Served) \in Nat
    BY FS_CardinalityType DEF TokensAreHeld
  <2>4. tokens' = tokens + 1 /\ tokens \in 0 .. MaxTcp
    BY DEF Close
  <2> QED BY <2>2, <2>3, <2>4 DEF TokensAreHeld
<1>2. TypeOK'
  BY <1>1
<1>3. RegisteredOnce'
  BY DEF RegisteredOnce, SensorIsDefined
<1>4. IdsAreInUse'
  BY DEF IdsAreInUse, SensorIsDefined
<1>5. NoLeftovers'
  BY DEF NoLeftovers, SensorIsDefined
<1>6. SensorIsDefined'
  BY DEF SensorIsDefined
<1> QED BY <1>1, <1>2, <1>3, <1>4, <1>5, <1>6

(* The end of a command process touches no registration.                    *)
LEMMA EndZombieStep ==
    ASSUME RegistryInv, NEW c \in Conns, EndZombie(c)
    PROVE  RegistryInv'
<1> USE RegistryAssumption DEF RegistryInv
<1>1. UNCHANGED <<tokens, pc, mac, id, channels, activeMac, activeId, device, lookup, stuckDevices, stuckKeys>>
  BY DEF EndZombie, sensorDef, shared, stuck
<1>2. TypeOK'
  BY <1>1 DEF TypeOK, EndZombie
<1>3. RegisteredOnce' /\ IdsAreInUse' /\ NoLeftovers' /\ SensorIsDefined'
  BY <1>1 DEF RegisteredOnce, IdsAreInUse, NoLeftovers, SensorIsDefined
<1>4. Served' = Served
  BY <1>1 DEF Served
<1> QED BY <1>1, <1>2, <1>3, <1>4 DEF TokensAreHeld

-----------------------------------------------------------------------------
(* RegistryInv holds in every state: at most MaxTcp handlers run, a device  *)
(* has one registered handler, and whatever ActiveSensors and the disk      *)
(* cache say is said by a handler that has not ended.                       *)
THEOREM RegistryInvariant == Spec => []RegistryInv
<1>1. Init => RegistryInv
  <2> SUFFICES ASSUME Init PROVE RegistryInv
    OBVIOUS
  <2>1. TypeOK
    BY RegistryAssumption DEF Init, TypeOK, Registered, InLoop, NoId, None
  <2>2. RegisteredOnce /\ IdsAreInUse /\ NoLeftovers /\ SensorIsDefined
    BY DEF Init, RegisteredOnce, IdsAreInUse, NoLeftovers, SensorIsDefined, Registered, InLoop
  <2>3. Served = {}
    BY DEF Init, Served
  <2>4. TokensAreHeld
    BY <2>3, FS_EmptySet, RegistryAssumption DEF TokensAreHeld, Init
  <2> QED BY <2>1, <2>2, <2>4 DEF RegistryInv
<1>2. RegistryInv /\ [Next]_vars => RegistryInv'
  <2> SUFFICES ASSUME RegistryInv, [Next]_vars PROVE RegistryInv'
    OBVIOUS
  <2>1. ASSUME NEW c \in Conns,
               Accept(c) \/ Refuse(c) \/ Return(c) \/ Handle(c) \/ EndZombie(c)
        PROVE  RegistryInv'
    BY <2>1, AcceptStep, RefuseStep, ReturnStep, RecheckStep, ListStep, AddLookUpStep,
       MarkDeviceActiveStep, ActivateStep, StopStep, UnregisterStep, UnlistStep, CloseStep,
       EndZombieStep DEF Handle
  <2>2. ASSUME NEW c \in Conns, NEW m \in Macs, ReadMac(c, m) PROVE RegistryInv'
    BY <2>2, ReadMacStep
  <2>3. ASSUME NEW c \in Conns, NEW sent \in Ids, FirstPacket(c, sent) PROVE RegistryInv'
    BY <2>3, FirstPacketStep
  <2>4. CASE UNCHANGED vars
    <3>1. Served' = Served
      BY <2>4 DEF vars, Served
    <3> QED
      BY <2>4, <3>1 DEF vars, sensorDef, shared, stuck, RegistryInv, TypeOK, RegisteredOnce,
         IdsAreInUse, NoLeftovers, TokensAreHeld, SensorIsDefined
  <2> QED BY <2>1, <2>2, <2>3, <2>4 DEF Next
<1> QED BY <1>1, <1>2, PTL DEF Spec

(* Every variable keeps its type; the tokens stay between none and MaxTcp.  *)
THEOREM RegistryTypeCorrect == Spec => []TypeOK
<1>1. RegistryInv => TypeOK
  BY DEF RegistryInv
<1> QED BY <1>1, RegistryInvariant, PTL

(* Every token is free or held by a handler that runs, so at most MaxTcp    *)
(* handlers run and none of the tokens is ever lost.                        *)
THEOREM RegistryTokensAreHeld == Spec => []TokensAreHeld
<1>1. RegistryInv => TokensAreHeld
  BY DEF RegistryInv
<1> QED BY <1>1, RegistryInvariant, PTL

(* However devices reconnect, wait, are refused and are cleaned up: no      *)
(* handler replaces or removes the registration of another.                 *)
THEOREM RegistryRegisteredOnce == Spec => []RegisteredOnce
<1>1. RegistryInv => RegisteredOnce
  BY DEF RegistryInv
<1> QED BY <1>1, RegistryInvariant, PTL

(* An id is taken only while a connected device uses it.                    *)
THEOREM RegistryIdsAreInUse == Spec => []IdsAreInUse
<1>1. RegistryInv => IdsAreInUse
  BY DEF RegistryInv
<1> QED BY <1>1, RegistryInvariant, PTL

(* What the disk cache says of a device never outlives its handler.         *)
THEOREM RegistryNoLeftovers == Spec => []NoLeftovers
<1>1. RegistryInv => NoLeftovers
  BY DEF RegistryInv
<1> QED BY <1>1, RegistryInvariant, PTL

-----------------------------------------------------------------------------
(* The connections that are over, as Service sees them.                     *)
Over == {c \in Conns : pc[c] \in {"unlisting", "unlooking", "closed"}}

(* A handler that goes on to a place where it is not over leaves Over alone. *)
LEMMA OverKeeps ==
    ASSUME RegistryInv, NEW c \in Conns, NEW place, Goto(c, place),
           pc[c] \in {"unlisting", "unlooking", "closed"}
               <=> place \in {"unlisting", "unlooking", "closed"}
    PROVE  Over' = Over
BY DEF RegistryInv, TypeOK, Goto, Over

(* A handler that comes to its end is over.                                 *)
LEMMA OverGrows ==
    ASSUME RegistryInv, NEW c \in Conns, NEW place \in {"unlisting", "unlooking", "closed"},
           Goto(c, place)
    PROVE  Over' = Over \cup {c}
BY DEF RegistryInv, TypeOK, Goto, Over

(* A connection that has no device, or is not registered, serves none.      *)
LEMMA UnregisteredServesNone ==
    ASSUME RegistryInv, NEW c \in Conns, pc[c] \notin Registered \/ mac[c] = None
    PROVE  \A m \in Macs : activeMac[m] # c
BY RegistryAssumption DEF RegistryInv, RegisteredOnce, TypeOK

(* A device that has no connection gets one that has no device.             *)
LEMMA RegisterBegins ==
    ASSUME RegistryInv, NEW c \in Conns, NEW m \in Macs, pc[c] \in {"accepted", "waiting"},
           Register(c, m)
    PROVE  Serving!Begin(c, m)
<1>1. Over' = Over
  BY OverKeeps DEF Register
<1>2. \A n \in Macs : activeMac[n] # c
  BY UnregisteredServesNone DEF Registered, InLoop
<1> QED
  BY <1>1, <1>2 DEF Register, InUse, Serving!Begin, Over

(* Every step of the handlers is a step of Service, or none.                *)
LEMMA StepIsService == RegistryInv /\ [Next]_vars => [Serving!Next]_(Serving!vars)
<1> SUFFICES ASSUME RegistryInv, [Next]_vars PROVE [Serving!Next]_(Serving!vars)
  OBVIOUS
<1> USE DEF Serving!vars
<1>0. ASSUME Over' = Over, activeMac' = activeMac PROVE UNCHANGED Serving!vars
  BY <1>0 DEF Over
<1>1. ASSUME NEW c \in Conns, Accept(c) PROVE [Serving!Next]_(Serving!vars)
  <2>1. activeMac' = activeMac /\ pc[c] = "none"
    BY <1>1 DEF Accept, shared
  <2>2. CASE Goto(c, "accepted")
    BY <1>0, <2>1, <2>2, OverKeeps
  <2>3. CASE Goto(c, "closed")
    <3>1. Over' = Over \cup {c} /\ \A m \in Macs : activeMac[m] # c
      BY <2>1, <2>3, OverGrows, UnregisteredServesNone DEF Registered, InLoop
    <3> QED BY <2>1, <3>1 DEF Serving!Next, Serving!Refuse, Over
  <2> QED BY <1>1, <2>2, <2>3 DEF Accept
<1>2. ASSUME NEW c \in Conns, NEW m \in Macs, ReadMac(c, m)
      PROVE  [Serving!Next]_(Serving!vars)
  <2>1. CASE Register(c, m)
    BY <1>2, <2>1, RegisterBegins DEF ReadMac, Serving!Next
  <2>2. CASE Goto(c, "waiting") /\ activeMac' = activeMac
    BY <1>0, <1>2, <2>2, OverKeeps DEF ReadMac
  <2> QED BY <1>2, <2>1, <2>2 DEF ReadMac
<1>3. ASSUME NEW c \in Conns, Recheck(c) PROVE [Serving!Next]_(Serving!vars)
  <2>1. CASE Register(c, mac[c])
    <3>1. mac[c] \in Macs
      BY <1>3 DEF RegistryInv, TypeOK, SensorIsDefined, Recheck
    <3> QED BY <1>3, <2>1, <3>1, RegisterBegins DEF Recheck, Serving!Next
  <2>2. CASE Goto(c, "closing") /\ activeMac' = activeMac
    BY <1>0, <1>3, <2>2, OverKeeps DEF Recheck
  <2> QED BY <1>3, <2>1, <2>2 DEF Recheck
<1>4. ASSUME NEW c \in Conns,
             Refuse(c) \/ Return(c) \/ List(c) \/ AddLookUp(c) \/ MarkDeviceActive(c) \/ Activate(c)
      PROVE  [Serving!Next]_(Serving!vars)
  <2>1. activeMac' = activeMac
    BY <1>4 DEF Refuse, Return, List, AddLookUp, MarkDeviceActive, Activate, shared
  <2>2. PICK place \in {"closing", "inactive", "marking", "activating", "active"} : Goto(c, place)
    BY <1>4 DEF Refuse, Return, List, AddLookUp, MarkDeviceActive, Activate
  <2>3. pc[c] \notin {"unlisting", "unlooking", "closed"}
    BY <1>4 DEF Refuse, Return, List, AddLookUp, MarkDeviceActive, Activate, InLoop
  <2> QED BY <1>0, <2>1, <2>2, <2>3, OverKeeps
<1>5. ASSUME NEW c \in Conns, NEW sent \in Ids, FirstPacket(c, sent)
      PROVE  [Serving!Next]_(Serving!vars)
  <2>1. PICK o \in Outcomes(c, sent) : Goto(c, o[1])
    BY <1>5 DEF FirstPacket
  <2>2. o[1] \in {"inactive", "closing", "adding"}
    BY <2>1 DEF Outcomes
  <2>3. activeMac' = activeMac /\ pc[c] = "inactive"
    BY <1>5 DEF FirstPacket, shared
  <2> QED BY <1>0, <2>1, <2>2, <2>3, OverKeeps
<1>6. ASSUME NEW c \in Conns, Stop(c) PROVE [Serving!Next]_(Serving!vars)
  <2>1. activeMac' = activeMac /\ pc[c] = "closing"
    BY <1>6 DEF Stop, shared
  <2>2. CASE mac[c] = None
    <3>1. Over' = Over \cup {c} /\ \A m \in Macs : activeMac[m] # c
      BY <1>6, <2>2, OverGrows, UnregisteredServesNone DEF Stop
    <3> QED BY <2>1, <3>1 DEF Serving!Next, Serving!Refuse, Over
  <2>3. CASE mac[c] # None
    BY <1>0, <1>6, <2>1, <2>3, OverKeeps DEF Stop
  <2> QED BY <2>2, <2>3
<1>7. ASSUME NEW c \in Conns, Unregister(c) PROVE Serving!Next
  <2>1. mac[c] \in Macs /\ activeMac[mac[c]] = c
    BY <1>7 DEF RegistryInv, TypeOK, SensorIsDefined, RegisteredOnce, Registered, Unregister
  <2>2. Over' = Over \cup {c}
    BY <1>7, OverGrows DEF Unregister
  <2> QED BY <1>7, <2>1, <2>2 DEF Unregister, Serving!Next, Serving!End, Over
<1>8. ASSUME NEW c \in Conns, Unlist(c) \/ Close(c) PROVE UNCHANGED Serving!vars
  BY <1>0, <1>8, OverKeeps DEF Unlist, Close
<1>9. ASSUME NEW c \in Conns, EndZombie(c) PROVE UNCHANGED Serving!vars
  BY <1>9 DEF EndZombie, shared
<1>10. CASE UNCHANGED vars
  BY <1>10 DEF vars, shared
<1> QED
  BY <1>1, <1>2, <1>3, <1>4, <1>5, <1>6, <1>7, <1>8, <1>9, <1>10 DEF Next, Handle

(* For all sets of connections and devices the handlers implement Service:  *)
(* whoever reconnects, waits, is refused or cleans up, a device is served   *)
(* by one connection until that one ends by itself.                         *)
THEOREM RegistryImplementsService == Spec => KeepsService
<1>1. Init => Serving!Init
  BY DEF Init, Serving!Init
<1> QED
  BY <1>1, StepIsService, RegistryInvariant, PTL DEF Spec, KeepsService, Serving!Spec
=============================================================================
