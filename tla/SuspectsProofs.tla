--------------------------- MODULE SuspectsProofs ---------------------------
(***************************************************************************)
(* Theorems about Suspects, for every set of connections, addresses and     *)
(* devices and all thresholds.                                              *)
(*                                                                          *)
(* The argument for the bound: a handler looks at the warnings once and     *)
(* gives one later.  What is bounded are therefore the warnings together    *)
(* with the handlers that passed the check and have not given theirs        *)
(* (WarningsToCome): a handler joins them only below the threshold, and     *)
(* leaves them when it gives its warning.                                   *)
(***************************************************************************)
EXTENDS Suspects, FiniteSetTheorems, TLAPS

(* The ways a step may change the warnings w and the set S of those who may *)
(* still give one to v and T: none is added; or they are below the limit;   *)
(* or one of S gives its warning.                                           *)
Keeps(w, S, v, T, limit) ==
    \/ v <= w /\ T \subseteq S
    \/ v < limit /\ T \subseteq Conns
    \/ v = w + 1 /\ \E c \in S : T \subseteq S \ {c}

(* Each of them leaves the sum below the limit plus the connections.        *)
LEMMA KeepsBelow ==
    ASSUME NEW S \in SUBSET Conns, NEW T, NEW w \in Nat, NEW v \in Nat,
           NEW limit \in Nat,
           w + Cardinality(S) < limit + Cardinality(Conns),
           Keeps(w, S, v, T, limit)
    PROVE  v + Cardinality(T) < limit + Cardinality(Conns)
<1> USE SuspectsAssumption
<1>1. /\ IsFiniteSet(S)
      /\ Cardinality(S) \in Nat /\ Cardinality(Conns) \in Nat
  BY FS_Subset, FS_CardinalityType
<1>2. CASE v <= w /\ T \subseteq S
  <2>1. Cardinality(T) <= Cardinality(S) /\ Cardinality(T) \in Nat
    BY <1>1, <1>2, FS_Subset, FS_CardinalityType
  <2> QED BY <1>1, <1>2, <2>1
<1>3. CASE v < limit /\ T \subseteq Conns
  <2>1. Cardinality(T) <= Cardinality(Conns) /\ Cardinality(T) \in Nat
    BY <1>3, FS_Subset, FS_CardinalityType
  <2> QED BY <1>1, <1>3, <2>1
<1>4. CASE v = w + 1 /\ \E c \in S : T \subseteq S \ {c}
  <2>1. PICK c \in S : T \subseteq S \ {c}
    BY <1>4
  <2>2. IsFiniteSet(S \ {c}) /\ Cardinality(S \ {c}) = Cardinality(S) - 1
    BY <1>1, <2>1, FS_RemoveElement
  <2>3. Cardinality(T) <= Cardinality(S \ {c}) /\ Cardinality(T) \in Nat
    BY <2>1, <2>2, FS_Subset, FS_CardinalityType
  <2> QED BY <1>1, <1>4, <2>2, <2>3
<1> QED BY <1>2, <1>3, <1>4 DEF Keeps

(* A step that changes all warnings in one of these ways preserves          *)
(* WarningsToCome.                                                          *)
LEMMA KeepsWarnings ==
    ASSUME TypeOK, TypeOK', WarningsToCome,
           \A i \in Ips : Keeps(maliciousIp[i], MayMarkIP(i),
                                maliciousIp'[i], MayMarkIP(i)', MaliciousTriesIP),
           \A m \in Macs : Keeps(maliciousMac[m], MayMarkMAC(m),
                                 maliciousMac'[m], MayMarkMAC(m)', MaliciousTriesMac)
    PROVE  WarningsToCome'
<1> USE SuspectsAssumption
<1>1. ASSUME NEW i \in Ips
      PROVE  maliciousIp'[i] + Cardinality(MayMarkIP(i)')
                 < MaliciousTriesIP + Cardinality(Conns)
  <2>1. /\ maliciousIp[i] \in Nat /\ maliciousIp'[i] \in Nat
        /\ MayMarkIP(i) \in SUBSET Conns
        /\ maliciousIp[i] + Cardinality(MayMarkIP(i)) < MaliciousTriesIP + Cardinality(Conns)
    BY DEF TypeOK, WarningsToCome, MayMarkIP
  <2> QED BY <2>1, KeepsBelow
<1>2. ASSUME NEW m \in Macs
      PROVE  maliciousMac'[m] + Cardinality(MayMarkMAC(m)')
                 < MaliciousTriesMac + Cardinality(Conns)
  <2>1. /\ maliciousMac[m] \in Nat /\ maliciousMac'[m] \in Nat
        /\ MayMarkMAC(m) \in SUBSET Conns
        /\ maliciousMac[m] + Cardinality(MayMarkMAC(m)) < MaliciousTriesMac + Cardinality(Conns)
    BY DEF TypeOK, WarningsToCome, MayMarkMAC
  <2> QED BY <2>1, KeepsBelow
<1> QED BY <1>1, <1>2 DEF WarningsToCome

(* A handler joins those who may mark an address below its threshold.       *)
LEMMA AcceptStep ==
    ASSUME SuspectsInv, NEW c \in Conns, NEW i \in Ips, Accept(c, i)
    PROVE  SuspectsInv'
<1> USE SuspectsAssumption
    DEF SuspectsInv, TypeOK, handler, disk, Registered, Accept, CheckIP, Danger, Goto
<1>1. TypeOK'
  OBVIOUS
<1>2. WarningsToCome'
  BY <1>1, KeepsWarnings DEF Keeps, MayMarkIP, MayMarkMAC
<1>3. OneActive'
  BY DEF OneActive
<1>4. ActiveIsValid'
  BY DEF OneActive, ActiveIsValid
<1> QED BY <1>1, <1>2, <1>3, <1>4

(* It remains one of them when no mac arrives.                              *)
LEMMA NoMacStep ==
    ASSUME SuspectsInv, NEW c \in Conns, NoMac(c)
    PROVE  SuspectsInv'
<1> USE SuspectsAssumption
    DEF SuspectsInv, TypeOK, handler, disk, Registered, NoMac, Goto
<1>1. TypeOK'
  OBVIOUS
<1>2. WarningsToCome'
  BY <1>1, KeepsWarnings DEF Keeps, MayMarkIP, MayMarkMAC
<1>3. OneActive'
  BY DEF OneActive
<1>4. ActiveIsValid'
  BY DEF OneActive, ActiveIsValid
<1> QED BY <1>1, <1>2, <1>3, <1>4

(* A handler joins those who may mark a device below its threshold.         *)
LEMMA ReadMacStep ==
    ASSUME SuspectsInv, NEW c \in Conns, NEW m \in Macs, ReadMac(c, m)
    PROVE  SuspectsInv'
<1> USE SuspectsAssumption
    DEF SuspectsInv, TypeOK, handler, disk, Registered, ReadMac, CheckMAC, Danger, Goto, Register, InUse, Serves
<1>1. TypeOK'
  OBVIOUS
<1>2. WarningsToCome'
  BY <1>1, KeepsWarnings DEF Keeps, MayMarkIP, MayMarkMAC
<1>3. OneActive'
  BY DEF OneActive
<1>4. ActiveIsValid'
  BY DEF OneActive, ActiveIsValid
<1> QED BY <1>1, <1>2, <1>3, <1>4

(* A handler that returns marks nothing any more.                           *)
LEMMA RefuseStep ==
    ASSUME SuspectsInv, NEW c \in Conns, NEW m \in Macs, Refuse(c, m)
    PROVE  SuspectsInv'
<1> USE SuspectsAssumption
    DEF SuspectsInv, TypeOK, handler, disk, Registered, Refuse, Return, Goto
<1>1. TypeOK'
  OBVIOUS
<1>2. WarningsToCome'
  BY <1>1, KeepsWarnings DEF Keeps, MayMarkIP, MayMarkMAC
<1>3. OneActive'
  BY DEF OneActive
<1>4. ActiveIsValid'
  BY DEF OneActive, ActiveIsValid
<1> QED BY <1>1, <1>2, <1>3, <1>4

(* A handler that waited for its device may mark its address either way.    *)
LEMMA RecheckStep ==
    ASSUME SuspectsInv, NEW c \in Conns, Recheck(c)
    PROVE  SuspectsInv'
<1> USE SuspectsAssumption
    DEF SuspectsInv, TypeOK, handler, disk, Registered, Recheck, Goto, Register, InUse, Serves
<1>1. TypeOK'
  OBVIOUS
<1>2. WarningsToCome'
  BY <1>1, KeepsWarnings DEF Keeps, MayMarkIP, MayMarkMAC
<1>3. OneActive'
  BY DEF OneActive
<1>4. ActiveIsValid'
  BY DEF OneActive, ActiveIsValid
<1> QED BY <1>1, <1>2, <1>3, <1>4

(* The handler gives the address its warning and is gone.                   *)
LEMMA MarkDoubtedStep ==
    ASSUME SuspectsInv, NEW c \in Conns, MarkDoubted(c)
    PROVE  SuspectsInv'
<1> USE SuspectsAssumption
    DEF SuspectsInv, TypeOK, handler, disk, Registered, MarkDoubted, MarkIP, Return, Goto
<1>1. TypeOK'
  OBVIOUS
<1>2. WarningsToCome'
  BY <1>1, KeepsWarnings DEF Keeps, MayMarkIP, MayMarkMAC
<1>3. OneActive'
  BY DEF OneActive
<1>4. ActiveIsValid'
  BY DEF OneActive, ActiveIsValid
<1> QED BY <1>1, <1>2, <1>3, <1>4

(* An active connection is none any more when its handler returns.          *)
LEMMA LeaveStep ==
    ASSUME SuspectsInv, NEW c \in Conns, Leave(c)
    PROVE  SuspectsInv'
<1> USE SuspectsAssumption
    DEF SuspectsInv, TypeOK, handler, disk, Registered, Leave, Return, Goto
<1>1. TypeOK'
  OBVIOUS
<1>2. WarningsToCome'
  BY <1>1, KeepsWarnings DEF Keeps, MayMarkIP, MayMarkMAC
<1>3. OneActive'
  BY DEF OneActive
<1>4. ActiveIsValid'
  BY DEF OneActive, ActiveIsValid
<1> QED BY <1>1, <1>2, <1>3, <1>4

(* The handler gives the device its warning with the failure too many.      *)
LEMMA FailureStep ==
    ASSUME SuspectsInv, NEW c \in Conns, Failure(c)
    PROVE  SuspectsInv'
<1> USE SuspectsAssumption
    DEF SuspectsInv, TypeOK, handler, disk, Registered, Failure, Fails, Counted, Punish, GoesOn, MarkMAC, Goto
<1>1. TypeOK'
  OBVIOUS
<1>2. WarningsToCome'
  BY <1>1, KeepsWarnings DEF Keeps, MayMarkIP, MayMarkMAC
<1>3. OneActive'
  BY DEF OneActive
<1>4. ActiveIsValid'
  BY DEF OneActive, ActiveIsValid
<1> QED BY <1>1, <1>2, <1>3, <1>4

(* An answer forgives the device.                                           *)
LEMMA AnswerStep ==
    ASSUME SuspectsInv, NEW c \in Conns, Answer(c)
    PROVE  SuspectsInv'
<1> USE SuspectsAssumption
    DEF SuspectsInv, TypeOK, handler, disk, Registered, Answer, Forgiven, Counted, RemoveSuspectedMAC
<1>1. TypeOK'
  OBVIOUS
<1>2. WarningsToCome'
  BY <1>1, KeepsWarnings DEF Keeps, MayMarkIP, MayMarkMAC
<1>3. OneActive'
  BY DEF OneActive
<1>4. ActiveIsValid'
  BY DEF OneActive, ActiveIsValid
<1> QED BY <1>1, <1>2, <1>3, <1>4

(* One to setid may be a failure as well.                                   *)
LEMMA SetIdAnswerStep ==
    ASSUME SuspectsInv, NEW c \in Conns, SetIdAnswer(c)
    PROVE  SuspectsInv'
<1> USE SuspectsAssumption
    DEF SuspectsInv, TypeOK, handler, disk, Registered, SetIdAnswer, Fails, Counted, Punish, GoesOn, MarkMAC, Forgiven, LeavesSetId, RemoveSuspectedMAC, Return, Goto
<1>1. TypeOK'
  OBVIOUS
<1>2. WarningsToCome'
  BY <1>1, KeepsWarnings DEF Keeps, MayMarkIP, MayMarkMAC
<1>3. OneActive'
  BY DEF OneActive
<1>4. ActiveIsValid'
  BY DEF OneActive, ActiveIsValid
<1> QED BY <1>1, <1>2, <1>3, <1>4

(* A flood costs the address and the device one warning each.               *)
LEMMA SetIdFloodStep ==
    ASSUME SuspectsInv, NEW c \in Conns, SetIdFlood(c)
    PROVE  SuspectsInv'
<1> USE SuspectsAssumption
    DEF SuspectsInv, TypeOK, handler, disk, Registered, SetIdFlood, MarkIP, Punish, MarkMAC, Goto
<1>1. TypeOK'
  OBVIOUS
<1>2. WarningsToCome'
  BY <1>1, KeepsWarnings DEF Keeps, MayMarkIP, MayMarkMAC
<1>3. OneActive'
  BY DEF OneActive
<1>4. ActiveIsValid'
  BY DEF OneActive, ActiveIsValid
<1> QED BY <1>1, <1>2, <1>3, <1>4

(* So does the id of another active device.                                 *)
LEMMA TakenIdStep ==
    ASSUME SuspectsInv, NEW c \in Conns, TakenId(c)
    PROVE  SuspectsInv'
<1> USE SuspectsAssumption
    DEF SuspectsInv, TypeOK, handler, disk, Registered, TakenId, Data, MarkIP, Punish, MarkMAC, Goto
<1>1. TypeOK'
  OBVIOUS
<1>2. WarningsToCome'
  BY <1>1, KeepsWarnings DEF Keeps, MayMarkIP, MayMarkMAC
<1>3. OneActive'
  BY DEF OneActive
<1>4. ActiveIsValid'
  BY DEF OneActive, ActiveIsValid
<1> QED BY <1>1, <1>2, <1>3, <1>4

(* A device without id is not active: no active one gets a record.          *)
LEMMA UnsetIdStep ==
    ASSUME SuspectsInv, NEW c \in Conns, UnsetId(c)
    PROVE  SuspectsInv'
<1> USE SuspectsAssumption
    DEF SuspectsInv, TypeOK, handler, disk, Registered, UnsetId, Data, Tolerated, Punish, GoesOn, MarkMAC, Goto
<1>1. TypeOK'
  OBVIOUS
<1>2. WarningsToCome'
  BY <1>1, KeepsWarnings DEF Keeps, MayMarkIP, MayMarkMAC
<1>3. OneActive'
  BY DEF OneActive
<1>4. ActiveIsValid'
  BY DEF OneActive, ActiveIsValid
<1> QED BY <1>1, <1>2, <1>3, <1>4

(* The device of a wrong id loses its record and is marked.                 *)
LEMMA StrictIdStep ==
    ASSUME SuspectsInv, NEW c \in Conns, StrictId(c)
    PROVE  SuspectsInv'
<1> USE SuspectsAssumption
    DEF SuspectsInv, TypeOK, handler, disk, Registered, StrictId, Data, Validated, Punish, MarkMAC, Goto
<1>1. TypeOK'
  OBVIOUS
<1>2. WarningsToCome'
  BY <1>1, KeepsWarnings DEF Keeps, MayMarkIP, MayMarkMAC
<1>3. OneActive'
  BY DEF OneActive
<1>4. ActiveIsValid'
  BY DEF OneActive, ActiveIsValid
<1> QED BY <1>1, <1>2, <1>3, <1>4

(* The device of an unused id gets its record anew; it is not active.       *)
LEMMA UnusedIdStep ==
    ASSUME SuspectsInv, NEW c \in Conns, UnusedId(c)
    PROVE  SuspectsInv'
<1> USE SuspectsAssumption
    DEF SuspectsInv, TypeOK, handler, disk, Registered, UnusedId, Data, Tolerated, Validated, Punish, GoesOn, MarkMAC, Goto
<1>1. TypeOK'
  OBVIOUS
<1>2. WarningsToCome'
  BY <1>1, KeepsWarnings DEF Keeps, MayMarkIP, MayMarkMAC
<1>3. OneActive'
  BY DEF OneActive
<1>4. ActiveIsValid'
  BY DEF OneActive, ActiveIsValid
<1> QED BY <1>1, <1>2, <1>3, <1>4

(* A device becomes active without a record.                                *)
LEMMA ActivateStep ==
    ASSUME SuspectsInv, NEW c \in Conns, Activate(c)
    PROVE  SuspectsInv'
<1> USE SuspectsAssumption
    DEF SuspectsInv, TypeOK, handler, disk, Registered, Activate, Data, Validated
<1>1. TypeOK'
  OBVIOUS
<1>2. WarningsToCome'
  BY <1>1, KeepsWarnings DEF Keeps, MayMarkIP, MayMarkMAC
<1>3. OneActive'
  BY DEF OneActive
<1>4. ActiveIsValid'
  BY DEF OneActive, ActiveIsValid
<1> QED BY <1>1, <1>2, <1>3, <1>4

(* Forgiving lowers the warnings of an address ...                          *)
LEMMA ForgiveIPStep ==
    ASSUME SuspectsInv, NEW i \in Ips, ForgiveIP(i)
    PROVE  SuspectsInv'
<1> USE SuspectsAssumption
    DEF SuspectsInv, TypeOK, handler, disk, Registered, ForgiveIP, RemoveSuspectedIP
<1>1. TypeOK'
  OBVIOUS
<1>2. WarningsToCome'
  BY <1>1, KeepsWarnings DEF Keeps, MayMarkIP, MayMarkMAC
<1>3. OneActive'
  BY DEF OneActive
<1>4. ActiveIsValid'
  BY DEF OneActive, ActiveIsValid
<1> QED BY <1>1, <1>2, <1>3, <1>4

(* ... and of a device, whose record goes.                                  *)
LEMMA ForgiveMacStep ==
    ASSUME SuspectsInv, NEW m \in Macs, ForgiveMac(m)
    PROVE  SuspectsInv'
<1> USE SuspectsAssumption
    DEF SuspectsInv, TypeOK, handler, disk, Registered, ForgiveMac, RemoveSuspectedMAC
<1>1. TypeOK'
  OBVIOUS
<1>2. WarningsToCome'
  BY <1>1, KeepsWarnings DEF Keeps, MayMarkIP, MayMarkMAC
<1>3. OneActive'
  BY DEF OneActive
<1>4. ActiveIsValid'
  BY DEF OneActive, ActiveIsValid
<1> QED BY <1>1, <1>2, <1>3, <1>4

(* A record that ages belongs to no active device.                          *)
LEMMA AgesStep ==
    ASSUME SuspectsInv, NEW m \in Macs, Ages(m)
    PROVE  SuspectsInv'
<1> USE SuspectsAssumption
    DEF SuspectsInv, TypeOK, handler, disk, Registered, Ages
<1>1. TypeOK'
  OBVIOUS
<1>2. WarningsToCome'
  BY <1>1, KeepsWarnings DEF Keeps, MayMarkIP, MayMarkMAC
<1>3. OneActive'
  BY DEF OneActive
<1>4. ActiveIsValid'
  BY DEF OneActive, ActiveIsValid
<1> QED BY <1>1, <1>2, <1>3, <1>4

(* The jobs never add a warning, nor take one away from nobody ...          *)
LEMMA UnMarkAllipStep ==
    ASSUME SuspectsInv, UnMarkAllip
    PROVE  SuspectsInv'
<1> USE SuspectsAssumption
    DEF SuspectsInv, TypeOK, handler, disk, Registered, UnMarkAllip, Unmarked
<1>1. TypeOK'
  OBVIOUS
<1>2. WarningsToCome'
  BY <1>1, KeepsWarnings DEF Keeps, MayMarkIP, MayMarkMAC
<1>3. OneActive'
  BY DEF OneActive
<1>4. ActiveIsValid'
  BY DEF OneActive, ActiveIsValid
<1> QED BY <1>1, <1>2, <1>3, <1>4

(* ... whichever threshold they go by.                                      *)
LEMMA UnMarkAllMacStep ==
    ASSUME SuspectsInv, UnMarkAllMac
    PROVE  SuspectsInv'
<1> USE SuspectsAssumption
    DEF SuspectsInv, TypeOK, handler, disk, Registered, UnMarkAllMac, Unmarked
<1>1. TypeOK'
  OBVIOUS
<1>2. WarningsToCome'
  BY <1>1, KeepsWarnings DEF Keeps, MayMarkIP, MayMarkMAC
<1>3. OneActive'
  BY DEF OneActive
<1>4. ActiveIsValid'
  BY DEF OneActive, ActiveIsValid
<1> QED BY <1>1, <1>2, <1>3, <1>4

(* The channel of the answers to setid has no part in the invariant.        *)
LEMMA ChannelEmptierStep ==
    ASSUME SuspectsInv, ChannelEmptier
    PROVE  SuspectsInv'
<1> USE SuspectsAssumption
    DEF SuspectsInv, TypeOK, handler, disk, Registered, ChannelEmptier
<1>1. TypeOK'
  OBVIOUS
<1>2. WarningsToCome'
  BY <1>1, KeepsWarnings DEF Keeps, MayMarkIP, MayMarkMAC
<1>3. OneActive'
  BY DEF OneActive
<1>4. ActiveIsValid'
  BY DEF OneActive, ActiveIsValid
<1> QED BY <1>1, <1>2, <1>3, <1>4

-----------------------------------------------------------------------------
(* Nothing is marked, nobody connected.                                     *)
LEMMA SuspectsInit ==
    ASSUME Init
    PROVE  SuspectsInv
<1> USE SuspectsAssumption DEF Init
<1>1. TypeOK
  BY DEF TypeOK, Registered
<1>2. WarningsToCome
  <2>1. Cardinality({}) = 0 /\ Cardinality(Conns) \in Nat
    BY FS_EmptySet, FS_CardinalityType
  <2>2. /\ \A i \in Ips : MayMarkIP(i) = {}
        /\ \A m \in Macs : MayMarkMAC(m) = {}
    BY DEF MayMarkIP, MayMarkMAC
  <2>3. /\ \A i \in Ips : Cardinality(MayMarkIP(i)) = 0
        /\ \A m \in Macs : Cardinality(MayMarkMAC(m)) = 0
    BY <2>1, <2>2, Zenon
  <2> QED BY <2>1, <2>3 DEF WarningsToCome
<1>3. OneActive /\ ActiveIsValid
  BY DEF OneActive, ActiveIsValid, Registered
<1> QED BY <1>1, <1>2, <1>3 DEF SuspectsInv

(* Every step preserves the inductive invariant.                            *)
LEMMA SuspectsStep ==
    ASSUME SuspectsInv, [Next]_vars
    PROVE  SuspectsInv'
<1>1. ASSUME NEW c \in Conns, Handler(c)
      PROVE  SuspectsInv'
  BY <1>1, AcceptStep, ReadMacStep, RefuseStep, NoMacStep, RecheckStep, MarkDoubtedStep,
     LeaveStep, FailureStep, AnswerStep, SetIdAnswerStep, SetIdFloodStep, TakenIdStep,
     UnsetIdStep, StrictIdStep, UnusedIdStep, ActivateStep
  DEF Handler
<1>2. CASE \E i \in Ips : ForgiveIP(i)
  BY <1>2, ForgiveIPStep
<1>3. CASE \E m \in Macs : ForgiveMac(m) \/ Ages(m)
  BY <1>3, ForgiveMacStep, AgesStep
<1>4. CASE UnMarkAllip \/ UnMarkAllMac \/ ChannelEmptier
  BY <1>4, UnMarkAllipStep, UnMarkAllMacStep, ChannelEmptierStep
<1>5. CASE UNCHANGED vars
  BY <1>5 DEF SuspectsInv, TypeOK, WarningsToCome, OneActive, ActiveIsValid, MayMarkIP,
     MayMarkMAC, vars, handler, disk
<1> QED BY <1>1, <1>2, <1>3, <1>4, <1>5 DEF Next

(* The inductive invariant holds in every reachable state.                  *)
THEOREM SuspectsInvariant == Spec => []SuspectsInv
BY SuspectsInit, SuspectsStep, PTL DEF Spec

(* The types: no step takes a warning from an address or a device that has  *)
(* none, no handler marks an address or a device it does not know.          *)
THEOREM SuspectsTypeCorrect == Spec => []TypeOK
BY SuspectsInvariant, PTL DEF SuspectsInv

(* However the handlers interleave their checks and their marks, warnings   *)
(* stay below the threshold plus the number of connections.                 *)
THEOREM SuspectsWarningsBounded == Spec => []WarningsBounded
<1>1. ASSUME SuspectsInv
      PROVE  WarningsBounded
  <2>1. /\ \A i \in Ips : MayMarkIP(i) \in SUBSET Conns
        /\ \A m \in Macs : MayMarkMAC(m) \in SUBSET Conns
    BY DEF MayMarkIP, MayMarkMAC
  <2>2. /\ \A i \in Ips : Cardinality(MayMarkIP(i)) \in Nat
        /\ \A m \in Macs : Cardinality(MayMarkMAC(m)) \in Nat
        /\ Cardinality(Conns) \in Nat
    BY <2>1, SuspectsAssumption, FS_Subset, FS_CardinalityType
  <2> QED BY <1>1, <2>2, SuspectsAssumption DEF SuspectsInv, TypeOK, WarningsToCome,
             WarningsBounded
<1> QED BY <1>1, SuspectsInvariant, PTL

(* No active device has a record for which it could be rejected.            *)
THEOREM SuspectsActiveIsValid == Spec => []ActiveIsValid
BY SuspectsInvariant, PTL DEF SuspectsInv

(* With malicious_control off nothing but an answer of the device itself or *)
(* a goroutine that its activation left behind forgives it, and a barred    *)
(* device has neither.                                                      *)
THEOREM SuspectsOffBarsForGood == Spec => OffBarsForGood
<1> DEFINE StaysBarred(m) ==
        CheckMAC(m) /\ m \notin forgiving /\ (\A c \in Conns : ~Serves(c, m))
            => CheckMAC(m)'
<1>1. ASSUME MalicioudMode = 0, SuspectsInv, Next, NEW m \in Macs,
             CheckMAC(m), m \notin forgiving, \A c \in Conns : ~Serves(c, m)
      PROVE  CheckMAC(m)'
  <2> USE SuspectsAssumption
      DEF SuspectsInv, TypeOK, CheckMAC, Danger, Serves, Registered, handler, disk
  <2>1. ASSUME NEW c \in Conns, Handler(c)
        PROVE  maliciousMac'[m] >= maliciousMac[m]
    <3>1. CASE \/ \E i \in Ips : Accept(c, i)
               \/ \E n \in Macs : ReadMac(c, n) \/ Refuse(c, n)
               \/ NoMac(c) \/ Recheck(c) \/ MarkDoubted(c) \/ Leave(c) \/ Activate(c)
      BY <1>1, <3>1 DEF Accept, ReadMac, Refuse, NoMac, Recheck, MarkDoubted, Leave, Activate
    <3>2. CASE \/ Failure(c) \/ SetIdFlood(c) \/ TakenId(c)
               \/ UnsetId(c) \/ StrictId(c) \/ UnusedId(c)
      BY <1>1, <3>2 DEF Failure, Fails, SetIdFlood, TakenId, UnsetId, StrictId, UnusedId,
         Tolerated, Punish, GoesOn, MarkMAC
    <3>3. CASE Answer(c) \/ SetIdAnswer(c)
      <4>1. mac[c] # m
        BY <1>1, <3>3 DEF Answer, SetIdAnswer
      <4> QED BY <1>1, <3>3, <4>1 DEF Answer, SetIdAnswer, Forgiven, LeavesSetId,
                 RemoveSuspectedMAC, Fails, Punish, GoesOn, MarkMAC
    <3> QED BY <2>1, <3>1, <3>2, <3>3 DEF Handler
  <2>2. ASSUME NEW n \in Macs, ForgiveMac(n)
        PROVE  maliciousMac'[m] = maliciousMac[m]
    BY <1>1, <2>2 DEF ForgiveMac, RemoveSuspectedMAC
  <2>3. CASE \/ \E i \in Ips : ForgiveIP(i)
             \/ \E n \in Macs : Ages(n)
             \/ UnMarkAllip \/ UnMarkAllMac \/ ChannelEmptier
    BY <1>1, <2>3 DEF ForgiveIP, Ages, UnMarkAllip, UnMarkAllMac, ChannelEmptier
  <2>4. TypeOK'
    BY <1>1, SuspectsStep DEF vars
  <2> QED BY <1>1, <2>1, <2>2, <2>3, <2>4 DEF Next
<1>2. ASSUME MalicioudMode = 0, SuspectsInv, [Next]_vars
      PROVE  [\A m \in Macs : StaysBarred(m)]_vars
  BY <1>1, <1>2
<1>3. CASE MalicioudMode = 0
  <2>1. SuspectsInv /\ [Next]_vars => [\A m \in Macs : StaysBarred(m)]_vars
    BY <1>2, <1>3
  <2> QED BY <2>1, SuspectsInvariant, PTL DEF Spec, OffBarsForGood
<1>4. CASE MalicioudMode # 0
  BY <1>4 DEF OffBarsForGood
<1> QED BY <1>3, <1>4
=============================================================================
