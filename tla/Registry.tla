------------------------------ MODULE Registry ------------------------------
(***************************************************************************)
(* The connections of the sensors (sensorManager/tcpserver.go and           *)
(* sensorHandler.go): one handler goroutine per TCP connection, from the    *)
(* token it takes to the token it returns, one command process per          *)
(* registered connection, and what they keep together: ActiveSensors and    *)
(* the tables of the disk cache (activeDevices, lookup).                    *)
(*                                                                          *)
(* Abstractions.  The tables of banned addresses and of devices without a   *)
(* valid id are not kept: a check of them may answer either way.  The       *)
(* handler may leave its loop at any packet (Return): the device closes,    *)
(* a read or the disk cache fails, failures add up, setid is answered, the  *)
(* EEPROM refresh fails.  Of the command process only its life is modelled, *)
(* of a command to it (enforce) only whether it was accepted; that it also  *)
(* ends over answers nobody asked for is left out with the answers.  The    *)
(* helper goroutine of the cleanup that takes the reset back acts at once:  *)
(* its timeout is SensorTimeout nanoseconds.                                *)
(***************************************************************************)
EXTENDS Integers, FiniteSets

CONSTANTS
    Conns,       (* the TCP connections, one after the other or together     *)
    Macs,        (* the devices                                              *)
    Ids,         (* the ids there may be, the invalid id Unset among them    *)
    Unset,       (* 0xffff, the id of a device that has none                 *)
    DefinedId,   (* [Macs -> Ids or NoId]: the [sensors] section             *)
    Tag,         (* [Macs -> {"bypass", "enforce", "strict"}]                *)
    Used,        (* the ids some gate uses                                   *)
    MaxTcp,      (* MAXTCP, the number of tokens                             *)
    MaxStuck     (* bound on the entries left by deletes that failed         *)

NoId == -1
None == "none"
Byte(i) == i % 256
Keys == {Byte(i) : i \in Ids}

ASSUME RegistryAssumption ==
    /\ Ids \subseteq Nat /\ {0, Unset} \subseteq Ids
    /\ None \notin Macs /\ None \notin Conns
    /\ DefinedId \in [Macs -> (Ids \ {Unset}) \cup {NoId}]
    /\ Tag \in [Macs -> {"bypass", "enforce", "strict"}]
    /\ \A m \in Macs : DefinedId[m] = NoId => Tag[m] = "bypass"
    /\ Used \subseteq Ids \ {Unset}
    /\ MaxTcp \in Nat \ {0}
    /\ MaxStuck \in Nat

VARIABLES
    tokens,      (* the free tokens                                          *)
    pc,          (* where the handler of a connection is                     *)
    mac,         (* sensorDef.mac                                            *)
    id,          (* sensorDef.id                                             *)
    channels,    (* sensorDef.channels: the connection they were made for    *)
    process,     (* the command process of a connection                      *)
    activeMac,   (* ActiveSensors.Mac: the connection a device is served by  *)
    activeId,    (* ActiveSensors.Id: the device that uses an id             *)
    device,      (* the table activeDevices                                  *)
    lookup,      (* the table lookup: the device of an id, by its last byte  *)
    stuckDevices, (* history: devices whose entry could not be deleted       *)
    stuckKeys    (* history: keys of lookup that could not be deleted        *)

sensorDef == <<mac, id, channels>>
stuck == <<stuckDevices, stuckKeys>>
shared == <<activeMac, activeId, device, lookup, stuck>>
vars == <<tokens, pc, sensorDef, process, shared>>

Goto(c, place) == pc' = [pc EXCEPT ![c] = place]

(* The handler waits for a packet, or is busy with one.                     *)
InLoop == {"inactive", "adding", "marking", "activating", "active"}
(* It has registered its connection and not removed it yet.                 *)
Registered == InLoop \cup {"registered", "closing", "unregistering"}

-----------------------------------------------------------------------------
Init ==
    /\ tokens = MaxTcp
    /\ pc = [c \in Conns |-> "none"]
    /\ mac = [c \in Conns |-> None]
    /\ id = [c \in Conns |-> 0]
    /\ channels = [c \in Conns |-> None]
    /\ process = [c \in Conns |-> None]
    /\ activeMac = [m \in Macs |-> None]
    /\ activeId = [i \in Ids |-> None]
    /\ device = [m \in Macs |-> None]
    /\ lookup = [b \in Keys |-> None]
    /\ stuckDevices = {}
    /\ stuckKeys = {}

(* Mutation: the last token is taken twice.                                 *)
HasToken_OffByOne == tokens >= 0

HasToken == tokens > 0

(* A device connects; without a token in time its connection is closed.     *)
Accept(c) ==
    /\ pc[c] = "none"
    /\ IF HasToken
       THEN tokens' = tokens - 1 /\ Goto(c, "accepted")
       ELSE tokens' = tokens /\ Goto(c, "closed")
    /\ UNCHANGED <<sensorDef, process, shared>>

(* The address or the mac is banned, or no mac arrives: the handler returns *)
(* with its sensor definition still empty, which is id 0.                   *)
Refuse(c) ==
    /\ pc[c] = "accepted"
    /\ Goto(c, "closing")
    /\ UNCHANGED <<tokens, sensorDef, process, shared>>

(* Mutation: only the first look at ActiveSensors counts.                   *)
InUse_FirstLook(c, m) == pc[c] = "accepted" /\ activeMac[m] # None

(* Another connection serves this device.                                   *)
InUse(c, m) == activeMac[m] # None

(* The connection is made the one of its device and served.                 *)
Register(c, m) ==
    /\ ~InUse(c, m)
    /\ channels' = [channels EXCEPT ![c] = c]
    /\ activeMac' = [activeMac EXCEPT ![m] = c]
    /\ process' = [process EXCEPT ![c] = "running"]
    /\ Goto(c, "registered")

(* The mac arrives and the definition is read.  When the device has another *)
(* connection the handler gives it time to end.                             *)
ReadMac(c, m) ==
    /\ pc[c] = "accepted"
    /\ mac' = [mac EXCEPT ![c] = m]
    /\ id' = [id EXCEPT ![c] = DefinedId[m]]
    /\ \/ Register(c, m)
       \/ /\ InUse(c, m)
          /\ channels' = [channels EXCEPT ![c] = activeMac[m]]
          /\ Goto(c, "waiting")
          /\ UNCHANGED <<process, activeMac>>
    /\ UNCHANGED <<tokens, activeId, device, lookup, stuck>>

(* The time is over.  If the other connection is still there this one is    *)
(* refused, and has the channels of the other one.                          *)
Recheck(c) ==
    /\ pc[c] = "waiting"
    /\ \/ Register(c, mac[c]) /\ UNCHANGED mac
       \/ /\ InUse(c, mac[c])
          /\ channels' = [channels EXCEPT ![c] = activeMac[mac[c]]]
          /\ mac' = [mac EXCEPT ![c] = None]
          /\ Goto(c, "closing")
          /\ UNCHANGED <<process, activeMac>>
    /\ UNCHANGED <<tokens, id, activeId, device, lookup, stuck>>

(* MarkDeviceNotActive; then the loop begins.                               *)
List(c) ==
    /\ pc[c] = "registered"
    /\ device' = [device EXCEPT ![mac[c]] = "0"]
    /\ stuckDevices' = stuckDevices \ {mac[c]}
    /\ Goto(c, "inactive")
    /\ UNCHANGED <<tokens, sensorDef, process, activeMac, activeId, lookup, stuckKeys>>

-----------------------------------------------------------------------------
(* The id of the definition, or the one sent when there is none.            *)
IdToBeChecked(c, sent) == IF id[c] = NoId THEN sent ELSE id[c]

(* What a data packet of a device that is not active leads to: the place    *)
(* where the handler goes on and the id.  A device that has to be given     *)
(* time stays inactive until the time is over.                              *)
Outcomes(c, sent) ==
    LET known    == IdToBeChecked(c, sent)
        tag      == Tag[mac[c]]
        mismatch == sent # id[c]
        waits(j) == {"inactive", "closing"} \X {j}
    IN  IF activeId[known] # None THEN {<<"closing", id[c]>>}
        ELSE (IF mismatch /\ tag = "enforce" THEN waits(id[c]) ELSE {}) \cup
             (IF known = Unset THEN waits(id[c])
              ELSE IF mismatch /\ tag = "strict" THEN {<<"closing", id[c]>>}
              ELSE IF known \notin Used THEN waits(known)
              ELSE {<<"adding", known>>})

(* A data packet with id sent, the device not being active yet.             *)
FirstPacket(c, sent) ==
    /\ pc[c] = "inactive"
    /\ \E o \in Outcomes(c, sent) :
        /\ Goto(c, o[1])
        /\ id' = [id EXCEPT ![c] = o[2]]
    /\ UNCHANGED <<tokens, mac, channels, process, shared>>

(* AddLookUp, which keeps one byte of the id.                               *)
AddLookUp(c) ==
    /\ pc[c] = "adding"
    /\ lookup' = [lookup EXCEPT ![Byte(id[c])] = mac[c]]
    /\ stuckKeys' = stuckKeys \ {Byte(id[c])}
    /\ Goto(c, "marking")
    /\ UNCHANGED <<tokens, sensorDef, process, activeMac, activeId, device, stuckDevices>>

MarkDeviceActive(c) ==
    /\ pc[c] = "marking"
    /\ device' = [device EXCEPT ![mac[c]] = "1"]
    /\ stuckDevices' = stuckDevices \ {mac[c]}
    /\ Goto(c, "activating")
    /\ UNCHANGED <<tokens, sensorDef, process, activeMac, activeId, lookup, stuckKeys>>

(* The id is taken; from now on the samples go to the gates.                *)
Activate(c) ==
    /\ pc[c] = "activating"
    /\ activeId' = [activeId EXCEPT ![id[c]] = mac[c]]
    /\ Goto(c, "active")
    /\ UNCHANGED <<tokens, sensorDef, process, activeMac, device, lookup, stuck>>

Return(c) ==
    /\ pc[c] \in (InLoop \ {"activating"}) \cup {"registered"}
    /\ Goto(c, "closing")
    /\ UNCHANGED <<tokens, sensorDef, process, shared>>

-----------------------------------------------------------------------------
(* The cleanup.  The command process of the channels at hand is told to     *)
(* end, which it does unless the helper takes the message back first; a     *)
(* refused connection has nothing to unregister.                            *)
Stop(c) ==
    /\ pc[c] = "closing"
    /\ LET h == channels[c] IN
        IF h = None THEN UNCHANGED process
        ELSE \E p \in {process[h], "ended"} : process' = [process EXCEPT ![h] = p]
    /\ Goto(c, IF mac[c] = None THEN "unlooking" ELSE "unregistering")
    /\ UNCHANGED <<tokens, sensorDef, shared>>

(* Mutation: the id stays taken.                                            *)
FreeId_Forgotten(c) == activeId

(* The id of c is not taken any more.                                       *)
FreeId(c) == [i \in Ids |-> IF i = id[c] THEN None ELSE activeId[i]]

Unregister(c) ==
    /\ pc[c] = "unregistering"
    /\ activeId' = FreeId(c)
    /\ activeMac' = [activeMac EXCEPT ![mac[c]] = None]
    /\ Goto(c, "unlisting")
    /\ UNCHANGED <<tokens, sensorDef, process, device, lookup, stuck>>

(* A delete fails.                                                          *)
MayFail == Cardinality(stuckDevices) + Cardinality(stuckKeys) < MaxStuck

(* DeleteDevice, whose error is ignored: the entry stays if it fails.       *)
Unlist(c) ==
    /\ pc[c] = "unlisting"
    /\ \/ /\ device' = [device EXCEPT ![mac[c]] = None]
          /\ stuckDevices' = stuckDevices \ {mac[c]}
       \/ /\ MayFail /\ device[mac[c]] # None
          /\ device' = device
          /\ stuckDevices' = stuckDevices \cup {mac[c]}
    /\ Goto(c, "unlooking")
    /\ UNCHANGED <<tokens, sensorDef, process, activeMac, activeId, lookup, stuckKeys>>

(* Mutation: the key is not cut to one byte.                                *)
Stale_WholeId(c, b) == id[c] # NoId /\ id[c] = b

(* The key that is deleted with the connection.                             *)
Stale(c, b) == id[c] # NoId /\ Byte(id[c]) = b

(* Mutation: only a device that was registered gives its token back.        *)
Returned_Registered(c) == IF mac[c] = None THEN tokens ELSE tokens + 1

(* The free tokens when the handler of c has ended.                         *)
Returned(c) == tokens + 1

(* DeleteLookUp, whose error is ignored as well, and the end: the connection *)
(* is closed, the token returned.                                           *)
Close(c) ==
    /\ pc[c] = "unlooking"
    /\ LET keys == {b \in Keys : Stale(c, b)} IN
        \/ /\ lookup' = [b \in Keys |-> IF b \in keys THEN None ELSE lookup[b]]
           /\ stuckKeys' = stuckKeys \ keys
        \/ /\ MayFail /\ \E b \in keys : lookup[b] # None
           /\ lookup' = lookup
           /\ stuckKeys' = stuckKeys \cup keys
    /\ tokens' = Returned(c)
    /\ Goto(c, "closed")
    /\ UNCHANGED <<sensorDef, process, activeMac, activeId, device, stuckDevices>>

-----------------------------------------------------------------------------
(* Mutation: a device that is connected again is not looked at.             *)
IsZombie_Absent(c) == activeMac[mac[c]] = None

(* The connection the process serves is not the one of the device.          *)
IsZombie(c) == activeMac[mac[c]] # c

(* The zombie timeout: the process ends by itself.                          *)
EndZombie(c) ==
    /\ process[c] = "running"
    /\ IsZombie(c)
    /\ process' = [process EXCEPT ![c] = "ended"]
    /\ UNCHANGED <<tokens, pc, sensorDef, shared>>

Handle(c) ==
    \/ Recheck(c) \/ List(c) \/ AddLookUp(c) \/ MarkDeviceActive(c) \/ Activate(c)
    \/ Stop(c) \/ Unregister(c) \/ Unlist(c) \/ Close(c)

Next ==
    \E c \in Conns :
        \/ Accept(c) \/ Refuse(c) \/ Return(c)
        \/ \E m \in Macs : ReadMac(c, m)
        \/ \E sent \in Ids : FirstPacket(c, sent)
        \/ Handle(c)
        \/ EndZombie(c)

Spec == Init /\ [][Next]_vars

(* The goroutines are scheduled and the zombie timer fires; devices need    *)
(* not connect, send or disconnect.                                         *)
Fairness ==
    \A c \in Conns : WF_vars(Handle(c)) /\ WF_vars(EndZombie(c))

FairSpec == Spec /\ Fairness

-----------------------------------------------------------------------------
TypeOK ==
    /\ tokens \in 0 .. MaxTcp
    /\ pc \in [Conns -> Registered \cup
                {"none", "accepted", "waiting", "unlisting", "unlooking", "closed"}]
    /\ mac \in [Conns -> Macs \cup {None}]
    /\ id \in [Conns -> Ids \cup {NoId}]
    /\ channels \in [Conns -> Conns \cup {None}]
    /\ process \in [Conns -> {None, "running", "ended"}]
    /\ activeMac \in [Macs -> Conns \cup {None}]
    /\ activeId \in [Ids -> Macs \cup {None}]
    /\ device \in [Macs -> {None, "0", "1"}]
    /\ lookup \in [Keys -> Macs \cup {None}]
    /\ stuckDevices \subseteq Macs /\ stuckKeys \subseteq Keys

(* sensorHandler.go:226-265, 132-137: ActiveSensors has for every device    *)
(* the one connection that serves it, whatever reconnects, waits, is        *)
(* refused and cleans up meanwhile: no connection is ever replaced or       *)
(* removed by the handler of another.                                       *)
RegisteredOnce ==
    /\ \A c \in Conns :
        pc[c] \in Registered /\ mac[c] # None => activeMac[mac[c]] = c
    /\ \A m \in Macs : activeMac[m] # None =>
        pc[activeMac[m]] \in Registered /\ mac[activeMac[m]] = m

(* sensorHandler.go:395-415, 590-592: an id that is taken is taken by a     *)
(* device that is connected and uses it; otherwise every later connection   *)
(* with that id would be refused, and its address marked, for nothing.      *)
IdsAreInUse ==
    \A i \in Ids : activeId[i] # None =>
        \E c \in Conns : /\ mac[c] = activeId[i] /\ id[c] = i
                         /\ pc[c] \in {"active", "closing", "unregistering"}

(* sensorHandler.go:297, 581, 588, 138, 143: what the disk cache says of a  *)
(* device never outlives the handler that wrote it, although handlers of    *)
(* the same device or with ids of the same last byte overwrite each other.  *)
(* What could not be deleted stays, until it is written or deleted again:   *)
(* nothing else of that device, or of another, ever does.                   *)
NoLeftovers ==
    /\ \A b \in Keys \ stuckKeys : lookup[b] # None =>
        \E c \in Conns : /\ mac[c] = lookup[b] /\ id[c] # NoId /\ Byte(id[c]) = b
                         /\ pc[c] \in (Registered \ {"registered", "inactive", "adding"})
                                      \cup {"unlisting", "unlooking"}
    /\ \A m \in Macs \ stuckDevices : device[m] # None =>
        \E c \in Conns : mac[c] = m /\ pc[c] \in (Registered \ {"registered"}) \cup {"unlisting"}

(* The handlers that hold a token.                                          *)
Served == {c \in Conns : pc[c] \notin {"none", "closed"}}

(* tcpserver.go:44-64, sensorHandler.go:147: a token is missing for every   *)
(* handler that runs and for no other reason, whatever way the others ended *)
(* in; a token lost would be one device less for good.                      *)
TokensAreHeld == IsFiniteSet(Served) /\ tokens = MaxTcp - Cardinality(Served)

(* A handler has no device before its mac arrives, one while it is          *)
(* registered, and an id once a data packet has been accepted.              *)
SensorIsDefined ==
    \A c \in Conns :
        /\ pc[c] \in {"none", "accepted"} => mac[c] = None
        /\ pc[c] \in InLoop \cup {"registered", "waiting", "unregistering", "unlisting"} =>
            mac[c] # None
        /\ pc[c] \in InLoop \ {"inactive"} => id[c] # NoId

(* The inductive invariant behind the theorems of RegistryProofs.           *)
RegistryInv ==
    /\ TypeOK
    /\ RegisteredOnce
    /\ IdsAreInUse
    /\ NoLeftovers
    /\ TokensAreHeld
    /\ SensorIsDefined

(* sensorHandler.go:113-131, commandhandler.go:25-52: a command process     *)
(* that missed the end of its connection ends by itself, also when its      *)
(* device is connected again.                                               *)
ProcessesEnd == \A c \in Conns : (pc[c] = "closed") ~> (process[c] \in {None, "ended"})

(* README.md:340-350: commands are for a device which is connected and      *)
(* valid, which can then be specified by id or mac: an active device is     *)
(* found by its id and its commands are processed.                          *)
ActiveIsCommandable ==
    \A c \in Conns : pc[c] = "active" =>
        lookup[Byte(id[c])] = mac[c] /\ process[c] = "running"

-----------------------------------------------------------------------------
(* A connection is over when its handler has removed its registration, or   *)
(* has found in its cleanup that there is none.                             *)
Serving == INSTANCE Service WITH
    Nobody <- None,
    server <- activeMac,
    over <- {c \in Conns : pc[c] \in {"unlisting", "unlooking", "closed"}}

(* tcpserver.go:36-84, sensorHandler.go:113-272: whatever way the handlers  *)
(* of a device follow each other, wait and clean up, each serves it once    *)
(* and until it ends by itself.                                             *)
KeepsService == Serving!Spec
=============================================================================
