------------------------------- MODULE Suspects -----------------------------
(***************************************************************************)
(* The black lists of the sensor manager: the warnings against addresses    *)
(* and devices (storage/diskCache/maliciousip.go, maliciousmac.go), which   *)
(* the connection handlers give and take back (sensorManager/               *)
(* sensorHandler.go), which two jobs reduce once a day (diskCache/start.go) *)
(* and which bar connections; and the devices without a valid or used id    *)
(* (invaliddevices.go).                                                     *)
(*                                                                          *)
(* Abstractions.  Of a connection only what decides about warnings is kept: *)
(* which of several devices uses an id, the commands and the data are in    *)
(* Registry, Commands and Gate.  A record of invaliddevices is young until  *)
(* MaximumInvalidIDInternal is over, then old.  An address and a device are *)
(* marked in one step where the code marks both.                            *)
(***************************************************************************)
EXTENDS Naturals, FiniteSets

CONSTANTS
    Conns,              (* the handlers there may be at a time (MAXTCP)      *)
    Ips, Macs,          (* addresses and devices                             *)
    Defined,            (* the devices with an id in the configuration       *)
    Strict,             (* those of them that must send this id              *)
    MaliciousTriesIP,   (* warnings that bar an address                      *)
    MaliciousTriesMac,  (* warnings that bar a device                        *)
    MalicioudMode,      (* malicious_control: 0 is off                       *)
    FailureThreshold,   (* failures of a connection that are no warning yet  *)
    SecurityLength      (* answers to setid that may come at once            *)

None == "none"

ASSUME SuspectsAssumption ==
    /\ IsFiniteSet(Conns)
    /\ Ips \cap Macs = {} /\ None \notin Ips \cup Macs
    /\ Strict \subseteq Defined /\ Defined \subseteq Macs
    /\ MaliciousTriesIP \in Nat \ {0} /\ MaliciousTriesMac \in Nat \ {0}
    /\ MalicioudMode \in 0 .. 2
    /\ FailureThreshold \in Nat /\ SecurityLength \in Nat

VARIABLES
    pc,           (* where the handler of a connection is                    *)
    ip,           (* its address                                             *)
    mac,          (* its device, once that is known                          *)
    failures,     (* sensorDef.failures                                      *)
    named,        (* the connections with sensorDef.id # -1                  *)
    active,       (* the connections with sensorDef.active                   *)
    maliciousIp,  (* [Ips -> warnings]                                       *)
    maliciousMac, (* [Macs -> warnings]                                      *)
    invalid,      (* [Macs -> "none", "young" or "old"]: invalidDevices      *)
    forgiving,    (* addresses and devices a goroutine is about to forgive   *)
    setIds        (* the answers to setid in the channel                     *)

handler == <<pc, ip, mac, failures, named, active>>
disk == <<maliciousIp, maliciousMac, invalid>>
vars == <<handler, disk, forgiving, setIds>>

(* The handler is registered for its device.                                *)
Registered == {"served", "punished"}

Serves(c, m) == pc[c] \in Registered /\ mac[c] = m
Goto(c, place) == pc' = [pc EXCEPT ![c] = place]

(* The handler returns.                                                     *)
Return(c) ==
    /\ Goto(c, "free")
    /\ ip' = [ip EXCEPT ![c] = None]
    /\ mac' = [mac EXCEPT ![c] = None]
    /\ failures' = [failures EXCEPT ![c] = 0]
    /\ named' = named \ {c}
    /\ active' = active \ {c}

Init ==
    /\ pc = [c \in Conns |-> "free"]
    /\ ip = [c \in Conns |-> None]
    /\ mac = [c \in Conns |-> None]
    /\ failures = [c \in Conns |-> 0]
    /\ named = {}
    /\ active = {}
    /\ maliciousIp = [i \in Ips |-> 0]
    /\ maliciousMac = [m \in Macs |-> 0]
    /\ invalid = [m \in Macs |-> "none"]
    /\ forgiving = {}
    /\ setIds = 0

-----------------------------------------------------------------------------
(* Mutation: one warning more is tolerated.                                 *)
Danger_Strict(warnings, threshold) == warnings > threshold

Danger(warnings, threshold) == warnings >= threshold

CheckIP(i) == Danger(maliciousIp[i], MaliciousTriesIP)
CheckMAC(m) == Danger(maliciousMac[m], MaliciousTriesMac)
MarkIP(i) == maliciousIp' = [maliciousIp EXCEPT ![i] = @ + 1]
MarkMAC(m) == maliciousMac' = [maliciousMac EXCEPT ![m] = @ + 1]
RemoveSuspectedIP(i) == maliciousIp' = [maliciousIp EXCEPT ![i] = 0]
RemoveSuspectedMAC(m) == maliciousMac' = [maliciousMac EXCEPT ![m] = 0]

(* Mutation: who is just barred stays barred.                               *)
Unmarked_AtThreshold(warnings, threshold) ==
    IF warnings >= threshold THEN threshold
    ELSE IF warnings > 0 THEN warnings - 1 ELSE 0

(* Mutation: who has no warning is unmarked too.                            *)
Unmarked_BelowZero(warnings, threshold) ==
    IF warnings > threshold THEN threshold ELSE warnings - 1

(* What a day leaves of the warnings.                                       *)
Unmarked(warnings, threshold) ==
    IF warnings > threshold THEN threshold
    ELSE IF warnings > 0 THEN warnings - 1 ELSE 0

UnMarkAllip ==
    /\ MalicioudMode > 0
    /\ maliciousIp' = [i \in Ips |-> Unmarked(maliciousIp[i], MaliciousTriesIP)]
    /\ UNCHANGED <<handler, maliciousMac, invalid, forgiving, setIds>>

(* The job of the devices goes by the threshold of the addresses.           *)
UnMarkAllMac ==
    /\ MalicioudMode > 0
    /\ maliciousMac' = [m \in Macs |-> Unmarked(maliciousMac[m], MaliciousTriesIP)]
    /\ UNCHANGED <<handler, maliciousIp, invalid, forgiving, setIds>>

-----------------------------------------------------------------------------
(* A device connects from an address that is not barred.                    *)
Accept(c, i) ==
    /\ pc[c] = "free"
    /\ ~CheckIP(i)
    /\ Goto(c, "accepted")
    /\ ip' = [ip EXCEPT ![c] = i]
    /\ UNCHANGED <<mac, failures, named, active, disk, forgiving, setIds>>

(* No mac arrives; the handler waits before it marks the address.           *)
NoMac(c) ==
    /\ pc[c] = "accepted"
    /\ Goto(c, "doubted")
    /\ UNCHANGED <<ip, mac, failures, named, active, disk, forgiving, setIds>>

InUse(m) == \E d \in Conns : Serves(d, m)

(* The connection is registered; a goroutine will forgive its address.      *)
Register(c, m) ==
    /\ Goto(c, "served")
    /\ named' = IF m \in Defined THEN named \cup {c} ELSE named
    /\ forgiving' = forgiving \cup {ip[c]}

ReadMac(c, m) ==
    /\ pc[c] = "accepted"
    /\ ~CheckMAC(m)
    /\ mac' = [mac EXCEPT ![c] = m]
    /\ \/ InUse(m) /\ Goto(c, "waiting") /\ UNCHANGED <<named, forgiving>>
       \/ ~InUse(m) /\ Register(c, m)
    /\ UNCHANGED <<ip, failures, active, disk, setIds>>

(* The device is barred.                                                    *)
Refuse(c, m) ==
    /\ pc[c] = "accepted"
    /\ CheckMAC(m)
    /\ Return(c)
    /\ UNCHANGED <<disk, forgiving, setIds>>

(* After SensorTimeout the handler looks again.                             *)
Recheck(c) ==
    /\ pc[c] = "waiting"
    /\ IF InUse(mac[c]) THEN Goto(c, "doubted") /\ UNCHANGED <<named, forgiving>>
       ELSE Register(c, mac[c])
    /\ UNCHANGED <<ip, mac, failures, active, disk, setIds>>

(* Then it marks the address and returns.                                   *)
MarkDoubted(c) ==
    /\ pc[c] = "doubted"
    /\ MarkIP(ip[c])
    /\ Return(c)
    /\ UNCHANGED <<maliciousMac, invalid, forgiving, setIds>>

(* The goroutines that forgive.                                             *)
ForgiveIP(i) ==
    /\ i \in forgiving
    /\ forgiving' = forgiving \ {i}
    /\ RemoveSuspectedIP(i)
    /\ UNCHANGED <<handler, maliciousMac, invalid, setIds>>

(* Of the device also its record of invalidDevices is removed.              *)
ForgiveMac(m) ==
    /\ m \in forgiving
    /\ forgiving' = forgiving \ {m}
    /\ RemoveSuspectedMAC(m)
    /\ invalid' = [invalid EXCEPT ![m] = "none"]
    /\ UNCHANGED <<handler, maliciousIp, setIds>>

-----------------------------------------------------------------------------
(* The loop of the handler.  It leaves for the reasons in Registry ...      *)
Leave(c) ==
    /\ pc[c] \in Registered
    /\ Return(c)
    /\ UNCHANGED <<disk, forgiving, setIds>>

(* ... or it marks the device, waits, and then leaves.                      *)
Punish(c) == MarkMAC(mac[c]) /\ Goto(c, "punished")
GoesOn(c) == UNCHANGED <<pc, maliciousMac>>

(* sensorDef.failures after a failure: it counts if malicious_control is on. *)
Counted(c) == IF MalicioudMode > 0 THEN failures[c] + 1 ELSE failures[c]

(* A failed read, a wrong checksum, an answer nobody asked for.             *)
Fails(c) ==
    /\ failures' = [failures EXCEPT ![c] = Counted(c)]
    /\ IF Counted(c) > FailureThreshold THEN Punish(c) ELSE GoesOn(c)
    /\ UNCHANGED <<ip, mac, named, active, maliciousIp, invalid, forgiving>>

Failure(c) == pc[c] = "served" /\ Fails(c) /\ UNCHANGED setIds

(* The end of an answer to a command, whatever became of it: it was taken,  *)
(* the offer timed out, or its reading or the verdict about it was a failure *)
(* that is tolerated.                                                       *)
Forgiven(c) ==
    /\ RemoveSuspectedMAC(mac[c])
    /\ \/ UNCHANGED failures
       \/ Counted(c) <= FailureThreshold /\ failures' = [failures EXCEPT ![c] = Counted(c)]
    /\ UNCHANGED <<pc, ip, mac, named, active>>

Answer(c) ==
    /\ pc[c] = "served" /\ c \in active
    /\ Forgiven(c)
    /\ UNCHANGED <<maliciousIp, invalid, forgiving, setIds>>

(* After the verdict about an answer to setid the handler leaves, forgiving *)
(* the device; it does not when no verdict comes.                           *)
LeavesSetId(c) ==
    /\ RemoveSuspectedMAC(mac[c]) \/ UNCHANGED maliciousMac
    /\ Return(c)

(* An answer to setid: it needs room in a channel that is emptied slowly    *)
(* (maliciousSetIdDOS), and the connection need not be active.              *)
SetIdAnswer(c) ==
    /\ pc[c] = "served"
    /\ setIds < SecurityLength
    /\ setIds' = setIds + 1
    /\ \/ Fails(c)
       \/ Forgiven(c) /\ UNCHANGED <<maliciousIp, invalid, forgiving>>
       \/ LeavesSetId(c) /\ UNCHANGED <<maliciousIp, invalid, forgiving>>

(* There is no room: the device is marked.                                  *)
SetIdFlood(c) ==
    /\ pc[c] = "served"
    /\ setIds = SecurityLength
    /\ MarkIP(ip[c])
    /\ Punish(c)
    /\ UNCHANGED <<ip, mac, failures, named, active, invalid, forgiving, setIds>>

ChannelEmptier ==
    /\ setIds > 0
    /\ setIds' = setIds - 1
    /\ UNCHANGED <<handler, disk, forgiving>>

(* A data packet of a connection that is not active yet.                    *)
Data(c) == pc[c] = "served" /\ c \notin active

(* The id is the one of another active device.                              *)
TakenId(c) ==
    /\ Data(c)
    /\ active # {}
    /\ MarkIP(ip[c])
    /\ Punish(c)
    /\ UNCHANGED <<ip, mac, failures, named, active, invalid, forgiving, setIds>>

(* MarkInvalidDevice with what the handler makes of it, for a device with   *)
(* record r: it is marked if the record is too old, which is removed then.  *)
Tolerated(c, r) ==
    IF r = "old" THEN Punish(c) /\ invalid' = [invalid EXCEPT ![mac[c]] = "none"]
    ELSE GoesOn(c) /\ invalid' = [invalid EXCEPT ![mac[c]] = IF r = "none" THEN "young" ELSE r]

(* The id is 0xffff and there is no other.                                  *)
UnsetId(c) ==
    /\ Data(c)
    /\ c \notin named
    /\ Tolerated(c, invalid[mac[c]])
    /\ UNCHANGED <<ip, mac, failures, named, active, maliciousIp, forgiving, setIds>>

(* Mutation: the record of the device is left to the goroutine.             *)
Validated_Later(m) == invalid[m]

(* RemoveInvalidDevice: the record, as any other packet leaves it.          *)
Validated(m) == "none"

(* The id differs from the one of a strict device.                          *)
StrictId(c) ==
    /\ Data(c)
    /\ mac[c] \in Strict
    /\ invalid' = [invalid EXCEPT ![mac[c]] = Validated(mac[c])]
    /\ Punish(c)
    /\ UNCHANGED <<ip, mac, failures, named, active, maliciousIp, forgiving, setIds>>

(* No gate uses the id, which the connection keeps nevertheless: "we treat  *)
(* it as a sensor with an invalid id".                                      *)
UnusedId(c) ==
    /\ Data(c)
    /\ Tolerated(c, Validated(mac[c]))
    /\ named' = named \cup {c}
    /\ UNCHANGED <<ip, mac, failures, active, maliciousIp, forgiving, setIds>>

(* The id is good: the device is active, goroutines will forgive it.        *)
Activate(c) ==
    /\ Data(c)
    /\ invalid' = [invalid EXCEPT ![mac[c]] = Validated(mac[c])]
    /\ forgiving' = forgiving \cup {mac[c]}
    /\ named' = named \cup {c}
    /\ active' = active \cup {c}
    /\ UNCHANGED <<pc, ip, mac, failures, maliciousIp, maliciousMac, setIds>>

(* MaximumInvalidIDInternal passes.                                         *)
Ages(m) ==
    /\ invalid[m] = "young"
    /\ invalid' = [invalid EXCEPT ![m] = "old"]
    /\ UNCHANGED <<handler, maliciousIp, maliciousMac, forgiving, setIds>>

Handler(c) ==
    \/ \E i \in Ips : Accept(c, i)
    \/ \E m \in Macs : ReadMac(c, m) \/ Refuse(c, m)
    \/ NoMac(c) \/ Recheck(c) \/ MarkDoubted(c) \/ Leave(c)
    \/ Failure(c) \/ Answer(c) \/ SetIdAnswer(c) \/ SetIdFlood(c)
    \/ TakenId(c) \/ UnsetId(c) \/ StrictId(c) \/ UnusedId(c) \/ Activate(c)

Next ==
    \/ \E c \in Conns : Handler(c)
    \/ \E i \in Ips : ForgiveIP(i)
    \/ \E m \in Macs : ForgiveMac(m) \/ Ages(m)
    \/ UnMarkAllip \/ UnMarkAllMac
    \/ ChannelEmptier

Spec == Init /\ [][Next]_vars

(* The jobs run every day.                                                  *)
FairSpec == Spec /\ WF_vars(UnMarkAllip) /\ WF_vars(UnMarkAllMac)
-----------------------------------------------------------------------------
(* The types.  A handler that is busy has an address, one that got past its *)
(* mac has a device; warnings are never negative (maliciousip.go:70-78).    *)
TypeOK ==
    /\ pc \in [Conns -> {"free", "accepted", "doubted", "waiting"} \cup Registered]
    /\ ip \in [Conns -> Ips \cup {None}]
    /\ mac \in [Conns -> Macs \cup {None}]
    /\ failures \in [Conns -> Nat]
    /\ named \subseteq Conns /\ active \subseteq Conns
    /\ maliciousIp \in [Ips -> Nat]
    /\ maliciousMac \in [Macs -> Nat]
    /\ invalid \in [Macs -> {"none", "young", "old"}]
    /\ forgiving \subseteq Ips \cup Macs
    /\ setIds \in 0 .. SecurityLength
    /\ \A c \in Conns : pc[c] # "free" => ip[c] \in Ips
    /\ \A c \in Conns : pc[c] \in Registered \cup {"waiting"} => mac[c] \in Macs

(* The handlers that passed the check and may still give a warning.         *)
MayMarkIP(i) == {c \in Conns : ip[c] = i /\ pc[c] \notin {"free", "punished"}}
MayMarkMAC(m) == {c \in Conns : mac[c] = m /\ pc[c] \in {"waiting", "served"}}

(* The warnings given and those that may still come, together.              *)
WarningsToCome ==
    /\ \A i \in Ips :
        maliciousIp[i] + Cardinality(MayMarkIP(i)) < MaliciousTriesIP + Cardinality(Conns)
    /\ \A m \in Macs :
        maliciousMac[m] + Cardinality(MayMarkMAC(m)) < MaliciousTriesMac + Cardinality(Conns)

(* The active connections are among the registered ones, one per device.    *)
OneActive ==
    /\ \A c \in active : pc[c] \in Registered
    /\ \A c, d \in Conns :
        pc[c] \in Registered /\ pc[d] \in Registered /\ mac[c] = mac[d] => c = d

(* maliciousip.go:12-60 with sensorHandler.go:155-197: however many         *)
(* handlers passed their check before the first of them marks, each of them *)
(* gives one warning at most: the counters, which have 32 bits on the disk, *)
(* stay below the threshold plus the number of connections.                 *)
WarningsBounded ==
    /\ \A i \in Ips : maliciousIp[i] < MaliciousTriesIP + Cardinality(Conns)
    /\ \A m \in Macs : maliciousMac[m] < MaliciousTriesMac + Cardinality(Conns)

(* maliciousip.go:62-90, diskCache/start.go:98-102: no ban is for ever,     *)
(* although the devices are unmarked by the threshold of the addresses and  *)
(* connections that are still open go on marking.                           *)
BansEnd ==
    /\ \A i \in Ips : CheckIP(i) ~> ~CheckIP(i)
    /\ \A m \in Macs : CheckMAC(m) ~> ~CheckMAC(m)

(* sensorHandler.go:485-513: an active device has no record in              *)
(* invalidDevices, from which a later packet would get it rejected.         *)
ActiveIsValid == \A c \in active : invalid[mac[c]] = "none"

(* The inductive invariant.                                                 *)
SuspectsInv == TypeOK /\ WarningsToCome /\ OneActive /\ ActiveIsValid

(* gateserver.ini:27, sensorHandler.go:539-555: a device whose id nobody    *)
(* uses is treated as one with an invalid id, and marked and disconnected   *)
(* when its record is too old.  The code never does: sensorHandler.go:511   *)
(* has removed the record before 541 asks for its age.                      *)
UnusedIsRejected ==
    [][\A c \in Conns :
        UnusedId(c) /\ invalid[mac[c]] = "old" => pc'[c] = "punished"]_vars

(* malicious_control off (gateserver.ini:20) takes the jobs away and leaves *)
(* the checks: who is barred and not connected stays barred.                *)
OffBarsForGood ==
    MalicioudMode = 0 => [][\A m \in Macs :
        CheckMAC(m) /\ m \notin forgiving /\ (\A c \in Conns : ~Serves(c, m))
            => CheckMAC(m)']_vars
=============================================================================
