--------------------------- MODULE LifecycleProofs -------------------------
(***************************************************************************)
(* Theorems about Lifecycle, for every list of managers, all numbers of     *)
(* processes and all orders in which they stop.                             *)
(*                                                                          *)
(* The argument for DoneMeansTold: a manager gets rid of a request only     *)
(* when some process takes it (ChannelsAreHeard).  A calculator may listen  *)
(* to the channel of another one, but to one channel only.  As many         *)
(* channels as calculators can therefore be heard by all of them only.      *)
(***************************************************************************)
EXTENDS Lifecycle, FiniteSetTheorems, TLAPS

(* A manager in a new phase has the same processes left.                    *)
LEMMA PhaseChanges ==
    ASSUME ManagersOK, NEW m, NEW now \in Phases, Phase(m, now)
    PROVE  /\ ManagersOK'
           /\ \A n \in Names :
                /\ manager'[n].left = manager[n].left
                /\ manager'[n].phase = IF n = m THEN now ELSE manager[n].phase
BY DEF ManagersOK, Phase

(* A manager that goes on to process p waits for it.                        *)
LEMMA ProceedsTo ==
    ASSUME ManagersOK, NEW m \in Names, NEW p \in Processes[m], Proceeds(m, p)
    PROVE  /\ ManagersOK'
           /\ manager'[m].left = manager[m].left \ {p} /\ manager'[m].phase = "awaiting"
           /\ \A n \in Names \ {m} : manager'[n] = manager[n]
<1>1. p \in AllProcesses
  BY DEF AllProcesses
<1> QED BY <1>1 DEF ManagersOK, Proceeds, Phases

(* One process has a new status.                                            *)
LEMMA StatusChanges ==
    ASSUME ProcessesOK, NEW m \in Names, NEW p \in Processes[m], NEW now \in Statuses,
           Status(m, p, now)
    PROVE  ProcessesOK'
<1> DEFINE new == [process[m] EXCEPT ![p] = now]
<1>1. new \in [Processes[m] -> Statuses]
  BY DEF ProcessesOK
<1>2. process' = [n \in Names |-> IF n = m THEN new ELSE process[n]]
  BY DEF ProcessesOK, Status
<1> HIDE DEF new
<1> QED BY <1>1, <1>2 DEF ProcessesOK

(* What the program has in memory when it starts anew.                      *)
LEMMA Afresh ==
    ASSUME manager' = [m \in Names |-> Starting],
           process' = [m \in Names |-> [p \in Processes[m] |-> "running"]]
    PROVE  ManagersOK' /\ ProcessesOK' /\ ChannelsAreHeard' /\ DoneLeftNone'
           /\ AskedWhenClosing'
<1>1. ManagersOK' /\ ChannelsAreHeard' /\ DoneLeftNone' /\ AskedWhenClosing'
  BY DEF ManagersOK, Starting, Phases, ChannelsAreHeard, DoneLeftNone,
     AskedWhenClosing, Asked
<1>2. \A m \in Names : process'[m] \in [Processes[m] -> Statuses]
  BY DEF Statuses
<1> QED BY <1>1, <1>2 DEF ProcessesOK

(* One more is a number.                                                    *)
LEMMA OneMore == \A n \in Nat : n + 1 \in Nat
OBVIOUS

(* A register with another count.                                           *)
LEMMA NewCount ==
    ASSUME NEW r \in Registers, NEW n \in Nat
    PROVE  [r EXCEPT !.count = n] \in Registers
BY DEF Registers

(* Somebody counted, by the space and perhaps by its calculator.            *)
LEMMA CountsOne ==
    ASSUME DataOK, NEW s \in Spaces, register' = [register EXCEPT ![s].count = @ + 1],
           snapshot' = snapshot \/ snapshot' = [snapshot EXCEPT ![s] = @ + 1],
           recovery' = recovery, left' = left
    PROVE  DataOK'
<1> DEFINE n == register[s].count + 1
           k == snapshot[s] + 1
<1>1. register \in [Spaces -> Registers] /\ snapshot \in [Spaces -> Nat]
  BY DEF DataOK
<1>2. register[s].count \in Nat
  BY <1>1 DEF Registers
<1>3. n \in Nat
  BY <1>2, OneMore
<1>4. snapshot[s] \in Nat
  BY <1>1
<1>5. k \in Nat
  BY <1>4, OneMore
<1>6. register' = [register EXCEPT ![s] = [register[s] EXCEPT !.count = n]]
  BY <1>1
<1>7. snapshot' = snapshot \/ snapshot' = [snapshot EXCEPT ![s] = k]
  BY <1>1
<1> HIDE DEF n, k
<1>8. register' \in [Spaces -> Registers]
  BY <1>1, <1>3, <1>6, NewCount
<1>9. snapshot' \in [Spaces -> Nat]
  BY <1>1, <1>5, <1>7
<1> QED BY <1>8, <1>9 DEF DataOK

(* A process saves what it has, or it does not.                             *)
LEMMA SavesRecord ==
    ASSUME DataOK, NEW m \in Names, NEW p \in Processes[m], Saves(m, p),
           register' = register, snapshot' = snapshot
    PROVE  DataOK'
<1> USE LifecycleAssumption
<1>1. CASE m = "space"
  <2>1. p \in Spaces
    BY <1>1 DEF Spaces
  <2>2. register[p].count \in Nat
    BY <2>1 DEF DataOK, Registers
  <2>3. State(register[p].count) \in Records
    BY <2>2 DEF State, Records
  <2>4. recovery' \in [Spaces -> Records]
    BY <1>1, <2>1, <2>3 DEF Saves, DataOK
  <2>5. left' \in [Spaces -> Nat]
    BY <1>1, <2>1, <2>2 DEF Saves, DataOK
  <2> QED BY <2>4, <2>5 DEF DataOK
<1>2. CASE m = "avgs"
  <2>1. p \in Spaces
    BY <1>2 DEF Spaces
  <2>2. snapshot[p] \in Nat
    BY <2>1 DEF DataOK
  <2>3. Snapshot(snapshot[p]) \in Records
    BY <2>2 DEF Snapshot, Records
  <2>4. recovery' \in [Spaces -> Records] /\ left' = left
    BY <1>2, <2>1, <2>3 DEF Saves, DataOK
  <2> QED BY <2>4 DEF DataOK
<1>3. CASE m # "space" /\ m # "avgs"
  BY <1>3 DEF Saves, DataOK
<1> QED BY <1>1, <1>2, <1>3

(* What was heard stays heard while the server runs.                        *)
LEMMA HeardStays ==
    ASSUME ChannelsAreHeard, told \subseteq told', rst' = rst,
           \A m \in Names \ Buffered : Asked(m)' =>
               \A p \in Processes[m] \ manager'[m].left :
                   \/ Asked(m) /\ p \notin manager[m].left
                   \/ Heard(m, p)'
    PROVE  ChannelsAreHeard'
<1>1. \A m \in Names : \A p \in Processes[m] : Heard(m, p) => Heard(m, p)'
  BY DEF Heard
<1> QED BY <1>1 DEF ChannelsAreHeard

(* A manager that was asked already changes its phase: what was heard, and  *)
(* what is left, stays.                                                     *)
LEMMA PhaseKeeps ==
    ASSUME ManagersOK, ChannelsAreHeard, DoneLeftNone,
           NEW m, NEW now \in Phases, Phase(m, now), Asked(m),
           UNCHANGED <<told, rst>>,
           m \in Names /\ now \in {"done", "over"} => manager[m].left = {}
    PROVE  ChannelsAreHeard' /\ DoneLeftNone'
<1>1. \A n \in Names :
        /\ manager'[n].left = manager[n].left
        /\ manager'[n].phase = IF n = m THEN now ELSE manager[n].phase
  BY PhaseChanges
<1>2. ChannelsAreHeard'
  BY <1>1, HeardStays DEF Asked
<1>3. DoneLeftNone'
  BY <1>1 DEF DoneLeftNone
<1> QED BY <1>2, <1>3

(* A manager goes on to process p: of its processes no other changes.       *)
LEMMA ProceedsKeeps ==
    ASSUME ManagersOK, ChannelsAreHeard, NEW m \in Names, NEW p \in Processes[m],
           Proceeds(m, p), Asked(m), told \subseteq told', rst' = rst,
           m \in Buffered \/ Heard(m, p)'
    PROVE  ChannelsAreHeard'
<1>1. /\ manager'[m].left = manager[m].left \ {p}
      /\ \A n \in Names \ {m} : manager'[n] = manager[n]
  BY ProceedsTo
<1>2. ASSUME NEW n \in Names \ Buffered, Asked(n)',
             NEW q \in Processes[n] \ manager'[n].left
      PROVE  (Asked(n) /\ q \notin manager[n].left) \/ Heard(n, q)'
  <2>1. CASE n = m
    <3>1. q = p \/ q \notin manager[m].left
      BY <1>1, <1>2, <2>1
    <3> QED BY <1>2, <2>1, <3>1
  <2>2. CASE n # m
    BY <1>1, <1>2, <2>2 DEF Asked
  <2> QED BY <2>1, <2>2
<1> QED BY <1>2, HeardStays

(* A start: nothing is heard or asked yet, what was saved is kept.          *)
LEMMA StartStep ==
    ASSUME LifecycleInv, Start
    PROVE  LifecycleInv'
<1> USE LifecycleAssumption
    DEF LifecycleInv, TypeOK, control, data, history, Start
<1>1. ManagersOK'
  BY DEF ManagersOK
<1>2. ProcessesOK'
  BY DEF ProcessesOK
<1>3. DataOK'
  BY DEF DataOK, Registers, Records, Nothing
<1>4. TypeOK'
  BY <1>1, <1>2, <1>3
<1>5. KeepsItsName'
  BY DEF KeepsItsName, DataOK
<1>6. ChannelsAreHeard'
  BY DEF ChannelsAreHeard, AskedWhenClosing, Asked
<1>7. DoneLeftNone'
  BY DEF DoneLeftNone
<1>8. AskedWhenClosing'
  BY DEF AskedWhenClosing, Busy, Asked
<1> QED BY <1>4, <1>5, <1>6, <1>7, <1>8

(* The first space restores its state, if the record is its own.            *)
LEMMA RestoreStateStep ==
    ASSUME LifecycleInv, NEW s \in Spaces, RestoreState(s)
    PROVE  LifecycleInv'
<1> USE LifecycleAssumption
    DEF LifecycleInv, TypeOK, control, data, history, RestoreState, ReadState, AsState
<1>1. ManagersOK'
  BY DEF ManagersOK
<1>2. ProcessesOK'
  BY DEF ProcessesOK
<1>3. DataOK'
  BY DEF DataOK, Registers, Records, Nothing
<1>4. TypeOK'
  BY <1>1, <1>2, <1>3
<1>5. KeepsItsName'
  BY DEF KeepsItsName, DataOK
<1>6. ChannelsAreHeard'
  BY HeardStays DEF Asked
<1>7. DoneLeftNone'
  BY DEF DoneLeftNone
<1>8. AskedWhenClosing'
  BY DEF AskedWhenClosing, Busy, Asked
<1> QED BY <1>4, <1>5, <1>6, <1>7, <1>8

(* The calculators restore their snapshots, or delete the record.           *)
LEMMA RestoreSnapshotsStep ==
    ASSUME LifecycleInv, RestoreSnapshots
    PROVE  LifecycleInv'
<1> USE LifecycleAssumption
    DEF LifecycleInv, TypeOK, control, data, history, RestoreSnapshots
<1>1. ManagersOK'
  BY DEF ManagersOK
<1>2. ProcessesOK'
  BY DEF ProcessesOK
<1>3. DataOK'
  BY DEF DataOK, Registers, Records, Nothing
<1>4. TypeOK'
  BY <1>1, <1>2, <1>3
<1>5. KeepsItsName'
  BY DEF KeepsItsName, DataOK
<1>6. ChannelsAreHeard'
  BY HeardStays DEF Asked
<1>7. DoneLeftNone'
  BY DEF DoneLeftNone
<1>8. AskedWhenClosing'
  BY DEF AskedWhenClosing, Busy, Asked
<1> QED BY <1>4, <1>5, <1>6, <1>7, <1>8

(* A manager comes to listen, before it was asked.                          *)
LEMMA ListensStep ==
    ASSUME LifecycleInv, NEW m \in Names, Listens(m)
    PROVE  LifecycleInv'
<1> USE LifecycleAssumption
    DEF LifecycleInv, TypeOK, control, data, history, Listens
<1>1. ManagersOK'
  BY PhaseChanges DEF Phases
<1>2. ProcessesOK'
  BY DEF ProcessesOK
<1>3. DataOK'
  BY DEF DataOK
<1>4. TypeOK'
  BY <1>1, <1>2, <1>3
<1>5. KeepsItsName'
  BY DEF KeepsItsName, DataOK
<1>6. ChannelsAreHeard'
  BY PhaseChanges, HeardStays DEF Phases, Asked
<1>7. DoneLeftNone'
  BY PhaseChanges DEF Phases, DoneLeftNone
<1>8. AskedWhenClosing'
  BY PhaseChanges DEF Phases, AskedWhenClosing, Asked
<1> QED BY <1>4, <1>5, <1>6, <1>7, <1>8

(* Somebody enters a space.                                                 *)
LEMMA CrossStep ==
    ASSUME LifecycleInv, NEW s \in Spaces, Cross(s)
    PROVE  LifecycleInv'
<1> USE LifecycleAssumption
    DEF LifecycleInv, TypeOK, control, data, history, Cross
<1>1. ManagersOK'
  BY DEF ManagersOK
<1>2. ProcessesOK'
  BY DEF ProcessesOK
<1>3. DataOK'
  BY CountsOne
<1>4. TypeOK'
  BY <1>1, <1>2, <1>3
<1>5. KeepsItsName'
  BY DEF KeepsItsName, DataOK
<1>6. ChannelsAreHeard'
  BY HeardStays DEF Asked
<1>7. DoneLeftNone'
  BY DEF DoneLeftNone
<1>8. AskedWhenClosing'
  BY DEF AskedWhenClosing, Busy, Asked
<1> QED BY <1>4, <1>5, <1>6, <1>7, <1>8

(* The signal: no manager was asked before.                                 *)
LEMMA SignalStep ==
    ASSUME LifecycleInv, Signal
    PROVE  LifecycleInv'
<1> USE LifecycleAssumption
    DEF LifecycleInv, TypeOK, control, data, history, Signal
<1>1. ManagersOK'
  BY DEF ManagersOK
<1>2. ProcessesOK'
  BY DEF ProcessesOK
<1>3. DataOK'
  BY DEF DataOK, Registers, Records, Nothing
<1>4. TypeOK'
  BY <1>1, <1>2, <1>3
<1>5. KeepsItsName'
  BY DEF KeepsItsName, DataOK
<1>6. ChannelsAreHeard'
  BY HeardStays DEF Asked
<1>7. DoneLeftNone'
  BY DEF DoneLeftNone
<1>8. AskedWhenClosing'
  BY DEF AskedWhenClosing, Busy, Asked
<1> QED BY <1>4, <1>5, <1>6, <1>7, <1>8

(* A kill: all that was heard is forgotten with the managers.               *)
LEMMA KillStep ==
    ASSUME LifecycleInv, Kill
    PROVE  LifecycleInv'
<1> USE LifecycleAssumption
    DEF LifecycleInv, TypeOK, control, data, history, Kill, Ends, Fresh
<1>1. ManagersOK'
  BY Afresh
<1>2. ProcessesOK'
  BY Afresh
<1>3. DataOK'
  BY DEF DataOK, Registers, Records, Nothing
<1>4. TypeOK'
  <2>1. main' \in [at : Nat \ {0}, waits : BOOLEAN] /\ rst' \in [Spaces -> Spaces]
    OBVIOUS
  <2> QED BY <1>1, <1>2, <1>3, <2>1
<1>5. KeepsItsName'
  BY DEF KeepsItsName, DataOK
<1>6. ChannelsAreHeard'
  BY Afresh
<1>7. DoneLeftNone'
  BY Afresh
<1>8. AskedWhenClosing'
  BY Afresh
<1> QED BY <1>4, <1>5, <1>6, <1>7, <1>8

(* So it is at the end.                                                     *)
LEMMA ExitStep ==
    ASSUME LifecycleInv, Exit
    PROVE  LifecycleInv'
<1> USE LifecycleAssumption
    DEF LifecycleInv, TypeOK, control, data, history, Exit, Ends, Fresh
<1>1. ManagersOK'
  BY Afresh
<1>2. ProcessesOK'
  BY Afresh
<1>3. DataOK'
  BY DEF DataOK, Registers, Records, Nothing
<1>4. TypeOK'
  <2>1. main' \in [at : Nat \ {0}, waits : BOOLEAN] /\ rst' \in [Spaces -> Spaces]
    OBVIOUS
  <2> QED BY <1>1, <1>2, <1>3, <2>1
<1>5. KeepsItsName'
  BY DEF KeepsItsName, DataOK
<1>6. ChannelsAreHeard'
  BY Afresh
<1>7. DoneLeftNone'
  BY Afresh
<1>8. AskedWhenClosing'
  BY Afresh
<1> QED BY <1>4, <1>5, <1>6, <1>7, <1>8

(* main asks a manager, which has all of its processes left.                *)
LEMMA MainAsksStep ==
    ASSUME LifecycleInv, MainAsks
    PROVE  LifecycleInv'
<1> USE LifecycleAssumption
    DEF LifecycleInv, TypeOK, control, data, history, MainAsks, Current
<1>1. ManagersOK'
  <2>1. Current \in Names /\ Processes[Current] \in SUBSET AllProcesses
    BY DEF Names, AllProcesses
  <2> QED BY <2>1 DEF ManagersOK, Phases
<1>2. ProcessesOK'
  BY DEF ProcessesOK
<1>3. DataOK'
  BY DEF DataOK
<1>4. TypeOK'
  BY <1>1, <1>2, <1>3
<1>5. KeepsItsName'
  BY DEF KeepsItsName, DataOK
<1>6. ChannelsAreHeard'
  BY HeardStays DEF ManagersOK, Asked
<1>7. DoneLeftNone'
  BY DEF ManagersOK, DoneLeftNone
<1>8. AskedWhenClosing'
  BY DEF AskedWhenClosing, Busy, Asked
<1> QED BY <1>4, <1>5, <1>6, <1>7, <1>8

(* main gives up on a manager: the manager does not change.                 *)
LEMMA MainGoesOnStep ==
    ASSUME LifecycleInv, MainGoesOn
    PROVE  LifecycleInv'
<1> USE LifecycleAssumption
    DEF LifecycleInv, TypeOK, control, data, history, MainGoesOn, MainGivesUp
<1>1. ManagersOK'
  BY DEF ManagersOK
<1>2. ProcessesOK'
  BY DEF ProcessesOK
<1>3. DataOK'
  BY DEF DataOK
<1>4. TypeOK'
  BY <1>1, <1>2, <1>3
<1>5. KeepsItsName'
  BY DEF KeepsItsName, DataOK
<1>6. ChannelsAreHeard'
  BY HeardStays DEF Asked
<1>7. DoneLeftNone'
  BY DEF DoneLeftNone
<1>8. AskedWhenClosing'
  BY DEF AskedWhenClosing, Busy, Asked
<1> QED BY <1>4, <1>5, <1>6, <1>7, <1>8

(* main takes the answer of a manager that has no process left.             *)
LEMMA MainIsAnsweredStep ==
    ASSUME LifecycleInv, MainIsAnswered
    PROVE  LifecycleInv'
<1> USE LifecycleAssumption
    DEF LifecycleInv, TypeOK, control, data, history, MainIsAnswered, Current
<1>1. ManagersOK'
  BY PhaseChanges DEF Phases
<1>2. ProcessesOK'
  BY DEF ProcessesOK
<1>3. DataOK'
  BY DEF DataOK
<1>4. TypeOK'
  BY <1>1, <1>2, <1>3
<1>5. KeepsItsName'
  BY DEF KeepsItsName, DataOK
<1>6. ChannelsAreHeard' /\ DoneLeftNone'
  <2>1. manager[Current].phase = "done" /\ Asked(Current)
    BY DEF Asked
  <2>2. Current \in Names => manager[Current].left = {}
    BY <2>1 DEF DoneLeftNone
  <2>3. "over" \in Phases /\ Phase(Current, "over")
    BY DEF Phases
  <2> QED BY <2>1, <2>2, <2>3, PhaseKeeps
<1>8. AskedWhenClosing'
  BY DEF AskedWhenClosing, Busy, Asked
<1> QED BY <1>4, <1>5, <1>6, <1>8

(* A manager puts a request into a buffer: of these nothing is claimed.     *)
LEMMA PostsStep ==
    ASSUME LifecycleInv, NEW m \in Names, NEW p \in Processes[m], Posts(m, p)
    PROVE  LifecycleInv'
<1> USE LifecycleAssumption
    DEF LifecycleInv, TypeOK, control, data, history, Posts, Holds
<1>1. ManagersOK'
  BY ProceedsTo
<1>2. ProcessesOK'
  BY DEF ProcessesOK
<1>3. DataOK'
  BY DEF DataOK
<1>4. TypeOK'
  BY <1>1, <1>2, <1>3
<1>5. KeepsItsName'
  BY DEF KeepsItsName, DataOK
<1>6. ChannelsAreHeard'
  <2>1. m \in Buffered /\ Asked(m)
    BY DEF Busy, Asked
  <2> QED BY <2>1, ProceedsKeeps
<1>7. DoneLeftNone'
  BY ProceedsTo DEF DoneLeftNone
<1>8. AskedWhenClosing'
  BY DEF AskedWhenClosing, Busy, Asked
<1> QED BY <1>4, <1>5, <1>6, <1>7, <1>8

(* A manager gets rid of a request: some process heard it.                  *)
LEMMA AsksStep ==
    ASSUME LifecycleInv, NEW m \in Names, NEW p \in Processes[m], NEW q \in Processes[m],
           Asks(m, p, q)
    PROVE  LifecycleInv'
<1> USE LifecycleAssumption
    DEF LifecycleInv, TypeOK, control, data, history, Asks, Listeners
<1>1. ManagersOK'
  BY ProceedsTo
<1>2. ProcessesOK'
  BY StatusChanges DEF Statuses
<1>3. DataOK'
  BY DEF DataOK
<1>4. TypeOK'
  BY <1>1, <1>2, <1>3
<1>5. KeepsItsName'
  BY DEF KeepsItsName, DataOK
<1>6. ChannelsAreHeard'
  <2>1. Heard(m, p)'
    BY DEF Heard
  <2>2. Asked(m)
    BY DEF Busy, Asked
  <2> QED BY <2>1, <2>2, ProceedsKeeps
<1>7. DoneLeftNone'
  BY ProceedsTo DEF DoneLeftNone
<1>8. AskedWhenClosing'
  BY DEF AskedWhenClosing, Busy, Asked
<1> QED BY <1>4, <1>5, <1>6, <1>7, <1>8

(* A manager takes something from a buffer.                                 *)
LEMMA TakesFromBufferStep ==
    ASSUME LifecycleInv, NEW m \in Names, TakesFromBuffer(m)
    PROVE  LifecycleInv'
<1> USE LifecycleAssumption
    DEF LifecycleInv, TypeOK, control, data, history, TakesFromBuffer, Busy
<1>1. ManagersOK'
  BY PhaseChanges DEF Phases
<1>2. ProcessesOK'
  BY DEF ProcessesOK
<1>3. DataOK'
  BY DEF DataOK
<1>4. TypeOK'
  BY <1>1, <1>2, <1>3
<1>5. KeepsItsName'
  BY DEF KeepsItsName, DataOK
<1>6. ChannelsAreHeard'
  BY PhaseChanges, HeardStays DEF Phases, Asked
<1>7. DoneLeftNone'
  BY SMTT(30), PhaseChanges DEF Phases, DoneLeftNone
<1>8. AskedWhenClosing'
  BY DEF AskedWhenClosing, Busy, Asked
<1> QED BY <1>4, <1>5, <1>6, <1>7, <1>8

(* A manager gives up waiting: the request was heard all the same.          *)
LEMMA ManagerGoesOnStep ==
    ASSUME LifecycleInv, NEW m \in Names, ManagerGoesOn(m)
    PROVE  LifecycleInv'
<1> USE LifecycleAssumption
    DEF LifecycleInv, TypeOK, control, data, history, ManagerGoesOn, Busy
<1>1. ManagersOK'
  BY PhaseChanges DEF Phases
<1>2. ProcessesOK'
  BY DEF ProcessesOK
<1>3. DataOK'
  BY DEF DataOK
<1>4. TypeOK'
  BY <1>1, <1>2, <1>3
<1>5. KeepsItsName'
  BY DEF KeepsItsName, DataOK
<1>6. ChannelsAreHeard'
  BY PhaseChanges, HeardStays DEF Phases, Asked
<1>7. DoneLeftNone'
  BY PhaseChanges DEF Phases, DoneLeftNone
<1>8. AskedWhenClosing'
  BY DEF AskedWhenClosing, Busy, Asked
<1> QED BY <1>4, <1>5, <1>6, <1>7, <1>8

(* A manager with no process left is done.                                  *)
LEMMA ManagerIsDoneStep ==
    ASSUME LifecycleInv, NEW m \in Names, ManagerIsDone(m)
    PROVE  LifecycleInv'
<1> USE LifecycleAssumption
    DEF LifecycleInv, TypeOK, control, data, history, ManagerIsDone, Busy
<1>1. ManagersOK'
  BY PhaseChanges DEF Phases
<1>2. ProcessesOK'
  BY DEF ProcessesOK
<1>3. DataOK'
  BY DEF DataOK
<1>4. TypeOK'
  BY <1>1, <1>2, <1>3
<1>5. KeepsItsName'
  BY DEF KeepsItsName, DataOK
<1>6. ChannelsAreHeard'
  BY PhaseChanges, HeardStays DEF Phases, Asked
<1>7. DoneLeftNone'
  BY PhaseChanges DEF Phases, DoneLeftNone
<1>8. AskedWhenClosing'
  BY DEF AskedWhenClosing, Busy, Asked
<1> QED BY <1>4, <1>5, <1>6, <1>7, <1>8

(* A process takes a request from a buffer.                                 *)
LEMMA NoticesStep ==
    ASSUME LifecycleInv, NEW m \in Names, NEW p \in Processes[m], Notices(m, p)
    PROVE  LifecycleInv'
<1> USE LifecycleAssumption
    DEF LifecycleInv, TypeOK, control, data, history, Notices
<1>1. ManagersOK'
  BY DEF ManagersOK
<1>2. ProcessesOK'
  BY StatusChanges DEF Statuses
<1>3. DataOK'
  BY DEF DataOK
<1>4. TypeOK'
  BY <1>1, <1>2, <1>3
<1>5. KeepsItsName'
  BY DEF KeepsItsName, DataOK
<1>6. ChannelsAreHeard'
  BY HeardStays DEF Asked
<1>7. DoneLeftNone'
  BY DEF DoneLeftNone
<1>8. AskedWhenClosing'
  BY DEF AskedWhenClosing, Busy, Asked
<1> QED BY <1>4, <1>5, <1>6, <1>7, <1>8

(* A process stops, and saves what it has.                                  *)
LEMMA StopsStep ==
    ASSUME LifecycleInv, NEW m \in Names, NEW p \in Processes[m], Stops(m, p)
    PROVE  LifecycleInv'
<1> USE LifecycleAssumption
    DEF LifecycleInv, TypeOK, control, data, history, Stops
<1>1. ManagersOK'
  BY DEF ManagersOK
<1>2. ProcessesOK'
  BY StatusChanges DEF Statuses
<1>3. DataOK'
  BY SavesRecord
<1>4. TypeOK'
  BY <1>1, <1>2, <1>3
<1>5. KeepsItsName'
  BY DEF KeepsItsName, DataOK
<1>6. ChannelsAreHeard'
  BY HeardStays DEF Asked
<1>7. DoneLeftNone'
  BY DEF DoneLeftNone
<1>8. AskedWhenClosing'
  BY DEF AskedWhenClosing, Busy, Asked
<1> QED BY <1>4, <1>5, <1>6, <1>7, <1>8

(* A process answers its manager.                                           *)
LEMMA AnswersStep ==
    ASSUME LifecycleInv, NEW m \in Names, NEW p \in Processes[m], Answers(m, p)
    PROVE  LifecycleInv'
<1> USE LifecycleAssumption
    DEF LifecycleInv, TypeOK, control, data, history, Answers, Busy, AfterStop
<1>1. ManagersOK'
  BY PhaseChanges DEF Phases
<1>2. ProcessesOK'
  BY StatusChanges DEF Statuses
<1>3. DataOK'
  BY DEF DataOK
<1>4. TypeOK'
  BY <1>1, <1>2, <1>3
<1>5. KeepsItsName'
  BY DEF KeepsItsName, DataOK
<1>6. ChannelsAreHeard' /\ DoneLeftNone'
  <2>1. Asked(m) /\ "sending" \in Phases
    BY DEF Busy, Phases, Asked
  <2> QED BY <2>1, PhaseKeeps
<1>8. AskedWhenClosing'
  BY DEF AskedWhenClosing, Busy, Asked
<1> QED BY <1>4, <1>5, <1>6, <1>8

(* A process puts its answer into a buffer.                                 *)
LEMMA AnswersToBufferStep ==
    ASSUME LifecycleInv, NEW m \in Names, NEW p \in Processes[m], AnswersToBuffer(m, p)
    PROVE  LifecycleInv'
<1> USE LifecycleAssumption
    DEF LifecycleInv, TypeOK, control, data, history, AnswersToBuffer, AfterStop
<1>1. ManagersOK'
  BY DEF ManagersOK
<1>2. ProcessesOK'
  BY StatusChanges DEF Statuses
<1>3. DataOK'
  BY DEF DataOK
<1>4. TypeOK'
  BY <1>1, <1>2, <1>3
<1>5. KeepsItsName'
  BY DEF KeepsItsName, DataOK
<1>6. ChannelsAreHeard'
  BY HeardStays DEF Asked
<1>7. DoneLeftNone'
  BY DEF DoneLeftNone
<1>8. AskedWhenClosing'
  BY DEF AskedWhenClosing, Busy, Asked
<1> QED BY <1>4, <1>5, <1>6, <1>7, <1>8

(* The server that was never started.                                       *)
LEMMA LifecycleInit == Init => LifecycleInv
<1> SUFFICES ASSUME Init PROVE LifecycleInv
  OBVIOUS
<1> USE LifecycleAssumption
<1>1. ManagersOK
  BY DEF Init, ManagersOK, Starting, Phases
<1>2. \A m \in Names : process[m] \in [Processes[m] -> Statuses]
  BY DEF Init, Statuses
<1>3. ProcessesOK
  BY <1>2 DEF Init, ProcessesOK
<1>4. \A s \in Spaces : Fresh(s) \in Registers
  BY DEF Fresh, Registers
<1>5. DataOK
  BY <1>4 DEF Init, DataOK, Records, Nothing
<1>6. rst \in [Spaces -> Spaces] /\ main \in [at : Nat \ {0}, waits : BOOLEAN]
  BY DEF Init
<1>7. /\ server = "down" /\ starts \in Nat /\ young \in BOOLEAN
      /\ restored \in {"nothing", "registers", "snapshots"}
  BY DEF Init
<1>8. TypeOK
  BY <1>1, <1>3, <1>5, <1>6, <1>7 DEF TypeOK
<1>9. KeepsItsName
  BY DEF Init, KeepsItsName, Fresh
<1>10. ChannelsAreHeard /\ DoneLeftNone /\ AskedWhenClosing
  BY DEF Init, ChannelsAreHeard, DoneLeftNone, AskedWhenClosing, Starting, Asked
<1> QED BY <1>8, <1>9, <1>10 DEF LifecycleInv

(* A step that changes nothing.                                             *)
LEMMA LifecycleStutter ==
    ASSUME LifecycleInv, UNCHANGED vars
    PROVE  LifecycleInv'
<1> USE DEF vars, control, data, history, LifecycleInv
<1>1. TypeOK'
  BY DEF TypeOK, ManagersOK, ProcessesOK, DataOK
<1>2. ChannelsAreHeard'
  BY HeardStays DEF Asked
<1>3. (KeepsItsName /\ DoneLeftNone /\ AskedWhenClosing)'
  BY DEF KeepsItsName, DoneLeftNone, AskedWhenClosing, Asked
<1> QED BY <1>1, <1>2, <1>3

(* Every step preserves the invariant.                                      *)
LEMMA LifecycleStep ==
    ASSUME LifecycleInv, [Next]_vars
    PROVE  LifecycleInv'
<1>1. CASE Start \/ RestoreSnapshots \/ Signal \/ Kill
  BY <1>1, StartStep, RestoreSnapshotsStep, SignalStep, KillStep
<1>2. CASE \E s \in Spaces : RestoreState(s) \/ Cross(s)
  BY <1>2, RestoreStateStep, CrossStep
<1>3. CASE MainStep
  BY <1>3, MainAsksStep, MainGoesOnStep, MainIsAnsweredStep, ExitStep DEF MainStep
<1>4. CASE ManagerStep
  <2> SUFFICES ASSUME NEW m \in Names,
                      \/ \E p \in Processes[m] :
                            Posts(m, p) \/ \E q \in Processes[m] : Asks(m, p, q)
                      \/ Listens(m) \/ TakesFromBuffer(m) \/ ManagerGoesOn(m)
                      \/ ManagerIsDone(m)
               PROVE  LifecycleInv'
    BY <1>4 DEF ManagerStep
  <2> QED BY PostsStep, AsksStep, ListensStep, TakesFromBufferStep, ManagerGoesOnStep,
             ManagerIsDoneStep
<1>5. CASE ProcessStep
  <2> SUFFICES ASSUME NEW m \in Names, NEW p \in Processes[m],
                      \/ Notices(m, p) \/ Stops(m, p)
                      \/ Answers(m, p) \/ AnswersToBuffer(m, p)
               PROVE  LifecycleInv'
    BY <1>5 DEF ProcessStep
  <2> QED BY NoticesStep, StopsStep, AnswersStep, AnswersToBufferStep
<1>6. CASE server = "down" /\ starts = MaxStarts /\ UNCHANGED vars
  BY <1>6, LifecycleStutter
<1>7. CASE UNCHANGED vars
  BY <1>7, LifecycleStutter
<1> QED BY <1>1, <1>2, <1>3, <1>4, <1>5, <1>6, <1>7 DEF Next

(* The inductive invariant holds in every state.                            *)
THEOREM LifecycleInvariant == Spec => []LifecycleInv
BY LifecycleInit, LifecycleStep, PTL DEF Spec

(* Every variable has its type.                                             *)
THEOREM LifecycleTypeCorrect == Spec => []TypeOK
<1>1. LifecycleInv => TypeOK
  BY DEF LifecycleInv
<1> QED BY <1>1, LifecycleInvariant, PTL

(* space.go:80-91, recovery.go:13-37: no space ever works with the record   *)
(* of another one, or with a snapshot read as a state.                      *)
THEOREM LifecycleKeepsItsName == Spec => []KeepsItsName
<1>1. LifecycleInv => KeepsItsName
  BY DEF LifecycleInv
<1> QED BY <1>1, LifecycleInvariant, PTL

(* If each of the calculators' channels was heard by some calculator, every *)
(* calculator heard one: the channels are as many as the calculators.       *)
LEMMA HeardByAll ==
    ASSUME rst \in [Spaces -> Spaces], "avgs" \in Names, Processes["avgs"] = Spaces,
           \A p \in Spaces : Heard("avgs", p)
    PROVE  \A p \in Spaces : <<"avgs", p>> \in told
<1> USE LifecycleAssumption
<1> DEFINE T == {q \in Spaces : <<"avgs", q>> \in told}
           f == [q \in T |-> rst[q]]
<1>1. T \subseteq Spaces /\ IsFiniteSet(T) /\ IsFiniteSet(Spaces)
  BY FS_Subset
<1>2. \A p \in Spaces : \E q \in T : f[q] = p
  BY DEF Heard
<1>3. f \in Surjection(T, Spaces)
  BY <1>1, <1>2 DEF Surjection
<1>4. Cardinality(Spaces) <= Cardinality(T)
  BY <1>1, <1>3, FS_Surjection
<1>5. Cardinality(T) <= Cardinality(Spaces)
      /\ (Cardinality(T) = Cardinality(Spaces) => T = Spaces)
  BY <1>1, FS_Subset
<1>6. Cardinality(T) \in Nat /\ Cardinality(Spaces) \in Nat
  BY <1>1, FS_CardinalityType
<1>7. T = Spaces
  BY <1>4, <1>5, <1>6
<1> QED BY <1>7

(* spaceManager/start.go:164-177, avgsManager/start.go:43-54: a manager     *)
(* whose stop channels hold nothing is done only when every one of its      *)
(* processes took a stop request, even the calculators, which may share a   *)
(* channel: one of them keeps the manager waiting for ever.                 *)
THEOREM LifecycleDoneMeansTold == Spec => []DoneMeansTold
<1>1. LifecycleInv => DoneMeansTold
  <2> SUFFICES ASSUME LifecycleInv, NEW m \in Names \ Buffered,
                      manager[m].phase \in {"done", "over"}
               PROVE  \A p \in Processes[m] : <<m, p>> \in told
    BY DEF DoneMeansTold
  <2>1. manager[m].left = {} /\ Asked(m)
    BY DEF LifecycleInv, DoneLeftNone, Asked
  <2>2. \A p \in Processes[m] : Heard(m, p)
    BY <2>1 DEF LifecycleInv, ChannelsAreHeard
  <2>3. CASE m = "avgs"
    <3>1. rst \in [Spaces -> Spaces]
      BY DEF LifecycleInv, TypeOK
    <3>2. "avgs" \in Names /\ Processes["avgs"] = Spaces
      BY LifecycleAssumption
    <3> QED BY <2>2, <2>3, <3>1, <3>2, HeardByAll
  <2>4. CASE m # "avgs"
    BY <2>2, <2>4 DEF Heard
  <2> QED BY <2>3, <2>4
<1> QED BY <1>1, LifecycleInvariant, PTL
=============================================================================
