------------------------------ MODULE Lifecycle -----------------------------
(***************************************************************************)
(* Starting, stopping and starting again.  At a signal main.go asks one     *)
(* manager after the other to stop; a manager asks each of its processes in *)
(* turn, over a stop channel that carries the request and the answer; all   *)
(* of them wait only so long.  Meanwhile the spaces save their state and    *)
(* the calculators their snapshot, in one bucket of the disk cache and      *)
(* under one key, the name of the space (savestate.go, recovery.go), from   *)
(* where they are restored at the next start (space.go, calculator.go).     *)
(*                                                                          *)
(* Abstractions.  The name of a manager stands for it; the managers that    *)
(* store nothing are represented by those in Managers that are neither      *)
(* "space" nor "avgs".  A state is its count, a snapshot its net flow.      *)
(* Whether the records are older than MaxStateAge is chosen at a start.     *)
(***************************************************************************)
EXTENDS Naturals, Sequences, FiniteSetsExt

CONSTANTS
    Managers,    (* the managers, in the order main stops them               *)
    Processes,   (* [manager -> its processes]; those of "space" and "avgs"  *)
                 (* are named after the spaces                               *)
    Buffered,    (* the managers whose stop channels have capacity one       *)
    Rank,        (* [space -> its place in the configuration]                *)
    SaveState,   (* globals.SaveState                                        *)
    MaxCount,    (* bound on the people in all the spaces                    *)
    MaxStarts,   (* bound on the starts of the server                        *)
    MaxStops     (* bound on the starts that may end with a signal           *)

Names == {Managers[i] : i \in DOMAIN Managers}
Spaces == Processes["space"]
AllProcesses == UNION {Processes[m] : m \in Names}

ASSUME LifecycleAssumption ==
    /\ Managers \in Seq(STRING) /\ {"space", "avgs"} \subseteq Names
    /\ IsFiniteSet(Spaces)
    /\ DOMAIN Processes = Names
    /\ Processes["avgs"] = Spaces
    /\ Buffered \subseteq Names \ {"space", "avgs"}
    /\ Rank \in [Spaces -> Nat]
    /\ SaveState \in BOOLEAN
    /\ MaxCount \in Nat /\ MaxStarts \in Nat /\ MaxStops \in Nat

VARIABLES
    server,    (* "down", "starting", "up" or "closing"                      *)
    starts,    (* how often it was started                                   *)
    young,     (* a start: the records are younger than MaxStateAge          *)
    main,      (* the manager main is at, and whether it waits for it        *)
    manager,   (* [phase, left, on] of every manager                         *)
    process,   (* [manager -> [process -> its status]]                       *)
    buffer,    (* the buffered stop channels that hold something             *)
    rst,       (* [calculator -> the calculator whose rst channel it has]    *)
    restored,  (* how far the start is: "nothing", "registers", "snapshots"  *)
    register,  (* [space -> its name, count and State]                       *)
    snapshot,  (* [space -> the net flow in the calculator's snapshot]       *)
    recovery,  (* the bucket recovery of the disk cache                      *)
    left,      (* history: [space -> what it had when it was stopped last]   *)
    told       (* history: the processes a stop request got to               *)

control == <<main, manager, process, buffer, rst>>
data == <<restored, register, snapshot, recovery>>
history == <<left, told>>
vars == <<server, starts, young, control, data, history>>

Nothing == [kind |-> "nothing"]
State(n) == [kind |-> "state", n |-> n]
Snapshot(n) == [kind |-> "snapshot", n |-> n]
Fresh(s) == [name |-> s, count |-> 0, enabled |-> TRUE]

Starting == [phase |-> "starting", left |-> {}, on |-> {}]
Status(m, p, now) == process' = [process EXCEPT ![m][p] = now]
Phase(m, now) == manager' = [manager EXCEPT ![m].phase = now]

-----------------------------------------------------------------------------
(* What the program has in memory when it starts.                           *)
Init ==
    /\ server = "down"
    /\ starts = 0
    /\ young = TRUE
    /\ main = [at |-> 1, waits |-> FALSE]
    /\ manager = [m \in Names |-> Starting]
    /\ process = [m \in Names |-> [p \in Processes[m] |-> "running"]]
    /\ buffer = {}
    /\ rst = [s \in Spaces |-> s]
    /\ restored = "nothing"
    /\ register = [s \in Spaces |-> Fresh(s)]
    /\ snapshot = [s \in Spaces |-> 0]
    /\ recovery = [s \in Spaces |-> Nothing]
    /\ left = [s \in Spaces |-> 0]
    /\ told = {}

(* The server starts.  The goroutine of a calculator reads the variable i   *)
(* of the loop that started it, which may have gone on to the last space.   *)
Start ==
    /\ server = "down"
    /\ starts < MaxStarts
    /\ server' = "starting"
    /\ starts' = starts + 1
    /\ young' \in BOOLEAN
    /\ left' = IF young' THEN left ELSE [s \in Spaces |-> 0]
    /\ rst' \in {r \in [Spaces -> Spaces] : \A s \in Spaces : Rank[r[s]] >= Rank[s]}
    /\ UNCHANGED <<main, manager, process, buffer, data, told>>

(* The program ends; what it had in memory is gone.                         *)
Ends ==
    /\ server' = "down"
    /\ main' = [at |-> 1, waits |-> FALSE]
    /\ manager' = [m \in Names |-> Starting]
    /\ process' = [m \in Names |-> [p \in Processes[m] |-> "running"]]
    /\ buffer' = {}
    /\ rst' = [s \in Spaces |-> s]
    /\ restored' = "nothing"
    /\ young' = TRUE
    /\ register' = [s \in Spaces |-> Fresh(s)]
    /\ snapshot' = [s \in Spaces |-> 0]
    /\ told' = {}

(* A snapshot read as a state has no id, no timestamp and no count; State   *)
(* is not saved, so it is false in what is read.                            *)
AsState(r, s) ==
    IF r.kind = "state" THEN [name |-> s, count |-> r.n, enabled |-> FALSE]
    ELSE [name |-> "", count |-> 0, enabled |-> FALSE]

(* Mutation: the record is taken without asking whose it is, or how old.    *)
ReadState_Unchecked(s) ==
    IF recovery[s] # Nothing THEN AsState(recovery[s], s) ELSE register[s]

(* The state of space s is used if its id fits and it is young enough.      *)
ReadState(s) ==
    IF recovery[s].kind = "state" /\ young THEN AsState(recovery[s], s)
    ELSE register[s]

(* main is not done starting when a signal is served already.               *)
Boots == server \in {"starting", "closing"}

(* once.Do: the first space that runs, and only this one.                   *)
RestoreState(s) ==
    /\ Boots
    /\ restored = "nothing"
    /\ restored' = "registers"
    /\ register' = IF SaveState THEN [register EXCEPT ![s] = ReadState(s)]
                   ELSE register
    /\ UNCHANGED <<server, starts, young, control, snapshot, recovery, history>>

(* Then the calculators read their snapshots; a state read as a snapshot    *)
(* has no timestamp, so it is too old, and what is too old is deleted.      *)
RestoreSnapshots ==
    /\ Boots
    /\ restored = "registers"
    /\ restored' = "snapshots"
    /\ LET good(s) == recovery[s].kind = "snapshot" /\ young IN
        /\ snapshot' = [s \in Spaces |-> IF good(s) THEN recovery[s].n ELSE 0]
        /\ recovery' = [s \in Spaces |-> IF good(s) THEN recovery[s] ELSE Nothing]
    /\ server' = IF server = "starting" THEN "up" ELSE server
    /\ young' = TRUE
    /\ UNCHANGED <<starts, control, register, history>>

(* A manager comes to <-sd, some before and some after their processes.     *)
Listens(m) ==
    /\ server # "down"
    /\ manager[m].phase = "starting"
    /\ Phase(m, "serving")
    /\ UNCHANGED <<server, starts, young, main, process, buffer, rst, data, history>>

(* Room for one more, by the count of every space or of its calculator.     *)
InBounds ==
    MapThenSumSet(LAMBDA s : Max({register[s].count, snapshot[s]}), Spaces) < MaxCount

(* Somebody enters a space.  It counts if it is enabled; its calculator     *)
(* hears of it unless it has ended.                                         *)
Cross(s) ==
    /\ server # "down" /\ restored = "snapshots"
    /\ process["space"][s] = "running"
    /\ register[s].enabled
    /\ InBounds
    /\ register' = [register EXCEPT ![s].count = @ + 1]
    /\ snapshot' = IF process["avgs"][s] = "running" THEN [snapshot EXCEPT ![s] = @ + 1]
                   ELSE snapshot
    /\ UNCHANGED <<server, starts, young, control, restored, recovery, history>>

-----------------------------------------------------------------------------
(* The signal, which may come while main sleeps between the managers' starts *)
Signal ==
    /\ server \in {"starting", "up"}
    /\ starts <= MaxStops
    /\ server' = "closing"
    /\ left' = [s \in Spaces |-> 0]
    /\ UNCHANGED <<starts, young, control, data, told>>

(* The server is killed, or it was started with -us.                        *)
Kill ==
    /\ server \in {"starting", "up", "closing"}
    /\ Ends
    /\ left' = [s \in Spaces |-> 0]
    /\ UNCHANGED <<starts, recovery>>

Current == Managers[main.at]

(* ch <- true: nothing holds it, so main waits until the manager listens.   *)
MainAsks ==
    /\ server = "closing"
    /\ main.at <= Len(Managers) /\ ~main.waits
    /\ manager[Current].phase = "serving"
    /\ main' = [main EXCEPT !.waits = TRUE]
    /\ manager' = [manager EXCEPT ![Current] =
                    [phase |-> "sending", left |-> Processes[Current], on |-> {}]]
    /\ UNCHANGED <<server, starts, young, process, buffer, rst, data, history>>

(* Mutation: main waits for the manager however long it takes.              *)
MainGivesUp_Never == FALSE

(* case <-time.After(SettleTime).                                           *)
MainGivesUp == main.waits

MainGoesOn ==
    /\ server = "closing"
    /\ MainGivesUp
    /\ main' = [at |-> main.at + 1, waits |-> FALSE]
    /\ UNCHANGED <<server, starts, young, manager, process, buffer, rst, data, history>>

(* case <-ch: the manager is done.                                          *)
MainIsAnswered ==
    /\ server = "closing"
    /\ main.waits
    /\ manager[Current].phase = "done"
    /\ main' = [at |-> main.at + 1, waits |-> FALSE]
    /\ Phase(Current, "over")
    /\ UNCHANGED <<server, starts, young, process, buffer, rst, data, history>>

(* diskCache.Close, then the program ends.                                  *)
Exit ==
    /\ server = "closing"
    /\ main.at > Len(Managers)
    /\ Ends
    /\ UNCHANGED <<starts, recovery, left>>

-----------------------------------------------------------------------------
(* Mutation: the stop channels of the spaces hold one message too.          *)
Holds_SpacesToo(m) == m \in Buffered \cup {"space"}

(* The stop channels of the manager hold one message.                       *)
Holds(m) == m \in Buffered

Busy(m, phase) == server = "closing" /\ manager[m].phase = phase

(* The process whose stop channel is next: the order of a map is arbitrary, *)
(* the calculators are in the order of the configuration.                   *)
IsNext(m, p) ==
    /\ p \in manager[m].left
    /\ m = "avgs" => \A q \in manager[m].left : Rank[p] <= Rank[q]

Proceeds(m, p) ==
    manager' = [manager EXCEPT ![m] = [phase |-> "awaiting", left |-> @.left \ {p}, on |-> {p}]]

(* A process listens to its channels once it has restored what it stores.   *)
Runs(m) ==
    CASE m = "space" -> restored # "nothing"
      [] m = "avgs" -> restored = "snapshots"
      [] OTHER -> TRUE

(* The processes that listen to the stop channel of p.                      *)
Listeners(m, p) ==
    {q \in Processes[m] :
        /\ Runs(m) /\ process[m][q] = "running"
        /\ IF m = "avgs" THEN rst[q] = p ELSE q = p}

(* ch <- nil, with nothing to hold it: some process takes it.               *)
Asks(m, p, q) ==
    /\ Busy(m, "sending") /\ ~Holds(m)
    /\ IsNext(m, p)
    /\ q \in Listeners(m, p)
    /\ Proceeds(m, p)
    /\ Status(m, q, "stopping")
    /\ told' = told \cup {<<m, q>>}
    /\ UNCHANGED <<server, starts, young, main, buffer, rst, data, left>>

(* ch <- nil, into the buffer.                                              *)
Posts(m, p) ==
    /\ Busy(m, "sending") /\ Holds(m)
    /\ IsNext(m, p)
    /\ Proceeds(m, p)
    /\ buffer' = buffer \cup {<<m, p>>}
    /\ UNCHANGED <<server, starts, young, main, process, rst, data, history>>

(* The process takes it out of the buffer ...                               *)
Notices(m, p) ==
    /\ server = "closing"
    /\ <<m, p>> \in buffer
    /\ process[m][p] = "running"
    /\ buffer' = buffer \ {<<m, p>>}
    /\ Status(m, p, "stopping")
    /\ told' = told \cup {<<m, p>>}
    /\ UNCHANGED <<server, starts, young, main, manager, rst, data, left>>

(* ... or the manager does, be it the answer or its own request.            *)
TakesFromBuffer(m) ==
    /\ Busy(m, "awaiting") /\ Holds(m)
    /\ \E p \in manager[m].on : <<m, p>> \in buffer /\ buffer' = buffer \ {<<m, p>>}
    /\ Phase(m, "sending")
    /\ UNCHANGED <<server, starts, young, main, process, rst, data, history>>

(* case <-time.After(SettleTime).                                           *)
ManagerGoesOn(m) ==
    /\ Busy(m, "awaiting")
    /\ Phase(m, "sending")
    /\ UNCHANGED <<server, starts, young, main, process, buffer, rst, data, history>>

(* sd <- true, for which main must still be waiting.                        *)
ManagerIsDone(m) ==
    /\ Busy(m, "sending")
    /\ manager[m].left = {}
    /\ Phase(m, "done")
    /\ UNCHANGED <<server, starts, young, main, process, buffer, rst, data, history>>

(* What a process does about a stop request.  SaveSnapshot fails for a      *)
(* snapshot that never had data: it has no name.                            *)
Saves(m, p) ==
    CASE m = "space" ->
            /\ recovery' = IF SaveState /\ register[p].name = p
                           THEN [recovery EXCEPT ![p] = State(register[p].count)]
                           ELSE recovery
            /\ left' = [left EXCEPT ![p] = register[p].count]
      [] m = "avgs" ->
            /\ recovery' = IF snapshot[p] > 0
                           THEN [recovery EXCEPT ![p] = Snapshot(snapshot[p])]
                           ELSE recovery
            /\ UNCHANGED left
      [] OTHER -> UNCHANGED <<recovery, left>>

Stops(m, p) ==
    /\ server = "closing"
    /\ process[m][p] = "stopping"
    /\ Saves(m, p)
    /\ Status(m, p, "answering")
    /\ UNCHANGED <<server, starts, young, main, manager, buffer, rst, restored, register,
                   snapshot, told>>

(* A calculator ends; the others go on with their loops.                    *)
AfterStop(m) == IF m = "avgs" THEN "ended" ELSE "running"

(* stop <- nil, to the manager that waits for this channel.                 *)
Answers(m, p) ==
    /\ Busy(m, "awaiting") /\ ~Holds(m)
    /\ process[m][p] = "answering"
    /\ (IF m = "avgs" THEN rst[p] ELSE p) \in manager[m].on
    /\ Phase(m, "sending")
    /\ Status(m, p, AfterStop(m))
    /\ UNCHANGED <<server, starts, young, main, buffer, rst, data, history>>

(* stop <- nil, into the buffer.                                            *)
AnswersToBuffer(m, p) ==
    /\ server = "closing"
    /\ Holds(m) /\ <<m, p>> \notin buffer
    /\ process[m][p] = "answering"
    /\ buffer' = buffer \cup {<<m, p>>}
    /\ Status(m, p, AfterStop(m))
    /\ UNCHANGED <<server, starts, young, main, manager, rst, data, history>>

-----------------------------------------------------------------------------
MainStep == MainAsks \/ MainGoesOn \/ MainIsAnswered \/ Exit

ManagerStep ==
    \E m \in Names :
        \/ \E p \in Processes[m] : Posts(m, p) \/ \E q \in Processes[m] : Asks(m, p, q)
        \/ Listens(m) \/ TakesFromBuffer(m) \/ ManagerGoesOn(m) \/ ManagerIsDone(m)

ProcessStep ==
    \E m \in Names : \E p \in Processes[m] :
        Notices(m, p) \/ Stops(m, p) \/ Answers(m, p) \/ AnswersToBuffer(m, p)

Next ==
    \/ Start
    \/ \E s \in Spaces : RestoreState(s) \/ Cross(s)
    \/ RestoreSnapshots
    \/ Signal \/ Kill
    \/ MainStep \/ ManagerStep \/ ProcessStep
    \/ server = "down" /\ starts = MaxStarts /\ UNCHANGED vars

Spec == Init /\ [][Next]_vars

(* The goroutine of main is scheduled, and the managers it starts come to   *)
(* listen by themselves; nothing is asked of the processes, nor of what a   *)
(* manager does once it was asked.                                          *)
FairSpec == Spec /\ WF_vars(MainStep) /\ \A m \in Names : WF_vars(Listens(m))
-----------------------------------------------------------------------------
(* main.go:133-161: once it got the signal the server ends, even if it was  *)
(* still starting, and whatever becomes of the managers that were asked:    *)
(* some never get an answer, or never get rid of their request, as the      *)
(* calculators that were given one channel.  Handing a manager its request  *)
(* has no timeout (main.go:141): every manager must come to listen.         *)
ServerExits == server = "closing" ~> server = "down"

(* spaceManager/start.go:164-177, avgsManager/start.go:43-54: a manager is  *)
(* done only when every process of it took a stop request; with a buffered  *)
(* channel (gateManager/start.go:112) it may take its own request back, and *)
(* nobody is told.                                                          *)
DoneMeansTold ==
    \A m \in Names \ Buffered : manager[m].phase \in {"done", "over"} =>
        \A p \in Processes[m] : <<m, p>> \in told

(* space.go:80-91 with recovery.go:13-37: the register a space works with   *)
(* is its own, although the calculators save something else under its name. *)
KeepsItsName == \A s \in Spaces : register[s].name = s

(* The types.  Of a manager that was not asked yet nothing is known.        *)
Phases == {"starting", "serving", "sending", "awaiting", "done", "over"}
Statuses == {"running", "stopping", "answering", "ended"}
Registers == [name : Spaces \cup {""}, count : Nat, enabled : BOOLEAN]
Records == [kind : {"nothing"}] \cup [kind : {"state", "snapshot"}, n : Nat]

ManagersOK ==
    /\ manager \in [Names -> [phase : Phases, left : SUBSET AllProcesses, on : SUBSET AllProcesses]]
    /\ \A m \in Names :
        manager[m].left \subseteq Processes[m] /\ manager[m].on \subseteq Processes[m]

ProcessesOK ==
    /\ process \in [Names -> UNION {[Processes[m] -> Statuses] : m \in Names}]
    /\ \A m \in Names : process[m] \in [Processes[m] -> Statuses]

DataOK ==
    /\ register \in [Spaces -> Registers]
    /\ snapshot \in [Spaces -> Nat]
    /\ recovery \in [Spaces -> Records]
    /\ left \in [Spaces -> Nat]

TypeOK ==
    /\ server \in {"down", "starting", "up", "closing"}
    /\ starts \in Nat /\ young \in BOOLEAN
    /\ restored \in {"nothing", "registers", "snapshots"}
    /\ main \in [at : Nat \ {0}, waits : BOOLEAN]
    /\ rst \in [Spaces -> Spaces]
    /\ ManagersOK /\ ProcessesOK /\ DataOK

(* Every stop channel a manager is done with has been taken from by some    *)
(* process, though not always by the one it was made for.                   *)
Heard(m, p) ==
    \E q \in Processes[m] :
        <<m, q>> \in told /\ (IF m = "avgs" THEN rst[q] = p ELSE q = p)

Asked(m) == manager[m].phase \notin {"starting", "serving"}

ChannelsAreHeard ==
    \A m \in Names \ Buffered : Asked(m) =>
        \A p \in Processes[m] \ manager[m].left : Heard(m, p)

DoneLeftNone ==
    \A m \in Names : manager[m].phase \in {"done", "over"} => manager[m].left = {}

(* No manager was asked before the signal.                                  *)
AskedWhenClosing ==
    server # "closing" => \A m \in Names : ~Asked(m)

(* The inductive invariant.                                                 *)
LifecycleInv ==
    TypeOK /\ KeepsItsName /\ ChannelsAreHeard /\ DoneLeftNone /\ AskedWhenClosing

(* gateserver.ini:45, "if true the server state will be saved/restored":    *)
(* what a space had when it was stopped is there after the next start.      *)
StateSurvives ==
    SaveState /\ server = "up" =>
        \A s \in Spaces : register[s].count >= left[s]
=============================================================================
