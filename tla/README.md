# A TLA+ specification of the YugenFlow monitor server

This directory holds a formal model of the server in `src/`: TLA+ modules, the
TLC configurations that check them on small instances, and proofs of the most
important theorems for every instance. `PROJECT.json` lists the runs, the
theorems, the hazards of the code and, for every definition, the source lines it
stands for.

## 1. The system

The server counts people. Thermal sensors on doorways send signed samples over
TCP; the server turns them into crossings, crossings into the occupancy of
spaces, and occupancies into averages.

    sensor --TCP--> sensorManager --> gateManager --> entryManager --> spaceManager --> avgsManager --> registers, database, API, export

Every gate, entry, space and calculator is a goroutine that owns its state and
receives from one bounded channel (`ChannellingLength`). The managers share maps
under a lock only to find those channels.

| component | state | operations | talks to | what is hard |
|---|---|---|---|---|
| gate (`gateManager/gate.go`) | last samples, scratchpad of unmatched samples, differentials and suspicions per sensor, order list | a sample; the expiry; (stop, configuration reset) | entries over blocking channels; `ResetChannel` with a timeout | samples of two sensors in any order; five tables that must agree when a sensor is disabled; one slow entry blocks the gate |
| entry (`entryManager/entry.go`) | register of gate variations, rewritten by every value | a gate value | spaces over blocking channels | orientation of gates and entries |
| space (`spaceManager/space.go`) | register, shadow register, reset flag | a crossing, the reset by a crossing or by a timer, save and restore | calculator with a timeout, databases in background goroutines | correction of negative counts; the reset slot races with crossings; maps shared with background goroutines |
| calculator (`avgsManager/calculator.go`) | sliding window, last reference measurements, accumulated flows | a register, a tick, a reset | registers of the last data | ticks date samples ahead, registers come late, the window cuts samples |
| connections (`sensorManager/tcpserver.go`, `sensorHandler.go`) | tokens, `ActiveSensors`, tables `lookup`, `activeDevices`, `invalidDevices`, suspected addresses | connect, mac, packet, answer, disconnect | gates; command process | reconnecting devices, duplicate ids, a cleanup that runs while the device is back |
| commands (`sensorManager/commandhandler.go`, `apiManager/support.go`) | two channels per connection, each used in both directions | request, answer, timeout, reset | API, handler, device | one end takes back what it sent; late answers |
| black lists (`diskCache/maliciousip.go`, `maliciousmac.go`, `invaliddevices.go`) | warnings per address and device, records of devices without a valid id | mark, forgive, check, unmark once a day | connections | checked at the start of a connection, given at its end, taken back by jobs and goroutines |
| background reset (`sensorBGReset.go`) | the sensors still to reset in the slot | reset of all sensors, reset asked by a gate | commands | |
| disk cache (`storage/diskCache`) | definitions, lookup, devices, suspects, saved states | transactions | | one bucket for two kinds of saved state |
| start and shutdown (`main.go`, `*/start.go`) | stop channels | stop one manager after the other | all | request and answer on one channel |
| HTTP API, export, database | none of their own | read and format | | |

What makes each of them correct, in one line: a gate reports a crossing exactly
when there was one; a space holds exactly the people that crossed since it was
emptied, never fewer than none; a measurement is the exact average over its
window; a device has one connection, an id one device, and nothing of either
outlives its connection; a command is answered by the device it was sent to, and
nobody waits for it for ever; the accumulated flows explain the count, up to what
was never delivered; nobody is barred for ever; a stop ends the server, and what
it stored is there at the next start.

## 2. Modules

| module | models | state and actions |
|---|---|---|
| `Gate` | a gate goroutine | `Sample` is the whole of `case data := <-in`; `Send` one iteration of the loop over the entries; `Take` an entry's receive |
| `Delivery` | the way of a result to the spaces | the entries' receive and their loop over the spaces, the channels between, a space's receive |
| `Passage` | a gate and the people in front of it | the environment the gate is built for: `Enter`, `Pass` (each sensor once, in order), `Idle` |
| `Occupancy` | what a space promises | people wait, are counted or ignored, a closed space is empty |
| `Space` | a space goroutine and the entries before it | `Cross` is an entry with a gate value; every `case` of the loop is split where it waits for the calculator (`pc`) |
| `Calculator` | the sliding window of a calculator | `Receive`, `ReceiveReset`, `TickSample` are the cases of the loop, each with the posting that follows; `Pass` is time |
| `Tally` | the accumulated flows of a calculator, with the space that feeds it | `Crossing` changes the register the calculator may be copying, `Copy` accumulates it; registers and resets are taken or late |
| `Service` | what the connections promise to a device | one connection serves it, ends, and is over |
| `Registry` | all connections | one action per critical section or disk transaction of a handler, `pc` says which is next |
| `Suspects` | the black lists and what handlers do with them | one action per warning, pardon, daily job or packet that decides about one |
| `Commands` | commands to one connected device | callers, command process and handler, one action per send, receive, timeout or write |
| `Lifecycle` | starts, stops, and the state kept between them | main, managers and processes, one action per send, receive or timeout of a stop; the restores |
| `GateProofs`, `SpaceProofs`, `RegistryProofs`, `SuspectsProofs`, `CalculatorProofs`, `TallyProofs`, `CommandsProofs`, `LifecycleProofs` | | theorems about `Gate` with `Passage`, `Space`, `Registry`, `Suspects`, `Calculator`, `Tally`, `Commands` and `Lifecycle` |
| `MC...` | | values for the constants |

`Passage` extends `Gate` and composes it with its physical environment;
`Delivery` extends `Passage` with the entries and the channels of the spaces.
`MCGate` runs either `Delivery`, or `Gate` alone with arbitrary samples. `Space`
contains what the entries that feed it make of a value, since an entry keeps
nothing between two values, and leaves their waits to `Delivery`; `Tally` composes a space, reduced to its count and its register, with a
calculator. `Space` implements `Occupancy` and `Registry` implements `Service`:
each module ends with the instance of the abstract one (`Boundary`, `Serving`),
and the refinement is a property of a run and a theorem. The other modules meet at
the messages they exchange: what `Gate` sends (`net`, in -1 .. 1, one crossing at
a time: `TypeOK`, proved) is what `Space` takes; what `Space` offers is what
`Calculator` and `Tally` receive, the register telling one crossing
(`RegisterTellsOneCrossing`, proved); the connection that `Registry` takes from
its token to its end is the one `Suspects` follows through its warnings and
`Commands` through the commands sent to it.

### Gate

`val` is `sensorLatestData` and `scratchPad.senData` (the same value after every
sample); `unused.in` is `unusedSampleSumIn`, `unused.out` the absolute value of
`unusedSampleSumOut`, so that one operator, `Detect`, describes both directions;
`diff` and `times` are the differential and the suspicion counts;
`ordered` and `listening` the order list and the sensors that still have a
scratchpad; `resetCount` the samples left to `AsymmetryReset`; `pending` what
the loop over the entries still has to send. `owed` is a history variable, read
only by the bound `MaxOwed`. `Sample` is one turn of `case data := <-in` from
the sign reversal to the start of the sending loop, with everything between:
midnight, the watch, the verdict, the detection and the expiry. Timestamps occur
only in the comparison with the previous sample of the same sensor and appear as
the Boolean `sameTs`.

### Delivery

`remaining` is what the loop of an entry over its spaces still has to send
(entry.go:104-126), `inbox` the data channel of a space. Every send of a gate and
of an entry waits for room and has no timeout, so a space that does not receive
holds up its entries, then the gate and every entry behind it in the loop, then
the people: no action forces it to receive. `told` and `crossed` are history
variables. Of a message only the variation is kept; `Space` has the rest.

### Space

`count`, `variation` and `flows` are the space register, `shadow` and the rest
of its kind the shadow register. Each case of the loop that waits for the
calculator is two actions, before and after the wait (`pc`), because the clock
and the entries move meanwhile: `DataStartsReset` or `TimerStartsReset` with
`FinishReset`, `DataActive` with `FinishPost`. The offer that times out and the
offer that is taken lead to the same state of the space.

### Calculator

`samples` is the slice of registers kept for the longest window, `reference` the
last reference measurement of each period, `occupancy` a history variable with
what really arrived. `Receive`, `ReceiveReset` and
`TickSample` are the cases of the loop; each ends with `Post`, the calculation
and publication that the code performs before it loops. The properties compare the
measurements with the averages computed from `occupancy` directly, a definition that shares nothing with the
sliding window. A tick is a case of a `select` with `time.After`, so it fires
only when nothing arrived for that long, and stamps its copy with a time still
to come (calculator.go:237-255).

### Registry

A handler's place (`pc`) lies between its critical sections, its disk
transactions and its waits. `channels[c] = d` says that the definition of `c`
holds the channels that were made for `d`: a connection that finds its device
connected already reads the definition of the other one (sensorHandler.go:236).
The deletes of the cleanup may fail, since their errors are ignored
(sensorHandler.go:138, 143); `stuckDevices` and `stuckKeys` (history variables)
are the entries that remain for this reason and were not written since.
Checks against the tables of suspects may go either way. `lookup` is keyed by
one byte of the id, as `AddLookUp([]byte{byte(id)}, ...)` does it, and the
instance checked has two ids with the same byte.

### Tally

`count` and `shown` are the register of the space, `offer` what it holds out to
the calculator, `taken` the register the calculator has received and is still
copying: the channel copied the struct, but its maps are those of the space, so
`CrossingDuringCopy` gives the calculator, for each entry, the old map, the new
one, or one zeroed in between (space.go:20-65, calculator.go:264-289).
`snapshot` is the accumulated flows of space, entries and gates. `adrift` is a
history variable: what the space counted and the calculator never got.

### Suspects

`pc` keeps of a connection what decides about warnings; a handler that waits
before or after it marks is in `doubted` or `punished`, because the wait
(`WaitRandom`) is when others pass their check. `forgiving` holds the goroutines
started at a registration or activation that have not run yet. `invalid` is the
table of devices without a valid or used id; `Ages` lets a record become too
old. An answer to setid ends as any other answer, by a failure or a pardon, also
when nobody takes it (`Forgiven`, sensorHandler.go:788-797), or, after a verdict
about it, with the handler leaving (`LeavesSetId`).

### Commands

A channel is a queue (`buffer`) and those who wait for it (`parked`), in order;
`inbox` is a message handed over and not looked at yet, because Go completes a
receive before the receiver runs. Both channels carry messages both ways, so a
party may get what it sent itself. Every wait in the code has a timeout, and
every timeout may come at once. The device answers a request it received, later
or never; `DeviceSpeaks` is an answer nobody asked for. `noisy` is a history
variable: it turns true when a message had to be buffered, came late or was one
of several.

### Lifecycle

`main` and `manager` are where `main.go` and the loop of each manager over its
stop channels are; `process` the goroutines they stop; `buffer` the stop channels
of capacity one that hold something; `rst` whose stop channel a calculator
listens to, since its closure reads a loop variable (avgsManager/start.go:121,139;
the repository has no go.mod, so each loop has one variable). `recovery` is the
bucket of the disk cache. A manager is in phase `starting` until it comes to
`<-sd` (`Listens`); main hands it its request without a buffer or a timeout
(main.go:141), so it waits until then. The signal may come during the start, in
the middle of main's sleeps: what is still to be started goes on starting, and a
process takes a stop request only after it has restored what it stores (`Runs`).
`Kill` ends the server anywhere. `left` and `told` are history variables.

## 3. What is checked

| run | instance | properties |
|---|---|---|
| `gate` | 2 sensors, the second reversed, 2 entries (one mirrored) of 2 spaces, limits 2 and 2, expiry after 5, channels of 1; either any samples, or people who walk in | `TypeOK`, `OneSidedScratch`, `NoPhantomCrossing`, `OrderedIsListening`, `LeadBelowMax`, `DisabledForGood`; with people `EveryCrossingCounted`, `EverySpaceIsTold` |
| `space` | 2 entries (one reversed), 2 gates (one of both entries), reset slot, counts to 2 | `TypeOK`, `CountIsReflected`, `EmptyAfterReset`, `RegisterTellsOneCrossing`, `SlotEmpties`, `KeepsOccupancy` |
| `calculator` | tick 2, windows 6 and 8, reference 9, one reset, registers up to 3 late, 3 crossings | `TypeOK`, `WindowIsExact`, `FlowIsExact`, `ReferencesAreExact` |
| `tally` | 2 entries that share one of 2 gates, integers of 2 bits, net flows to 1 | `ElementsBalance`, `DriftIsLoss`, `EntryIsItsGates` |
| `registry` | 3 connections of 2 devices, ids 0, 256 and unset, 2 tokens, one delete that fails | `TypeOK`, `RegisteredOnce`, `IdsAreInUse`, `NoLeftovers`, `TokensAreHeld`, `ProcessesEnd`, `KeepsService` |
| `registry_commandable` | 2 connections of one device | a counterexample to `ActiveIsCommandable` |
| `suspects` | 2 handlers, 1 address, 2 devices (one defined and strict), 2 warnings bar an address, 1 a device | `TypeOK`, `WarningsBounded`, `ActiveIsValid`, `BansEnd` |
| `suspects_unused` | the same | a counterexample to `UnusedIsRejected` |
| `commands` | a call of the API and a `setID`, buffers of 1, one unasked answer | `AloneIsAnswered`, `ConnectionEnds`, `ProcessServes` |
| `commands_answer` | a call of the API and a background reset, buffers of 5 | a counterexample to `AnswerIsTheDevices` |
| `lifecycle` | 3 managers (one with buffered stop channels), 2 spaces, 2 starts, 1 stop, also during the start | `DoneMeansTold`, `KeepsItsName`, `ServerExits` |
| `lifecycle_restore` | 1 space | a counterexample to `StateSurvives` |

Every property of a passing run has a mutant (`PROJECT.json`, "mutants"): a
plausible slip in one mapped definition, kept beside it in the module under the
name `<definition>_<slip>`, with which TLC refutes the property under the same
configuration.

### What the properties say

- A gate: in each direction the unmatched samples belong to one sensor
  (`OneSidedScratch`); a crossing is paid for by samples that were not used yet
  (`NoPhantomCrossing`); the positions the detector indexes are those of the
  sensors still listened to (`OrderedIsListening`), and a sensor once disabled
  leaves no samples behind for the other one to match (`DisabledForGood`);
  the watch never tolerates a lead at its limit (`LeadBelowMax`). With people who
  walk in through it one after the other, it counts each of them
  (`EveryCrossingCounted`), across midnight and the expiry, which on the way in
  disturbs nothing (on the way out it does: section 5); people who cross make no
  sensor suspect. And each of them is told to every space of every entry once,
  with the sign of that entry, whatever was waiting for whom
  (`EverySpaceIsTold`).
- A space: its count is the sum of the crossings since it was emptied, raised by
  the deepest deficit that sum reached (`CountIsReflected`, the reflection of
  the sum at zero: a correction forgives exactly what was impossible); it is
  empty from the reset to the first crossing after the slot (`EmptyAfterReset`);
  its register tells the last crossing and only that, with the same sign for
  space, entry and gate (`RegisterTellsOneCrossing`); the slot does empty it,
  whether people cross or not (`SlotEmpties`). Seen from outside it counts people
  in the order they came or ignores them (`KeepsOccupancy`).
- A calculator: what it publishes is the exact average of what it could know
  over the window, but for windows the samples are not kept long enough for, when
  the register that ends them was overtaken by a tick: these are shorter, by no
  more than that register was late (`WindowIsExact`). The flow counts each
  crossing in the window once and no other, after a register that no tick overtook
  (`FlowIsExact`). Reference measurements are exact when they are stored, the
  longest window too, and do not overlap (`ReferencesAreExact`).
- Its accumulated flows: whichever overflow, in and out keep their signs and add
  up to the net flow (`ElementsBalance`); what they do not explain of the count
  is exactly what was thrown away or not reset (`DriftIsLoss`); an entry is the
  sum of its gates (`EntryIsItsGates`).
- Connections: each device has one connection, which nobody else removes
  (`RegisteredOnce`); a taken id is in use (`IdsAreInUse`); nothing in the disk
  cache outlives its handlers, but what a delete failed on (`NoLeftovers`); no token is lost
  (`TokensAreHeld`); no command process stays for ever (`ProcessesEnd`); a
  device is served by one connection after the other (`KeepsService`).
- Black lists: however many handlers race past a check, the warnings stay close
  to the threshold (`WarningsBounded`); every ban ends, although devices are
  unmarked by the threshold of addresses (`BansEnd`); no record of an invalid id
  is left under an active device (`ActiveIsValid`).
- Commands: whoever stops answering, the handler gets its lock and ends
  (`ConnectionEnds`) and the process comes back to its loop (`ProcessServes`),
  where it may find a reply of its own that nobody took;
  a call that meets no race and no delay gets the answer of the device, and the
  device no failure (`AloneIsAnswered`).
- Starts and stops: the server ends however its managers hang once they listen
  (`ServerExits`); a manager without buffers reports that it is done only when all
  its processes were told (`DoneMeansTold`; one with buffers may take its own
  request back, and nobody is told); a space never works under the record of something
  else (`KeepsItsName`).

### Bounds, and why they suffice

- `MaxOwed` (Gate) bounds the samples not yet accounted for, `ChannelLength` the
  entry channels. The scratchpad itself needs no bound: two samples per sensor
  are its proven maximum. Limits of 2 let leads, suspicions, the disabling of a
  sensor and the expiry all happen within a few samples; the theorems cover any
  limit.
- With people, `MaxOwed` bounds how many there are (`Passage`): with 12 eleven walk
  through the gate, several expiry periods of 5 samples, and the channels of one
  message fill up everywhere. Arbitrary samples are bounded by `MaxAny` (`MCGate`):
  three not accounted for are more than the two that one sensor can leave.
- `MaxNet` (Space) bounds the people there are, those in the channel included.
  A count of two distinguishes a corrected, a partly emptied and an uncorrected
  space; twice that bounds the shadow count.
- `Horizon`, `MaxEvents`, `MaxDelay`, `MaxCount` (Calculator) bound the time,
  the crossings, their lateness and their effect. Sixteen units are eight ticks
  and nearly two of the longest windows, so that samples enter, are cut and leave.
  A `MaxDelay` of three is more than a tick: registers from before a tick arrive
  after it, and after the next one. As in the `measurements.ini` that is shipped
  the longest window is a reference, and neither it nor the longer real time
  window is covered (section 4, Calculator): the run contains the windows that
  are cut short.
- `Width` (Tally) is the width of an integer, `MaxFlow` bounds the net flows
  below its range: two bits overflow after two crossings either way, so every
  element overflows and starts again many times. A net flow that overflows (2^63
  people more in than out) is left out.
- `MaxStuck` (Registry) bounds the entries that a failed delete leaves at a time.
  Registry needs no other bound: a connection is used once, and three of them give a
  connected device, a second connection of it, and a device with a
  conflicting id.
- Suspects needs no bound: a handler can be used again, warnings are bounded
  by the property, and failures by the threshold. Two handlers are the fewest
  that race; a device that is strict and one without definition take all paths.
- `MaxUnasked` (Commands) bounds the answers nobody asked for, and every caller
  calls once: two callers, one unasked answer and buffers for one message give
  every pair of parties a chance to take the message of another.
- `MaxCount`, `MaxStarts`, `MaxStops` (Lifecycle): one person, and one stop
  between two starts, are what a restore needs.

### Fairness

- `Space`: weak fairness of the space goroutine (`SpaceStep`). Its offers to the
  calculator have a timeout, and its own timer fires when no crossing arrives.
  Neither people nor the clock are fair: `SlotEmpties` allows the slot to end
  first.
- `Registry`: weak fairness of the steps a handler takes by itself (`Handle`)
  and of the timer with which a command process finds itself a zombie. Nothing
  is assumed about devices: connecting, sending and disconnecting are not fair,
  nor is `Return`.
- `Suspects`: weak fairness of the two daily jobs, which `Cronos` starts by the
  clock (time.go:55-82). Handlers, devices and the goroutines that forgive need
  none: a ban ends without them.
- `Commands`: weak fairness of every goroutine (callers, process, handler): each
  can always go on, if only by a timeout. Nothing is assumed of the device.
- `Lifecycle`: weak fairness of the goroutine of main, and of every manager's way
  to `<-sd`: main starts it, and nothing on that way waits for another process.
  Nothing is asked of what a manager or a process does about a stop.
- `Calculator`, `Tally`, `Gate`, `Passage` and `Delivery` are checked for safety
  only: spaces, entries and gates wait for one another without a timeout, and
  people and sensors owe nothing.

TLC checks all runs for deadlock but `registry`, where all the connections there
are may have been closed, and `commands`, where all callers may have called and the
connection may be gone: these set `CHECK_DEADLOCK FALSE`. `Lifecycle` stutters
when the last start is over.

## 4. What is proved

The theorems hold for every value of the constants that satisfies the named
assumptions (`LayoutAssumption` and `SettingsAssumption`, `PassageAssumption`,
`DeliveryAssumption`, `SpaceAssumption`, `RegistryAssumption`, `SuspectsAssumption`, `TallyAssumption`,
`CalculatorAssumption`, `CommandsAssumption`, `LifecycleAssumption`), which TLC evaluates in every run. The
assumptions say that names are distinct, that the tables of the configuration
have their types, that limits and lengths are positive, that connections, entries,
gates and spaces are finitely many. None bounds a size, but `MaxFlow < Half` in
`Tally`: net flows stay below the range of an integer. That `Half`, a power of two,
is a positive number is assumed because the provers know nothing about powers.
`Calculator` takes the clock to be two longest windows past the epoch at the start,
real time windows to be three ticks or longer, as start.go makes the tick (lines
87-95), and every window and the tick to be positive: a duration of zero is
refused (start.go:82), a negative one or one too short for a tick is taken for a
mistake in the configuration.

| theorem | says |
|---|---|
| `GateInvariant`, `GateTypeCorrect` | `GateInv`; types, and at most two unmatched samples per sensor and direction |
| `GateOneSided`, `GateNoPhantom`, `GateOrderedIsListening`, `GateLeadBelowMax` | the safety invariants of run `gate` |
| `GateDisabledForGood` | the action property of run `gate` |
| `PassageCountsEveryone` | `EveryCrossingCounted` of run `gate`, for the gates and people of `Dependable`: one sensor, or two with people who walk in and a watch that suspects nobody |
| `SpaceInvariant`, `SpaceTypeCorrect`, `SpaceCountIsReflected`, `SpaceEmptyAfterReset`, `SpaceRegisterTellsOne` | `SpaceInv` and the invariants of run `space` |
| `SpaceShadowUncorrected` | without a reset slot, or without a reversed entry, the shadow count is the sum of all crossings: the counterexample `MCSpaceSlotShadow.cfg` gives needs both |
| `SpaceImplementsOccupancy` | `KeepsOccupancy` of run `space`: every step of a space is a step of `Occupancy` or hidden from it |
| `RegistryInvariant`, `RegistryTypeCorrect`, `RegistryTokensAreHeld`, `RegistryRegisteredOnce`, `RegistryIdsAreInUse`, `RegistryNoLeftovers` | `RegistryInv` and the invariants of run `registry` |
| `RegistryImplementsService` | `KeepsService` of run `registry`: every step is a step of `Service` or hidden from it |
| `SuspectsInvariant`, `SuspectsTypeCorrect`, `SuspectsWarningsBounded`, `SuspectsActiveIsValid` | `SuspectsInv` and the invariants of run `suspects` |
| `TallyInvariant`, `TallyTypeCorrect`, `TallyElementsBalance`, `TallyDriftIsLoss`, `TallyEntryIsItsGates` | `TallyInv`, types, and the invariants of run `tally` |
| `CalculatorInvariant`, `CalculatorTypeCorrect` | `CalculatorInv` and types, the lengths of reference measurements included |
| `CalculatorWindowIsExact`, `CalculatorReferencesAreExact` | an invariant and the action property of run `calculator`, for every value of the constants |
| `CalculatorFlowIsExact` | the other invariant of run `calculator`, for every window and every value of the constants |
| `CalculatorFlowIsNear` | the flow over a `Covered` window is off by one at most, even if a tick overtook the register |
| `CommandsInvariant`, `CommandsTypeCorrect`, `CommandsAloneIsAnswered` | `CommandsInv`, types, and the invariant of run `commands` |
| `LifecycleInvariant`, `LifecycleTypeCorrect`, `LifecycleKeepsItsName`, `LifecycleDoneMeansTold` | `LifecycleInv`, types, and the invariants of run `lifecycle` |
| `SuspectsOffBarsForGood` | with `malicious_control` off, a barred device that is neither connected nor about to be forgiven stays barred; no run has this mode |

**Gate.** `NoPhantomCrossing` is not inductive alone: a sample matched by
two samples on either side at once would report more than it was owed.
`OneSidedScratch` excludes that, and needs in turn that a verdict of the watch
never keeps samples of a sensor it removes (`OrderedIsListening`). The lemma
`DetectStep` does the arithmetic for one direction, `VerdictStep` the watch.
`GateInv` joins the five invariants and adds that a sensor which is no longer
listened to has left nothing behind.

**Passage.** `PassageInv` says what the gate has in its scratchpad while people
walk in: nothing, or the one sample of who is between the sensors, with no sensor
ahead by more than that one. `DetectMatches` says what the two samples of a
crossing make of it, `WalkVerdict` that the watch suspects nobody, `GateInv` the
rest. `Dependable` excludes what breaks it: people who walk out while the out side
expires (finding 5), a limit that one sample reaches, and samples without a
crossing that are counted as a lead.

**Space.** `CountIsReflected` relates the count to two history variables, the sum
of crossings and its minimum; `SpaceInv` adds that the minimum is one. A reset is
split where it waits for the calculator, so `SpaceInv` also says that it is not
done while it waits, that only then a message is held, and that a space without
slot never waits for one; and, for the register, that every message in the
channel names a gate of its entry.

**Registry.** A cleanup removes entries by device and by id without looking who
wrote them. It is right because `RegisteredOnce` admits one registered handler
per device, and because every entry has a handler that is still there
(`IdsAreInUse`, `NoLeftovers`); when two handlers of a device or with a common
last byte overwrite each other's entries, the entry left is one of a handler
that will still delete it. `RegistryInv` adds when a handler knows its device and
its id (`SensorIsDefined`): without it a handler refused before its mac was known
could be taken for a registered one.

**Refinement.** `SpaceImplementsOccupancy` maps the crossings in the channel,
each with its configured sign, the count, and whether the space is in its slot or
still resetting. `SendingIsArriving` and
`TakingIsTheFirst` relate the channel to the abstract queue, `ActiveCounts` and
`SlotIgnores` the two ways a message ends, `StepIsOccupancy` puts one of them under
every action; types and `CountIsReflected` come from `SpaceInv`.
`RegistryImplementsService` reads the abstract state off `ActiveSensors` and the
handlers' places: `OverKeeps` and `OverGrows` say what an end may change,
`UnregisteredServesNone` and `RegisterBegins` that a device gets a handler only when it
has none, which is `RegisteredOnce` at work.

**Suspects.** `WarningsBounded` is not inductive: a handler checks the
warnings once and adds one later, when others may have done the same.
`WarningsToCome` counts the handlers that passed the check together with the
warnings; a handler joins them only while the warnings are below the threshold, and
leaves when it gives its own. The lemma `KeepsBelow` does this
arithmetic of cardinalities once for all actions. `ActiveIsValid` needs `OneActive`:
a second handler of an active device could give that device a record.

**Tally.** A register tells one crossing at one gate of one entry
(`TellsOneCrossing`), so every sum over it is that crossing or nothing. A tally
that takes one crossing adds it, or overflows; then the sign of `in` or `out` is
wrong, which is what the code looks for, and the tally starts again from a net flow
that did not overflow (`NetsInBounds`). Registers thrown away break none of this
because the gates of an entry miss the same ones (`GatesInRegister`), and what the
space misses is `adrift` (`CountExplained` adds what is on its way). The sums over
entries and gates are those of the community modules, recursive functions on sets;
what they yield for every finite set is proved by induction on cardinality, with
the set of the sizes for which it holds in place of a predicate (`SetInduction`).

**Calculator.** Samples come out of order and ahead of time, so the time between two
of them may be negative and no sample alone says how long its count held. What holds
is about their sum: there is a function of the samples (`h` in `Tells`) that grows
from each sample to the next as a measurement does, and is the area under the count
at every sample that only later ones follow (`Settled`). With `Lasts`, that a sample
says the truth until the earliest one after it, this survives both the slide of the
window and a new sample (`TellsSlid`, `TellsAppend`), and gives exact measurements in
the three ways a window can begin (`WindowCases`), if the samples reach back to its
beginning (`ReachBack`). The three cases of the loop are one for the proof,
`AddsSample`. `Referenced` keeps references from being overlong. TLC has checked
`CalculatorInv`, with `h` computed from the last sample backwards, on instances with
delays of one, two and four and two resets.

The samples do not always reach back. A tick cuts them at its own time, which is to
come (calculator.go:247-254), and a register from before it that arrives later
(`Overtaken`) ends a window that begins before the cut, if the window is about as
long as the longest one: it is not `Covered`. Such a real time measurement is shorter
than its period by at most `Lateness` (`Long`), and it is exact in every other case:
`WindowIsExact` says both, and no theorem asks anything of the constants. Shorter
windows are covered as long as registers are later by less than what they lack to the
longest. For a reference there is no such exception, not even for the longest: it is
posted when it is due, and a tick that overtook a register came when it was due, so it
has posted it before that register arrives (`DueIsTimely`).

The flow of a window is a sum of crossings, and the samples carry each of them once
whatever order they are in. `Places` says so: since the last reset every sample is
at the place of a register of `occupancy`, in their order, or of none, and those
placed before a sample are from before it and all samples after it. A slide drops
samples from the front (`PlacesSlid`), a new register is the last one
(`PlacesAppended`), a reset leaves nothing to say about what came before it. One
case breaks it: the tick that slides the window moves its oldest sample to the cut
(calculator.go:247-254) and leaves it the flow of a crossing before. `Moved` says
which sample that is, and `Cut` and `CutReaches` that it is in a window only if a
tick overtook the register that ends the window. So `FlowIsExact`, which excludes
such registers, is proved without a hypothesis on the constants, and otherwise a
flow is wrong by that one crossing, no more (`CalculatorFlowIsNear`). `Places` and
`Cut` are conjuncts of `CalculatorInv`; TLC has checked them with delays of zero,
one, three and six and two resets.

**Commands.** `AloneIsAnswered` is about calls that meet no race, so `CommandsInv`
says where everything is as long as `noisy` is false (`Quiet`): nothing is
buffered, at most one command is in progress, and who waits for which channel
follows from the places of caller, process and handler. Each action of such a
state hands the command on or makes the state noisy; that the message goes to the
party meant depends on who is first among those who wait, which `QuietChannels`
gives. TLC has checked `CommandsInv` as an invariant of both configurations, and as
inductive from every state of a small instance that satisfies it.

**Lifecycle.** `DoneMeansTold` counts: a manager gets rid of a request only when a
process takes it (`ChannelsAreHeard`); a calculator may listen to the channel of
another one, but to one channel only, and as many channels as calculators are heard
only if all calculators were told: a function of a finite set onto itself is
one-to-one. `KeepsItsName` follows the records through restarts; a snapshot under a
space's key is never read as a state.

Only model-checked: liveness (`SlotEmpties`, `ProcessesEnd`,
`BansEnd`, `ConnectionEnds`, `ProcessServes`, `ServerExits`; fairness is out of the
prover's reach) and `EverySpaceIsTold`. Every other invariant and action property of
a passing run is proved, some under the hypotheses that the table names.

## 5. What the modelling found

Four runs end in a state of the code that a comment, a configuration file or the
documentation excludes:

1. `registry_commandable`: a second connection of a device that is connected is
   refused, but holds the channels of the first; its cleanup ends the command
   process of the connection in use (sensorHandler.go:117-131, 236), and the
   device, valid and active, takes no more commands (README.md:340-350).
2. `commands_answer`: request and answer share a channel with a buffer
   (apiManager/support.go:124-126). While the process is busy a caller takes its
   own request back and shows it as the answer of the device (README.md:375).
3. `lifecycle_restore`: the state of a space is overwritten by the snapshot of its
   calculator, in the same bucket under the same key (recovery.go:27), and only
   the first space restores (space.go:72). What `save_state` promises
   (gateserver.ini:45) does not happen. A state that is read comes without `State`
   (dataformat.go:70), so a restored space counts nobody.

4. `suspects_unused`: `maximum_undefined_time` (gateserver.ini:27) is to bound how
   long a device may be without a valid or used id. One whose id is unused is never
   rejected: each packet drops its record (sensorHandler.go:511) before the handler
   asks for its age (541), so lines 554-561 are never reached.

Four more counterexamples are at hand, as configurations beside the runs:

5. `MCGateOut.cfg`, `EveryCrossingCounted`: after `AsymmetryReset` samples the
   gate forgets unmatched samples of the out direction only (gate.go:318-324).
   Somebody on the way out whose first sensor came just before is not counted. The
   same gate counts everybody on the way in (`gate`).
6. `MCSpaceSlotShadow.cfg`, `ShadowIsUncorrected`: in the reset slot the shadow
   register is updated before the orientation of the entry is looked up
   (space.go:223, 238), so a reversed entry counts with the wrong sign; the "copy
   without adjustments" drifts.
7. `MCSpaceShadowDb.cfg`, `ShadowDbIsUncorrected`: with `shadowing`, outside the
   slot the corrected register goes to the shadow database (space.go:336-340),
   which `gateserver.ini:8` declares uncorrected.
8. `MCCalculatorReset.cfg`, `WindowIsPeriod`: the reset of a space carries no
   timestamp (space.go:195-197), so the measurement posted with it ends at time 0
   and covers no window (`measurements.ini:3-4`).

And some that passing runs state as they are:

- `OffBarsForGood` (proved): with `malicious_control : 0` (gateserver.ini:20, off)
  devices are still marked, for a wrong or taken id, and still barred; what is off
  is the job that would unmark them.
- `EntryIsItsGates` excludes resets that were not taken: then entries and gates of a
  calculator disagree until the next one.
- The README gives `async=0` for asynchronous commands; handlers.go:536 tests for 1.

## 6. Not modelled

- The loop of the background reset and the stop of the TCP server (which closes
  every connection under the lock, tcpserver.go:85-99) are not modelled, only what
  they ask of a connection (`Commands`) and of main (`Lifecycle`).
- The EEPROM refresh: one device, sequential; its failure is an outcome of `Return`
  in `Registry`.
- JSON and HTTP formatting, the MongoDB and script exports: they read and format what
  other modules own.
- The configuration: its values are the CONSTANTS of the modules.
- The alternative builds are variants of what is modelled.
- Data races on the memory of a map (space.go:318): Go leaves open what they do. The
  one whose outcomes matter to the state, the copy of a register, is in `Tally`.
- Integers of the net flow itself: see the bounds.

What would come next: the loop of the background reset (its list does not shrink,
sensorBGReset.go:123) over `Commands`; a restart of `Registry`, whose tables survive a
kill (diskCache/start.go:107); gates, entries and spaces composed under `Occupancy`.
