------------------------------- MODULE Commands -----------------------------
(***************************************************************************)
(* Commands to one connected device.  A caller (executeCommand in           *)
(* apiManager/support.go, resetFn in sensorBGReset.go, setID in             *)
(* sensorCommands.go) hands its request to the command process of the       *)
(* connection (commandhandler.go), which sends it to the device; the        *)
(* handler of the connection (sensorHandler.go) hands the answer of the     *)
(* device to the process, which hands it to the caller and a verdict to the *)
(* handler.  Both channels carry messages either way, and have a buffer: a  *)
(* sender leaves its message with whoever waits first, else in the buffer,  *)
(* and a receiver takes the first message there is.                         *)
(*                                                                          *)
(* Abstractions.  A message is what it is, and its command.  Every wait     *)
(* with a timeout may end at any time.  The handler is past the             *)
(* identification of the device.                                            *)
(***************************************************************************)
EXTENDS Naturals, SequencesExt

CONSTANTS
    Api,               (* calls of the API                                   *)
    Resets,            (* background resets                                  *)
    Enforcers,         (* setID calls of the handler                         *)
    CmdOf,             (* [Callers -> their command]                         *)
    Capacity,          (* ChannellingLength                                  *)
    FailureThreshold,  (* FailureThreshold                                   *)
    Malicious,         (* MalicioudMode > OFF                                *)
    ResetCloseTCP,     (* a background reset closes the connection           *)
    MaxUnasked         (* bound on the answers to no request                 *)

Callers == Api \cup Resets \cup Enforcers
Process == "process"
Handler == "handler"
Parties == Callers \cup {Process, Handler}
Channels == {"Commands", "CmdAnswer"}

ASSUME CommandsAssumption ==
    /\ Callers \cap {Process, Handler} = {}
    /\ Api \cap Resets = {} /\ (Api \cup Resets) \cap Enforcers = {}
    /\ \A c \in Resets : CmdOf[c] = "rstbg"
    /\ \A c \in Enforcers : CmdOf[c] = "setid"
    /\ Capacity \in Nat /\ FailureThreshold \in Nat /\ MaxUnasked \in Nat
    /\ Malicious \in BOOLEAN /\ ResetCloseTCP \in BOOLEAN

VARIABLES
    buffer,      (* [Channels -> the messages in the buffer]                 *)
    parked,      (* [Channels -> who waits for a message, in order]          *)
    inbox,       (* [parties -> the message handed to it, or Nothing]        *)
    caller,      (* [Callers -> where it is]                                 *)
    process,     (* where the process is                                     *)
    work,        (* [cmd, issuer, responder] of the command it works on      *)
    allowed,     (* allowedUnexpectedAnswers                                 *)
    reset,       (* the channel reset holds a request                        *)
    handler,     (* where the handler is                                     *)
    answer,      (* the answer it works on                                   *)
    failures,    (* sensorDef.failures                                       *)
    open,        (* the TCP connection                                       *)
    wire,        (* requests on their way to the device                      *)
    unasked,     (* answers to no request so far                             *)
    noisy        (* history: something was late, buffered, or concurrent     *)

channels == <<buffer, parked, inbox>>
processVars == <<process, work, allowed>>
handlerVars == <<handler, answer, failures>>
tcp == <<open, wire, unasked>>
vars == <<channels, caller, processVars, reset, handlerVars, tcp, noisy>>

Message(is, cmd) == [is |-> is, cmd |-> cmd]
Nothing == Message("nothing", "")
Nil == Message("nil", "")
Error == Message("error", "e")
Request(c) == Message("request", CmdOf[c])
Idle == [cmd |-> "", issuer |-> Nil, responder |-> Error]

CallerAt(c, place) == caller' = [caller EXCEPT ![c] = place]

-----------------------------------------------------------------------------
(* The channels.  Nobody waits twice for the same one.                      *)
Without(s, p) ==
    IF Contains(s, p) THEN RemoveAt(s, CHOOSE i \in DOMAIN s : s[i] = p) ELSE s

Withdrawn(p) == [ch \in Channels |-> Without(parked[ch], p)]
Pending(p) == \E ch \in Channels : Contains(parked[ch], p)

(* A message as it is handed over, with the channel it came from.           *)
Parcel(ch, m) == [ch |-> ch, m |-> m]
Empty == Parcel("", Nothing)

(* ch <- m, as soon as somebody waits or there is room.                     *)
Send(ch, m) ==
    IF parked[ch] # <<>>
    THEN LET p == Head(parked[ch]) IN
         /\ inbox' = [inbox EXCEPT ![p] = Parcel(ch, m)]
         /\ parked' = Withdrawn(p)
         /\ UNCHANGED buffer
    ELSE /\ Len(buffer[ch]) < Capacity
         /\ buffer' = [buffer EXCEPT ![ch] = Append(@, m)]
         /\ UNCHANGED <<parked, inbox>>

(* <-ch of one of chs, or wait for it.                                      *)
Receive(p, chs) ==
    \/ \E ch \in chs :
        /\ buffer[ch] # <<>>
        /\ inbox' = [inbox EXCEPT ![p] = Parcel(ch, Head(buffer[ch]))]
        /\ buffer' = [buffer EXCEPT ![ch] = Tail(@)]
        /\ UNCHANGED parked
    \/ /\ \A ch \in chs : buffer[ch] = <<>>
       /\ parked' = [ch \in Channels |->
                        IF ch \in chs THEN Append(parked[ch], p) ELSE parked[ch]]
       /\ UNCHANGED <<buffer, inbox>>

Got(p) == inbox[p].m
Has(p, ch) == inbox[p].m # Nothing /\ inbox[p].ch = ch

(* The message is used.                                                     *)
Emptied(p) == inbox' = [inbox EXCEPT ![p] = Empty] /\ UNCHANGED <<buffer, parked>>

(* p stops waiting; it can as long as nothing was handed to it.             *)
StopWaiting(p) ==
    /\ Pending(p)
    /\ parked' = Withdrawn(p)
    /\ UNCHANGED <<buffer, inbox>>

-----------------------------------------------------------------------------
(* The process waits for a command.                                         *)
Init ==
    /\ buffer = [ch \in Channels |-> <<>>]
    /\ parked = [ch \in Channels |-> <<Process>>]
    /\ inbox = [p \in Parties |-> Empty]
    /\ caller = [c \in Callers |-> "idle"]
    /\ process = "idle"
    /\ work = Idle
    /\ allowed = FailureThreshold
    /\ reset = FALSE
    /\ handler = "reading"
    /\ answer = Nothing
    /\ failures = 0
    /\ open = TRUE
    /\ wire = <<>>
    /\ unasked = 0
    /\ noisy = FALSE

(* The handler has removed the connection from ActiveSensors.               *)
Registered == handler # "gone"

(* The calls that hold a read lock of ActiveSensors.                        *)
Locked == {c \in Api : caller[c] \in {"sending", "sent", "waiting"}}
InProgress == {c \in Callers : caller[c] \in {"sending", "sent", "waiting"}}

(* A call begins: of the API with the lock of ActiveSensors, which nobody   *)
(* gets while the handler waits for it; of setID in the handler.            *)
Call(c) ==
    /\ caller[c] = "idle"
    /\ Registered
    /\ c \in Api => handler # "unregistering"
    /\ IF c \in Enforcers THEN handler = "reading" /\ handler' = "enforcing"
       ELSE UNCHANGED handler
    /\ CallerAt(c, "sending")
    /\ noisy' = (noisy \/ InProgress # {} \/ process # "idle")
    /\ UNCHANGED <<channels, processVars, reset, answer, failures, tcp>>

(* setID leaves the rest to a goroutine; then the handler goes on.          *)
Released(c) == handler' = IF c \in Enforcers THEN "reading" ELSE handler

(* case channels.Commands <- cmd.                                           *)
Ask(c) ==
    /\ caller[c] = "sending"
    /\ Send("Commands", Request(c))
    /\ CallerAt(c, "sent")
    /\ Released(c)
    /\ noisy' = (noisy \/ parked["Commands"] = <<>>)
    /\ UNCHANGED <<processVars, reset, answer, failures, tcp>>

(* case ans := <-channels.Commands.                                         *)
AwaitResult(c) ==
    /\ caller[c] = "sent"
    /\ Receive(c, {"Commands"})
    /\ CallerAt(c, "waiting")
    /\ UNCHANGED <<processVars, reset, handlerVars, tcp, noisy>>

TakeResult(c) ==
    /\ caller[c] = "waiting"
    /\ Has(c, "Commands")
    /\ Emptied(c)
    /\ CallerAt(c, "done")
    /\ UNCHANGED <<processVars, reset, handlerVars, tcp, noisy>>

(* case <-time.After: SettleTime, SensorTimeout, ZombieTimeout.             *)
SendTimeout(c) ==
    /\ caller[c] = "sending"
    /\ CallerAt(c, "done")
    /\ Released(c)
    /\ noisy' = TRUE
    /\ UNCHANGED <<channels, processVars, reset, answer, failures, tcp>>

(* Mutation: a caller waits however long it takes.                          *)
ResultTimeout_Never(c) == FALSE

ResultTimeout(c) == caller[c] = "waiting"

GiveUp(c) ==
    /\ ResultTimeout(c)
    /\ StopWaiting(c)
    /\ CallerAt(c, "done")
    /\ noisy' = TRUE
    /\ UNCHANGED <<processVars, reset, handlerVars, tcp>>

-----------------------------------------------------------------------------
(* The command process.                                                     *)
Loop ==
    /\ process = "loop"
    /\ Receive(Process, Channels)
    /\ process' = "idle"
    /\ UNCHANGED <<caller, work, allowed, reset, handlerVars, tcp, noisy>>

(* case cmd := <-chs.Commands: cmd[0] of nil panics, and RunWith ends the   *)
(* process or starts it again; anything else counts as a command.           *)
TakeCommand ==
    /\ process = "idle"
    /\ Has(Process, "Commands")
    /\ Emptied(Process)
    /\ IF Got(Process) = Nil
       THEN process' \in {"loop", "gone"} /\ work' = Idle /\ allowed' = FailureThreshold
       ELSE /\ process' = IF Got(Process) = Error THEN "replying" ELSE "writing"
            /\ work' = [Idle EXCEPT !.cmd = Got(Process).cmd]
            /\ UNCHANGED allowed
    /\ UNCHANGED <<caller, reset, handlerVars, tcp, noisy>>

(* The command goes to the device ...                                       *)
Write ==
    /\ process = "writing"
    /\ open
    /\ wire' = Append(wire, work.cmd)
    /\ process' = "asking"
    /\ UNCHANGED <<channels, caller, work, allowed, reset, handlerVars, open,
                   unasked, noisy>>

(* ... or it fails, or takes too long.                                      *)
WriteFails ==
    /\ process = "writing"
    /\ wire' \in {wire, IF open THEN Append(wire, work.cmd) ELSE wire}
    /\ process' = "replying"
    /\ noisy' = TRUE
    /\ UNCHANGED <<channels, caller, work, allowed, reset, handlerVars, open, unasked>>

AwaitAnswer ==
    /\ process = "asking"
    /\ Receive(Process, {"CmdAnswer"})
    /\ process' = "awaiting"
    /\ UNCHANGED <<caller, work, allowed, reset, handlerVars, tcp, noisy>>

(* After a background reset the connection may be closed.                   *)
Closed(cmd) == cmd = "rstbg" /\ ResetCloseTCP
ReplyTo(cmd) == process' = "replying" /\ open' = (open /\ ~Closed(cmd))

(* Mutation: the verdict is the other way round.                            *)
Verdict_Swapped(m, cmd) == IF m.cmd = cmd THEN Error ELSE Nil

(* The verdict for the handler: nil if the answer fits the command.         *)
Verdict(m, cmd) == IF m.cmd = cmd THEN Nil ELSE Error

(* rtIssuer = <-chs.CmdAnswer; rtIssuer[0] of nil panics.                   *)
TakeAnswer ==
    /\ process = "awaiting"
    /\ Has(Process, "CmdAnswer")
    /\ Emptied(Process)
    /\ LET m == Got(Process) IN
        IF m = Nil
        THEN /\ process' \in {"loop", "gone"} /\ work' = Idle /\ allowed' = FailureThreshold
             /\ UNCHANGED open
        ELSE /\ work' = [work EXCEPT !.issuer = m, !.responder = Verdict(m, work.cmd)]
             /\ ReplyTo(work.cmd)
             /\ UNCHANGED allowed
    /\ UNCHANGED <<caller, reset, handlerVars, wire, unasked, noisy>>

(* Mutation: the process waits for the device however long it takes.        *)
AnswerLate_Never == FALSE

(* case <-time.After(SensorTimeout).                                        *)
AnswerLate == process = "awaiting"

AnswerTimeout ==
    /\ AnswerLate
    /\ StopWaiting(Process)
    /\ ReplyTo(work.cmd)
    /\ noisy' = TRUE
    /\ UNCHANGED <<caller, work, allowed, reset, handlerVars, wire, unasked>>

(* Both replies go out at a time, each may come to nothing (wg.Wait); work  *)
(* tells which are still to be sent.                                        *)
Sent(field) ==
    LET left == [work EXCEPT ![field] = Nothing] IN
    /\ process = "replying"
    /\ work[field] # Nothing
    /\ IF left.issuer = Nothing /\ left.responder = Nothing
       THEN process' = "loop" /\ work' = Idle /\ allowed' = FailureThreshold
       ELSE work' = left /\ UNCHANGED <<process, allowed>>

Reply(ch, field) ==
    /\ Sent(field)
    /\ Send(ch, work[field])
    /\ noisy' = (noisy \/ parked[ch] = <<>>)
    /\ UNCHANGED <<caller, reset, handlerVars, tcp>>

ReplyTimeout(field) ==
    /\ Sent(field)
    /\ noisy' = TRUE
    /\ UNCHANGED <<channels, caller, reset, handlerVars, tcp>>

(* case ans := <-chs.CmdAnswer: nobody asked for it.                        *)
Unexpected ==
    /\ process = "idle"
    /\ Has(Process, "CmdAnswer")
    /\ Emptied(Process)
    /\ IF allowed = 0 THEN process' = "gone" /\ open' = FALSE
       ELSE process' = "complaining" /\ UNCHANGED open
    /\ UNCHANGED <<caller, work, allowed, reset, handlerVars, wire, unasked, noisy>>

Complain ==
    /\ process = "complaining"
    /\ Send("CmdAnswer", Error)
    /\ process' = "loop"
    /\ allowed' = allowed - 1
    /\ UNCHANGED <<caller, work, reset, handlerVars, tcp, noisy>>

ComplainTimeout ==
    /\ process = "complaining"
    /\ process' = "gone"
    /\ UNCHANGED <<channels, caller, work, allowed, reset, handlerVars, tcp, noisy>>

(* case <-chs.reset.                                                        *)
TakeReset ==
    /\ process \in {"loop", "idle", "writing", "awaiting", "complaining"}
    /\ reset
    /\ inbox[Process] = Empty
    /\ parked' = Withdrawn(Process)
    /\ reset' = FALSE
    /\ process' = "finished"
    /\ UNCHANGED <<buffer, inbox, caller, work, allowed, handlerVars, tcp, noisy>>

(* chs.reset <- true, for the helper of the handler, or nobody.             *)
Finish ==
    /\ process = "finished"
    /\ process' = "gone"
    /\ reset' \in {TRUE, FALSE}
    /\ UNCHANGED <<channels, caller, work, allowed, handlerVars, tcp, noisy>>

(* case <-time.After(ZombieTimeout).                                        *)
Zombie ==
    /\ process = "idle"
    /\ ~Registered
    /\ inbox[Process] = Empty
    /\ parked' = Withdrawn(Process)
    /\ process' = "gone"
    /\ open' = FALSE
    /\ UNCHANGED <<buffer, inbox, caller, work, allowed, reset, handlerVars, wire,
                   unasked, noisy>>

-----------------------------------------------------------------------------
(* The device answers a request and forgets those before, or says something *)
(* nobody asked for.                                                        *)
DeviceAnswers ==
    /\ handler = "reading" /\ open
    /\ \E i \in DOMAIN wire :
        /\ answer' = Message("answer", wire[i])
        /\ wire' = SubSeq(wire, i + 1, Len(wire))
    /\ handler' = "offering"
    /\ UNCHANGED <<channels, caller, processVars, reset, failures, open, unasked, noisy>>

DeviceSpeaks ==
    /\ handler = "reading" /\ open
    /\ unasked < MaxUnasked
    /\ unasked' = unasked + 1
    /\ \E c \in Callers : answer' = Message("answer", CmdOf[c])
    /\ handler' = "offering"
    /\ noisy' = TRUE
    /\ UNCHANGED <<channels, caller, processVars, reset, failures, open, wire>>

(* case sensorDef.channels.CmdAnswer <- cmd.                                *)
Offer ==
    /\ handler = "offering"
    /\ Send("CmdAnswer", answer)
    /\ handler' = "offered"
    /\ noisy' = (noisy \/ parked["CmdAnswer"] = <<>>)
    /\ UNCHANGED <<caller, processVars, reset, answer, failures, tcp>>

OfferTimeout ==
    /\ handler = "offering"
    /\ handler' = "reading"
    /\ answer' = Nothing
    /\ noisy' = TRUE
    /\ UNCHANGED <<channels, caller, processVars, reset, failures, tcp>>

AwaitVerdict ==
    /\ handler = "offered"
    /\ Receive(Handler, {"CmdAnswer"})
    /\ handler' = "judged"
    /\ UNCHANGED <<caller, processVars, reset, answer, failures, tcp, noisy>>

(* case ans := <-sensorDef.channels.CmdAnswer: anything but nil is a        *)
(* failure; after an answer to setid the handler leaves anyhow.             *)
TakeVerdict ==
    /\ handler = "judged"
    /\ Has(Handler, "CmdAnswer")
    /\ Emptied(Handler)
    /\ failures' = IF Malicious /\ Got(Handler) # Nil THEN failures + 1 ELSE failures
    /\ handler' = IF failures' > FailureThreshold \/ answer.cmd = "setid"
                  THEN "closing" ELSE "reading"
    /\ answer' = Nothing
    /\ UNCHANGED <<caller, processVars, reset, tcp, noisy>>

VerdictTimeout ==
    /\ handler = "judged"
    /\ StopWaiting(Handler)
    /\ handler' = "closing"
    /\ answer' = Nothing
    /\ noisy' = TRUE
    /\ UNCHANGED <<caller, processVars, reset, failures, tcp>>

(* The device disconnects, or the process closed the connection.            *)
Disconnect ==
    /\ handler = "reading"
    /\ handler' = "closing"
    /\ UNCHANGED <<channels, caller, processVars, reset, answer, failures, tcp, noisy>>

(* The cleanup: the reset is offered; then the lock is asked for ...        *)
Cleanup ==
    /\ handler = "closing"
    /\ reset' \in {reset, TRUE}
    /\ handler' = "unregistering"
    /\ UNCHANGED <<channels, caller, processVars, answer, failures, tcp, noisy>>

(* ... and the helper may take the reset back.                              *)
TakeBack ==
    /\ handler \in {"unregistering", "gone"}
    /\ reset
    /\ reset' = FALSE
    /\ UNCHANGED <<channels, caller, processVars, handlerVars, tcp, noisy>>

Unregister ==
    /\ handler = "unregistering"
    /\ Locked = {}
    /\ handler' = "gone"
    /\ open' = FALSE
    /\ wire' = <<>>
    /\ UNCHANGED <<channels, caller, processVars, reset, answer, failures, unasked, noisy>>

-----------------------------------------------------------------------------
CallerStep(c) ==
    \/ Ask(c) \/ AwaitResult(c) \/ TakeResult(c) \/ SendTimeout(c) \/ GiveUp(c)

ProcessStep ==
    \/ Loop \/ TakeCommand \/ Write \/ WriteFails \/ AwaitAnswer \/ TakeAnswer \/ AnswerTimeout
    \/ Reply("Commands", "issuer") \/ Reply("CmdAnswer", "responder")
    \/ \E field \in {"issuer", "responder"} : ReplyTimeout(field)
    \/ Unexpected \/ Complain \/ ComplainTimeout \/ TakeReset \/ Finish \/ Zombie

HandlerStep ==
    \/ Offer \/ OfferTimeout \/ AwaitVerdict \/ TakeVerdict \/ VerdictTimeout
    \/ Cleanup \/ TakeBack \/ Unregister

DeviceStep == DeviceAnswers \/ DeviceSpeaks \/ Disconnect

Next ==
    \/ \E c \in Callers : Call(c) \/ CallerStep(c)
    \/ ProcessStep \/ HandlerStep \/ DeviceStep

Spec == Init /\ [][Next]_vars

(* Every goroutine is scheduled; what the device does is its own business.  *)
FairSpec ==
    /\ Spec
    /\ \A c \in Callers : WF_vars(CallerStep(c))
    /\ WF_vars(ProcessStep)
    /\ WF_vars(HandlerStep)
-----------------------------------------------------------------------------
(* support.go:83-142 with sensorHandler.go:134: calls hold the lock of      *)
(* ActiveSensors while they wait for the process, which waits for the       *)
(* handler, which needs the lock to end: it gets it.                        *)
ConnectionEnds == handler = "closing" ~> handler = "gone"

(* commandhandler.go:85-137: a command keeps the process busy for a while   *)
(* only, whoever does not answer.  What it finds in its loop may be a reply *)
(* of its own that nobody took.                                             *)
ProcessServes == process \notin {"idle", "gone"} ~> process \in {"idle", "gone"}

(* A call that was alone, and whose messages were all handed to somebody    *)
(* who waited for them in time, got what the device answered to it; and the *)
(* handler holds nothing against the device.                                *)
AloneIsAnswered ==
    ~noisy =>
        /\ failures = 0
        /\ \A c \in Callers : Got(c) \in {Nothing, Message("answer", CmdOf[c])}

(* The types.                                                               *)
Words == {CmdOf[c] : c \in Callers} \cup {"", "e"}
Messages == [is : {"nothing", "nil", "error", "request", "answer"}, cmd : Words]
Inboxes == [ch : Channels \cup {""}, m : Messages]

ChannelsOK ==
    /\ buffer \in [Channels -> Seq(Messages)]
    /\ parked \in [Channels -> Seq(Parties)]
    /\ inbox \in [Parties -> Inboxes]

TypeOK ==
    /\ ChannelsOK
    /\ caller \in [Callers -> {"idle", "sending", "sent", "waiting", "done"}]
    /\ process \in {"idle", "loop", "writing", "asking", "awaiting", "replying",
                    "complaining", "finished", "gone"}
    /\ work \in [cmd : Words, issuer : Messages, responder : Messages]
    /\ allowed \in Nat /\ (process = "complaining" => allowed > 0)
    /\ handler \in {"reading", "enforcing", "offering", "offered", "judged",
                    "closing", "unregistering", "gone"}
    /\ answer \in Messages /\ failures \in Nat
    /\ wire \in Seq(Words) /\ unasked \in Nat
    /\ reset \in BOOLEAN /\ open \in BOOLEAN /\ noisy \in BOOLEAN

(* Who waits for what, as long as nothing was late or concurrent: a caller  *)
(* for its answer, the process for a command or an answer, the handler for  *)
(* a verdict; and where the command is.                                     *)
Answer(cmd) == Message("answer", cmd)
Waits(c) == caller[c] \in {"sent", "waiting"} /\ inbox[c] = Empty
Listens == process \in {"idle", "awaiting"} /\ inbox[Process] = Empty
Judging == handler = "offered" \/ (handler = "judged" /\ inbox[Handler] = Empty)
Working ==
    \/ process \in {"writing", "asking", "awaiting"}
    \/ (process = "replying" /\ work.issuer # Nothing)
Stopped == process \in {"finished", "gone"}

(* There is one caller at most, and what it gets is the answer to it.       *)
QuietCallers ==
    /\ \A c, d \in InProgress : c = d
    /\ \A c \in Callers :
        /\ c \in Enforcers /\ caller[c] = "sending" => handler = "enforcing"
        /\ inbox[c] # Empty =>
            /\ caller[c] = "waiting"
            /\ inbox[c] = Parcel("Commands", Answer(CmdOf[c]))
        /\ Waits(c) =>
            \/ Working \/ Stopped
            \/ (process = "idle" /\ inbox[Process] # Empty)

(* Nothing is buffered, and nobody but those who wait is parked.            *)
QuietChannels ==
    /\ \A ch \in Channels : buffer[ch] = <<>>
    /\ IF process = "idle" /\ inbox[Process] = Empty
       THEN parked["Commands"] = <<Process>>
       ELSE \/ /\ parked["Commands"] = <<>>
               /\ \A c \in Callers : Waits(c) => caller[c] = "sent"
            \/ \E c \in Callers : /\ parked["Commands"] = <<c>>
                                  /\ Waits(c) /\ caller[c] = "waiting"
    /\ parked["CmdAnswer"] =
        IF Listens THEN <<Process>>
        ELSE IF Judging /\ handler = "judged" THEN <<Handler>> ELSE <<>>

(* The process works for the caller that waits.                             *)
QuietProcess ==
    /\ process # "complaining"
    /\ inbox[Process] # Empty =>
        \/ /\ process = "idle"
           /\ \E c \in Callers :
                Waits(c) /\ inbox[Process] = Parcel("Commands", Request(c))
        \/ /\ process = "awaiting"
           /\ inbox[Process] = Parcel("CmdAnswer", Answer(work.cmd))
    /\ process \in {"idle", "loop"} => work = Idle
    /\ process \in {"writing", "asking", "awaiting"} =>
        work.issuer = Nil /\ work.responder = Error
    /\ process = "replying" =>
        work.issuer \in {Nothing, Answer(work.cmd)} /\ work.responder \in {Nothing, Nil}
    /\ Working => \E c \in Callers : Waits(c) /\ CmdOf[c] = work.cmd

(* The handler has the answer to this command, or a verdict on it.          *)
QuietHandler ==
    /\ failures = 0
    /\ (Stopped \/ reset) => handler \in {"unregistering", "gone"}
    /\ inbox[Handler] # Empty =>
        handler = "judged" /\ inbox[Handler] = Parcel("CmdAnswer", Nil)
    /\ handler = "offering" =>
        /\ process \in {"asking", "awaiting"} /\ inbox[Process] = Empty
        /\ answer = Answer(work.cmd)
    /\ Judging <=>
        \/ (process = "awaiting" /\ inbox[Process] # Empty)
        \/ (process = "replying" /\ work.responder # Nothing)
    /\ wire # <<>> =>
        /\ handler # "offering" /\ ~Judging
        /\ Stopped \/ (process \in {"asking", "awaiting"} /\ wire = <<work.cmd>>)

Quiet == QuietCallers /\ QuietChannels /\ QuietProcess /\ QuietHandler

(* The inductive invariant.                                                 *)
CommandsInv == TypeOK /\ (~noisy => Quiet)

(* README.md:375: "in case of error the 'error' field is not empty,         *)
(* otherwise the answer of the device is transparently placed by the server *)
(* in the field 'answer'": what a caller takes for it is not a request.     *)
AnswerIsTheDevices ==
    \A c \in Api : Got(c).cmd = CmdOf[c] => Got(c).is = "answer"
=============================================================================
