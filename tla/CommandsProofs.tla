---------------------------- MODULE CommandsProofs --------------------------
(***************************************************************************)
(* Theorems about Commands, for any number of callers, any size of the      *)
(* buffers and any thresholds.                                              *)
(*                                                                          *)
(* The argument for AloneIsAnswered: as long as nothing was late, buffered  *)
(* or concurrent, there is one caller at most, nothing is in a buffer, each *)
(* channel has one waiter at most, and the command moves from the caller to *)
(* the process, the device, the handler and back (Quiet).                   *)
(***************************************************************************)
EXTENDS Commands, SequenceTheorems, TLAPS

(* What messages there are.                                                 *)
LEMMA MessagesExist ==
    /\ Nothing \in Messages /\ Nil \in Messages /\ Error \in Messages
    /\ \A c \in Callers : Request(c) \in Messages
    /\ \A cmd \in Words : Answer(cmd) \in Messages
    /\ Empty \in Inboxes
    /\ \A ch \in Channels, m \in Messages : Parcel(ch, m) \in Inboxes
    /\ Idle \in [cmd : Words, issuer : Messages, responder : Messages]
<1>1. \A is \in {"nothing", "nil", "error", "request", "answer"}, cmd \in Words :
        Message(is, cmd) \in Messages
  BY DEF Message, Messages
<1>2. Nothing \in Messages /\ Nil \in Messages /\ Error \in Messages
  BY <1>1 DEF Nothing, Nil, Error, Words
<1>3. /\ \A c \in Callers : Request(c) \in Messages
      /\ \A cmd \in Words : Answer(cmd) \in Messages
  BY <1>1 DEF Request, Answer, Words
<1> QED BY <1>2, <1>3 DEF Parcel, Empty, Inboxes, Idle, Words

(* The parties.                                                             *)
LEMMA PartiesExist ==
    /\ \A c \in Callers : c \in Parties /\ c # Process /\ c # Handler
    /\ Process \in Parties /\ Handler \in Parties /\ Process # Handler
BY CommandsAssumption DEF Parties, Process, Handler

(* A sequence without one of its members is one of the same type.           *)
LEMMA WithoutType ==
    ASSUME NEW S, NEW s \in Seq(S), NEW p
    PROVE  Without(s, p) \in Seq(S)
<1>1. CASE Contains(s, p)
  <2> DEFINE i == CHOOSE j \in DOMAIN s : s[j] = p
  <2>1. i \in 1 .. Len(s)
    BY <1>1 DEF Contains
  <2>2. \A k \in 1 .. Len(s) : s[k] \in S
    OBVIOUS
  <2> HIDE DEF i
  <2>3. /\ \A k \in 1 .. (i - 1) : s[k] \in S
        /\ \A k \in (i + 1) .. Len(s) : s[k] \in S
        /\ i - 1 \in Int /\ i + 1 \in Int /\ Len(s) \in Int
    BY <2>1, <2>2
  <2>4. SubSeq(s, 1, i - 1) \in Seq(S) /\ SubSeq(s, i + 1, Len(s)) \in Seq(S)
    BY <2>3, SubSeqProperties
  <2> QED BY <1>1, <2>4 DEF Without, RemoveAt, i
<1> QED BY <1>1 DEF Without

(* Of at most one waiter there is him or nobody without another.            *)
LEMMA WithoutNone == \A p : Without(<<>>, p) = <<>>
BY DEF Without, Contains

LEMMA WithoutOne ==
    \A p, q : Without(<<q>>, p) = IF q = p THEN <<>> ELSE <<q>>
<1> SUFFICES ASSUME NEW p, NEW q
             PROVE  Without(<<q>>, p) = IF q = p THEN <<>> ELSE <<q>>
  OBVIOUS
<1>1. CASE q = p
  <2>1. Contains(<<q>>, p)
    BY <1>1 DEF Contains
  <2>2. (CHOOSE i \in DOMAIN <<q>> : <<q>>[i] = p) = 1
    BY <1>1
  <2>3. RemoveAt(<<q>>, 1) = <<>>
    BY DEF RemoveAt
  <2> QED BY <1>1, <2>1, <2>2, <2>3 DEF Without
<1>2. CASE q # p
  BY <1>2 DEF Without, Contains
<1> QED BY <1>1, <1>2

LEMMA OneWaiter ==
    /\ \A q : <<q>> # <<>> /\ Head(<<q>>) = q /\ Append(<<>>, q) = <<q>>
    /\ \A p, q : <<p>> = <<q>> => p = q
OBVIOUS

(* The operations of the channels keep their types.                         *)
LEMMA WithdrawnType ==
    ASSUME ChannelsOK, NEW p
    PROVE  Withdrawn(p) \in [Channels -> Seq(Parties)]
<1>1. \A ch \in Channels : Without(parked[ch], p) \in Seq(Parties)
  BY WithoutType DEF ChannelsOK
<1> QED BY <1>1 DEF Withdrawn

LEMMA SendType ==
    ASSUME ChannelsOK, NEW ch \in Channels, NEW m \in Messages, Send(ch, m)
    PROVE  ChannelsOK'
<1>1. CASE parked[ch] # <<>>
  <2>1. Head(parked[ch]) \in Parties
    BY <1>1 DEF ChannelsOK
  <2>2. Parcel(ch, m) \in Inboxes
    BY MessagesExist
  <2>3. parked' \in [Channels -> Seq(Parties)]
    BY <1>1, WithdrawnType DEF Send
  <2>4. inbox' \in [Parties -> Inboxes] /\ UNCHANGED buffer
    BY <1>1, <2>1, <2>2 DEF Send, ChannelsOK
  <2> QED BY <2>3, <2>4 DEF ChannelsOK
<1>2. CASE parked[ch] = <<>>
  <2>1. Append(buffer[ch], m) \in Seq(Messages)
    BY DEF ChannelsOK
  <2> QED BY <1>2, <2>1 DEF Send, ChannelsOK
<1> QED BY <1>1, <1>2

LEMMA ReceiveType ==
    ASSUME ChannelsOK, NEW p \in Parties, NEW chs \in SUBSET Channels, Receive(p, chs)
    PROVE  ChannelsOK'
<1>1. ASSUME NEW ch \in chs, buffer[ch] # <<>>,
             inbox' = [inbox EXCEPT ![p] = Parcel(ch, Head(buffer[ch]))],
             buffer' = [buffer EXCEPT ![ch] = Tail(@)], UNCHANGED parked
      PROVE  ChannelsOK'
  <2>1. Head(buffer[ch]) \in Messages /\ Tail(buffer[ch]) \in Seq(Messages)
    BY <1>1 DEF ChannelsOK
  <2>2. Parcel(ch, Head(buffer[ch])) \in Inboxes
    BY <2>1, MessagesExist
  <2> QED BY <1>1, <2>1, <2>2 DEF ChannelsOK
<1>2. ASSUME parked' = [ch \in Channels |->
                          IF ch \in chs THEN Append(parked[ch], p) ELSE parked[ch]],
             UNCHANGED <<buffer, inbox>>
      PROVE  ChannelsOK'
  <2>1. \A ch \in Channels : Append(parked[ch], p) \in Seq(Parties)
    BY DEF ChannelsOK
  <2> QED BY <1>2, <2>1 DEF ChannelsOK
<1> QED BY <1>1, <1>2 DEF Receive

LEMMA EmptiedType ==
    ASSUME ChannelsOK, NEW p \in Parties, Emptied(p)
    PROVE  ChannelsOK'
BY MessagesExist DEF Emptied, ChannelsOK

LEMMA StopWaitingType ==
    ASSUME ChannelsOK, NEW p \in Parties, StopWaiting(p)
    PROVE  ChannelsOK'
BY WithdrawnType DEF StopWaiting, ChannelsOK

LEMMA GotType ==
    ASSUME ChannelsOK, NEW p \in Parties
    PROVE  Got(p) \in Messages
BY DEF ChannelsOK, Got, Inboxes

(* The channels and the caller are of their types after every step.         *)
LEMMA CallerTypes ==
    ASSUME TypeOK, NEW c \in Callers, Call(c) \/ CallerStep(c)
    PROVE  TypeOK'
<1> USE DEF TypeOK, CallerAt
<1>1. CASE Call(c)
  BY <1>1 DEF Call, Registered, channels, processVars, tcp, ChannelsOK
<1>2. CASE Ask(c)
  <2>1. ChannelsOK'
    BY <1>2, SendType, MessagesExist DEF Ask, Channels
  <2> QED BY <1>2, <2>1 DEF Ask, Released, processVars, tcp
<1>3. CASE AwaitResult(c)
  <2>1. ChannelsOK'
    BY <1>3, ReceiveType, PartiesExist DEF AwaitResult, Channels
  <2> QED BY <1>3, <2>1 DEF AwaitResult, processVars, handlerVars, tcp
<1>4. CASE TakeResult(c)
  <2>1. ChannelsOK'
    BY <1>4, EmptiedType, PartiesExist DEF TakeResult
  <2> QED BY <1>4, <2>1 DEF TakeResult, processVars, handlerVars, tcp
<1>5. CASE SendTimeout(c)
  BY <1>5 DEF SendTimeout, Released, channels, processVars, tcp, ChannelsOK
<1>6. CASE GiveUp(c)
  <2>1. ChannelsOK'
    BY <1>6, StopWaitingType, PartiesExist DEF GiveUp
  <2> QED BY <1>6, <2>1 DEF GiveUp, processVars, handlerVars, tcp
<1> QED BY <1>1, <1>2, <1>3, <1>4, <1>5, <1>6 DEF CallerStep

(* What the process works on stays a command with two messages.             *)
LEMMA SentTypes ==
    ASSUME TypeOK, NEW field \in {"issuer", "responder"}, Sent(field)
    PROVE  /\ work' \in [cmd : Words, issuer : Messages, responder : Messages]
           /\ process' \in {"loop", "replying"}
           /\ allowed' \in Nat
           /\ work[field] \in Messages
<1> DEFINE left == [work EXCEPT ![field] = Nothing]
<1>1. left \in [cmd : Words, issuer : Messages, responder : Messages]
  BY MessagesExist DEF TypeOK
<1>2. /\ process = "replying"
      /\ \/ process' = "loop" /\ work' = Idle /\ allowed' = FailureThreshold
         \/ work' = left /\ UNCHANGED <<process, allowed>>
  BY DEF Sent
<1> HIDE DEF left
<1> QED BY <1>1, <1>2, MessagesExist, CommandsAssumption DEF TypeOK

LEMMA ProcessTypes ==
    ASSUME TypeOK, ProcessStep
    PROVE  TypeOK'
<1> USE CommandsAssumption, MessagesExist, PartiesExist DEF TypeOK
<1>1. CASE Loop
  <2>1. ChannelsOK'
    BY <1>1, ReceiveType DEF Loop
  <2> QED BY <1>1, <2>1 DEF Loop, handlerVars, tcp
<1>2. CASE TakeCommand
  <2>1. ChannelsOK' /\ Got(Process) \in Messages
    BY <1>2, EmptiedType, GotType DEF TakeCommand
  <2>2. [Idle EXCEPT !.cmd = Got(Process).cmd]
           \in [cmd : Words, issuer : Messages, responder : Messages]
    BY <2>1 DEF Messages
  <2> QED BY <1>2, <2>1, <2>2 DEF TakeCommand, handlerVars, tcp
<1>3. CASE Write
  <2>1. Append(wire, work.cmd) \in Seq(Words)
    OBVIOUS
  <2> QED BY <1>3, <2>1 DEF Write, channels, handlerVars, ChannelsOK
<1>4. CASE WriteFails
  <2>1. Append(wire, work.cmd) \in Seq(Words)
    OBVIOUS
  <2> QED BY <1>4, <2>1 DEF WriteFails, channels, handlerVars, ChannelsOK
<1>5. CASE AwaitAnswer
  <2>1. ChannelsOK'
    BY <1>5, ReceiveType DEF AwaitAnswer, Channels
  <2> QED BY <1>5, <2>1 DEF AwaitAnswer, handlerVars, tcp
<1>6. CASE TakeAnswer
  <2>1. ChannelsOK' /\ Got(Process) \in Messages
    BY <1>6, EmptiedType, GotType DEF TakeAnswer
  <2>2. Verdict(Got(Process), work.cmd) \in Messages
    BY DEF Verdict
  <2>3. [work EXCEPT !.issuer = Got(Process), !.responder = Verdict(Got(Process), work.cmd)]
           \in [cmd : Words, issuer : Messages, responder : Messages]
    BY <2>1, <2>2
  <2>4. open' \in BOOLEAN
    BY <1>6 DEF TakeAnswer, ReplyTo
  <2> QED BY <1>6, <2>1, <2>3, <2>4 DEF TakeAnswer, handlerVars, ReplyTo
<1>7. CASE AnswerTimeout
  <2>1. ChannelsOK'
    BY <1>7, StopWaitingType DEF AnswerTimeout
  <2>2. open' \in BOOLEAN
    BY <1>7 DEF AnswerTimeout, ReplyTo
  <2> QED BY <1>7, <2>1, <2>2 DEF AnswerTimeout, handlerVars, ReplyTo
<1>8. ASSUME NEW ch \in Channels, NEW field \in {"issuer", "responder"}, Reply(ch, field)
      PROVE  TypeOK'
  <2>1. Sent(field) /\ Send(ch, work[field])
    BY <1>8 DEF Reply
  <2>2. ChannelsOK'
    BY <2>1, SentTypes, SendType
  <2>3. noisy' \in BOOLEAN
    BY <1>8 DEF Reply
  <2> QED BY <1>8, <2>1, <2>2, <2>3, SentTypes DEF Reply, handlerVars, tcp
<1>9. ASSUME NEW field \in {"issuer", "responder"}, ReplyTimeout(field)
      PROVE  TypeOK'
  <2>1. Sent(field) /\ ChannelsOK'
    BY <1>9 DEF ReplyTimeout, channels, ChannelsOK
  <2> QED BY <1>9, <2>1, SentTypes DEF ReplyTimeout, handlerVars, tcp
<1>10. CASE Unexpected
  <2>1. ChannelsOK'
    BY <1>10, EmptiedType DEF Unexpected
  <2>2. process' \in {"gone", "complaining"} /\ (process' = "complaining" => allowed > 0)
    BY <1>10 DEF Unexpected
  <2>3. open' \in BOOLEAN
    BY <1>10 DEF Unexpected
  <2> QED BY <1>10, <2>1, <2>2, <2>3 DEF Unexpected, handlerVars
<1>11. CASE Complain
  <2>1. ChannelsOK'
    BY <1>11, SendType DEF Complain, Channels
  <2>2. allowed' \in Nat
    BY <1>11 DEF Complain
  <2> QED BY <1>11, <2>1, <2>2 DEF Complain, handlerVars, tcp
<1>12. CASE ComplainTimeout
  BY <1>12 DEF ComplainTimeout, channels, handlerVars, tcp, ChannelsOK
<1>13. CASE TakeReset
  <2>1. ChannelsOK'
    BY <1>13, WithdrawnType DEF TakeReset, ChannelsOK
  <2> QED BY <1>13, <2>1 DEF TakeReset, handlerVars, tcp
<1>14. CASE Finish
  BY <1>14 DEF Finish, channels, handlerVars, tcp, ChannelsOK
<1>15. CASE Zombie
  <2>1. ChannelsOK'
    BY <1>15, WithdrawnType DEF Zombie, ChannelsOK
  <2> QED BY <1>15, <2>1 DEF Zombie, handlerVars
<1> QED
  BY <1>1, <1>2, <1>3, <1>4, <1>5, <1>6, <1>7, <1>8, <1>9, <1>10, <1>11, <1>12, <1>13,
     <1>14, <1>15 DEF ProcessStep, Channels

LEMMA HandlerTypes ==
    ASSUME TypeOK, HandlerStep \/ DeviceStep
    PROVE  TypeOK'
<1> USE MessagesExist, PartiesExist DEF TypeOK
<1>1. CASE Offer
  <2>1. ChannelsOK'
    BY <1>1, SendType DEF Offer, Channels
  <2>2. noisy' \in BOOLEAN
    BY <1>1 DEF Offer
  <2> QED BY <1>1, <2>1, <2>2 DEF Offer, processVars, tcp
<1>2. CASE OfferTimeout
  BY <1>2 DEF OfferTimeout, channels, processVars, tcp, ChannelsOK
<1>3. CASE AwaitVerdict
  <2>1. ChannelsOK'
    BY <1>3, ReceiveType DEF AwaitVerdict, Channels
  <2> QED BY <1>3, <2>1 DEF AwaitVerdict, processVars, tcp
<1>4. CASE TakeVerdict
  <2>1. ChannelsOK'
    BY <1>4, EmptiedType DEF TakeVerdict
  <2>2. failures' \in Nat
    BY <1>4 DEF TakeVerdict
  <2>3. handler' \in {"closing", "reading"}
    BY <1>4 DEF TakeVerdict
  <2> QED BY <1>4, <2>1, <2>2, <2>3 DEF TakeVerdict, processVars, tcp
<1>5. CASE VerdictTimeout
  <2>1. ChannelsOK'
    BY <1>5, StopWaitingType DEF VerdictTimeout
  <2> QED BY <1>5, <2>1 DEF VerdictTimeout, processVars, tcp
<1>6. CASE Cleanup \/ TakeBack \/ Disconnect
  BY <1>6 DEF Cleanup, TakeBack, Disconnect, channels, processVars, handlerVars, tcp, ChannelsOK
<1>7. CASE Unregister
  <2>1. <<>> \in Seq(Words)
    OBVIOUS
  <2> QED BY <1>7, <2>1 DEF Unregister, channels, processVars, ChannelsOK
<1>8. CASE DeviceAnswers
  <2>1. PICK i \in DOMAIN wire : /\ answer' = Message("answer", wire[i])
                                 /\ wire' = SubSeq(wire, i + 1, Len(wire))
    BY <1>8 DEF DeviceAnswers
  <2>2. wire[i] \in Words /\ wire' \in Seq(Words)
    BY <2>1
  <2>3. answer' \in Messages
    BY <2>1, <2>2 DEF Messages, Message
  <2> QED BY <1>8, <2>2, <2>3 DEF DeviceAnswers, channels, processVars, ChannelsOK
<1>9. CASE DeviceSpeaks
  <2>1. PICK c \in Callers : answer' = Message("answer", CmdOf[c])
    BY <1>9 DEF DeviceSpeaks
  <2>3. answer' \in Messages
    BY <2>1 DEF Messages, Message, Words
  <2>2. unasked' \in Nat
    BY <1>9 DEF DeviceSpeaks
  <2> QED BY <1>9, <2>2, <2>3 DEF DeviceSpeaks, channels, processVars, ChannelsOK
<1> QED
  BY <1>1, <1>2, <1>3, <1>4, <1>5, <1>6, <1>7, <1>8, <1>9 DEF HandlerStep, DeviceStep

LEMMA TypesInit == Init => TypeOK
<1> SUFFICES ASSUME Init PROVE TypeOK
  OBVIOUS
<1> USE DEF Init
<1>1. ChannelsOK
  BY PartiesExist, MessagesExist DEF ChannelsOK
<1>2. wire \in Seq(Words)
  OBVIOUS
<1> QED BY <1>1, <1>2, MessagesExist, CommandsAssumption DEF TypeOK

LEMMA TypesStep ==
    ASSUME TypeOK, [Next]_vars
    PROVE  TypeOK'
<1>1. CASE UNCHANGED vars
  BY <1>1 DEF vars, channels, processVars, handlerVars, tcp, TypeOK, ChannelsOK
<1> QED BY <1>1, CallerTypes, ProcessTypes, HandlerTypes DEF Next

-----------------------------------------------------------------------------
(* Messages of different kinds, or with different commands, are different.  *)
LEMMA MessagesDiffer ==
    /\ Nil # Nothing /\ Error # Nothing /\ Nil # Error
    /\ \A x : Answer(x) \notin {Nothing, Nil, Error} /\ Answer(x).cmd = x
    /\ \A c : Request(c) \notin {Nothing, Nil, Error} /\ Request(c).cmd = CmdOf[c]
    /\ \A c, x : Request(c) # Answer(x)
    /\ \A ch, m : Parcel(ch, m).m = m /\ Parcel(ch, m).ch = ch
    /\ \A ch \in Channels : \A m : Parcel(ch, m) # Empty
    /\ Empty.m = Nothing
    /\ \A x, y : Answer(x) = Answer(y) => x = y
<1>1. \A ch \in Channels : \A m : Parcel(ch, m).ch # Empty.ch
  BY DEF Parcel, Empty, Channels
<1>2. \A x : Answer(x).cmd = x
  BY DEF Answer, Message
<1> QED BY <1>1, <1>2 DEF Nil, Nothing, Error, Answer, Request, Message, Parcel, Empty

(* What is handed over in a quiet state: somebody takes it at once.         *)
LEMMA QuietHandsOver ==
    ASSUME TypeOK, QuietChannels, NEW ch \in Channels, NEW m, NEW p \in Parties,
           parked[ch] = <<p>>, Send(ch, m)
    PROVE  /\ UNCHANGED buffer
           /\ \A q \in Parties : inbox'[q] = IF q = p THEN Parcel(ch, m) ELSE inbox[q]
           /\ \A d \in Channels :
                parked'[d] = IF parked[d] = <<p>> THEN <<>> ELSE parked[d]
<1>1. \A d \in Channels : parked[d] = <<>> \/ \E q : parked[d] = <<q>>
  BY DEF QuietChannels, Channels
<1>2. \A d \in Channels :
        Without(parked[d], p) = IF parked[d] = <<p>> THEN <<>> ELSE parked[d]
  <2> SUFFICES ASSUME NEW d \in Channels
               PROVE  Without(parked[d], p) = IF parked[d] = <<p>> THEN <<>> ELSE parked[d]
    OBVIOUS
  <2>1. CASE parked[d] = <<>>
    BY <2>1, WithoutNone, OneWaiter
  <2>2. ASSUME NEW q, parked[d] = <<q>>
        PROVE  Without(parked[d], p) = IF parked[d] = <<p>> THEN <<>> ELSE parked[d]
    BY <2>2, WithoutOne, OneWaiter
  <2> QED BY <1>1, <2>1, <2>2
<1>3. parked[ch] # <<>> /\ Head(parked[ch]) = p
  BY OneWaiter
<1>4. /\ UNCHANGED buffer
      /\ inbox' = [inbox EXCEPT ![p] = Parcel(ch, m)]
      /\ parked' = Withdrawn(p)
  BY <1>3 DEF Send
<1> QED BY <1>2, <1>4 DEF Withdrawn, TypeOK, ChannelsOK

(* Who receives in a quiet state waits.                                     *)
LEMMA QuietWaits ==
    ASSUME TypeOK, QuietChannels, NEW p \in Parties, NEW chs \in SUBSET Channels, chs # {},
           Receive(p, chs)
    PROVE  /\ UNCHANGED <<buffer, inbox>>
           /\ \A d \in chs : parked[d] = <<>> => parked'[d] = <<p>>
           /\ \A d \in Channels \ chs : parked'[d] = parked[d]
<1>1. \A d \in chs : buffer[d] = <<>>
  BY DEF QuietChannels
<1>2. /\ UNCHANGED <<buffer, inbox>>
      /\ \A d \in Channels :
            parked'[d] = IF d \in chs THEN Append(parked[d], p) ELSE parked[d]
  BY <1>1 DEF Receive
<1> QED BY <1>2, OneWaiter

LEMMA QuietEmptied ==
    ASSUME TypeOK, NEW p \in Parties, Emptied(p)
    PROVE  /\ UNCHANGED <<buffer, parked>>
           /\ \A q \in Parties : inbox'[q] = IF q = p THEN Empty ELSE inbox[q]
BY DEF Emptied, TypeOK, ChannelsOK

(* Each caller where it is.                                                 *)
LEMMA CallerMoves ==
    ASSUME TypeOK, NEW c \in Callers, NEW place, CallerAt(c, place)
    PROVE  \A d \in Callers : caller'[d] = IF d = c THEN place ELSE caller[d]
BY DEF TypeOK, CallerAt

LEMMA CallQuiet ==
    ASSUME TypeOK, Quiet, NEW c \in Callers, Call(c), ~noisy'
    PROVE  Quiet'
<1>1. InProgress = {} /\ process = "idle" /\ handler # "gone" /\ caller[c] = "idle"
  BY DEF Call, Registered
<1>2. \A d \in Callers : caller'[d] = IF d = c THEN "sending" ELSE caller[d]
  BY CallerMoves DEF Call
<1>3. /\ UNCHANGED <<buffer, parked, inbox, process, work, reset, answer, failures, wire>>
      /\ IF c \in Enforcers THEN handler = "reading" /\ handler' = "enforcing"
         ELSE handler' = handler
  BY DEF Call, channels, processVars, tcp
<1>4. \A d \in Callers : inbox[d] = Empty /\ caller[d] \notin {"sending", "sent", "waiting"}
  BY <1>1 DEF Quiet, QuietCallers, InProgress
<1>5. inbox[Process] = Empty
  BY <1>1, <1>4 DEF Quiet, QuietProcess, Waits
<1>6. QuietCallers'
  BY <1>1, <1>2, <1>3, <1>4 DEF Quiet, QuietCallers, InProgress, Waits
<1>7. QuietChannels'
  BY <1>1, <1>2, <1>3, <1>4, <1>5 DEF Quiet, QuietChannels, Waits, Listens, Judging
<1>8. QuietProcess'
  BY <1>1, <1>2, <1>3, <1>4, <1>5 DEF Quiet, QuietProcess, Waits, Working
<1>9. QuietHandler'
  BY <1>1, <1>3, <1>5 DEF Quiet, QuietHandler, Judging, Stopped
<1> QED BY <1>6, <1>7, <1>8, <1>9 DEF Quiet

LEMMA AskQuiet ==
    ASSUME TypeOK, Quiet, NEW c \in Callers, Ask(c), ~noisy'
    PROVE  Quiet'
<1>1. caller[c] = "sending" /\ parked["Commands"] # <<>> /\ "Commands" \in Channels
  BY DEF Ask, Channels
<1>2. \A d \in Callers : d # c => caller[d] \notin {"sending", "sent", "waiting"}
  BY <1>1 DEF Quiet, QuietCallers, InProgress
<1>3. process = "idle" /\ inbox[Process] = Empty /\ parked["Commands"] = <<Process>>
  BY <1>1, <1>2 DEF Quiet, QuietChannels, Waits
<1>4. parked["CmdAnswer"] = <<Process>>
  BY <1>3 DEF Quiet, QuietChannels, Listens
<1>5. /\ UNCHANGED buffer
      /\ \A q \in Parties : inbox'[q] = IF q = Process THEN Parcel("Commands", Request(c))
                                        ELSE inbox[q]
      /\ parked'["Commands"] = <<>> /\ parked'["CmdAnswer"] = <<>>
  BY <1>1, <1>3, <1>4, QuietHandsOver, PartiesExist DEF Ask, Quiet, Channels
<1>6. \A d \in Callers : caller'[d] = IF d = c THEN "sent" ELSE caller[d]
  BY CallerMoves DEF Ask
<1>7. /\ UNCHANGED <<process, work, reset, answer, failures, wire>>
      /\ handler' = IF c \in Enforcers THEN "reading" ELSE handler
      /\ c \in Enforcers => handler = "enforcing"
  BY <1>1 DEF Ask, Released, processVars, tcp, Quiet, QuietCallers
<1>8. inbox'[Process] # Empty /\ inbox'[Process] = Parcel("Commands", Request(c))
  BY <1>1, <1>5, PartiesExist, MessagesDiffer
<1>9. inbox'[Handler] = inbox[Handler] /\ \A d \in Callers : inbox'[d] = Empty
  BY <1>1, <1>2, <1>5, PartiesExist DEF Quiet, QuietCallers
<1>10. QuietCallers'
  BY <1>2, <1>3, <1>6, <1>7, <1>8, <1>9 DEF QuietCallers, InProgress, Waits
<1>11. QuietChannels'
  <2>1. ~Judging'
    BY <1>3, <1>7, <1>9 DEF Quiet, QuietHandler, Judging
  <2> QED BY <2>1, <1>2, <1>3, <1>5, <1>6, <1>8 DEF Quiet, QuietChannels, Waits, Listens
<1>12. QuietProcess'
  BY <1>3, <1>6, <1>7, <1>8, <1>9 DEF Quiet, QuietProcess, Waits, Working
<1>13. QuietHandler'
  BY <1>3, <1>5, <1>7, <1>8, PartiesExist DEF Quiet, QuietHandler, Judging, Stopped
<1> QED BY <1>10, <1>11, <1>12, <1>13 DEF Quiet

LEMMA AwaitResultQuiet ==
    ASSUME TypeOK, Quiet, NEW c \in Callers, AwaitResult(c)
    PROVE  Quiet'
<1>1. caller[c] = "sent" /\ Waits(c)
  BY DEF AwaitResult, Quiet, QuietCallers, Waits
<1>2. \A d \in Callers : d # c => caller[d] \notin {"sending", "sent", "waiting"}
  BY <1>1 DEF Quiet, QuietCallers, InProgress
<1>3. ~(process = "idle" /\ inbox[Process] = Empty) /\ parked["Commands"] = <<>>
  BY <1>1, <1>2 DEF Quiet, QuietCallers, QuietChannels, Working, Stopped
<1>4. /\ UNCHANGED <<buffer, inbox>>
      /\ parked'["Commands"] = <<c>> /\ parked'["CmdAnswer"] = parked["CmdAnswer"]
  <2>1. QuietChannels /\ Receive(c, {"Commands"}) /\ c \in Parties
    BY PartiesExist DEF AwaitResult, Quiet
  <2>2. {"Commands"} \in SUBSET Channels /\ {"Commands"} # {}
    BY DEF Channels
  <2> QED BY <1>3, <2>1, <2>2, QuietWaits DEF Channels
<1>5. \A d \in Callers : caller'[d] = IF d = c THEN "waiting" ELSE caller[d]
  BY CallerMoves DEF AwaitResult
<1>6. UNCHANGED <<process, work, reset, handler, answer, failures, wire>>
  BY DEF AwaitResult, processVars, handlerVars, tcp
<1>7. \A d \in Callers : Waits(d)' <=> Waits(d)
  BY <1>1, <1>4, <1>5 DEF Waits
<1>8. QuietCallers'
  BY <1>1, <1>2, <1>4, <1>5, <1>6, <1>7
     DEF Quiet, QuietCallers, InProgress, Working, Stopped
<1>9. QuietChannels'
  BY <1>1, <1>3, <1>4, <1>5, <1>6, <1>7 DEF Quiet, QuietChannels, Listens, Judging
<1>10. QuietProcess'
  BY <1>4, <1>6, <1>7 DEF Quiet, QuietProcess, Working
<1>11. QuietHandler'
  BY <1>4, <1>6 DEF Quiet, QuietHandler, Judging, Stopped
<1> QED BY <1>8, <1>9, <1>10, <1>11 DEF Quiet

LEMMA TakeResultQuiet ==
    ASSUME TypeOK, Quiet, NEW c \in Callers, TakeResult(c)
    PROVE  Quiet'
<1>1. caller[c] = "waiting" /\ ~Waits(c)
  BY MessagesDiffer DEF TakeResult, Has, Waits
<1>2. \A d \in Callers : d # c => caller[d] \notin {"sending", "sent", "waiting"}
  BY <1>1 DEF Quiet, QuietCallers, InProgress
<1>3. \A d \in Callers : ~Waits(d)
  BY <1>1, <1>2 DEF Waits
<1>4. /\ UNCHANGED <<buffer, parked>>
      /\ \A q \in Parties : inbox'[q] = IF q = c THEN Empty ELSE inbox[q]
  BY QuietEmptied, PartiesExist DEF TakeResult
<1>5. \A d \in Callers : caller'[d] = IF d = c THEN "done" ELSE caller[d]
  BY CallerMoves DEF TakeResult
<1>6. UNCHANGED <<process, work, reset, handler, answer, failures, wire>>
  BY DEF TakeResult, processVars, handlerVars, tcp
<1>7. UNCHANGED <<inbox[Process], inbox[Handler]>>
  BY <1>4, PartiesExist
<1>8. \A d \in Callers : ~Waits(d)' /\ caller'[d] \notin {"sending", "sent", "waiting"}
  BY <1>2, <1>5 DEF Waits
<1>9. QuietCallers'
  BY <1>4, <1>5, <1>8, PartiesExist DEF Quiet, QuietCallers, InProgress
<1>10. QuietChannels'
  BY <1>3, <1>4, <1>6, <1>7, <1>8 DEF Quiet, QuietChannels, Listens, Judging
<1>11. QuietProcess'
  BY <1>3, <1>6, <1>7 DEF Quiet, QuietProcess, Working
<1>12. QuietHandler'
  BY <1>6, <1>7 DEF Quiet, QuietHandler, Judging, Stopped
<1> QED BY <1>9, <1>10, <1>11, <1>12 DEF Quiet

(* A step of the process leaves the callers alone.                          *)
LEMMA LoopQuiet ==
    ASSUME TypeOK, Quiet, Loop
    PROVE  Quiet'
<1>1. process = "loop" /\ inbox[Process] = Empty /\ ~Working /\ ~Stopped
  BY DEF Loop, Quiet, QuietProcess, Working, Stopped
<1>2. \A d \in Callers : ~Waits(d)
  BY <1>1 DEF Quiet, QuietCallers
<1>3. ~Judging
  BY <1>1 DEF Quiet, QuietHandler
<1>4. parked["Commands"] = <<>> /\ parked["CmdAnswer"] = <<>>
  BY <1>1, <1>2, <1>3 DEF Quiet, QuietChannels, Listens
<1>5. /\ UNCHANGED <<buffer, inbox>>
      /\ parked'["Commands"] = <<Process>> /\ parked'["CmdAnswer"] = <<Process>>
  <2>1. QuietChannels /\ Receive(Process, Channels) /\ Process \in Parties
    BY PartiesExist DEF Loop, Quiet
  <2>2. Channels \in SUBSET Channels /\ Channels # {}
    BY DEF Channels
  <2> QED BY <1>4, <2>1, <2>2, QuietWaits DEF Channels
<1>6. process' = "idle" /\ UNCHANGED <<caller, work, reset, handler, answer, failures, wire>>
  BY DEF Loop, handlerVars, tcp
<1>7. \A d \in Callers : ~Waits(d)'
  BY <1>2, <1>5, <1>6 DEF Waits
<1>8. QuietCallers'
  BY <1>5, <1>6, <1>7 DEF Quiet, QuietCallers, InProgress
<1>9. QuietChannels'
  BY <1>1, <1>5, <1>6 DEF Quiet, QuietChannels, Listens
<1>10. QuietProcess'
  BY <1>1, <1>5, <1>6 DEF Quiet, QuietProcess, Working
<1>11. QuietHandler'
  BY <1>1, <1>3, <1>5, <1>6 DEF Quiet, QuietHandler, Judging, Stopped
<1> QED BY <1>8, <1>9, <1>10, <1>11 DEF Quiet

LEMMA TakeCommandQuiet ==
    ASSUME TypeOK, Quiet, TakeCommand
    PROVE  Quiet'
<1>1. process = "idle" /\ inbox[Process] # Empty
  BY MessagesDiffer DEF TakeCommand, Has
<1>2. PICK c \in Callers : Waits(c) /\ inbox[Process] = Parcel("Commands", Request(c))
  BY <1>1 DEF Quiet, QuietProcess
<1>3. Got(Process) = Request(c)
  BY <1>2, MessagesDiffer DEF Got
<1>4. process' = "writing" /\ work' = [Idle EXCEPT !.cmd = CmdOf[c]]
  BY <1>3, MessagesDiffer DEF TakeCommand
<1>5. work'.cmd = CmdOf[c] /\ work'.issuer = Nil /\ work'.responder = Error
  BY <1>4 DEF Idle
<1>6. /\ UNCHANGED <<buffer, parked>>
      /\ \A q \in Parties : inbox'[q] = IF q = Process THEN Empty ELSE inbox[q]
  BY QuietEmptied, PartiesExist DEF TakeCommand
<1>7. UNCHANGED <<caller, reset, handler, answer, failures, wire>>
  BY DEF TakeCommand, handlerVars, tcp
<1>8. /\ inbox'[Process] = Empty /\ UNCHANGED inbox[Handler]
      /\ \A d \in Callers : inbox'[d] = inbox[d]
  BY <1>6, PartiesExist
<1>9. \A d \in Callers : Waits(d)' <=> Waits(d)
  BY <1>7, <1>8 DEF Waits
<1>10. ~Judging /\ ~Judging'
  BY <1>1, <1>7, <1>8 DEF Quiet, QuietHandler, Judging
<1>11. QuietCallers'
  BY <1>4, <1>7, <1>8, <1>9 DEF Quiet, QuietCallers, InProgress, Working
<1>12. QuietChannels'
  BY <1>1, <1>4, <1>6, <1>7, <1>9, <1>10 DEF Quiet, QuietChannels, Listens
<1>13. QuietProcess'
  BY <1>2, <1>4, <1>5, <1>8, <1>9 DEF QuietProcess, Working
<1>14. QuietHandler'
  BY <1>1, <1>4, <1>7, <1>8, <1>10 DEF Quiet, QuietHandler, Stopped
<1> QED BY <1>11, <1>12, <1>13, <1>14 DEF Quiet

LEMMA WriteQuiet ==
    ASSUME TypeOK, Quiet, Write
    PROVE  Quiet'
<1>1. process = "writing" /\ process' = "asking" /\ wire' = Append(wire, work.cmd)
  BY DEF Write
<1>2. UNCHANGED <<buffer, parked, inbox, caller, work, reset, handler, answer, failures>>
  BY DEF Write, channels, handlerVars
<1>3. wire = <<>> /\ wire' = <<work.cmd>> /\ handler # "offering" /\ ~Judging
  BY <1>1, OneWaiter DEF Quiet, QuietHandler, Stopped
<1>4. \A d \in Callers : Waits(d)' <=> Waits(d)
  BY <1>2 DEF Waits
<1>5. ~Judging'
  BY <1>2, <1>3 DEF Judging
<1>6. QuietCallers'
  BY <1>1, <1>2, <1>4 DEF Quiet, QuietCallers, InProgress, Working
<1>7. QuietChannels'
  BY <1>1, <1>2, <1>3, <1>4, <1>5 DEF Quiet, QuietChannels, Listens
<1>8. QuietProcess'
  BY <1>1, <1>2, <1>4 DEF Quiet, QuietProcess, Working
<1>9. QuietHandler'
  BY <1>1, <1>2, <1>3, <1>5 DEF Quiet, QuietHandler, Stopped
<1> QED BY <1>6, <1>7, <1>8, <1>9 DEF Quiet

LEMMA AwaitAnswerQuiet ==
    ASSUME TypeOK, Quiet, AwaitAnswer
    PROVE  Quiet'
<1>1. process = "asking" /\ process' = "awaiting" /\ inbox[Process] = Empty
  BY DEF AwaitAnswer, Quiet, QuietProcess
<1>2. ~Judging /\ parked["CmdAnswer"] = <<>>
  BY <1>1 DEF Quiet, QuietHandler, QuietChannels, Listens
<1>3. /\ UNCHANGED <<buffer, inbox>>
      /\ parked'["CmdAnswer"] = <<Process>> /\ parked'["Commands"] = parked["Commands"]
  <2>1. QuietChannels /\ Receive(Process, {"CmdAnswer"}) /\ Process \in Parties
    BY PartiesExist DEF AwaitAnswer, Quiet
  <2>2. {"CmdAnswer"} \in SUBSET Channels /\ {"CmdAnswer"} # {}
    BY DEF Channels
  <2> QED BY <1>2, <2>1, <2>2, QuietWaits DEF Channels
<1>4. UNCHANGED <<caller, work, reset, handler, answer, failures, wire>>
  BY DEF AwaitAnswer, handlerVars, tcp
<1>5. \A d \in Callers : Waits(d)' <=> Waits(d)
  BY <1>3, <1>4 DEF Waits
<1>6. ~Judging'
  BY <1>2, <1>3, <1>4 DEF Judging
<1>7. QuietCallers'
  BY <1>1, <1>3, <1>4, <1>5 DEF Quiet, QuietCallers, InProgress, Working
<1>8. QuietChannels'
  BY <1>1, <1>3, <1>4, <1>5 DEF Quiet, QuietChannels, Listens
<1>9. QuietProcess'
  BY <1>1, <1>3, <1>4, <1>5 DEF Quiet, QuietProcess, Working
<1>10. QuietHandler'
  BY <1>1, <1>3, <1>4, <1>6 DEF Quiet, QuietHandler, Stopped
<1> QED BY <1>7, <1>8, <1>9, <1>10 DEF Quiet

LEMMA TakeAnswerQuiet ==
    ASSUME TypeOK, Quiet, TakeAnswer
    PROVE  Quiet'
<1>1. process = "awaiting" /\ inbox[Process] # Empty
  BY MessagesDiffer DEF TakeAnswer, Has
<1>2. Got(Process) = Answer(work.cmd)
  BY <1>1, MessagesDiffer DEF Quiet, QuietProcess, Got
<1>3. Verdict(Got(Process), work.cmd) = Nil
  BY <1>2, MessagesDiffer DEF Verdict
<1>4. /\ process' = "replying"
      /\ work' = [work EXCEPT !.issuer = Answer(work.cmd), !.responder = Nil]
  BY <1>2, <1>3, MessagesDiffer DEF TakeAnswer, ReplyTo
<1>5. work'.cmd = work.cmd /\ work'.issuer = Answer(work.cmd) /\ work'.responder = Nil
  BY <1>4 DEF TypeOK
<1>6. /\ UNCHANGED <<buffer, parked>>
      /\ \A q \in Parties : inbox'[q] = IF q = Process THEN Empty ELSE inbox[q]
  BY QuietEmptied, PartiesExist DEF TakeAnswer
<1>7. UNCHANGED <<caller, reset, handler, answer, failures, wire>>
  BY DEF TakeAnswer, handlerVars
<1>8. /\ inbox'[Process] = Empty /\ UNCHANGED inbox[Handler]
      /\ \A d \in Callers : inbox'[d] = inbox[d]
  BY <1>6, PartiesExist
<1>9. \A d \in Callers : Waits(d)' <=> Waits(d)
  BY <1>7, <1>8 DEF Waits
<1>10. Judging /\ Judging' /\ handler # "offering" /\ wire = <<>>
  BY <1>1, <1>7, <1>8 DEF Quiet, QuietHandler, Judging
<1>11. Working'
  BY <1>4, <1>5, MessagesDiffer DEF Working
<1>12. QuietCallers'
  BY <1>7, <1>8, <1>9, <1>11 DEF Quiet, QuietCallers, InProgress
<1>13. QuietChannels'
  BY <1>1, <1>4, <1>6, <1>7, <1>9, <1>10 DEF Quiet, QuietChannels, Listens
<1>14. QuietProcess'
  BY <1>1, <1>4, <1>5, <1>8, <1>9 DEF Quiet, QuietProcess, Working
<1>15. QuietHandler'
  BY <1>4, <1>5, <1>7, <1>8, <1>10, MessagesDiffer, <1>1 DEF Quiet, QuietHandler, Stopped
<1> QED BY <1>12, <1>13, <1>14, <1>15 DEF Quiet

(* A reply that is sent is replaced by nothing; after the last one the      *)
(* process begins anew.                                                     *)
LEMMA SentReply ==
    ASSUME TypeOK, NEW field \in {"issuer", "responder"}, Sent(field)
    PROVE  /\ process = "replying" /\ work[field] # Nothing
           /\ LET other == IF field = "issuer" THEN "responder" ELSE "issuer" IN
              IF work[other] = Nothing
              THEN process' = "loop" /\ work' = Idle
              ELSE /\ process' = "replying" /\ work'.cmd = work.cmd
                   /\ work'[field] = Nothing /\ work'[other] = work[other]
<1> DEFINE left == [work EXCEPT ![field] = Nothing]
<1>1. /\ left.cmd = work.cmd /\ left[field] = Nothing
      /\ field = "issuer" => left.responder = work.responder
      /\ field = "responder" => left.issuer = work.issuer
  BY DEF TypeOK
<1>2. /\ process = "replying" /\ work[field] # Nothing
      /\ IF left.issuer = Nothing /\ left.responder = Nothing
         THEN process' = "loop" /\ work' = Idle
         ELSE work' = left /\ process' = process
  BY DEF Sent
<1> HIDE DEF left
<1> QED BY <1>1, <1>2

LEMMA ReplyCallerQuiet ==
    ASSUME TypeOK, Quiet, Reply("Commands", "issuer"), ~noisy'
    PROVE  Quiet'
<1>1. /\ process = "replying" /\ work.issuer # Nothing /\ work.issuer = Answer(work.cmd)
      /\ IF work.responder = Nothing
         THEN process' = "loop" /\ work' = Idle
         ELSE /\ process' = "replying" /\ work'.cmd = work.cmd
              /\ work'.issuer = Nothing /\ work'.responder = work.responder
  BY SentReply DEF Reply, Quiet, QuietProcess
<1>2. PICK c \in Callers : Waits(c) /\ CmdOf[c] = work.cmd
  BY <1>1 DEF Quiet, QuietProcess, Working
<1>3. \A d \in Callers : d # c => caller[d] \notin {"sending", "sent", "waiting"}
  BY <1>2 DEF Quiet, QuietCallers, InProgress, Waits
<1>4. \A d \in Callers : d # c => ~Waits(d)
  BY <1>3 DEF Waits
<1>5. parked["Commands"] # <<>>
  BY DEF Reply
<1>6. parked["Commands"] = <<c>> /\ caller[c] = "waiting"
  BY <1>1, <1>4, <1>5 DEF Quiet, QuietChannels
<1>7. parked["CmdAnswer"] \in {<<>>, <<Handler>>}
  BY <1>1 DEF Quiet, QuietChannels, Listens
<1>8. parked["CmdAnswer"] # <<c>>
  BY <1>7, OneWaiter, PartiesExist
<1>9. /\ UNCHANGED buffer
      /\ \A q \in Parties : inbox'[q] = IF q = c THEN Parcel("Commands", work.issuer)
                                        ELSE inbox[q]
      /\ parked'["Commands"] = <<>> /\ parked'["CmdAnswer"] = parked["CmdAnswer"]
  <2>1. Send("Commands", work.issuer) /\ c \in Parties /\ "Commands" \in Channels
    BY PartiesExist DEF Reply, Channels
  <2> QED BY <1>6, <1>8, <2>1, QuietHandsOver DEF Quiet, Channels
<1>10. UNCHANGED <<caller, reset, handler, answer, failures, wire>>
  BY DEF Reply, handlerVars, tcp
<1>11. /\ UNCHANGED <<inbox[Process], inbox[Handler]>>
       /\ \A d \in Callers : d # c => inbox'[d] = inbox[d]
       /\ inbox'[c] = Parcel("Commands", Answer(CmdOf[c])) /\ inbox'[c] # Empty
  BY <1>1, <1>2, <1>9, PartiesExist, MessagesDiffer DEF Channels
<1>12. \A d \in Callers : ~Waits(d)'
  BY <1>4, <1>10, <1>11 DEF Waits
<1>13. inbox[Process] = Empty
  BY <1>1 DEF Quiet, QuietProcess
<1>14. Judging' <=> Judging
  BY <1>10, <1>11 DEF Judging
<1>15. QuietCallers'
  BY <1>6, <1>10, <1>11, <1>12 DEF Quiet, QuietCallers, InProgress
<1>16. QuietChannels'
  BY <1>1, <1>9, <1>10, <1>12, <1>14 DEF Quiet, QuietChannels, Listens
<1>17. QuietProcess'
  BY <1>1, <1>11, <1>13 DEF Quiet, QuietProcess, Working
<1>18. QuietHandler'
  BY <1>1, <1>10, <1>11, <1>14 DEF Quiet, QuietHandler, Stopped
<1> QED BY <1>15, <1>16, <1>17, <1>18 DEF Quiet

LEMMA ReplyHandlerQuiet ==
    ASSUME TypeOK, Quiet, Reply("CmdAnswer", "responder"), ~noisy'
    PROVE  Quiet'
<1>1. /\ process = "replying" /\ work.responder # Nothing /\ work.responder = Nil
      /\ IF work.issuer = Nothing
         THEN process' = "loop" /\ work' = Idle
         ELSE /\ process' = "replying" /\ work'.cmd = work.cmd
              /\ work'.responder = Nothing /\ work'.issuer = work.issuer
  BY SentReply DEF Reply, Quiet, QuietProcess
<1>2. parked["CmdAnswer"] # <<>>
  BY DEF Reply
<1>3. /\ Judging /\ handler = "judged" /\ inbox[Handler] = Empty
      /\ parked["CmdAnswer"] = <<Handler>>
  BY <1>1, <1>2 DEF Quiet, QuietChannels, Listens, Judging
<1>4. parked["Commands"] # <<Handler>>
  BY <1>1, OneWaiter, PartiesExist DEF Quiet, QuietChannels
<1>5. /\ UNCHANGED buffer
      /\ \A q \in Parties : inbox'[q] = IF q = Handler THEN Parcel("CmdAnswer", work.responder)
                                        ELSE inbox[q]
      /\ parked'["CmdAnswer"] = <<>> /\ parked'["Commands"] = parked["Commands"]
  <2>1. Send("CmdAnswer", work.responder) /\ "CmdAnswer" \in Channels
    BY DEF Reply, Channels
  <2> QED BY <1>3, <1>4, <2>1, QuietHandsOver, PartiesExist DEF Quiet, Channels
<1>6. UNCHANGED <<caller, reset, handler, answer, failures, wire>>
  BY DEF Reply, handlerVars, tcp
<1>7. /\ UNCHANGED inbox[Process] /\ \A d \in Callers : inbox'[d] = inbox[d]
      /\ inbox'[Handler] = Parcel("CmdAnswer", Nil) /\ inbox'[Handler] # Empty
  BY <1>1, <1>5, PartiesExist, MessagesDiffer DEF Channels
<1>8. \A d \in Callers : Waits(d)' <=> Waits(d)
  BY <1>6, <1>7 DEF Waits
<1>9. inbox[Process] = Empty
  BY <1>1 DEF Quiet, QuietProcess
<1>10. ~Judging'
  BY <1>3, <1>6, <1>7 DEF Judging
<1>11. Working' <=> Working
  BY <1>1 DEF Working
<1>12. QuietCallers'
  BY <1>1, <1>6, <1>7, <1>8, <1>11 DEF Quiet, QuietCallers, InProgress, Stopped
<1>13. QuietChannels'
  BY <1>1, <1>5, <1>6, <1>8, <1>10 DEF Quiet, QuietChannels, Listens
<1>14. QuietProcess'
  BY <1>1, <1>7, <1>8, <1>9, <1>11 DEF Quiet, QuietProcess, Working
<1>15. QuietHandler'
  BY <1>1, <1>3, <1>6, <1>7, <1>10 DEF Quiet, QuietHandler, Stopped
<1> QED BY <1>12, <1>13, <1>14, <1>15 DEF Quiet

(* The process stops: nobody waits for a message of its any more.           *)
LEMMA StopsQuiet ==
    ASSUME TypeOK, Quiet, TakeReset \/ Zombie
    PROVE  Quiet'
<1>1. /\ inbox[Process] = Empty /\ UNCHANGED <<buffer, inbox, caller, work, handler>>
      /\ UNCHANGED <<answer, failures, wire>>
      /\ parked' = Withdrawn(Process) /\ process' \in {"finished", "gone"}
      /\ reset' \in {reset, FALSE}
  BY DEF TakeReset, Zombie, handlerVars, tcp
<1>2. handler \in {"unregistering", "gone"}
  BY DEF TakeReset, Zombie, Registered, Quiet, QuietHandler
<1>3. ~Judging /\ ~Judging'
  BY <1>1, <1>2 DEF Judging
<1>4. \A ch \in Channels : parked[ch] = <<>> \/ \E q : parked[ch] = <<q>>
  BY DEF Quiet, QuietChannels, Channels
<1>5. \A ch \in Channels :
        parked'[ch] = IF parked[ch] = <<Process>> THEN <<>> ELSE parked[ch]
  <2> SUFFICES ASSUME NEW ch \in Channels
               PROVE  parked'[ch] = IF parked[ch] = <<Process>> THEN <<>> ELSE parked[ch]
    OBVIOUS
  <2>1. parked'[ch] = Without(parked[ch], Process)
    BY <1>1 DEF Withdrawn
  <2>2. CASE parked[ch] = <<>>
    BY <2>1, <2>2, WithoutNone, OneWaiter
  <2>3. ASSUME NEW q, parked[ch] = <<q>>
        PROVE  parked'[ch] = IF parked[ch] = <<Process>> THEN <<>> ELSE parked[ch]
    BY <2>1, <2>3, WithoutOne, OneWaiter
  <2> QED BY <1>4, <2>2, <2>3
<1>6. \A d \in Callers : Waits(d)' <=> Waits(d)
  BY <1>1 DEF Waits
<1>7. ~(process = "idle" /\ \E d \in Callers : Waits(d))
  BY <1>1 DEF Quiet, QuietCallers, Working, Stopped
<1>8. parked["Commands"] # <<Process>> =>
        \/ /\ parked["Commands"] = <<>>
           /\ \A d \in Callers : Waits(d) => caller[d] = "sent"
        \/ \E d \in Callers : parked["Commands"] = <<d>> /\ Waits(d) /\ caller[d] = "waiting"
  BY DEF Quiet, QuietChannels
<1>9. process # "idle" => parked["Commands"] # <<Process>>
  BY OneWaiter, PartiesExist DEF Quiet, QuietChannels
<1>10. parked["CmdAnswer"] \in {<<>>, <<Process>>}
  BY <1>3 DEF Quiet, QuietChannels
<1>11. QuietCallers'
  BY <1>1, <1>6 DEF Quiet, QuietCallers, InProgress, Stopped
<1>12. QuietChannels'
  <2>1. parked'["CmdAnswer"] = <<>> /\ ~Listens'
    BY <1>1, <1>5, <1>10 DEF Listens, Channels
  <2>2. \/ /\ parked'["Commands"] = <<>>
           /\ \A d \in Callers : Waits(d)' => caller'[d] = "sent"
        \/ \E d \in Callers : parked'["Commands"] = <<d>> /\ Waits(d)' /\ caller'[d] = "waiting"
    <3>1. CASE parked["Commands"] = <<Process>>
      BY <1>5, <1>6, <1>7, <1>9, <3>1 DEF Channels
    <3>2. CASE parked["Commands"] # <<Process>>
      <4>1. parked'["Commands"] = parked["Commands"]
        BY <1>5, <3>2 DEF Channels
      <4> QED BY <1>1, <1>6, <1>8, <3>2, <4>1
    <3> QED BY <3>1, <3>2
  <2> QED BY <1>1, <1>3, <2>1, <2>2 DEF Quiet, QuietChannels
<1>13. QuietProcess'
  BY <1>1 DEF Quiet, QuietProcess, Working
<1>14. QuietHandler'
  BY <1>1, <1>2, <1>3 DEF Quiet, QuietHandler, Stopped
<1> QED BY <1>11, <1>12, <1>13, <1>14 DEF Quiet

LEMMA FinishQuiet ==
    ASSUME TypeOK, Quiet, Finish
    PROVE  Quiet'
<1>1. process = "finished" /\ process' = "gone"
  BY DEF Finish
<1>2. UNCHANGED <<buffer, parked, inbox, caller, work, handler, answer, failures, wire>>
  BY DEF Finish, channels, handlerVars, tcp
<1>3. \A d \in Callers : Waits(d)' <=> Waits(d)
  BY <1>2 DEF Waits
<1>4. Judging' <=> Judging
  BY <1>2 DEF Judging
<1>5. QuietCallers'
  BY <1>1, <1>2, <1>3 DEF Quiet, QuietCallers, InProgress, Stopped
<1>6. QuietChannels'
  BY <1>1, <1>2, <1>3, <1>4 DEF Quiet, QuietChannels, Listens
<1>7. QuietProcess'
  BY <1>1, <1>2 DEF Quiet, QuietProcess, Working
<1>8. QuietHandler'
  BY <1>1, <1>2, <1>4 DEF Quiet, QuietHandler, Stopped
<1> QED BY <1>5, <1>6, <1>7, <1>8 DEF Quiet

(* The steps of the handler.                                                *)
LEMMA DeviceAnswersQuiet ==
    ASSUME TypeOK, Quiet, DeviceAnswers
    PROVE  Quiet'
<1>1. PICK i \in DOMAIN wire : /\ answer' = Message("answer", wire[i])
                               /\ wire' = SubSeq(wire, i + 1, Len(wire))
  BY DEF DeviceAnswers
<1>2. handler = "reading" /\ handler' = "offering" /\ wire # <<>>
  BY <1>1 DEF DeviceAnswers
<1>3. /\ ~Stopped /\ ~Judging /\ process \in {"asking", "awaiting"}
      /\ wire = <<work.cmd>>
  BY <1>2 DEF Quiet, QuietHandler
<1>4. answer' = Answer(work.cmd) /\ wire' = <<>>
  <2>1. i = 1 /\ Len(wire) = 1 /\ wire[i] = work.cmd
    BY <1>1, <1>3
  <2> QED BY <1>1, <2>1, SubSeqEmpty DEF Answer
<1>5. inbox[Process] = Empty
  BY <1>3 DEF Quiet, QuietProcess, QuietHandler
<1>6. UNCHANGED <<buffer, parked, inbox, caller, process, work, reset, failures>>
  BY DEF DeviceAnswers, channels, processVars
<1>7. \A d \in Callers : Waits(d)' <=> Waits(d)
  BY <1>6 DEF Waits
<1>8. ~Judging'
  BY <1>2 DEF Judging
<1>9. QuietCallers'
  BY <1>2, <1>6, <1>7 DEF Quiet, QuietCallers, InProgress, Working, Stopped
<1>10. QuietChannels'
  BY <1>3, <1>6, <1>7, <1>8 DEF Quiet, QuietChannels, Listens
<1>11. QuietProcess'
  BY <1>6, <1>7 DEF Quiet, QuietProcess, Working
<1>12. QuietHandler'
  BY <1>2, <1>3, <1>4, <1>5, <1>6, <1>8 DEF Quiet, QuietHandler, Stopped
<1> QED BY <1>9, <1>10, <1>11, <1>12 DEF Quiet

LEMMA OfferQuiet ==
    ASSUME TypeOK, Quiet, Offer, ~noisy'
    PROVE  Quiet'
<1>1. handler = "offering" /\ handler' = "offered" /\ parked["CmdAnswer"] # <<>>
  BY DEF Offer
<1>2. inbox[Process] = Empty /\ answer = Answer(work.cmd) /\ wire = <<>> /\ ~Judging
  BY <1>1 DEF Quiet, QuietHandler, Judging
<1>3. process = "awaiting" /\ parked["CmdAnswer"] = <<Process>>
  BY <1>1, <1>2 DEF Quiet, QuietHandler, QuietChannels, Listens
<1>4. parked["Commands"] # <<Process>>
  BY <1>3, OneWaiter, PartiesExist DEF Quiet, QuietChannels
<1>5. /\ UNCHANGED buffer
      /\ \A q \in Parties : inbox'[q] = IF q = Process THEN Parcel("CmdAnswer", answer)
                                        ELSE inbox[q]
      /\ parked'["CmdAnswer"] = <<>> /\ parked'["Commands"] = parked["Commands"]
  <2>1. Send("CmdAnswer", answer) /\ "CmdAnswer" \in Channels
    BY DEF Offer, Channels
  <2> QED BY <1>3, <1>4, <2>1, QuietHandsOver, PartiesExist DEF Quiet, Channels
<1>6. UNCHANGED <<caller, process, work, reset, failures, wire>>
  BY DEF Offer, processVars, tcp
<1>7. /\ UNCHANGED inbox[Handler] /\ \A d \in Callers : inbox'[d] = inbox[d]
      /\ inbox'[Process] = Parcel("CmdAnswer", Answer(work.cmd)) /\ inbox'[Process] # Empty
  BY <1>2, <1>5, PartiesExist, MessagesDiffer DEF Channels
<1>8. \A d \in Callers : Waits(d)' <=> Waits(d)
  BY <1>6, <1>7 DEF Waits
<1>9. Judging'
  BY <1>1 DEF Judging
<1>10. QuietCallers'
  BY <1>1, <1>3, <1>6, <1>7, <1>8 DEF Quiet, QuietCallers, InProgress, Working
<1>11. QuietChannels'
  BY <1>1, <1>3, <1>5, <1>6, <1>7, <1>8 DEF Quiet, QuietChannels, Listens
<1>12. QuietProcess'
  BY <1>3, <1>6, <1>7, <1>8 DEF Quiet, QuietProcess, Working
<1>13. QuietHandler'
  BY <1>1, <1>2, <1>3, <1>6, <1>7, <1>9 DEF Quiet, QuietHandler, Stopped
<1> QED BY <1>10, <1>11, <1>12, <1>13 DEF Quiet

LEMMA AwaitVerdictQuiet ==
    ASSUME TypeOK, Quiet, AwaitVerdict
    PROVE  Quiet'
<1>1. handler = "offered" /\ handler' = "judged" /\ Judging
  BY DEF AwaitVerdict, Judging
<1>2. inbox[Handler] = Empty /\ ~Listens /\ parked["CmdAnswer"] = <<>>
  BY <1>1 DEF Quiet, QuietHandler, QuietChannels, Listens
<1>3. /\ UNCHANGED <<buffer, inbox>>
      /\ parked'["CmdAnswer"] = <<Handler>> /\ parked'["Commands"] = parked["Commands"]
  <2>1. QuietChannels /\ Receive(Handler, {"CmdAnswer"}) /\ Handler \in Parties
    BY PartiesExist DEF AwaitVerdict, Quiet
  <2>2. {"CmdAnswer"} \in SUBSET Channels /\ {"CmdAnswer"} # {}
    BY DEF Channels
  <2> QED BY <1>2, <2>1, <2>2, QuietWaits DEF Channels
<1>4. UNCHANGED <<caller, process, work, reset, answer, failures, wire>>
  BY DEF AwaitVerdict, processVars, tcp
<1>5. \A d \in Callers : Waits(d)' <=> Waits(d)
  BY <1>3, <1>4 DEF Waits
<1>6. Judging'
  BY <1>1, <1>2, <1>3 DEF Judging
<1>7. ~Listens'
  BY <1>2, <1>3, <1>4 DEF Listens
<1>8. QuietCallers'
  BY <1>1, <1>3, <1>4, <1>5 DEF Quiet, QuietCallers, InProgress, Working, Stopped
<1>9. QuietChannels'
  BY <1>1, <1>3, <1>4, <1>5, <1>6, <1>7 DEF Quiet, QuietChannels
<1>10. QuietProcess'
  BY <1>3, <1>4, <1>5 DEF Quiet, QuietProcess, Working
<1>11. QuietHandler'
  BY <1>1, <1>2, <1>3, <1>4, <1>6 DEF Quiet, QuietHandler, Stopped
<1> QED BY <1>8, <1>9, <1>10, <1>11 DEF Quiet

LEMMA TakeVerdictQuiet ==
    ASSUME TypeOK, Quiet, TakeVerdict
    PROVE  Quiet'
<1>1. handler = "judged" /\ inbox[Handler] # Empty
  BY MessagesDiffer DEF TakeVerdict, Has
<1>2. Got(Handler) = Nil
  BY <1>1, MessagesDiffer DEF Quiet, QuietHandler, Got
<1>3. failures' = 0 /\ handler' \in {"closing", "reading"}
  BY <1>2 DEF TakeVerdict, Quiet, QuietHandler
<1>4. /\ UNCHANGED <<buffer, parked>>
      /\ \A q \in Parties : inbox'[q] = IF q = Handler THEN Empty ELSE inbox[q]
  BY QuietEmptied, PartiesExist DEF TakeVerdict
<1>5. UNCHANGED <<caller, process, work, reset, wire>>
  BY DEF TakeVerdict, processVars, tcp
<1>6. /\ UNCHANGED inbox[Process] /\ inbox'[Handler] = Empty
      /\ \A d \in Callers : inbox'[d] = inbox[d]
  BY <1>4, PartiesExist
<1>7. \A d \in Callers : Waits(d)' <=> Waits(d)
  BY <1>5, <1>6 DEF Waits
<1>8. ~Judging /\ ~Judging'
  BY <1>1, <1>3 DEF Judging
<1>9. QuietCallers'
  BY <1>1, <1>3, <1>5, <1>6, <1>7 DEF Quiet, QuietCallers, InProgress, Working, Stopped
<1>10. QuietChannels'
  BY <1>4, <1>5, <1>6, <1>7, <1>8 DEF Quiet, QuietChannels, Listens
<1>11. QuietProcess'
  BY <1>5, <1>6, <1>7 DEF Quiet, QuietProcess, Working
<1>12. QuietHandler'
  BY <1>1, <1>3, <1>5, <1>6, <1>8 DEF Quiet, QuietHandler, Stopped
<1> QED BY <1>9, <1>10, <1>11, <1>12 DEF Quiet

(* The connection ends: the handler has no answer in hand.                  *)
LEMMA EndingQuiet ==
    ASSUME TypeOK, Quiet, Disconnect \/ Cleanup \/ TakeBack \/ Unregister
    PROVE  Quiet'
<1>1. UNCHANGED <<buffer, parked, inbox, caller, process, work, failures>>
  BY DEF Disconnect, Cleanup, TakeBack, Unregister, channels, processVars, handlerVars
<1>2. /\ handler \in {"reading", "closing", "unregistering", "gone"}
      /\ handler' \in {"closing", "unregistering", "gone"}
      /\ handler \in {"unregistering", "gone"} => handler' \in {"unregistering", "gone"}
      /\ wire' \in {wire, <<>>}
      /\ reset' => reset \/ handler' \in {"unregistering", "gone"}
  <2>1. CASE Disconnect \/ Unregister
    BY <2>1 DEF Disconnect, Unregister, tcp
  <2>2. CASE Cleanup
    BY <2>2 DEF Cleanup, tcp
  <2>3. CASE TakeBack
    BY <2>3 DEF TakeBack, handlerVars, tcp
  <2> QED BY <2>1, <2>2, <2>3
<1>3. \A d \in Callers : Waits(d)' <=> Waits(d)
  BY <1>1 DEF Waits
<1>4. ~Judging /\ ~Judging'
  BY <1>2 DEF Judging
<1>5. QuietCallers'
  BY <1>1, <1>2, <1>3 DEF Quiet, QuietCallers, InProgress, Working, Stopped
<1>6. QuietChannels'
  BY <1>1, <1>3, <1>4 DEF Quiet, QuietChannels, Listens
<1>7. QuietProcess'
  BY <1>1, <1>3 DEF Quiet, QuietProcess, Working
<1>8. QuietHandler'
  BY <1>1, <1>2, <1>4 DEF Quiet, QuietHandler, Stopped
<1> QED BY <1>5, <1>6, <1>7, <1>8 DEF Quiet

-----------------------------------------------------------------------------
(* What is not there in a quiet state, or makes it noisy.                   *)
LEMMA NotQuiet ==
    ASSUME Quiet, ~noisy'
    PROVE  /\ \A c \in Callers : ~SendTimeout(c) /\ ~GiveUp(c)
           /\ ~WriteFails /\ ~AnswerTimeout /\ ~Unexpected /\ ~Complain /\ ~ComplainTimeout
           /\ \A field \in {"issuer", "responder"} : ~ReplyTimeout(field)
           /\ ~DeviceSpeaks /\ ~OfferTimeout /\ ~VerdictTimeout
<1>1. ~Complain /\ ~ComplainTimeout
  BY DEF Quiet, QuietProcess, Complain, ComplainTimeout
<1>2. ~Unexpected
  <2> SUFFICES ASSUME Unexpected PROVE FALSE
    OBVIOUS
  <2>1. process = "idle" /\ inbox[Process].ch = "CmdAnswer" /\ inbox[Process].m # Nothing
    BY DEF Unexpected, Has
  <2>2. PICK c \in Callers : inbox[Process] = Parcel("Commands", Request(c))
    BY <2>1, MessagesDiffer DEF Quiet, QuietProcess
  <2> QED BY <2>1, <2>2, MessagesDiffer
<1>3. ~WriteFails /\ ~AnswerTimeout
  BY DEF WriteFails, AnswerTimeout
<1> QED
  BY <1>1, <1>2, <1>3 DEF SendTimeout, GiveUp, ReplyTimeout, DeviceSpeaks, OfferTimeout,
     VerdictTimeout

(* A noisy state stays so.                                                  *)
LEMMA NoisyStays ==
    ASSUME noisy, [Next]_vars
    PROVE  noisy'
BY DEF Next, CallerStep, ProcessStep, HandlerStep, DeviceStep, vars, Call, Ask, AwaitResult,
   TakeResult, SendTimeout, GiveUp, Loop, TakeCommand, Write, WriteFails, AwaitAnswer,
   TakeAnswer, AnswerTimeout, Reply, ReplyTimeout, Unexpected, Complain, ComplainTimeout,
   TakeReset, Finish, Zombie, Offer, OfferTimeout, AwaitVerdict, TakeVerdict,
   VerdictTimeout, Cleanup, TakeBack, Unregister, DeviceAnswers, DeviceSpeaks, Disconnect

LEMMA QuietInit == Init => Quiet
<1> SUFFICES ASSUME Init PROVE Quiet
  OBVIOUS
<1>1. /\ \A ch \in Channels : buffer[ch] = <<>> /\ parked[ch] = <<Process>>
      /\ \A p \in Parties : inbox[p] = Empty
      /\ \A c \in Callers : caller[c] = "idle"
      /\ process = "idle" /\ work = Idle /\ reset = FALSE /\ handler = "reading"
      /\ failures = 0 /\ wire = <<>>
  BY DEF Init
<1> QED
  BY <1>1, PartiesExist DEF Quiet, QuietCallers, QuietChannels, QuietProcess, QuietHandler,
     InProgress, Waits, Listens, Judging, Working, Stopped, Channels

LEMMA QuietStep ==
    ASSUME TypeOK, Quiet, [Next]_vars, ~noisy'
    PROVE  Quiet'
<1>1. CASE UNCHANGED vars
  BY <1>1 DEF vars, channels, processVars, handlerVars, tcp, Quiet, QuietCallers,
     QuietChannels, QuietProcess, QuietHandler, InProgress, Waits, Listens, Judging, Working,
     Stopped
<1>2. ASSUME NEW c \in Callers, Call(c) \/ CallerStep(c)
      PROVE  Quiet'
  BY <1>2, CallQuiet, AskQuiet, AwaitResultQuiet, TakeResultQuiet, NotQuiet DEF CallerStep
<1>3. CASE ProcessStep
  BY <1>3, LoopQuiet, TakeCommandQuiet, WriteQuiet, AwaitAnswerQuiet, TakeAnswerQuiet,
     ReplyCallerQuiet, ReplyHandlerQuiet, StopsQuiet, FinishQuiet, NotQuiet DEF ProcessStep
<1>4. CASE HandlerStep \/ DeviceStep
  BY <1>4, OfferQuiet, AwaitVerdictQuiet, TakeVerdictQuiet, DeviceAnswersQuiet, EndingQuiet,
     NotQuiet DEF HandlerStep, DeviceStep
<1> QED BY <1>1, <1>2, <1>3, <1>4 DEF Next

-----------------------------------------------------------------------------
(* All of the above in every reachable state: as long as nothing was late,  *)
(* buffered or concurrent, the only command is at one place                 *)
(* (commandhandler.go:85-155).                                              *)
THEOREM CommandsInvariant == Spec => []CommandsInv
<1>1. Init => CommandsInv
  BY TypesInit, QuietInit DEF CommandsInv
<1>2. CommandsInv /\ [Next]_vars => CommandsInv'
  BY TypesStep, QuietStep, NoisyStays DEF CommandsInv
<1> QED BY <1>1, <1>2, PTL DEF Spec

(* The values of the variables stay in their types.                         *)
THEOREM CommandsTypeCorrect == Spec => []TypeOK
<1>1. CommandsInv => TypeOK
  BY DEF CommandsInv
<1> QED BY <1>1, CommandsInvariant, PTL

(* A call that was alone and in time gets the answer to its own command,    *)
(* and the device is not blamed (support.go:123-136,                        *)
(* sensorHandler.go:764-781).                                               *)
THEOREM CommandsAloneIsAnswered == Spec => []AloneIsAnswered
<1>1. CommandsInv => AloneIsAnswered
  BY MessagesDiffer DEF CommandsInv, Quiet, QuietCallers, QuietHandler, AloneIsAnswered, Got,
     Answer
<1> QED BY <1>1, CommandsInvariant, PTL
=============================================================================
