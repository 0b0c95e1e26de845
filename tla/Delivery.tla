------------------------------ MODULE Delivery ------------------------------
(* The way of a result from a gate to the counts: the gate (Passage) sends   *)
(* it to its entries one after the other, and each entry                    *)
(* (entryManager/entry.go) sends what it makes of it to its spaces one       *)
(* after the other.  Every channel is bounded and every send waits: a slow   *)
(* space holds up its entries, and with them the gate, the other entries,    *)
(* and the people behind.                                                    *)
(*                                                                           *)
(* Abstractions.  Of an EntryState only the variation is kept; the flows of  *)
(* the gates in it are in Space and Tally.  Other gates of an entry are left *)
(* out: what they send only delays it further, as a space that is slow does. *)
EXTENDS Passage

CONSTANTS
    Mirrored,   (* the entries that list the gate the other way round ("!")  *)
    SpacesOf    (* the spaces an entry belongs to, in the order sent to      *)

ASSUME DeliveryAssumption == Mirrored \subseteq Entries

Spaces == UNION {Range(SpacesOf[e]) : e \in Entries}

VARIABLES
    variation,  (* entryRegister.Variation of each entry                     *)
    remaining,  (* the spaces an entry has not sent it to yet                *)
    inbox,      (* the data channels of the spaces                           *)
    told,       (* history: the sum of what a space received from an entry   *)
    crossed     (* history: people that crossed, out negative                *)

entries == <<variation, remaining>>
spaces == <<inbox, told>>

DeliveryInit ==
    /\ PassageInit
    /\ variation = [e \in Entries |-> 0]
    /\ remaining = [e \in Entries |-> <<>>]
    /\ inbox = [p \in Spaces |-> <<>>]
    /\ told = [e \in Entries |-> [p \in Range(SpacesOf[e]) |-> 0]]
    /\ crossed = 0

(* The people and the sensors, as in Passage.                               *)
Walk ==
    /\ \/ (\E dir \in Headings : Enter(dir)) /\ UNCHANGED crossed
       \/ Pass /\ crossed' = crossed + (IF Len(walker) = 1 THEN heading ELSE 0)
       \/ (\E s \in Sensors : Idle(s)) /\ UNCHANGED crossed
    /\ UNCHANGED <<entries, spaces>>

GateSends == Send /\ UNCHANGED <<passage, entries, spaces, crossed>>

(* What a value of the gate means for an entry.                             *)
Oriented(e, v) == IF e \in Mirrored THEN -v ELSE v

(* case data := <-in, of an entry that is done with the one before; nobody  *)
(* crossing is nothing to tell.                                             *)
EntryTakes(e) ==
    /\ remaining[e] = <<>>
    /\ Take(e)
    /\ LET v == Head(channel[e]) IN
        /\ variation' = [variation EXCEPT ![e] = IF v # 0 THEN Oriented(e, v) ELSE @]
        /\ remaining' = [remaining EXCEPT ![e] = IF v # 0 THEN SpacesOf[e] ELSE <<>>]
    /\ UNCHANGED <<passage, spaces, crossed>>

(* Mutation: a space that is not ready is passed over.                      *)
EntrySends_NoWait(e) ==
    /\ remaining[e] # <<>>
    /\ LET p == Head(remaining[e]) IN
        inbox' = [inbox EXCEPT ![p] =
                    IF Len(@) < ChannelLength THEN Append(@, <<e, variation[e]>>) ELSE @]
    /\ remaining' = [remaining EXCEPT ![e] = Tail(@)]
    /\ UNCHANGED <<vars, passage, variation, told, crossed>>

(* for _, ch := range entrySpaceChannels: the next space gets it, as soon   *)
(* as its channel has room.                                                 *)
EntrySends(e) ==
    /\ remaining[e] # <<>>
    /\ LET p == Head(remaining[e]) IN
        /\ Len(inbox[p]) < ChannelLength
        /\ inbox' = [inbox EXCEPT ![p] = Append(@, <<e, variation[e]>>)]
    /\ remaining' = [remaining EXCEPT ![e] = Tail(@)]
    /\ UNCHANGED <<vars, passage, variation, told, crossed>>

(* A space takes the next message, whenever it gets to it.                  *)
SpaceTakes(p) ==
    /\ inbox[p] # <<>>
    /\ LET e == Head(inbox[p])[1]
           v == Head(inbox[p])[2]
       IN  told' = [told EXCEPT ![e][p] = @ + v]
    /\ inbox' = [inbox EXCEPT ![p] = Tail(@)]
    /\ UNCHANGED <<vars, passage, entries, crossed>>

DeliveryNext ==
    \/ Walk
    \/ GateSends
    \/ \E e \in Entries : EntryTakes(e) \/ EntrySends(e)
    \/ \E p \in Spaces : SpaceTakes(p)

-----------------------------------------------------------------------------
(* Nothing is on its way.                                                   *)
Delivered ==
    /\ pending = <<>>
    /\ \A e \in Entries : channel[e] = <<>> /\ remaining[e] = <<>>
    /\ \A p \in Spaces : inbox[p] = <<>>

(* entry.go:85-125 with gate.go:328-330: whoever crossed the passage was    *)
(* told to every space behind it once, with the orientation of its entry,   *)
(* however long a space, and an entry or gate behind it, was waited for and *)
(* whoever else crossed meanwhile.                                          *)
EverySpaceIsTold ==
    walker = <<>> /\ Delivered =>
        \A e \in Entries : \A p \in Range(SpacesOf[e]) : told[e][p] = Oriented(e, crossed)
=============================================================================
