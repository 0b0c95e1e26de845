------------------------------ MODULE Service -------------------------------
(***************************************************************************)
(* What the handlers of the sensors promise (Registry implements it): a     *)
(* device is served by one connection at a time, which nobody else ends,    *)
(* and a connection serves one device, once.  It knows nothing of tokens,   *)
(* waiting, ids, command processes or the disk cache.                       *)
(***************************************************************************)
CONSTANTS Conns, Macs, Nobody

VARIABLES
    server,   (* the connection that serves a device, or Nobody              *)
    over      (* the connections that serve no device any more               *)

vars == <<server, over>>

Init ==
    /\ server = [m \in Macs |-> Nobody]
    /\ over = {}

Begin(c, m) ==
    /\ c \notin over
    /\ \A n \in Macs : server[n] # c
    /\ server[m] = Nobody
    /\ server' = [server EXCEPT ![m] = c]
    /\ over' = over

End(c, m) ==
    /\ server[m] = c
    /\ server' = [server EXCEPT ![m] = Nobody]
    /\ over' = over \cup {c}

(* A connection ends that was refused, or never said who it is.             *)
Refuse(c) ==
    /\ \A n \in Macs : server[n] # c
    /\ over' = over \cup {c}
    /\ server' = server

Next ==
    \E c \in Conns :
        \/ \E m \in Macs : Begin(c, m) \/ End(c, m)
        \/ Refuse(c)

Spec == Init /\ [][Next]_vars
=============================================================================
