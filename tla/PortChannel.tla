---------------------------- MODULE PortChannel ----------------------------
(***************************************************************************)
(* What one direction of an intertile link promises its users: for every   *)
(* port a FIFO of whole messages.  A message sent to a port is delivered   *)
(* to the thread that listens on that port, once, complete, and after the  *)
(* messages sent to the port before it.                                    *)
(***************************************************************************)
EXTENDS Sequences

CONSTANTS Ports, Messages

VARIABLES
    inFlight,   \* inFlight[p]: messages sent to port p and not yet delivered
    delivered   \* delivered[p]: messages the listener of port p has received

pcVars == <<inFlight, delivered>>

Init ==
    /\ inFlight = [p \in Ports |-> <<>>]
    /\ delivered = [p \in Ports |-> <<>>]

Send(p, m) ==
    /\ inFlight' = [inFlight EXCEPT ![p] = Append(@, m)]
    /\ UNCHANGED delivered

Deliver(p) ==
    /\ inFlight[p] # <<>>
    /\ delivered' = [delivered EXCEPT ![p] = Append(@, Head(inFlight[p]))]
    /\ inFlight' = [inFlight EXCEPT ![p] = Tail(@)]

Next == \E p \in Ports : Deliver(p) \/ \E m \in Messages : Send(p, m)

\* Every listener keeps listening, so nothing stays in flight.
Spec == Init /\ [][Next]_pcVars /\ \A p \in Ports : WF_pcVars(Deliver(p))
=============================================================================
