------------------------------ MODULE Connection ------------------------------
(***************************************************************************)
(* What the server relies on of a connection (src/src/server/connection.hpp*)
(* and the use server.hpp makes of it), whichever way the file goes.  A    *)
(* connection is started once; while it serves it puts packets on the      *)
(* wire; it calls connection_terminated, and from then on it is silent and *)
(* only waits for its last queued handler to run and drop the last         *)
(* reference to it.                                                        *)
(***************************************************************************)
VARIABLES
    phase,   \* "new", "serving", "ending" or "released"
    net      \* datagrams the connection put on the wire

vars == <<phase, net>>

Init ==
    /\ phase = "new"
    /\ net = {}

Start ==
    /\ phase = "new"
    /\ phase' = "serving"
    /\ net \subseteq net'

Serve ==
    /\ phase = "serving"
    /\ net \subseteq net'
    /\ UNCHANGED phase

Terminate ==
    /\ phase = "serving"
    /\ phase' \in {"ending", "released"}
    /\ UNCHANGED net

Release ==
    /\ phase = "ending"
    /\ phase' = "released"
    /\ UNCHANGED net

Next == Start \/ Serve \/ Terminate \/ Release

Spec == Init /\ [][Next]_vars
=============================================================================
