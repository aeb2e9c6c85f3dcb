---------------------------- MODULE Redirection ----------------------------
(***************************************************************************)
(* What the packet capture promises for the connections that begin at a    *)
(* local port: it chooses a way for a connection, to its destination or to *)
(* the relay, and once chosen the connection keeps it, and the relay keeps *)
(* one destination for it, until a side closes.  New rules, a new proxy,   *)
(* the delays of the system's TCP table and what earlier connections from  *)
(* the port left behind do not move it.  Only a stop of the capture does.  *)
(***************************************************************************)
CONSTANTS
    Port,   \* local ports
    Dest    \* destinations

VARIABLES
    up,    \* is the capture running?
    way,   \* the way of the port's connection: idle (there is none), open
           \* (nothing is chosen), direct, relay, closing (a side has closed)
    dest   \* where the relay takes it: the set of one destination, or {}

vars == <<up, way, dest>>

Init == up = TRUE /\ way = [p \in Port |-> "idle"] /\ dest = [p \in Port |-> {}]

Becomes(p, w, d) ==
    way' = [way EXCEPT ![p] = w] /\ dest' = [dest EXCEPT ![p] = d] /\ UNCHANGED up

Begin(p) == way[p] = "idle" /\ Becomes(p, "open", {})

Choose(p) ==
    /\ up /\ way[p] = "open"
    /\ Becomes(p, "direct", {}) \/ \E d \in Dest : Becomes(p, "relay", {d})

Close(p) == way[p] # "idle" /\ Becomes(p, "closing", {})

\* A connection through the relay does not end unseen.
End(p) == way[p] \in {"open", "direct", "closing"} /\ Becomes(p, "idle", {})

\* The direct connections are chosen for again after the next start.
Stop ==
    /\ up /\ up' = FALSE
    /\ way' = [p \in Port |-> IF way[p] = "direct" THEN "open" ELSE way[p]]
    /\ UNCHANGED dest

\* A packet of a redirected connection while the capture is stopped.
Stray(p) == ~up /\ way[p] = "relay" /\ Becomes(p, "open", {})

Start == ~up /\ up' = TRUE /\ UNCHANGED <<way, dest>>

Next ==
    \/ \E p \in Port : Begin(p) \/ Choose(p) \/ Close(p) \/ End(p) \/ Stray(p)
    \/ Stop \/ Start

Spec == Init /\ [][Next]_vars
=============================================================================
