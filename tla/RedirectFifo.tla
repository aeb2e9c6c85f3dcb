---------------------------- MODULE RedirectFifo ----------------------------
(***************************************************************************)
(* What the driver's queue of redirects promises to the programs that      *)
(* read it: every accepted record is handed out once, in the order of      *)
(* acceptance and up to Batch at a time, and a record is refused only when *)
(* Max records are waiting.  Unloading the driver discards what is waiting.*)
(***************************************************************************)
EXTENDS Naturals, Sequences

CONSTANTS
    Conn,   \* the connections, one record each
    Max,    \* capacity of the queue
    Batch   \* records handed out at a time

VARIABLES
    pending,  \* accepted and not yet handed out, oldest first
    handed,   \* handed out, oldest first
    refused   \* connections whose record was refused

vars == <<pending, handed, refused>>

Init == pending = <<>> /\ handed = <<>> /\ refused = {}

Accept(c) ==
    /\ Len(pending) < Max
    /\ pending' = Append(pending, c)
    /\ UNCHANGED <<handed, refused>>

Refuse(c) ==
    /\ Len(pending) >= Max
    /\ refused' = refused \cup {c}
    /\ UNCHANGED <<pending, handed>>

HandOut(n) ==
    /\ handed' = handed \o SubSeq(pending, 1, n)
    /\ pending' = SubSeq(pending, n + 1, Len(pending))
    /\ UNCHANGED refused

Discard ==
    /\ pending' = <<>>
    /\ UNCHANGED <<handed, refused>>

Next ==
    \/ \E c \in Conn : Accept(c) \/ Refuse(c)
    \/ \E n \in 1 .. Batch : n <= Len(pending) /\ HandOut(n)
    \/ Discard

Spec == Init /\ [][Next]_vars
=============================================================================
