-------------------------- MODULE ConnectionTable --------------------------
(***************************************************************************)
(* The hash table of redirected connections                                *)
(* (infrastructure/relay/ConnectionTable.h).  A bucket is a singly linked  *)
(* list searched from its head; new entries go in front.  Every method     *)
(* takes the SRW lock for its whole body, so each one is a single step and *)
(* is written here as an operator on the table's value.                    *)
(*                                                                         *)
(* Left out: src_ip and proxy_config_id (written, never used to choose     *)
(* anything; CheckProcessRule always supplies 0), the byte counters, and   *)
(* is_tracked, which Add sets and nothing clears.                          *)
(***************************************************************************)
EXTENDS Naturals, Sequences, FiniteSets

CONSTANTS
    Port,       \* source ports of local sockets
    Ip,         \* destination addresses
    DstPort,    \* destination ports
    App,        \* local processes, identified with their PIDs
    NoPid,      \* PID 0
    HashSize    \* CONNECTION_HASH_SIZE

ASSUME TableAssumption ==
    /\ Port \subseteq Nat /\ IsFiniteSet(Port)
    /\ HashSize \in Nat \ {0}
    /\ NoPid \notin App

Bucket == 0..(HashSize - 1)

Entry == [src_port : Port, orig_dest_ip : Ip, orig_dest_port : DstPort,
          pid : App \cup {NoPid}]

Table == [Bucket -> Seq(Entry)]

EmptyTable == [b \in Bucket |-> <<>>]

Hash(p) == p % HashSize

\* The positions of the entries for source port p in its bucket.
Matches(t, p) == {i \in 1..Len(t[Hash(p)]) : t[Hash(p)][i].src_port = p}

\* The head of a set of positions: the node the list walk meets first.
FirstOf(S) == CHOOSE i \in S : \A j \in S : i <= j

IsTracked(t, p) == Matches(t, p) # {}

\* The entry Get, GetInfo and SetProcessInfo stop at: by source port alone.
Get(t, p) == t[Hash(p)][FirstOf(Matches(t, p))]

\* The chain c without its i-th node.
Unlink(c, i) == [j \in 1..(Len(c) - 1) |-> IF j < i THEN c[j] ELSE c[j + 1]]

\* Add updates the entry with the same source port AND destination address,
\* else puts a new one at the head of the bucket.
SameKey(t, p, ip) ==
    {i \in Matches(t, p) : t[Hash(p)][i].orig_dest_ip = ip}

Add(t, p, ip, dport) ==
    [t EXCEPT ![Hash(p)] =
        IF SameKey(t, p, ip) # {}
        THEN [@ EXCEPT ![FirstOf(SameKey(t, p, ip))].orig_dest_port = dport]
        ELSE <<[src_port |-> p, orig_dest_ip |-> ip, orig_dest_port |-> dport,
                pid |-> NoPid]>> \o @]

\* Fault: unlinks the head of the bucket instead.
RemoveHead(t, p) ==
    IF IsTracked(t, p) THEN [t EXCEPT ![Hash(p)] = Unlink(@, 1)] ELSE t

\* Remove unlinks the first entry with that source port, if there is one.
Remove(t, p) ==
    IF IsTracked(t, p)
    THEN [t EXCEPT ![Hash(p)] = Unlink(@, FirstOf(Matches(t, p)))]
    ELSE t

SetProcessInfo(t, p, a) ==
    IF IsTracked(t, p)
    THEN [t EXCEPT ![Hash(p)][FirstOf(Matches(t, p))].pid = a]
    ELSE t
=============================================================================
