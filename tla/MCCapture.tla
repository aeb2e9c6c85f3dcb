----------------------------- MODULE MCCapture -----------------------------
(***************************************************************************)
(* Small instances of Capture.  svc is the service, app a process the      *)
(* rules name, tgt the hard-wired target and kid a child of it.            *)
(***************************************************************************)
EXTENDS Capture

CONSTANTS svc, app, tgt, kid

MCParent == [a \in App |-> IF a = kid THEN tgt ELSE NoPid]

\* Rule sets with one wildcard rule, which also matches the service itself.
AppRule(x) == [a \in App |-> IF a \in {app, svc} THEN x ELSE "Direct"]

ProxyRule   == {AppRule("Proxy")}
ProxyOrBlock == {AppRule("Proxy"), AppRule("Block")}
=============================================================================
