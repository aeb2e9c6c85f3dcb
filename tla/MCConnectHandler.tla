-------------------------- MODULE MCConnectHandler -------------------------
(***************************************************************************)
(* Small instances of ConnectHandler: threads krb1 and krb2 find the       *)
(* Kerberos provider, bas the Basic one.                                   *)
(***************************************************************************)
EXTENDS ConnectHandler

CONSTANTS krb1, krb2, bas

MCProvider == [h \in Handler |-> IF h = bas THEN "Basic" ELSE "Kerberos"]
=============================================================================
