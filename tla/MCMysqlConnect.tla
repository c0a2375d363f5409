---------------------------- MODULE MCMysqlConnect ----------------------------
(* Instances of MysqlConnect for TLC.                                      *)
EXTENDS MysqlConnect, TLC

(* No retry at all, a few, and more than there are exact pauses for.       *)
Retries == {-1, 2, 25}

(* TLS with a certificate, TLS with a certificate and a key.               *)
TlsSettings ==
  {[tls |-> TRUE, creat |-> TRUE, key |-> k] : k \in BOOLEAN}

Symmetry == Permutations(Handles)
=============================================================================
