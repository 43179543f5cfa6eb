---------------------------- MODULE MCSKVSServer ----------------------------
(* TLC instance of SKVSServer: an entry in the second of two buckets. *)
EXTENDS SKVSServer

CONSTANTS c1, c2, e1

MCClients == {c1, c2}
MCEntries == {e1}
MCHash    == [e \in MCEntries |-> 1]
=============================================================================
