--------------------------- MODULE MCLockedTable ---------------------------
(* TLC instance of LockedTable: three workers on one bucket with two keys. *)
EXTENDS LockedTable

CONSTANTS t1, t2, t3, n1, n2, v1

MCThreads == {t1, t2, t3}
MCNodes   == {n1, n2}
MCValues  == {v1}
MCKeys    == {<<1>>, <<2>>}

\* Collisions, walks past a key, and waits of each kind.
SomeCalls ==
  {o \in Table!Operations :
     o.name \in IF o.key = <<1>> THEN {"insert", "update", "delete"} ELSE {"read"}}
=============================================================================
