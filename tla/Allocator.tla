----------------------------- MODULE Allocator -----------------------------
(***************************************************************************)
(* What heapmgr.h promises, whatever the lists and tags behind it: space   *)
(* for an object of the size asked for, which is the program's own until   *)
(* it gives it back.  Sizes are counted in units of CHUNK_UNIT bytes.      *)
(***************************************************************************)
EXTENDS Integers

CONSTANTS Addresses, Requests

VARIABLES live,     \* the objects: where each is and how large
          written   \* the units that hold what the program wrote there

vars == <<live, written>>

Units(a) == a.at .. a.at + a.n - 1

Init == live = {} /\ written = {}

\* The program gets space that is not part of another object, and fills it; all
\* that it has written elsewhere stays.
Malloc(n) ==
  \E at \in Addresses :
    LET a == [at |-> at, n |-> n] IN
    /\ Units(a) \subseteq Addresses
    /\ \A b \in live : Units(a) \cap Units(b) = {}
    /\ live' = live \cup {a}
    /\ written' = written \cup Units(a)

Free(a) ==
  /\ live' = live \ {a}
  /\ written' = written \ Units(a)

Next == (\E n \in Requests : Malloc(n)) \/ (\E a \in live : Free(a))

Spec == Init /\ [][Next]_vars
=============================================================================
