----------------------------- MODULE MCSKVSLib -----------------------------
(* TLC instance of SKVSLib: two workers with a few requests, for the table, *)
(* and every buffer of up to four tokens, for the parser.                   *)
EXTENDS SKVSLib, TLC

CONSTANTS w1, w2

TwoWorkers == {w1, w2}

Token(t, n) == [text |-> t, len |-> n]
MCKeys   == {Token("k", 2)}
MCValues == {Token("u", 4), Token("v", 4)}
MCUpper  == ("creAte" :> "CREATE") @@ ("qread" :> "QREAD")

Request(tokens) == [len |-> 3, lf |-> TRUE, tokens |-> tokens]

\* Requests that change or read one key, one that is invalid, one incomplete.
SomeBuffers ==
  LET Key == Token("k", 2) IN
  {Request(<<Token(c, 6), Key>>) : c \in {"READ", "qread", "DELETE"}}
    \cup {Request(<<Token(c, 6), Key, v>>) : c \in {"creAte", "UPDATE"}, v \in MCValues}
    \cup {Request(<<Token("READ", 4), Key, Key>>)}
    \cup {[len |-> 2, lf |-> FALSE, tokens |-> <<Token("READ", 4)>>]}

\* Every line of up to three tokens, with commands in either case, keys at and
\* over MAX_KEY_LEN and lengths around BUF_SIZE, and some lines of four.
AllTokens == {Token(c, 6) : c \in Cmds \cup {"creAte", "bad"}}
               \cup MCKeys \cup {Token("longkey", 3)}

AllBuffers ==
  [len : {3, 4, 5}, lf : BOOLEAN, tokens : UNION {[1 .. n -> AllTokens] : n \in 0 .. 3}]
    \cup [len : {3}, lf : {TRUE},
          tokens : {<<c, k, v, x>> : c, v, x \in AllTokens, k \in MCKeys}]

\* Two workers serve the few requests one after the other; any of the lines may
\* be the first one, and is the only one then.
MCNext ==
  \E w \in Callers :
    \/ /\ \A v \in Callers : rbuf[v] \in SomeBuffers \cup {NoBuffer}
       /\ \E b \in SomeBuffers : Receive(w, b)
    \/ /\ \A v \in Callers : rbuf[v] = NoBuffer
       /\ \E b \in Buffers \ SomeBuffers : Receive(w, b)
    \/ Execute(w)
    \/ Respond(w)

MCSpec == LibInit /\ [][MCNext]_libvars
=============================================================================
