------------------------------ MODULE SKVSLib ------------------------------
(***************************************************************************)
(* skvslib.c: skvs_parse splits the received bytes into a command, a key   *)
(* and a value; skvs_serve runs the operation on the table and writes the  *)
(* response.  Several workers serve at the same time; the table is the     *)
(* atomic map KVMap, which HashTable implements.                           *)
(*                                                                         *)
(* A received buffer is abstracted to its length, to whether a line feed   *)
(* is in it (in a full buffer: as its last byte) and to the tokens before  *)
(* that line feed, each with its text and its length.                      *)
(***************************************************************************)
EXTENDS Integers, Sequences, FiniteSets

CONSTANTS Callers, NoValue, NoReply,
          KeyTokens, ValueTokens,   \* tokens that occur as keys and values
          UpperOf,      \* what toupper makes of the texts it changes
          Buffers,      \* what can be in rbuf when skvs_serve is called
          BUF_SIZE, MAX_KEY_LEN

Cmds == {"CREATE", "READ", "QREAD", "UPDATE", "DELETE"}   \* g_cmds
WithValue == {"CREATE", "UPDATE"}

toupper(s) == IF s \in DOMAIN UpperOf THEN UpperOf[s] ELSE s

Invalid == [cmd |-> "INVALID"]
IncompleteCmd == [cmd |-> "INCOMPLETE"]

\* strtok_r: the i-th token of the line, or NULL.
None == [text |-> "", len |-> 0]
Tok(b, i) == IF i <= Len(b.tokens) THEN b.tokens[i] ELSE None

\* What a command that is not invalid consists of, and what the table answers.
Parsed  == [cmd : Cmds, key : KeyTokens, value : ValueTokens \cup {None}]
Replies == [ret : {-1, 0, 1}, dst : ValueTokens \cup {NoValue}]

ASSUME LengthsOK == BUF_SIZE \in Nat /\ MAX_KEY_LEN \in Nat
ASSUME CallersFinite == IsFiniteSet(Callers)
ASSUME NothingsApart == NoValue \notin ValueTokens /\ NoReply \notin Parsed \cup Replies

\* A token is not empty (strtok_r skips runs of blanks); the tokens at hand suffice
\* for every line at hand.
ASSUME LinesKnown ==
  \A b \in Buffers :
    /\ b \in [len : Nat, lf : BOOLEAN, tokens : Seq([text : STRING, len : Nat \ {0}])]
    /\ Len(b.tokens) \in {2, 3} /\ b.tokens[2].len <= MAX_KEY_LEN
         => b.tokens[2] \in KeyTokens
    /\ Len(b.tokens) = 3 => b.tokens[3] \in ValueTokens

\* MUTANT of ParseLine: tokens after the value go unnoticed.
ParseLineExtra(b) ==
  LET cmd == toupper(Tok(b, 1).text)  k == Tok(b, 2)  v == Tok(b, 3) IN
  IF \/ cmd \notin Cmds \/ k = None \/ k.len > MAX_KEY_LEN
     \/ cmd \notin WithValue /\ v # None
     \/ cmd \in WithValue /\ v = None
  THEN Invalid
  ELSE [cmd |-> cmd, key |-> k, value |-> v]

\* The loop over g_cmds, for a buffer that holds a line.
ParseLine(b) ==
  LET cmd == toupper(Tok(b, 1).text)
      k == Tok(b, 2)
      v == Tok(b, 3)
  IN IF \/ cmd \notin Cmds
        \/ k = None
        \/ k.len > MAX_KEY_LEN
        \/ cmd \notin WithValue /\ v # None
        \/ cmd \in WithValue /\ v = None
        \/ Tok(b, 4) # None
     THEN Invalid
     ELSE [cmd |-> cmd, key |-> k, value |-> v]

skvs_parse(b) ==
  IF b.len > BUF_SIZE \/ (b.len = BUF_SIZE /\ ~ b.lf) THEN Invalid
  ELSE IF ~ b.lf THEN IncompleteCmd
  ELSE ParseLine(b)

-----------------------------------------------------------------------------
(* skvs_serve *)

VARIABLES store, request, pending, reply,   \* the table, see KVMap
          rbuf,    \* the buffer a worker last passed to skvs_serve
          line,    \* what the worker is serving, or NoReply
          wbuf,    \* the last response of the worker
          net      \* history: for each key, CREATE OKs less DELETE OKs sent

mapvars == <<store, request, pending, reply>>
libvars == <<mapvars, rbuf, line, wbuf, net>>

Operations ==
  [name : {"insert", "update"}, key : KeyTokens, value : ValueTokens]
    \cup [name : {"read", "delete"}, key : KeyTokens]

Map == INSTANCE KVMap WITH Threads <- Callers

OperationOf(p) ==
  CASE p.cmd = "CREATE" -> [name |-> "insert", key |-> p.key, value |-> p.value]
    [] p.cmd = "UPDATE" -> [name |-> "update", key |-> p.key, value |-> p.value]
    [] p.cmd = "DELETE" -> [name |-> "delete", key |-> p.key]
    [] p.cmd \in {"READ", "QREAD"} -> [name |-> "read", key |-> p.key]

Message(m) == [msg |-> m, value |-> NoValue]   \* one of g_msgs

\* MUTANT of Response: the two kinds of 0 are not told apart from success.
ResponseNoCollision(cmd, answer) ==
  CASE answer.ret < 0 -> Message("INTERNAL ERR")
    [] answer.ret = 0 /\ cmd # "CREATE" -> Message("NOT FOUND")
    [] answer.ret >= 0 /\ cmd = "CREATE" -> Message("CREATE OK")
    [] answer.ret > 0 /\ cmd = "UPDATE" -> Message("UPDATE OK")
    [] answer.ret > 0 /\ cmd = "DELETE" -> Message("DELETE OK")
    [] OTHER -> [msg |-> "value", value |-> answer.dst]

\* The response to a command, given what the table answered.
Response(cmd, answer) ==
  CASE answer.ret < 0 -> Message("INTERNAL ERR")
    [] answer.ret = 0 /\ cmd = "CREATE" -> Message("COLLISION")
    [] answer.ret = 0 /\ cmd # "CREATE" -> Message("NOT FOUND")
    [] answer.ret > 0 /\ cmd = "CREATE" -> Message("CREATE OK")
    [] answer.ret > 0 /\ cmd = "UPDATE" -> Message("UPDATE OK")
    [] answer.ret > 0 /\ cmd = "DELETE" -> Message("DELETE OK")
    [] OTHER -> [msg |-> "value", value |-> answer.dst]

NoBuffer == [len |-> 0, lf |-> FALSE, tokens |-> <<>>]

LibInit ==
  /\ Map!Init
  /\ request = [w \in Callers |-> CHOOSE o \in Operations : o.name = "read"]
  /\ rbuf = [w \in Callers |-> NoBuffer]
  /\ line = [w \in Callers |-> NoReply]
  /\ wbuf = [w \in Callers |-> Message("")]
  /\ net = [k \in KeyTokens |-> 0]

\* skvs_serve up to the call of the hash table; it returns 0 on an incomplete
\* request, and answers an invalid one by itself.
Receive(w, b) ==
  LET p == skvs_parse(b) IN
  /\ line[w] = NoReply
  /\ rbuf' = [rbuf EXCEPT ![w] = b]
  /\ UNCHANGED net
  /\ CASE p = IncompleteCmd -> UNCHANGED <<mapvars, line, wbuf>>
       [] p = Invalid -> /\ wbuf' = [wbuf EXCEPT ![w] = Message("INVALID CMD")]
                         /\ UNCHANGED <<mapvars, line>>
       [] OTHER -> /\ Map!Call(w, OperationOf(p))
                   /\ line' = [line EXCEPT ![w] = p]
                   /\ UNCHANGED wbuf

Execute(w) == Map!Apply(w) /\ UNCHANGED <<rbuf, line, wbuf, net>>

Credit(text) == CASE text.msg = "CREATE OK" -> 1
                  [] text.msg = "DELETE OK" -> -1
                  [] OTHER -> 0

\* The rest of skvs_serve, after the hash table has returned.
Respond(w) ==
  LET text == Response(line[w].cmd, reply[w]) IN
  /\ Map!Return(w)
  /\ wbuf' = [wbuf EXCEPT ![w] = text]
  /\ line' = [line EXCEPT ![w] = NoReply]
  /\ net' = [net EXCEPT ![line[w].key] = @ + Credit(text)]
  /\ UNCHANGED rbuf

LibNext == \E w \in Callers :
          Execute(w) \/ Respond(w) \/ \E b \in Buffers : Receive(w, b)

LibSpec == LibInit /\ [][LibNext]_libvars

-----------------------------------------------------------------------------
(* Properties *)

\* The formats of readme.md: CMD key value or CMD key, in any case of CMD, with
\* a key of at most 32 bytes, in a message of at most BUF_SIZE bytes.
WellFormed(b) ==
  /\ b.lf /\ b.len <= BUF_SIZE
  /\ \E c \in Cmds :
       /\ Len(b.tokens) = IF c \in {"CREATE", "UPDATE"} THEN 3 ELSE 2
       /\ toupper(b.tokens[1].text) = c
       /\ b.tokens[2].len <= MAX_KEY_LEN

\* A worker runs an operation exactly for a well-formed request, that one, and
\* waits for more bytes exactly while a short buffer has no line feed.
GrammarExact ==
  \A w \in Callers :
    LET b == rbuf[w]  p == skvs_parse(b) IN
    /\ p \notin {Invalid, IncompleteCmd} <=> WellFormed(b)
    /\ p = IncompleteCmd <=> ~ b.lf /\ b.len < BUF_SIZE
    /\ line[w] # NoReply =>
         WellFormed(b) /\ request[w] = OperationOf(p) /\ line[w].key = b.tokens[2]

\* The responses tell the truth about the table: for each key, the CREATE OKs
\* sent and still to be sent exceed the DELETE OKs by one if the key is in the
\* table and by none otherwise, whatever the workers' requests overlap.
ResponsesTrue ==
  \A k \in KeyTokens :
    LET Done(n) == {w \in Callers :
                      /\ reply[w] # NoReply /\ reply[w].ret = 1
                      /\ request[w].key = k /\ request[w].name = n}
    IN net[k] + Cardinality(Done("insert")) - Cardinality(Done("delete"))
         = IF store[k] = NoValue THEN 0 ELSE 1
=============================================================================
